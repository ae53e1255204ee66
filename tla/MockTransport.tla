--------------------------- MODULE MockTransport ---------------------------
(***************************************************************************)
(* The in-memory endpoints of crates/vsock/src/lib.rs: one bounded channel *)
(* for each direction, from which a message is taken in the order of the   *)
(* sends.  An endpoint holds the sender of one channel and the receiver of *)
(* the other.  The channel itself is tokio's mpsc: a send waits while it   *)
(* is full and fails once the receiver is gone; recv still returns what    *)
(* was sent before the sender went, and reports the end only then.         *)
(***************************************************************************)
EXTENDS Naturals, Sequences

CONSTANT Capacity   \* of each channel

(* pair() panics on a capacity of zero. *)
ASSUME CapacityAssumption == Capacity \in Nat \ {0}

VARIABLES
  queue,   \* queue[d]: what was sent in direction d and not yet received
  gone     \* the endpoints that were dropped

transportVars == <<queue, gone>>

Directions == {"to_guest", "to_host"}
Sender   == [to_guest |-> "host", to_host |-> "guest"]
Receiver == [to_guest |-> "guest", to_host |-> "host"]

Pair == queue = [d \in Directions |-> << >>] /\ gone = {}

(* send returns Ok. *)
Send(d, m) ==
  /\ Receiver[d] \notin gone
  /\ Len(queue[d]) < Capacity
  /\ queue' = [queue EXCEPT ![d] = Append(@, m)]
  /\ UNCHANGED gone

(* send returns PeerClosed. *)
SendRefused(d) == Receiver[d] \in gone

(* recv returns m. *)
Recv(d, m) ==
  /\ queue[d] # << >> /\ m = Head(queue[d])
  /\ queue' = [queue EXCEPT ![d] = Tail(@)]
  /\ UNCHANGED gone

(* Mutant: the end is reported although messages are left. *)
RecvEndedEarly(d) == Sender[d] \in gone

(* recv returns PeerClosed. *)
RecvEnded(d) == Sender[d] \in gone /\ queue[d] = << >>

(* An endpoint is dropped; what it has not received is lost with it. *)
Drop(e) ==
  /\ gone' = gone \union {e}
  /\ queue' = [d \in Directions |-> IF Receiver[d] = e THEN << >> ELSE queue[d]]
=============================================================================
