-------------------------- MODULE VsockConnection --------------------------
(***************************************************************************)
(* One virtio-vsock connection between the two endpoints of                *)
(* crates/vsock/src/linux.rs.  An endpoint (EndpointIo) is shared by the   *)
(* tasks that call recv and send on it: a mutex for each direction, and a  *)
(* TerminalClose, by which the first call that fails closes the connection *)
(* for all of them.                                                        *)
(*                                                                         *)
(* A frame goes over the wire in two writes, its body and its newline; the *)
(* lengths FrameReader is about are left out.  What AF_VSOCK does is       *)
(* modelled as the code relies on it: bytes stay in order, a full socket   *)
(* blocks the writer, shutdown wakes both directions of its own end and    *)
(* shows the peer the end of the stream once it has read what was sent,    *)
(* and any read or write may fail.                                         *)
(***************************************************************************)
EXTENDS Naturals, Sequences

CONSTANTS
  Tasks,      \* the tasks that use the endpoints
  End,        \* the endpoint of each task: "host" or "guest"
  Writers,    \* the tasks that send; the others receive
  Capacity,   \* how many writes fit in the socket
  MaxCalls    \* bound: calls of each task

Ends == {"host", "guest"}

ASSUME TasksAssumption == End \in [Tasks -> Ends] /\ Writers \subseteq Tasks
ASSUME BoundsAssumption == Capacity \in Nat \ {0} /\ MaxCalls \in Nat

VARIABLES
  closed,     \* TerminalClose.closed of each endpoint
  shut,       \* its stream was shut down, or the endpoint dropped
  dropped,    \* the endpoint was dropped
  pc,         \* where the call of each task is
  partial,    \* of a receiver: what its call has taken so far (OwnedFrame)
  outcome,    \* what the codec returned to the call
  results,    \* history: what the calls of each task returned
  stream,     \* everything each endpoint wrote
  taken,      \* how much of it the other one has taken
  received    \* history: the frames each endpoint's callers got, in order

wire == <<stream, taken>>
vars == <<closed, shut, dropped, pc, partial, outcome, results, wire, received>>

Other(e) == IF e = "host" THEN "guest" ELSE "host"

Readers == Tasks \ Writers
Direction(t) == IF t \in Writers THEN "writer" ELSE "reader"

Unit == [by : Writers, call : 0..MaxCalls, part : {"body", "newline"}]

CodecErrors == {"io", "peer_closed", "truncated_frame", "empty_frame", "malformed",
                "frame_too_large"}
Results == {"ok"} \union CodecErrors

(* idle, waiting for the mutex, in the codec (before the body, before the  *)
(* newline, reading), with its result, past the ensure_open that lets it   *)
(* return Ok, and before shutdown_both.                                    *)
PC == {"idle", "waiting", "body", "newline", "read", "finish", "return", "shutdown"}

TypeOK ==
  /\ closed \in [Ends -> BOOLEAN]
  /\ shut \in [Ends -> BOOLEAN]
  /\ dropped \in [Ends -> BOOLEAN]
  /\ pc \in [Tasks -> PC]
  /\ partial \in [Tasks -> Seq(Unit)]
  /\ outcome \in [Tasks -> Results]
  /\ results \in [Tasks -> Seq(Results)]
  /\ stream \in [Ends -> Seq(Unit)]
  /\ taken \in [Ends -> Nat]
  /\ \A e \in Ends : taken[e] <= Len(stream[e])
  /\ received \in [Ends -> Seq(Unit)]

Init ==
  /\ closed = [e \in Ends |-> FALSE]
  /\ shut = [e \in Ends |-> FALSE]
  /\ dropped = [e \in Ends |-> FALSE]
  /\ pc = [t \in Tasks |-> "idle"]
  /\ partial = [t \in Tasks |-> << >>]
  /\ outcome = [t \in Tasks |-> "ok"]
  /\ results = [t \in Tasks |-> << >>]
  /\ stream = [e \in Ends |-> << >>]
  /\ taken = [e \in Ends |-> 0]
  /\ received = [e \in Ends |-> << >>]

InCall(t) == pc[t] # "idle"

(* The mutex of a direction is held from the second check to the return.   *)
Holds(t) == pc[t] \in {"body", "newline", "read", "finish", "return", "shutdown"}

(* Mutant: the mutex is let go before the codec is called. *)
MutexNotKept(t) == TRUE

MutexFree(t) ==
  \A u \in Tasks :
    End[u] = End[t] /\ Direction(u) = Direction(t) => ~Holds(u)

Return(t, r) ==
  /\ pc' = [pc EXCEPT ![t] = "idle"]
  /\ results' = [results EXCEPT ![t] = Append(@, r)]

-----------------------------------------------------------------------------
(* The checks before the codec. *)

(* ensure_open, the first time. *)
Call(t) ==
  /\ pc[t] = "idle"
  /\ Len(results[t]) < MaxCalls
  /\ ~dropped[End[t]]
  /\ IF closed[End[t]]
       THEN Return(t, "peer_closed")
       ELSE pc' = [pc EXCEPT ![t] = "waiting"] /\ UNCHANGED results
  /\ UNCHANGED <<closed, shut, dropped, partial, outcome, wire, received>>

EnterCodec(t) ==
  /\ pc' = [pc EXCEPT ![t] = IF t \in Writers THEN "body" ELSE "read"]
  /\ partial' = [partial EXCEPT ![t] = << >>]
  /\ UNCHANGED results

(* Mutant: no second check. *)
LockOnly(t) ==
  /\ pc[t] = "waiting"
  /\ MutexFree(t)
  /\ EnterCodec(t)
  /\ UNCHANGED <<closed, shut, dropped, outcome, wire, received>>

(* lock().await, and ensure_open again. *)
Lock(t) ==
  /\ pc[t] = "waiting"
  /\ MutexFree(t)
  /\ IF closed[End[t]]
       THEN Return(t, "peer_closed") /\ UNCHANGED partial
       ELSE EnterCodec(t)
  /\ UNCHANGED <<closed, shut, dropped, outcome, wire, received>>

(* The codec returns r. *)
Outcome(t, r) ==
  /\ outcome' = [outcome EXCEPT ![t] = r]
  /\ pc' = [pc EXCEPT ![t] = "finish"]

-----------------------------------------------------------------------------
(* write_frame *)

(* The message cannot be encoded, or is too long: nothing is written. *)
RefuseMessage(t) ==
  /\ pc[t] = "body"
  /\ Outcome(t, "frame_too_large")
  /\ UNCHANGED <<closed, shut, dropped, partial, results, wire, received>>

Sent(t, part) == [by |-> t, call |-> Len(results[t]), part |-> part]

Room(e) == Len(stream[e]) - taken[e] < Capacity

Write(t) ==
  /\ pc[t] \in {"body", "newline"}
  /\ ~shut[End[t]]
  /\ Room(End[t])
  /\ stream' = [stream EXCEPT ![End[t]] = Append(@, Sent(t, pc[t]))]
  /\ IF pc[t] = "body"
       THEN pc' = [pc EXCEPT ![t] = "newline"] /\ UNCHANGED outcome
       ELSE Outcome(t, "ok")
  /\ UNCHANGED <<closed, shut, dropped, partial, results, taken, received>>

(* Either end was shut down: the write fails. *)
WriteRefused(t) ==
  /\ pc[t] \in {"body", "newline"}
  /\ shut[End[t]] \/ shut[Other(End[t])]
  /\ Outcome(t, "io")
  /\ UNCHANGED <<closed, shut, dropped, partial, results, wire, received>>

-----------------------------------------------------------------------------
(* read_frame and the decoding in read_direction *)

From(t) == Other(End[t])

(* What the line in `partial` is, now that its newline came: a frame whose *)
(* body can be decoded, one that cannot (a foreign peer may send anything) *)
(* or something that is no frame.                                          *)
LineOutcomes(line) ==
  IF line = << >> THEN {"empty_frame"}
  ELSE IF Len(line) = 1 THEN {"ok", "malformed"}
  ELSE {"malformed"}

Read(t) ==
  /\ pc[t] = "read"
  /\ taken[From(t)] < Len(stream[From(t)])
  /\ taken' = [taken EXCEPT ![From(t)] = @ + 1]
  /\ LET unit == stream[From(t)][taken[From(t)] + 1]
     IN  IF unit.part = "body"
           THEN /\ partial' = [partial EXCEPT ![t] = Append(@, unit)]
                /\ UNCHANGED <<pc, outcome>>
           ELSE /\ \E r \in LineOutcomes(partial[t]) : Outcome(t, r)
                /\ UNCHANGED partial
  /\ UNCHANGED <<closed, shut, dropped, results, stream, received>>

(* The end of the stream, or of this end's own reading. *)
ReadEnd(t) ==
  /\ pc[t] = "read"
  /\ \/ shut[End[t]]
     \/ shut[From(t)] /\ taken[From(t)] = Len(stream[From(t)])
  /\ Outcome(t, IF partial[t] = << >> THEN "peer_closed" ELSE "truncated_frame")
  /\ UNCHANGED <<closed, shut, dropped, partial, results, wire, received>>

(* A read or a write may fail at any time. *)
Fault(t) ==
  /\ pc[t] \in {"body", "newline", "read"}
  /\ Outcome(t, "io")
  /\ UNCHANGED <<closed, shut, dropped, partial, results, wire, received>>

-----------------------------------------------------------------------------
(* TerminalClose::finish *)

Deliver(t) ==
  received' = IF t \in Readers
                THEN [received EXCEPT ![End[t]] = Append(@, partial[t][1])]
                ELSE received

(* Mutant: a success is returned unchecked. *)
FinishOkUnchecked(t) ==
  /\ pc[t] = "finish"
  /\ outcome[t] = "ok"
  /\ pc' = [pc EXCEPT ![t] = "return"]
  /\ UNCHANGED <<closed, shut, dropped, partial, outcome, results, wire, received>>

(* ensure_open, the last time: a flag that is set takes the value away.    *)
FinishOk(t) ==
  /\ pc[t] = "finish"
  /\ outcome[t] = "ok"
  /\ IF closed[End[t]]
       THEN Return(t, "peer_closed")
       ELSE pc' = [pc EXCEPT ![t] = "return"] /\ UNCHANGED results
  /\ UNCHANGED <<closed, shut, dropped, partial, outcome, wire, received>>

(* Ok(value), whatever another thread did to the flag since it was loaded. *)
ReturnOk(t) ==
  /\ pc[t] = "return"
  /\ Return(t, "ok") /\ Deliver(t)
  /\ UNCHANGED <<closed, shut, dropped, partial, outcome, wire>>

(* Mutant: the flag is stored without being compared. *)
FinishErrorStores(t) ==
  /\ pc[t] = "finish"
  /\ outcome[t] # "ok"
  /\ closed' = [closed EXCEPT ![End[t]] = TRUE]
  /\ pc' = [pc EXCEPT ![t] = "shutdown"]
  /\ UNCHANGED results
  /\ UNCHANGED <<shut, dropped, partial, outcome, wire, received>>

(* compare_exchange: the first failure of the endpoint wins. *)
FinishError(t) ==
  /\ pc[t] = "finish"
  /\ outcome[t] # "ok"
  /\ IF closed[End[t]]
       THEN Return(t, "peer_closed") /\ UNCHANGED closed
       ELSE /\ closed' = [closed EXCEPT ![End[t]] = TRUE]
            /\ pc' = [pc EXCEPT ![t] = "shutdown"]
            /\ UNCHANGED results
  /\ UNCHANGED <<shut, dropped, partial, outcome, wire, received>>

(* Mutant: the flag is all there is. *)
ReturnWithoutShutdown(t) ==
  /\ pc[t] = "shutdown"
  /\ Return(t, outcome[t])
  /\ UNCHANGED <<closed, shut, dropped, partial, outcome, wire, received>>

(* shutdown_both, and the winner returns its error.  Between the two it    *)
(* only lets go of its mutex, which nobody can use any more.               *)
Shutdown(t) ==
  /\ pc[t] = "shutdown"
  /\ shut' = [shut EXCEPT ![End[t]] = TRUE]
  /\ Return(t, outcome[t])
  /\ UNCHANGED <<closed, dropped, partial, outcome, wire, received>>

(* The owner drops the endpoint when no task uses it. *)
Drop(e) ==
  /\ ~dropped[e]
  /\ \A t \in Tasks : End[t] = e => ~InCall(t)
  /\ dropped' = [dropped EXCEPT ![e] = TRUE]
  /\ shut' = [shut EXCEPT ![e] = TRUE]
  /\ UNCHANGED <<closed, pc, partial, outcome, results, wire, received>>

Step(t) ==
  \/ Lock(t)
  \/ Write(t) \/ WriteRefused(t)
  \/ Read(t) \/ ReadEnd(t)
  \/ FinishOk(t) \/ ReturnOk(t) \/ FinishError(t) \/ Shutdown(t)

Next ==
  \/ \E t \in Tasks : Call(t) \/ Step(t) \/ RefuseMessage(t) \/ Fault(t)
  \/ \E e \in Ends : Drop(e)

Spec == Init /\ [][Next]_vars

(* The runtime polls every task that can go on; no failure is promised.    *)
FairSpec == Spec /\ \A t \in Tasks : WF_vars(Step(t))

-----------------------------------------------------------------------------
(* Properties. *)

(* Whatever calls fail and race, each newline on the wire ends exactly one *)
(* body, its own: a frame that broke off is never continued by the next    *)
(* sender.  The second ensure_open is what keeps a sender out that gets    *)
(* the mutex from a loser of the race, before the winner's shutdown.       *)
LinesAreWhole ==
  \A e \in Ends : \A i \in 1..Len(stream[e]) :
    stream[e][i].part = "newline" =>
      /\ i > 1 /\ stream[e][i - 1] = [stream[e][i] EXCEPT !.part = "body"]
      /\ i > 2 => stream[e][i - 2].part = "newline"

(* Bodies and newlines take turns: frame n of a stream has this body.      *)
IsFrame(s, n, body) ==
  /\ 2 * n <= Len(s)
  /\ s[2 * n - 1] = body
  /\ s[2 * n] = [body EXCEPT !.part = "newline"]

(* The callers of an endpoint get the frames of the peer in the order they *)
(* were written, none twice and none left out, whichever of them takes     *)
(* which, and only once they are complete: a frame lost to a racing close  *)
(* is followed by no other.                                                *)
DeliveredInOrder ==
  \A e \in Ends : \A n \in 1..Len(received[e]) :
    IsFrame(stream[Other(e)], n, received[e][n])

ResultsOf(e) == {r \in [task : Tasks, call : 1..MaxCalls] :
                   End[r.task] = e /\ r.call <= Len(results[r.task])}

Erred(t) == \E i \in 1..Len(results[t]) : results[t][i] # "ok"

(* One failure closes an endpoint: one call returns the cause, all others  *)
(* that fail return PeerClosed (racing_terminal_errors_shutdown_once...).  *)
OneCause ==
  \A e \in Ends : \A r, q \in ResultsOf(e) :
    /\ results[r.task][r.call] \notin {"ok", "peer_closed"}
    /\ results[q.task][q.call] \notin {"ok", "peer_closed"}
    => r = q

(* Once a call of an endpoint has returned an error, no call of any task   *)
(* passes finish's ensure_open any more, not even one that already has its *)
(* frame: the calls that may still return Ok are those that were past it   *)
(* by then (one for each direction, as they hold its mutex).               *)
ErrorsAreFinal ==
  [][\A t, u \in Tasks :
       /\ End[t] = End[u] /\ Erred(u)
       /\ pc[t] # "return"
       => /\ pc'[t] # "return"
          /\ results'[t] # results[t] => results'[t][Len(results'[t])] # "ok"]_vars

(* A close at either end ends every call in progress at both: a receiver   *)
(* that waits for the peer, a sender that waits for room, and the callers  *)
(* that wait for their mutexes (terminal_error_physically_closes_and_wakes *)
(* _opposite_direction).                                                   *)
CloseEndsCalls ==
  \A t \in Tasks : InCall(t) /\ (\E e \in Ends : closed[e]) ~> ~InCall(t)
=============================================================================
