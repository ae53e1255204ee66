----------------------------- MODULE VsockPing -----------------------------
(***************************************************************************)
(* crates/vsock/examples: the host sends one request and waits for one     *)
(* response and one execution receipt of it; the guest answers and leaves. *)
(* The messages are those of crates/vsock/src/model.rs.  The host trusts   *)
(* nothing it receives, so its peer is either the example or a guest that  *)
(* sends whatever it likes.  The connection does what MockTransport does,  *)
(* which is what the endpoints over vsock are checked to do as well, and   *)
(* may in addition break.                                                  *)
(***************************************************************************)
EXTENDS MockTransport

CONSTANTS
  Ids,        \* request ids
  RequestId,  \* the one the host draws
  MaxSent     \* bound: messages of a guest that is not the example

ASSUME IdAssumption == RequestId \in Ids
ASSUME SentAssumption == MaxSent \in Nat

VARIABLES
  host,      \* where the host's main is: "send", "recv", "ok" or "failed"
  saw,       \* saw_response and saw_receipt
  taken,     \* history: what the host has received
  peer,      \* the guest is the example, or any
  guest,     \* where its main is
  request,   \* the id of the request it has received
  sent,      \* how many messages it has sent
  broken     \* the connection is broken

hostVars  == <<host, saw, taken>>
guestVars == <<peer, guest, request, sent>>
vars == <<transportVars, hostVars, guestVars, broken>>

(* GuestToHost: evidence of one of three kinds, each with a request id. *)
Kinds    == {"response", "execution_receipt", "effect_telemetry"}
Evidence == [kind : Kinds, request_id : Ids]

(* HostToGuest has requests only. *)
Requests == [kind : {"request"}, request_id : Ids]

NoRequest == [kind |-> "none"]

TypeOK ==
  /\ queue["to_guest"] \in Seq(Requests) /\ queue["to_host"] \in Seq(Evidence)
  /\ gone \subseteq {"host", "guest"}
  /\ host \in {"send", "recv", "ok", "failed"}
  /\ saw \subseteq {"response", "execution_receipt"}
  /\ taken \in Seq(Evidence)
  /\ peer \in {"example", "any"}
  /\ guest \in {"recv", "response", "receipt", "ok", "failed"}
  /\ request \in Requests \union {NoRequest}
  /\ sent \in Nat
  /\ broken \in BOOLEAN

Init ==
  /\ Pair
  /\ host = "send" /\ saw = {} /\ taken = << >>
  /\ peer \in {"example", "any"} /\ guest = "recv" /\ request = NoRequest /\ sent = 0
  /\ broken = FALSE

-----------------------------------------------------------------------------
(* vsock_host_ping.  main returns, and its endpoint is dropped. *)

HostReturns(how) == host' = how /\ Drop("host")

HostSend ==
  /\ host = "send"
  /\ Send("to_guest", [kind |-> "request", request_id |-> RequestId])
  /\ host' = "recv"
  /\ UNCHANGED <<saw, taken, guestVars, broken>>

HostSendFails ==
  /\ host = "send"
  /\ SendRefused("to_guest") \/ broken
  /\ HostReturns("failed")
  /\ UNCHANGED <<saw, taken, guestVars, broken>>

(* Mutant: the request id is not looked at. *)
AcceptsAnyId(m) == m.kind \in {"response", "execution_receipt"} \ saw

(* The arms of the match that do not return an error. *)
Accepts(m) ==
  /\ m.request_id = RequestId
  /\ m.kind \in {"response", "execution_receipt"} \ saw

(* A round of `for _ in 0..2`, and what comes after the second. *)
HostRecv ==
  /\ host = "recv" /\ Len(taken) < 2
  /\ \E m \in Evidence :
       /\ queue["to_host"] # << >> /\ m = Head(queue["to_host"])
       /\ taken' = Append(taken, m)
       /\ \/ /\ Accepts(m) /\ Len(taken) = 0
             /\ Recv("to_host", m)
             /\ saw' = saw \union {m.kind}
             /\ UNCHANGED host
          \/ /\ Accepts(m) /\ Len(taken) = 1
             /\ saw' = saw \union {m.kind}
             /\ HostReturns(IF {"response", "execution_receipt"} \subseteq saw' THEN "ok"
                                                                              ELSE "failed")
          \/ /\ ~Accepts(m)
             /\ HostReturns("failed")
             /\ UNCHANGED saw
  /\ UNCHANGED <<guestVars, broken>>

HostRecvFails ==
  /\ host = "recv"
  /\ RecvEnded("to_host") \/ broken
  /\ HostReturns("failed")
  /\ UNCHANGED <<saw, taken, guestVars, broken>>

-----------------------------------------------------------------------------
(* vsock_guest_ping.  It leaves as soon as the receipt is sent, whether or *)
(* not the host has received anything.                                     *)

GuestReturns(how) == guest' = how /\ Drop("guest")

GuestRecv ==
  /\ peer = "example" /\ guest = "recv"
  /\ \E m \in Requests :
       /\ Recv("to_guest", m)
       /\ request' = m
  /\ guest' = "response"
  /\ UNCHANGED <<hostVars, peer, sent, broken>>

GuestRecvFails ==
  /\ peer = "example" /\ guest = "recv"
  /\ RecvEnded("to_guest") \/ broken
  /\ GuestReturns("failed")
  /\ UNCHANGED <<hostVars, peer, request, sent, broken>>

(* send_correlated: both messages carry the id of the request. *)
GuestSendResponse ==
  /\ peer = "example" /\ guest = "response"
  /\ Send("to_host", [kind |-> "response", request_id |-> request.request_id])
  /\ guest' = "receipt"
  /\ sent' = sent + 1
  /\ UNCHANGED <<hostVars, peer, request, broken>>

GuestSendReceipt ==
  /\ peer = "example" /\ guest = "receipt"
  /\ Send("to_host", [kind |-> "execution_receipt", request_id |-> request.request_id])
  /\ guest' = "ok"
  /\ sent' = sent + 1
  /\ UNCHANGED <<hostVars, peer, request, broken>>

(* main returns Ok after the last send. *)
GuestLeaves ==
  /\ peer = "example" /\ guest = "ok" /\ "guest" \notin gone
  /\ Drop("guest")
  /\ UNCHANGED <<hostVars, guestVars, broken>>

GuestSendFails ==
  /\ peer = "example" /\ guest \in {"response", "receipt"}
  /\ SendRefused("to_host") \/ broken
  /\ GuestReturns("failed")
  /\ UNCHANGED <<hostVars, peer, request, sent, broken>>

(* A guest that is not the example sends any evidence at any time.         *)
AnyEvidence ==
  /\ peer = "any" /\ "guest" \notin gone /\ sent < MaxSent
  /\ \E m \in Evidence : Send("to_host", m)
  /\ sent' = sent + 1
  /\ UNCHANGED <<hostVars, peer, guest, request, broken>>

AnyLeaves ==
  /\ peer = "any" /\ "guest" \notin gone
  /\ GuestReturns("failed")
  /\ UNCHANGED <<hostVars, peer, request, sent, broken>>

(* The connection breaks: every later call may fail. *)
Breaks ==
  /\ ~broken /\ broken' = TRUE
  /\ UNCHANGED <<transportVars, hostVars, guestVars>>

HostStep  == HostSend \/ HostSendFails \/ HostRecv \/ HostRecvFails
GuestStep == GuestRecv \/ GuestRecvFails \/ GuestSendResponse \/ GuestSendReceipt
             \/ GuestLeaves \/ GuestSendFails

Next == HostStep \/ GuestStep \/ AnyEvidence \/ AnyLeaves \/ Breaks

Spec == Init /\ [][Next]_vars

(* The runtime polls both mains; nobody makes another guest do anything.   *)
FairSpec == Spec /\ WF_vars(HostStep) /\ WF_vars(GuestStep)

-----------------------------------------------------------------------------
(* Properties. *)

Both == {"response", "execution_receipt"}

(* A ping that reports success has received two messages, one response and *)
(* one receipt, both of the request it sent, in whatever order, doubled or *)
(* mixed with those of other requests a guest may send them; if the guest  *)
(* is the example, that guest has received this very request.              *)
OkMeansAnswered ==
  host = "ok" =>
    /\ Len(taken) = 2 /\ {taken[1].kind, taken[2].kind} = Both
    /\ taken[1].request_id = RequestId /\ taken[2].request_id = RequestId
    /\ peer = "example" => request.request_id = RequestId /\ sent = 2

(* The two examples complete a ping unless the connection breaks, although *)
(* the guest leaves without waiting for the host to receive anything and   *)
(* both sends may have to wait for room; and any guest that leaves, having *)
(* sent what it liked, ends the host.                                      *)
PingEnds ==
  /\ peer = "example" ~> (host = "ok" \/ broken)
  /\ "guest" \in gone ~> host \in {"ok", "failed"}
=============================================================================
