----------------------- MODULE VsockConnectionProofs -----------------------
(***************************************************************************)
(* Proofs about VsockConnection, for any tasks, any room in the socket and *)
(* any number of calls.                                                    *)
(*                                                                         *)
(* The argument: the mutex of a direction makes its holder the only one    *)
(* whose call can change the end of the stream (OneHolder).  A frame that  *)
(* broke off is the last thing on the wire until the connection is closed  *)
(* (TornIsKnown), and whoever gets the mutex then is sent away by the      *)
(* second ensure_open.  The flag is set by one call at most, and that call *)
(* is the only one to report what happened (Closing).                      *)
(*                                                                         *)
(* The frames are delivered in order (OrderInv) because a stream is bodies *)
(* and newlines by turns, and because an endpoint whose receiver gave up   *)
(* in the middle of a frame is closed: while one is open, the next to read *)
(* begins where the last delivered frame ends.                             *)
(***************************************************************************)
EXTENDS VsockConnection, TLAPS

LastOf(s) == s[Len(s)]

(* The places of a call in the code. *)
Control(t) ==
  /\ pc[t] \in {"body", "newline"} => t \in Writers
  /\ pc[t] = "read" => t \notin Writers
  /\ Len(results[t]) <= MaxCalls
  /\ pc[t] # "idle" => Len(results[t]) < MaxCalls
  /\ pc[t] = "shutdown" => outcome[t] # "ok"
  /\ pc[t] = "return" => outcome[t] = "ok"
  /\ pc[t] \in {"finish", "return"} /\ outcome[t] = "ok" /\ t \notin Writers =>
       Len(partial[t]) = 1

OneHolder ==
  \A t, u \in Tasks :
    End[t] = End[u] /\ Direction(t) = Direction(u) /\ Holds(t) /\ Holds(u) => t = u

(* No frame is open. *)
Clean(e) == stream[e] = << >> \/ LastOf(stream[e]).part = "newline"

(* What is at the end of the stream while a sender is in the codec. *)
WriterAtEnd(t) ==
  t \in Writers =>
    /\ pc[t] = "body" => Clean(End[t])
    /\ pc[t] = "newline" => stream[End[t]] # << >> /\ LastOf(stream[End[t]]) = Sent(t, "body")
    /\ pc[t] \in {"finish", "return"} /\ outcome[t] = "ok" => Clean(End[t])

(* An open frame is being written, or its sender is about to close the     *)
(* connection, or the connection is closed.                                *)
TornIsKnown ==
  \A e \in Ends :
    \/ Clean(e)
    \/ closed[e]
    \/ \E t \in Writers : /\ End[t] = e
                          /\ pc[t] = "newline" \/ (pc[t] = "finish" /\ outcome[t] # "ok")

BodyOf(unit) == [by |-> unit.by, call |-> unit.call, part |-> "body"]

(* Bodies and newlines take turns. *)
Whole(e) ==
  \A i \in 1..Len(stream[e]) :
    /\ stream[e][i].part = "body" => i = 1 \/ stream[e][i - 1].part = "newline"
    /\ stream[e][i].part = "newline" =>
         i > 1 /\ stream[e][i - 1] = BodyOf(stream[e][i])

(* A result that tells the cause of the close. *)
IsCause(t, i) == i \in 1..Len(results[t]) /\ results[t][i] \notin {"ok", "peer_closed"}

(* One call closes an endpoint, and it alone reports a cause. *)
Closing ==
  /\ \A t \in Tasks : pc[t] = "shutdown" \/ Erred(t) => closed[End[t]]
  /\ \A t, u \in Tasks : End[t] = End[u] /\ pc[t] = "shutdown" =>
       /\ pc[u] = "shutdown" => t = u
       /\ \A j \in 1..Len(results[u]) : ~IsCause(u, j)
  /\ \A t, u \in Tasks : End[t] = End[u] =>
       \A i \in 1..Len(results[t]), j \in 1..Len(results[u]) :
         IsCause(t, i) /\ IsCause(u, j) => t = u /\ i = j

IInv ==
  /\ TypeOK
  /\ \A t \in Tasks : Control(t) /\ WriterAtEnd(t)
  /\ OneHolder
  /\ TornIsKnown
  /\ \A e \in Ends : Whole(e)
  /\ Closing

-----------------------------------------------------------------------------
(* A call that returns. *)

(* The results of the call's task grow by one, the others stay.            *)
LEMMA Returned ==
  ASSUME NEW t \in Tasks, NEW r \in Results, TypeOK, Return(t, r)
  PROVE  /\ pc' \in [Tasks -> PC] /\ results' \in [Tasks -> Seq(Results)]
         /\ pc'[t] = "idle" /\ Len(results'[t]) = Len(results[t]) + 1
         /\ \A i \in 1..Len(results[t]) : results'[t][i] = results[t][i]
         /\ results'[t][Len(results[t]) + 1] = r
         /\ \A u \in Tasks : u # t => pc'[u] = pc[u] /\ results'[u] = results[u]
  BY DEF TypeOK, Return, PC

(* A call that reports no cause, and an error only of a closed connection. *)
LEMMA PlainReturn ==
  ASSUME NEW t \in Tasks, NEW r \in {"ok", "peer_closed"}, IInv, Return(t, r),
         closed' = closed, r = "peer_closed" => closed[End[t]]
  PROVE  Closing'
<1>. TypeOK /\ Closing /\ r \in Results
  BY DEF IInv, Results, CodecErrors
<1>0. /\ pc'[t] = "idle" /\ Len(results'[t]) = Len(results[t]) + 1
      /\ \A i \in 1..Len(results[t]) : results'[t][i] = results[t][i]
      /\ results'[t][Len(results[t]) + 1] = r
      /\ \A u \in Tasks : u # t => pc'[u] = pc[u] /\ results'[u] = results[u]
  BY Returned
<1>1. \A u \in Tasks : pc'[u] = "shutdown" => pc[u] = "shutdown"
  BY <1>0
<1>2. \A u \in Tasks : \A i : IsCause(u, i)' => IsCause(u, i)
  <2>1. ASSUME NEW u \in Tasks, NEW i, IsCause(u, i)' PROVE IsCause(u, i)
    <3>1. CASE u = t
      BY <1>0, <2>1, <3>1 DEF IsCause, TypeOK
    <3>2. CASE u # t
      BY <1>0, <2>1, <3>2 DEF IsCause
    <3>. QED
      BY <3>1, <3>2
  <2>. QED
    BY <2>1
<1>3. \A u \in Tasks : Erred(u)' => Erred(u) \/ closed[End[u]]
  <2>1. ASSUME NEW u \in Tasks, Erred(u)', ~Erred(u) PROVE closed[End[u]]
    <3>1. u = t /\ r = "peer_closed"
      BY <1>0, <2>1 DEF Erred, TypeOK
    <3>. QED
      BY <3>1
  <2>. QED
    BY <2>1
<1>4. \A u \in Tasks : \A i \in 1..Len(results'[u]) : IsCause(u, i)' => i \in 1..Len(results[u])
  BY <1>2 DEF IsCause
<1>. QED
  BY <1>1, <1>2, <1>3, <1>4 DEF Closing

-----------------------------------------------------------------------------
(* The steps. *)

(* A call that returns no cause: refused, sent away with the mutex, or     *)
(* with its result.                                                        *)
LEMMA ReturnStep ==
  ASSUME NEW t \in Tasks, NEW r \in {"ok", "peer_closed"}, IInv, Return(t, r),
         pc[t] \in {"idle", "waiting", "finish", "return"}, Len(results[t]) < MaxCalls,
         r = "peer_closed" => closed[End[t]],
         pc[t] = "finish" /\ outcome[t] # "ok" => closed[End[t]],
         received' \in [Ends -> Seq(Unit)],
         UNCHANGED <<closed, shut, dropped, partial, outcome, wire>>
  PROVE  IInv'
<1>. /\ TypeOK /\ \A u \in Tasks : Control(u) /\ WriterAtEnd(u)
     /\ OneHolder /\ TornIsKnown /\ Closing /\ \A e \in Ends : Whole(e)
  BY DEF IInv
<1>. USE TasksAssumption DEF TypeOK, Ends, wire
<1>0. /\ pc' \in [Tasks -> PC] /\ results' \in [Tasks -> Seq(Results)]
      /\ pc'[t] = "idle" /\ Len(results'[t]) = Len(results[t]) + 1
      /\ \A u \in Tasks : u # t => pc'[u] = pc[u] /\ results'[u] = results[u]
  <2>1. r \in Results
    BY DEF Results, CodecErrors
  <2>. QED
    BY <2>1, Returned
<1>1. TypeOK'
  BY <1>0
<1>2. \A u \in Tasks : Control(u)'
  BY <1>0, BoundsAssumption DEF Control
<1>3. OneHolder'
  BY <1>0 DEF OneHolder, Holds, Direction
<1>4. \A u \in Tasks : WriterAtEnd(u)'
  <2>. SUFFICES ASSUME NEW u \in Tasks PROVE WriterAtEnd(u)'
    OBVIOUS
  <2>1. CASE u = t
    BY <1>0, <2>1 DEF WriterAtEnd
  <2>2. CASE u # t
    <3>1. pc'[u] = pc[u] /\ results'[u] = results[u]
      BY <1>0, <2>2
    <3>2. WriterAtEnd(u)
      OBVIOUS
    <3>. QED
      BY <3>1, <3>2 DEF WriterAtEnd, Clean, Sent
  <2>. QED
    BY <2>1, <2>2
<1>5. TornIsKnown'
  <2>. SUFFICES ASSUME NEW e \in Ends, ~Clean(e), ~closed[e]
                PROVE  \E u \in Writers :
                         /\ End[u] = e
                         /\ pc'[u] = "newline" \/ (pc'[u] = "finish" /\ outcome[u] # "ok")
    BY DEF TornIsKnown, Clean
  <2>1. PICK u \in Writers :
          /\ End[u] = e
          /\ pc[u] = "newline" \/ (pc[u] = "finish" /\ outcome[u] # "ok")
    BY DEF TornIsKnown
  <2>2. u # t
    BY <2>1
  <2>3. pc'[u] = pc[u]
    BY <1>0, <2>2
  <2>. QED
    BY <2>1, <2>3
<1>6. \A e \in Ends : Whole(e)'
  BY DEF Whole
<1>7. Closing'
  BY PlainReturn
<1>. QED
  BY <1>1, <1>2, <1>3, <1>4, <1>5, <1>6, <1>7 DEF IInv

(* The codec fails; a frame whose body is out is torn.                     *)
LEMMA CodecErrorStep ==
  ASSUME NEW t \in Tasks, NEW r \in CodecErrors, IInv, Outcome(t, r),
         pc[t] \in {"body", "newline", "read"},
         UNCHANGED <<closed, shut, dropped, partial, results, wire, received>>
  PROVE  IInv'
<1>. /\ TypeOK /\ \A u \in Tasks : Control(u) /\ WriterAtEnd(u)
     /\ OneHolder /\ TornIsKnown /\ Closing /\ \A e \in Ends : Whole(e)
  BY DEF IInv
<1>. USE TasksAssumption DEF TypeOK, Ends, Outcome, wire
<1>1. TypeOK'
  BY DEF PC, Results
<1>2. \A u \in Tasks : Control(u)'
  BY DEF Control, CodecErrors
<1>3. OneHolder'
  BY DEF OneHolder, Holds, Direction
<1>4. \A u \in Tasks : WriterAtEnd(u)'
  BY DEF WriterAtEnd, Clean, Sent, CodecErrors
<1>5. TornIsKnown'
  BY DEF TornIsKnown, Clean, WriterAtEnd, CodecErrors
<1>6. \A e \in Ends : Whole(e)'
  BY DEF Whole
<1>7. Closing'
  BY DEF Closing, IsCause, Erred
<1>. QED
  BY <1>1, <1>2, <1>3, <1>4, <1>5, <1>6, <1>7 DEF IInv

(* A call is refused, or goes to wait for its mutex.                       *)
LEMMA CallStep ==
  ASSUME NEW t \in Tasks, IInv, Call(t)
  PROVE  IInv'
<1>. /\ TypeOK /\ \A u \in Tasks : Control(u) /\ WriterAtEnd(u)
     /\ OneHolder /\ TornIsKnown /\ Closing /\ \A e \in Ends : Whole(e)
  BY DEF IInv
<1>1. CASE closed[End[t]]
  <2>1. Return(t, "peer_closed")
    BY <1>1 DEF Call
  <2>2. /\ UNCHANGED <<closed, shut, dropped, partial, outcome, wire, received>>
        /\ pc[t] = "idle" /\ Len(results[t]) < MaxCalls
    BY DEF Call
  <2>. QED
    BY <1>1, <2>1, <2>2, ReturnStep DEF TypeOK
<1>2. CASE ~closed[End[t]]
  <2>. USE TasksAssumption DEF TypeOK, Ends, wire
  <2>0. /\ pc[t] = "idle" /\ Len(results[t]) < MaxCalls
        /\ pc' = [pc EXCEPT ![t] = "waiting"]
        /\ UNCHANGED <<closed, shut, dropped, partial, outcome, results, wire, received>>
    BY <1>2 DEF Call
  <2>1. TypeOK'
    BY <2>0 DEF PC
  <2>2. \A u \in Tasks : Control(u)'
    BY <2>0 DEF Control
  <2>3. OneHolder'
    BY <2>0 DEF OneHolder, Holds, Direction
  <2>4. \A u \in Tasks : WriterAtEnd(u)'
    BY <2>0 DEF WriterAtEnd, Clean, Sent
  <2>5. TornIsKnown'
    BY <2>0 DEF TornIsKnown, Clean
  <2>6. \A e \in Ends : Whole(e)'
    BY <2>0 DEF Whole
  <2>7. Closing'
    BY <2>0 DEF Closing, IsCause, Erred
  <2>. QED
    BY <2>1, <2>2, <2>3, <2>4, <2>5, <2>6, <2>7 DEF IInv
<1>. QED
  BY <1>1, <1>2

(* The mutex is taken: nobody else's frame is open, or the call is         *)
(* refused.                                                                *)
LEMMA LockStep ==
  ASSUME NEW t \in Tasks, IInv, Lock(t)
  PROVE  IInv'
<1>. /\ TypeOK /\ \A u \in Tasks : Control(u) /\ WriterAtEnd(u)
     /\ OneHolder /\ TornIsKnown /\ Closing /\ \A e \in Ends : Whole(e)
  BY DEF IInv
<1>0. /\ pc[t] = "waiting" /\ MutexFree(t)
      /\ UNCHANGED <<closed, shut, dropped, outcome, wire, received>>
  BY DEF Lock
<1>1. CASE closed[End[t]]
  <2>1. Return(t, "peer_closed") /\ UNCHANGED partial
    BY <1>1 DEF Lock
  <2>2. Len(results[t]) < MaxCalls
    BY <1>0 DEF Control
  <2>. QED
    BY <1>0, <1>1, <2>1, <2>2, ReturnStep DEF TypeOK
<1>2. CASE ~closed[End[t]]
  <2>. USE TasksAssumption DEF TypeOK, Ends, wire
  <2>0. /\ pc' = [pc EXCEPT ![t] = IF t \in Writers THEN "body" ELSE "read"]
        /\ partial' = [partial EXCEPT ![t] = << >>]
        /\ UNCHANGED results
    BY <1>2 DEF Lock, EnterCodec
  <2>1. TypeOK'
    BY <1>0, <2>0 DEF PC
  <2>2. \A u \in Tasks : Control(u)'
    BY <1>0, <2>0 DEF Control
  <2>3. OneHolder'
    BY <1>0, <2>0 DEF OneHolder, Holds, Direction, MutexFree
  <2>4. \A u \in Tasks : WriterAtEnd(u)'
    <3>1. t \in Writers => Clean(End[t])
      BY <1>0, <1>2 DEF TornIsKnown, MutexFree, Direction, Holds
    <3>. QED
      BY <1>0, <2>0, <3>1 DEF WriterAtEnd, Clean, Sent
  <2>5. TornIsKnown'
    BY <1>0, <2>0 DEF TornIsKnown, Clean
  <2>6. \A e \in Ends : Whole(e)'
    BY <1>0 DEF Whole
  <2>7. Closing'
    BY <1>0, <2>0 DEF Closing, IsCause, Erred
  <2>. QED
    BY <2>1, <2>2, <2>3, <2>4, <2>5, <2>6, <2>7 DEF IInv
<1>. QED
  BY <1>1, <1>2

(* A call that succeeded goes on to return, unless the connection was      *)
(* closed meanwhile.                                                       *)
LEMMA FinishOkStep ==
  ASSUME NEW t \in Tasks, IInv, FinishOk(t)
  PROVE  IInv'
<1>. /\ TypeOK /\ \A u \in Tasks : Control(u) /\ WriterAtEnd(u)
     /\ OneHolder /\ TornIsKnown /\ Closing /\ \A e \in Ends : Whole(e)
  BY DEF IInv
<1>0. /\ pc[t] = "finish" /\ outcome[t] = "ok" /\ Len(results[t]) < MaxCalls
      /\ UNCHANGED <<closed, shut, dropped, partial, outcome, wire, received>>
  BY DEF FinishOk, Control
<1>1. CASE closed[End[t]]
  <2>1. Return(t, "peer_closed")
    BY <1>1 DEF FinishOk
  <2>. QED
    BY <1>0, <1>1, <2>1, ReturnStep DEF TypeOK
<1>2. CASE ~closed[End[t]]
  <2>. USE TasksAssumption DEF TypeOK, Ends, wire
  <2>0. /\ pc' = [pc EXCEPT ![t] = "return"]
        /\ UNCHANGED results
    BY <1>2 DEF FinishOk
  <2>1. TypeOK'
    BY <1>0, <2>0 DEF PC
  <2>2. \A u \in Tasks : Control(u)'
    BY <1>0, <2>0 DEF Control
  <2>3. OneHolder'
    BY <1>0, <2>0 DEF OneHolder, Holds, Direction
  <2>4. \A u \in Tasks : WriterAtEnd(u)'
    BY <1>0, <2>0 DEF WriterAtEnd, Clean, Sent
  <2>5. TornIsKnown'
    BY <1>0, <2>0 DEF TornIsKnown, Clean
  <2>6. \A e \in Ends : Whole(e)'
    BY <1>0 DEF Whole
  <2>7. Closing'
    BY <1>0, <2>0 DEF Closing, IsCause, Erred
  <2>. QED
    BY <2>1, <2>2, <2>3, <2>4, <2>5, <2>6, <2>7 DEF IInv
<1>. QED
  BY <1>1, <1>2

(* Ok is returned, with the frame if the call is a receiver's.             *)
LEMMA ReturnOkStep ==
  ASSUME NEW t \in Tasks, IInv, ReturnOk(t)
  PROVE  IInv'
<1>. TypeOK /\ Control(t)
  BY DEF IInv
<1>1. /\ pc[t] = "return" /\ outcome[t] = "ok" /\ Len(results[t]) < MaxCalls
      /\ Return(t, "ok")
      /\ UNCHANGED <<closed, shut, dropped, partial, outcome, wire>>
  BY DEF ReturnOk, Control
<1>2. received' \in [Ends -> Seq(Unit)]
  <2>1. CASE received' = received
    BY <2>1 DEF TypeOK
  <2>2. CASE received' # received
    <3>1. t \in Readers /\ received' = [received EXCEPT ![End[t]] = Append(@, partial[t][1])]
      BY <2>2 DEF ReturnOk, Deliver
    <3>2. partial[t] \in Seq(Unit) /\ Len(partial[t]) = 1
      BY <1>1, <3>1 DEF TypeOK, Control, Readers
    <3>3. partial[t][1] \in Unit
      BY <3>2
    <3>. QED
      BY <3>1, <3>3, TasksAssumption DEF TypeOK
  <2>. QED
    BY <2>1, <2>2
<1>. QED
  BY <1>1, <1>2, ReturnStep

(* The first failure sets the flag, the others are told that the peer is   *)
(* gone.                                                                   *)
LEMMA FinishErrorStep ==
  ASSUME NEW t \in Tasks, IInv, FinishError(t)
  PROVE  IInv'
<1>. /\ TypeOK /\ \A u \in Tasks : Control(u) /\ WriterAtEnd(u)
     /\ OneHolder /\ TornIsKnown /\ Closing /\ \A e \in Ends : Whole(e)
  BY DEF IInv
<1>0. /\ pc[t] = "finish" /\ outcome[t] # "ok"
      /\ UNCHANGED <<shut, dropped, partial, outcome, wire, received>>
  BY DEF FinishError
<1>1. CASE closed[End[t]]
  <2>1. Return(t, "peer_closed") /\ UNCHANGED closed
    BY <1>1 DEF FinishError
  <2>2. Len(results[t]) < MaxCalls
    BY <1>0 DEF Control
  <2>. QED
    BY <1>0, <1>1, <2>1, <2>2, ReturnStep DEF TypeOK
<1>2. CASE ~closed[End[t]]
  <2>. USE TasksAssumption DEF TypeOK, Ends, wire
  <2>0. /\ closed' = [closed EXCEPT ![End[t]] = TRUE]
        /\ pc' = [pc EXCEPT ![t] = "shutdown"]
        /\ UNCHANGED results
    BY <1>2 DEF FinishError
  <2>1. TypeOK'
    BY <1>0, <2>0 DEF PC
  <2>2. \A u \in Tasks : Control(u)'
    BY <1>0, <2>0 DEF Control
  <2>3. OneHolder'
    BY <1>0, <2>0 DEF OneHolder, Holds, Direction
  <2>4. \A u \in Tasks : WriterAtEnd(u)'
    BY <1>0, <2>0 DEF WriterAtEnd, Clean, Sent
  <2>5. TornIsKnown'
    <3>1. closed'[End[t]] /\ \A e \in Ends : e # End[t] => closed'[e] = closed[e]
      BY <2>0
    <3>2. \A e \in Ends : Clean(e)' = Clean(e)
      BY <1>0 DEF Clean
    <3>3. \A u \in Tasks : u # t => pc'[u] = pc[u] /\ outcome'[u] = outcome[u]
      BY <1>0, <2>0
    <3>4. ASSUME NEW e \in Ends, e # End[t], ~Clean(e), ~closed[e]
          PROVE  \E u \in Writers :
                   /\ End[u] = e
                   /\ pc'[u] = "newline" \/ (pc'[u] = "finish" /\ outcome'[u] # "ok")
      BY <3>3, <3>4, TasksAssumption DEF TornIsKnown
    <3>. QED
      BY <3>1, <3>2, <3>4 DEF TornIsKnown
  <2>6. \A e \in Ends : Whole(e)'
    BY <1>0 DEF Whole
  <2>7. Closing'
    <3>1. \A u \in Tasks : End[u] = End[t] => pc[u] # "shutdown" /\ ~Erred(u)
      BY <1>2 DEF Closing
    <3>2. \A u \in Tasks : End[u] = End[t] => \A j \in 1..Len(results[u]) : ~IsCause(u, j)
      BY <3>1 DEF IsCause, Erred
    <3>3. closed'[End[t]] /\ \A e \in Ends : closed[e] => closed'[e]
      BY <2>0
    <3>4. pc'[t] = "shutdown" /\ \A u \in Tasks : u # t => pc'[u] = pc[u]
      BY <2>0
    <3>5. results' = results
      BY <2>0
    <3>6. \A u \in Tasks : pc'[u] = "shutdown" \/ Erred(u)' => closed'[End[u]]
      <4>1. ASSUME NEW u \in Tasks, pc'[u] = "shutdown" \/ Erred(u)', End[u] # End[t]
            PROVE  closed'[End[u]]
        <5>1. pc[u] = "shutdown" \/ Erred(u)
          BY <3>4, <3>5, <4>1 DEF Erred
        <5>. QED
          BY <3>3, <5>1 DEF Closing
      <4>. QED
        BY <3>3, <4>1
    <3>7. \A u, v \in Tasks : End[u] = End[v] /\ pc'[u] = "shutdown" =>
            /\ pc'[v] = "shutdown" => u = v
            /\ \A j \in 1..Len(results'[v]) : ~IsCause(v, j)'
      <4>1. ASSUME NEW u \in Tasks, NEW v \in Tasks, End[u] = End[v], pc'[u] = "shutdown"
            PROVE  /\ pc'[v] = "shutdown" => u = v
                   /\ \A j \in 1..Len(results'[v]) : ~IsCause(v, j)'
        <5>1. CASE End[u] = End[t]
          BY <3>1, <3>2, <3>4, <3>5, <4>1, <5>1 DEF IsCause
        <5>2. CASE End[u] # End[t]
          <6>1. u # t /\ v # t /\ pc[u] = "shutdown" /\ (pc'[v] = "shutdown" => pc[v] = "shutdown")
            BY <3>4, <4>1, <5>2
          <6>2. /\ pc[v] = "shutdown" => u = v
                /\ \A j \in 1..Len(results[v]) : ~IsCause(v, j)
            BY <4>1, <6>1 DEF Closing
          <6>. QED
            BY <3>5, <6>1, <6>2 DEF IsCause
        <5>. QED
          BY <5>1, <5>2
      <4>. QED
        BY <4>1
    <3>8. \A u, v \in Tasks : End[u] = End[v] =>
            \A i \in 1..Len(results'[u]), j \in 1..Len(results'[v]) :
              IsCause(u, i)' /\ IsCause(v, j)' => u = v /\ i = j
      BY <3>5 DEF Closing, IsCause
    <3>. QED
      BY <3>6, <3>7, <3>8 DEF Closing
  <2>. QED
    BY <2>1, <2>2, <2>3, <2>4, <2>5, <2>6, <2>7 DEF IInv
<1>. QED
  BY <1>1, <1>2

(* The call that set the flag returns the cause, the only one.             *)
LEMMA ShutdownStep ==
  ASSUME NEW t \in Tasks, IInv, Shutdown(t)
  PROVE  IInv'
<1>. /\ TypeOK /\ \A u \in Tasks : Control(u) /\ WriterAtEnd(u)
     /\ OneHolder /\ TornIsKnown /\ Closing /\ \A e \in Ends : Whole(e)
  BY DEF IInv
<1>. USE TasksAssumption DEF TypeOK, Ends, wire
<1>a. /\ pc[t] = "shutdown" /\ shut' = [shut EXCEPT ![End[t]] = TRUE]
      /\ UNCHANGED <<closed, dropped, partial, outcome, wire, received>>
  BY DEF Shutdown
<1>0. /\ pc' \in [Tasks -> PC] /\ results' \in [Tasks -> Seq(Results)]
      /\ pc'[t] = "idle" /\ Len(results'[t]) = Len(results[t]) + 1
      /\ \A i \in 1..Len(results[t]) : results'[t][i] = results[t][i]
      /\ \A u \in Tasks : u # t => pc'[u] = pc[u] /\ results'[u] = results[u]
  BY Returned DEF Shutdown
<1>1. TypeOK'
  BY <1>a, <1>0
<1>2. \A u \in Tasks : Control(u)'
  BY <1>a, <1>0, BoundsAssumption DEF Control
<1>3. OneHolder'
  BY <1>a, <1>0 DEF OneHolder, Holds, Direction
<1>4. \A u \in Tasks : WriterAtEnd(u)'
  BY <1>a, <1>0 DEF WriterAtEnd, Clean, Sent
<1>5. TornIsKnown'
  BY <1>a, <1>0 DEF TornIsKnown, Clean
<1>6. \A e \in Ends : Whole(e)'
  BY <1>a DEF Whole
<1>7. Closing'
  <2>1. \A u \in Tasks : End[u] = End[t] =>
          /\ u # t => pc[u] # "shutdown"
          /\ \A j \in 1..Len(results[u]) : ~IsCause(u, j)
    BY <1>a DEF Closing
  <2>2. \A u \in Tasks : u # t => /\ Erred(u)' <=> Erred(u)
                                  /\ \A j : IsCause(u, j)' <=> IsCause(u, j)
    BY <1>0 DEF IsCause, Erred
  <2>3. \A j : IsCause(t, j)' => j = Len(results'[t])
    <3>1. ASSUME NEW j, IsCause(t, j)', j # Len(results'[t]) PROVE FALSE
      <4>1. j \in 1..Len(results[t]) /\ IsCause(t, j)
        BY <1>0, <3>1 DEF IsCause
      <4>. QED
        BY <2>1, <4>1
    <3>. QED
      BY <3>1
  <2>4. closed[End[t]] /\ closed' = closed
    BY <1>a DEF Closing
  <2>5. \A u \in Tasks : pc'[u] = "shutdown" => u # t /\ pc[u] = "shutdown" /\ End[u] # End[t]
    BY <1>0, <2>1
  <2>6. \A u \in Tasks : pc'[u] = "shutdown" \/ Erred(u)' => closed'[End[u]]
    BY <2>2, <2>4, <2>5 DEF Closing
  <2>7. \A u, v \in Tasks : End[u] = End[v] /\ pc'[u] = "shutdown" =>
          /\ pc'[v] = "shutdown" => u = v
          /\ \A j \in 1..Len(results'[v]) : ~IsCause(v, j)'
    BY <1>0, <2>2, <2>5 DEF Closing
  <2>8. \A u, v \in Tasks : End[u] = End[v] =>
          \A i \in 1..Len(results'[u]), j \in 1..Len(results'[v]) :
            IsCause(u, i)' /\ IsCause(v, j)' => u = v /\ i = j
    <3>1. ASSUME NEW u \in Tasks, NEW v \in Tasks, End[u] = End[v],
                 NEW i \in 1..Len(results'[u]), NEW j \in 1..Len(results'[v]),
                 IsCause(u, i)', IsCause(v, j)'
          PROVE  u = v /\ i = j
      <4>1. CASE u = t /\ v = t
        BY <2>3, <3>1, <4>1
      <4>2. CASE u = t /\ v # t
        BY <1>0, <2>1, <2>2, <3>1, <4>2
      <4>3. CASE u # t /\ v = t
        BY <1>0, <2>1, <2>2, <3>1, <4>3
      <4>4. CASE u # t /\ v # t
        BY <1>0, <2>2, <3>1, <4>4 DEF Closing
      <4>. QED
        BY <4>1, <4>2, <4>3, <4>4
    <3>. QED
      BY <3>1
  <2>. QED
    BY <2>6, <2>7, <2>8 DEF Closing
<1>. QED
  BY <1>1, <1>2, <1>3, <1>4, <1>5, <1>6, <1>7 DEF IInv

(* A body begins a frame, a newline ends that of the same call.            *)
LEMMA WriteStep ==
  ASSUME NEW t \in Tasks, IInv, Write(t)
  PROVE  IInv'
<1>. /\ TypeOK /\ \A u \in Tasks : Control(u) /\ WriterAtEnd(u)
     /\ OneHolder /\ TornIsKnown /\ Closing /\ \A e \in Ends : Whole(e)
  BY DEF IInv
<1>. DEFINE e == End[t]
            n == Len(stream[e])
            unit == Sent(t, pc[t])
<1>a. /\ pc[t] \in {"body", "newline"} /\ t \in Writers /\ e \in Ends
      /\ UNCHANGED <<closed, shut, dropped, partial, results, taken, received>>
      /\ stream' = [stream EXCEPT ![e] = Append(@, unit)]
      /\ n \in Nat /\ stream[e] \in Seq(Unit)
  BY TasksAssumption DEF Write, Control, TypeOK
<1>b. unit \in Unit
  BY <1>a, BoundsAssumption DEF Sent, Unit, Control, TypeOK
<1>c. /\ stream' \in [Ends -> Seq(Unit)]
      /\ stream'[e] = Append(stream[e], unit)
      /\ \A f \in Ends : f # e => stream'[f] = stream[f]
  BY <1>a, <1>b DEF TypeOK
<1>d. /\ Len(stream'[e]) = n + 1 /\ stream'[e][n + 1] = unit
      /\ \A i \in 1..n : stream'[e][i] = stream[e][i]
  BY <1>a, <1>b, <1>c
<1>e. stream'[e] # << >> /\ LastOf(stream'[e]) = unit
  <2>. HIDE DEF e, n, unit
  <2>1. Len(stream'[e]) # 0
    BY <1>a, <1>d
  <2>. QED
    BY <1>d, <2>1 DEF LastOf
<1>f. /\ pc' \in [Tasks -> PC] /\ outcome' \in [Tasks -> Results]
      /\ \A u \in Tasks : u # t => pc'[u] = pc[u] /\ outcome'[u] = outcome[u]
      /\ pc[t] = "body" => pc'[t] = "newline" /\ outcome' = outcome
      /\ pc[t] = "newline" => pc'[t] = "finish" /\ outcome'[t] = "ok"
  BY <1>a DEF Write, Outcome, TypeOK, PC, Results
<1>g. unit.part = pc[t]
  BY DEF Sent
<1>h. \A u \in Writers : u # t /\ End[u] = e => ~Holds(u)
  BY <1>a, TasksAssumption DEF OneHolder, Holds, Direction
<1>i. WriterAtEnd(t)
  OBVIOUS
<1>. HIDE DEF e, n, unit
<1>1. TypeOK'
  <2>1. \A f \in Ends : taken'[f] <= Len(stream'[f])
    BY <1>a, <1>c, <1>d DEF TypeOK, n
  <2>. QED
    BY <1>a, <1>c, <1>f, <2>1 DEF TypeOK
<1>2. \A u \in Tasks : Control(u)'
  BY <1>a, <1>f DEF Control
<1>3. OneHolder'
  BY <1>a, <1>f DEF OneHolder, Holds, Direction
<1>4. \A u \in Tasks : WriterAtEnd(u)'
  <2>1. WriterAtEnd(t)'
    <3>1. CASE pc[t] = "body"
      <4>1. LastOf(stream'[e]) = Sent(t, "body")'
        BY <1>a, <1>e, <3>1 DEF unit, Sent
      <4>. QED
        BY <1>e, <1>f, <3>1, <4>1 DEF WriterAtEnd, e
    <3>2. CASE pc[t] = "newline"
      <4>1. LastOf(stream'[e]).part = "newline"
        BY <1>e, <1>g, <3>2
      <4>. QED
        BY <1>f, <3>2, <4>1 DEF WriterAtEnd, Clean, e
    <3>. QED
      BY <1>a, <3>1, <3>2
  <2>2. ASSUME NEW u \in Writers, u # t PROVE WriterAtEnd(u)'
    <3>1. CASE End[u] = e
      BY <1>f, <1>h, <2>2, <3>1, TasksAssumption DEF WriterAtEnd, Holds
    <3>2. CASE End[u] # e
      BY <1>a, <1>c, <1>f, <2>2, <3>2, TasksAssumption DEF WriterAtEnd, Clean, Sent
    <3>. QED
      BY <3>1, <3>2
  <2>. QED
    BY <2>1, <2>2 DEF WriterAtEnd
<1>5. TornIsKnown'
  <2>1. Clean(e)' \/ pc'[t] = "newline"
    BY <1>a, <1>e, <1>f, <1>g DEF Clean, e
  <2>2. ASSUME NEW f \in Ends, f # e
        PROVE  \/ Clean(f)'
               \/ closed'[f]
               \/ \E u \in Writers : /\ End[u] = f
                                     /\ \/ pc'[u] = "newline"
                                        \/ pc'[u] = "finish" /\ outcome'[u] # "ok"
    <3>1. Clean(f)' <=> Clean(f)
      BY <1>c, <2>2 DEF Clean
    <3>2. \A u \in Writers : End[u] = f => pc'[u] = pc[u] /\ outcome'[u] = outcome[u]
      BY <1>f, <2>2, TasksAssumption DEF e
    <3>. QED
      BY <1>a, <3>1, <3>2 DEF TornIsKnown
  <2>. QED
    BY <1>a, <2>1, <2>2 DEF TornIsKnown, e
<1>6. \A f \in Ends : Whole(f)'
  <2>1. ASSUME NEW f \in Ends, f # e PROVE Whole(f)'
    BY <1>c, <2>1 DEF Whole
  <2>2. Whole(e)'
    <3>1. ASSUME NEW i \in 1..n
          PROVE  /\ stream'[e][i].part = "body" => i = 1 \/ stream'[e][i - 1].part = "newline"
                 /\ stream'[e][i].part = "newline" =>
                      i > 1 /\ stream'[e][i - 1] = BodyOf(stream'[e][i])
      <4>1. i = 1 \/ i - 1 \in 1..n
        BY <1>a, <3>1
      <4>2. Whole(e)
        BY <1>a
      <4>. QED
        BY <1>a, <1>d, <4>1, <4>2 DEF Whole, n
    <3>2. CASE pc[t] = "body"
      <4>1. n = 0 \/ stream[e][n].part = "newline"
        BY <1>a, <1>i, <3>2 DEF WriterAtEnd, Clean, LastOf, n, e
      <4>2. n = 0 \/ stream'[e][n].part = "newline"
        BY <1>a, <1>d, <4>1
      <4>. QED
        BY <1>a, <1>d, <1>g, <3>1, <3>2, <4>2 DEF Whole, e
    <3>3. CASE pc[t] = "newline"
      <4>1. n # 0 /\ stream[e][n] = Sent(t, "body")
        BY <1>a, <1>i, <3>3 DEF WriterAtEnd, LastOf, n, e
      <4>2. stream'[e][n] = BodyOf(unit)
        BY <1>a, <1>d, <3>3, <4>1 DEF Sent, BodyOf, unit
      <4>. QED
        BY <1>a, <1>d, <1>g, <3>1, <3>3, <4>1, <4>2 DEF Whole, e
    <3>. QED
      BY <1>a, <3>2, <3>3
  <2>. QED
    BY <2>1, <2>2
<1>7. Closing'
  <2>1. \A u \in Tasks : pc'[u] = "shutdown" => pc[u] = "shutdown"
    BY <1>a, <1>f
  <2>. QED
    BY <1>a, <2>1 DEF Closing, IsCause, Erred
<1>. QED
  BY <1>1, <1>2, <1>3, <1>4, <1>5, <1>6, <1>7 DEF IInv

(* A receiver takes the next write of the peer.                            *)
LEMMA ReadStep ==
  ASSUME NEW t \in Tasks, IInv, Read(t)
  PROVE  IInv'
<1>. /\ TypeOK /\ \A u \in Tasks : Control(u) /\ WriterAtEnd(u)
     /\ OneHolder /\ TornIsKnown /\ Closing /\ \A e \in Ends : Whole(e)
  BY DEF IInv
<1>. DEFINE e == From(t)
            unit == stream[e][taken[e] + 1]
<1>a. /\ pc[t] = "read" /\ t \notin Writers
      /\ taken[e] < Len(stream[e]) /\ taken' = [taken EXCEPT ![e] = @ + 1]
      /\ UNCHANGED <<closed, shut, dropped, results, stream, received>>
  BY DEF Read, Control
<1>b. e \in Ends /\ unit \in Unit
  BY <1>a, TasksAssumption DEF From, Other, Ends, TypeOK
<1>c. \/ /\ partial' = [partial EXCEPT ![t] = Append(@, unit)]
         /\ UNCHANGED <<pc, outcome>>
      \/ /\ pc' = [pc EXCEPT ![t] = "finish"]
         /\ partial' = partial
         /\ \E r \in LineOutcomes(partial[t]) : outcome' = [outcome EXCEPT ![t] = r]
  BY DEF Read, Outcome
<1>. HIDE DEF e, unit
<1>d. \A r \in LineOutcomes(partial[t]) : r \in Results /\ (r = "ok" => Len(partial[t]) = 1)
  BY DEF LineOutcomes, Results, CodecErrors
<1>e. partial' \in [Tasks -> Seq(Unit)]
  <2>1. partial \in [Tasks -> Seq(Unit)] /\ Append(partial[t], unit) \in Seq(Unit)
    BY <1>b DEF TypeOK
  <2>. QED
    BY <1>c, <2>1
<1>f. outcome' \in [Tasks -> Results] /\ pc' \in [Tasks -> PC]
  BY <1>c, <1>d DEF TypeOK, PC
<1>g. \A u \in Tasks : u # t => /\ pc'[u] = pc[u] /\ outcome'[u] = outcome[u]
                                /\ partial'[u] = partial[u]
  BY <1>c DEF TypeOK
<1>h. \/ pc'[t] = "read"
      \/ pc'[t] = "finish" /\ (outcome'[t] = "ok" => Len(partial'[t]) = 1)
  BY <1>a, <1>c, <1>d DEF TypeOK
<1>1. TypeOK'
  <2>1. taken' \in [Ends -> Nat] /\ \A f \in Ends : taken'[f] <= Len(stream[f])
    BY <1>a, <1>b DEF TypeOK
  <2>. QED
    BY <1>a, <1>e, <1>f, <2>1 DEF TypeOK
<1>2. \A u \in Tasks : Control(u)'
  BY <1>a, <1>g, <1>h DEF Control
<1>3. OneHolder'
  BY <1>a, <1>g, <1>h DEF OneHolder, Holds
<1>4. \A u \in Tasks : WriterAtEnd(u)'
  BY <1>a, <1>g DEF WriterAtEnd, Clean, Sent
<1>5. TornIsKnown'
  <2>1. \A u \in Writers : pc'[u] = pc[u] /\ outcome'[u] = outcome[u]
    BY <1>a, <1>g, TasksAssumption
  <2>2. \A f \in Ends : Clean(f)' <=> Clean(f)
    BY <1>a DEF Clean
  <2>. QED
    BY <1>a, <2>1, <2>2 DEF TornIsKnown
<1>6. \A f \in Ends : Whole(f)'
  BY <1>a DEF Whole
<1>7. Closing'
  <2>1. \A u \in Tasks : pc'[u] = "shutdown" => pc[u] = "shutdown"
    BY <1>g, <1>h
  <2>. QED
    BY <1>a, <2>1 DEF Closing, IsCause, Erred
<1>. QED
  BY <1>1, <1>2, <1>3, <1>4, <1>5, <1>6, <1>7 DEF IInv

(* An endpoint is dropped.                                                 *)
LEMMA DropStep ==
  ASSUME NEW e \in Ends, IInv, Drop(e)
  PROVE  IInv'
<1>. /\ TypeOK /\ \A u \in Tasks : Control(u) /\ WriterAtEnd(u)
     /\ OneHolder /\ TornIsKnown /\ Closing /\ \A f \in Ends : Whole(f)
  BY DEF IInv
<1>0. UNCHANGED <<closed, pc, partial, outcome, results, stream, taken, received>>
  BY DEF Drop, wire
<1>1. TypeOK'
  BY <1>0 DEF TypeOK, Drop
<1>2. \A u \in Tasks : Control(u)' /\ WriterAtEnd(u)'
  BY <1>0 DEF Control, WriterAtEnd, Clean, Sent
<1>3. OneHolder' /\ \A f \in Ends : Whole(f)'
  BY <1>0 DEF OneHolder, Holds, Whole
<1>4. TornIsKnown'
  BY <1>0 DEF TornIsKnown, Clean
<1>5. Closing'
  BY <1>0 DEF Closing, IsCause, Erred
<1>. QED
  BY <1>1, <1>2, <1>3, <1>4, <1>5 DEF IInv

-----------------------------------------------------------------------------
(* The theorems. *)

LEMMA InitIInv == Init => IInv
<1>. SUFFICES ASSUME Init PROVE IInv
  OBVIOUS
<1>. USE DEF Init, Ends
<1>1. TypeOK
  BY DEF TypeOK, PC, Results
<1>2. \A t \in Tasks : Control(t) /\ WriterAtEnd(t)
  <2>1. ASSUME NEW t \in Tasks PROVE Control(t) /\ WriterAtEnd(t)
    <3>1. pc[t] = "idle" /\ results[t] = << >>
      OBVIOUS
    <3>. QED
      BY <3>1, BoundsAssumption DEF Control, WriterAtEnd
  <2>. QED
    BY <2>1
<1>3. OneHolder
  BY DEF OneHolder, Holds
<1>4. TornIsKnown /\ \A e \in Ends : Whole(e)
  BY DEF TornIsKnown, Clean, Whole
<1>5. Closing
  BY DEF Closing, IsCause, Erred
<1>. QED
  BY <1>1, <1>2, <1>3, <1>4, <1>5 DEF IInv

LEMMA NextStep == IInv /\ [Next]_vars => IInv'
<1>. SUFFICES ASSUME IInv, [Next]_vars PROVE IInv'
  OBVIOUS
<1>1. CASE UNCHANGED vars
  BY <1>1 DEF vars, wire, IInv, TypeOK, Control, WriterAtEnd, OneHolder, TornIsKnown, Whole,
              Closing, Clean, Sent, Holds, IsCause, Erred
<1>2. ASSUME NEW t \in Tasks, Call(t) \/ Step(t) \/ RefuseMessage(t) \/ Fault(t)
      PROVE  IInv'
  <2>. {"io", "peer_closed", "truncated_frame", "frame_too_large"} \subseteq CodecErrors
    BY DEF CodecErrors
  <2>1. CASE Call(t)
    BY <2>1, CallStep
  <2>2. CASE Lock(t)
    BY <2>2, LockStep
  <2>3. CASE Write(t)
    BY <2>3, WriteStep
  <2>4. CASE WriteRefused(t)
    BY <2>4, CodecErrorStep DEF WriteRefused
  <2>5. CASE Read(t)
    BY <2>5, ReadStep
  <2>6. CASE ReadEnd(t)
    BY <2>6, CodecErrorStep DEF ReadEnd
  <2>7. CASE FinishOk(t)
    BY <2>7, FinishOkStep
  <2>12. CASE ReturnOk(t)
    BY <2>12, ReturnOkStep
  <2>8. CASE FinishError(t)
    BY <2>8, FinishErrorStep
  <2>9. CASE Shutdown(t)
    BY <2>9, ShutdownStep
  <2>10. CASE RefuseMessage(t)
    BY <2>10, CodecErrorStep DEF RefuseMessage
  <2>11. CASE Fault(t)
    BY <2>11, CodecErrorStep DEF Fault
  <2>. QED
    BY <1>2, <2>1, <2>2, <2>3, <2>4, <2>5, <2>6, <2>7, <2>8, <2>9, <2>10, <2>11, <2>12
       DEF Step
<1>. QED
  BY <1>1, <1>2, DropStep DEF Next

(* The inductive invariant, of which the others are parts or consequences. *)
THEOREM Invariance == Spec => []IInv
  BY InitIInv, NextStep, PTL DEF Spec

(* Every state is one the types describe.                                  *)
THEOREM TypeCorrectness == Spec => []TypeOK
<1>1. IInv => TypeOK
  BY DEF IInv
<1>. QED
  BY <1>1, Invariance, PTL

(* No frame that broke off is continued, whatever senders share an         *)
(* endpoint: what the mutex, the flag and the second ensure_open give.     *)
THEOREM WholeLines == Spec => []LinesAreWhole
<1>1. IInv => LinesAreWhole
  <2>. SUFFICES ASSUME IInv, NEW e \in Ends, NEW i \in 1..Len(stream[e]),
                       stream[e][i].part = "newline"
                PROVE  /\ i > 1 /\ stream[e][i - 1] = [stream[e][i] EXCEPT !.part = "body"]
                       /\ i > 2 => stream[e][i - 2].part = "newline"
    BY DEF LinesAreWhole
  <2>1. stream[e] \in Seq(Unit) /\ Whole(e)
    BY DEF IInv, TypeOK
  <2>2. i > 1 /\ stream[e][i - 1] = BodyOf(stream[e][i])
    BY <2>1 DEF Whole
  <2>3. \A u \in Unit : [u EXCEPT !.part = "body"] = BodyOf(u)
    BY DEF Unit, BodyOf
  <2>4. stream[e][i] \in Unit
    BY <2>1
  <2>5. i > 2 => stream[e][i - 2].part = "newline"
    <3>1. stream[e][i - 1].part = "body" /\ i - 1 \in 1..Len(stream[e])
      BY <2>1, <2>2 DEF BodyOf
    <3>2. i - 1 = 1 \/ stream[e][(i - 1) - 1].part = "newline"
      BY <2>1, <3>1 DEF Whole
    <3>. QED
      BY <2>1, <3>2
  <2>. QED
    BY <2>2, <2>3, <2>4, <2>5
<1>. QED
  BY <1>1, Invariance, PTL

(* Of all the calls of an endpoint that fail, one tells the cause: what    *)
(* compare_exchange gives.                                                 *)
THEOREM OneReport == Spec => []OneCause
<1>1. IInv => OneCause
  <2>. SUFFICES ASSUME IInv, NEW e \in Ends, NEW r \in ResultsOf(e), NEW q \in ResultsOf(e),
                       results[r.task][r.call] \notin {"ok", "peer_closed"},
                       results[q.task][q.call] \notin {"ok", "peer_closed"}
                PROVE  r = q
    BY DEF OneCause
  <2>1. /\ r \in [task : Tasks, call : 1..MaxCalls] /\ q \in [task : Tasks, call : 1..MaxCalls]
        /\ End[r.task] = End[q.task]
        /\ r.call \in 1..Len(results[r.task]) /\ q.call \in 1..Len(results[q.task])
    BY BoundsAssumption DEF ResultsOf, IInv, TypeOK
  <2>2. r.task = q.task /\ r.call = q.call
    BY <2>1 DEF IInv, Closing, IsCause
  <2>. QED
    BY <2>1, <2>2
<1>. QED
  BY <1>1, Invariance, PTL

(* A call of a closed endpoint that has not passed the last ensure_open    *)
(* does not pass it, and if it returns, returns an error.                  *)
LEMMA ClosedReturnsError ==
  ASSUME NEW t \in Tasks, IInv, [Next]_vars, closed[End[t]], pc[t] # "return"
  PROVE  /\ pc'[t] # "return"
         /\ results'[t] # results[t] => results'[t][Len(results'[t])] # "ok"
<1>. TypeOK /\ \A u \in Tasks : Control(u)
  BY DEF IInv
<1>1. pc'[t] # "return"
  <2>1. CASE UNCHANGED pc
    BY <2>1
  <2>2. ASSUME NEW u \in Tasks, Call(u) \/ Step(u) \/ RefuseMessage(u) \/ Fault(u), u # t
        PROVE  pc'[t] = pc[t]
    BY <2>2 DEF Call, Step, Lock, EnterCodec, Write, WriteRefused, Read, ReadEnd, FinishOk,
                ReturnOk, FinishError, Shutdown, RefuseMessage, Fault, Outcome, Return, TypeOK
  <2>3. CASE Call(t) \/ Step(t) \/ RefuseMessage(t) \/ Fault(t)
    BY <2>3 DEF Call, Step, Lock, EnterCodec, Write, WriteRefused, Read, ReadEnd, FinishOk,
                ReturnOk, FinishError, Shutdown, RefuseMessage, Fault, Outcome, Return, TypeOK
  <2>4. UNCHANGED pc \/ \E u \in Tasks : Call(u) \/ Step(u) \/ RefuseMessage(u) \/ Fault(u)
    BY DEF Next, Drop, vars
  <2>. QED
    BY <2>1, <2>2, <2>3, <2>4
<1>2. ASSUME results'[t] # results[t] PROVE results'[t][Len(results'[t])] # "ok"
  <2>1. PICK u \in Tasks : \/ Call(u) \/ Lock(u) \/ FinishOk(u)
                           \/ ReturnOk(u) \/ FinishError(u) \/ Shutdown(u)
    BY <1>2 DEF Next, Step, vars, Write, WriteRefused, Read, ReadEnd, RefuseMessage, Fault,
                Drop
  <2>2. PICK r \in Results : Return(u, r) /\ (r = "ok" => pc[u] = "return")
    <3>1. \/ Return(u, "peer_closed") \/ (Return(u, "ok") /\ pc[u] = "return")
          \/ (Return(u, outcome[u]) /\ outcome[u] # "ok")
      BY <1>2, <2>1
         DEF Call, Lock, EnterCodec, FinishOk, ReturnOk, FinishError, Shutdown, Control
    <3>2. "ok" \in Results /\ "peer_closed" \in Results /\ outcome[u] \in Results
      BY DEF TypeOK, Results, CodecErrors
    <3>. QED
      BY <3>1, <3>2
  <2>3. u = t
    BY <1>2, <2>2, Returned
  <2>4. Len(results'[t]) = Len(results[t]) + 1 /\ results'[t][Len(results[t]) + 1] = r
    BY <2>2, <2>3, Returned
  <2>. QED
    BY <2>2, <2>3, <2>4
<1>. QED
  BY <1>1, <1>2

(* After the first error that an endpoint reports no call of it passes the *)
(* last ensure_open: what may still succeed is past it already.            *)
THEOREM NoSuccessAfterError == Spec => ErrorsAreFinal
<1>1. IInv /\ [Next]_vars =>
        [\A t, u \in Tasks :
           /\ End[t] = End[u] /\ Erred(u)
           /\ pc[t] # "return"
           => /\ pc'[t] # "return"
              /\ results'[t] # results[t] => results'[t][Len(results'[t])] # "ok"]_vars
  BY ClosedReturnsError DEF IInv, Closing
<1>. QED
  BY <1>1, Invariance, PTL DEF Spec, ErrorsAreFinal

-----------------------------------------------------------------------------
(* The order of the frames. *)

(* A stream is bodies and newlines by turns, from its beginning.           *)
Turns(e) ==
  \A i \in 1..Len(stream[e]) :
    stream[e][i].part = IF i % 2 = 1 THEN "body" ELSE "newline"

(* The writes of the frames that were delivered at e.                      *)
Got(e) == 2 * Len(received[e])

HasBody(t) == partial[t] = <<stream[From(t)][Got(End[t]) + 1]>>

(* Where the receiver that has the mutex is in the frame after those.      *)
Reading(t) ==
  ~closed[End[t]] =>
    /\ pc[t] = "read" =>
         \/ partial[t] = << >> /\ taken[From(t)] = Got(End[t])
         \/ HasBody(t) /\ taken[From(t)] = Got(End[t]) + 1
    /\ pc[t] = "finish" /\ outcome[t] = "ok" =>
         HasBody(t) /\ taken[From(t)] = Got(End[t]) + 2

(* A frame that is on its way to the caller is delivered even if the       *)
(* endpoint is closed meanwhile.                                           *)
Returning(t) ==
  pc[t] = "return" => HasBody(t) /\ taken[From(t)] = Got(End[t]) + 2

(* Nobody at e has the mutex of its receivers.                             *)
NoReader(e) == \A t \in Readers : End[t] = e => ~Holds(t)

(* While an endpoint is open, a receiver that lets its mutex go leaves the *)
(* stream at the beginning of a frame, of which all before were delivered. *)
AtBoundary(e) == ~closed[e] /\ NoReader(e) => taken[Other(e)] = Got(e)

OrderInv ==
  /\ \A e \in Ends : Turns(e) /\ AtBoundary(e)
  /\ \A t \in Readers : Reading(t) /\ Returning(t)
  /\ DeliveredInOrder

LEMMA Parity ==
  ASSUME NEW n \in Nat
  PROVE  /\ n % 2 \in {0, 1}
         /\ n = 0 => n % 2 = 0
         /\ n % 2 = 0 => (n + 1) % 2 = 1
         /\ n % 2 = 1 => (n + 1) % 2 = 0
  OBVIOUS

(* A frame is open after an odd number of writes.                          *)
LEMMA CleanIsEven ==
  ASSUME TypeOK, NEW e \in Ends, Turns(e)
  PROVE  /\ Len(stream[e]) \in Nat
         /\ Clean(e) <=> Len(stream[e]) % 2 = 0
<1>. DEFINE n == Len(stream[e])
<1>1. stream[e] \in Seq(Unit) /\ n \in Nat /\ (stream[e] = << >> <=> n = 0)
  BY DEF TypeOK
<1>. HIDE DEF n
<1>2. n % 2 \in {0, 1} /\ (n = 0 => n % 2 = 0)
  BY <1>1, Parity
<1>3. n # 0 => stream[e][n].part = IF n % 2 = 1 THEN "body" ELSE "newline"
  <2>1. n # 0 => n \in 1..Len(stream[e])
    BY <1>1 DEF n
  <2>. QED
    BY <2>1 DEF Turns
<1>4. Clean(e) <=> n = 0 \/ stream[e][n].part = "newline"
  BY <1>1 DEF Clean, LastOf, n
<1>5. Clean(e) <=> n % 2 = 0
  BY <1>2, <1>3, <1>4
<1>. QED
  BY <1>1, <1>5 DEF n

LEMMA Sides ==
  /\ \A e \in Ends : Other(e) \in Ends /\ Other(Other(e)) = e
  /\ \A t \in Tasks : End[t] \in Ends /\ From(t) \in Ends /\ From(t) = Other(End[t])
  BY TasksAssumption DEF Other, Ends, From

LEMMA OrderInit == Init => OrderInv
<1>. SUFFICES ASSUME Init PROVE OrderInv
  OBVIOUS
<1>1. \A e \in Ends : /\ stream[e] = << >> /\ taken[e] = 0 /\ received[e] = << >>
                      /\ Len(stream[e]) = 0 /\ Len(received[e]) = 0
  BY DEF Init
<1>2. \A e \in Ends : Turns(e) /\ AtBoundary(e)
  BY <1>1, Sides DEF Turns, AtBoundary, Got
<1>3. \A t \in Readers : Reading(t) /\ Returning(t)
  BY DEF Init, Reading, Returning, Readers
<1>4. DeliveredInOrder
  BY <1>1 DEF DeliveredInOrder
<1>. QED
  BY <1>2, <1>3, <1>4 DEF OrderInv

(* A step of t that neither writes, takes nor delivers.                    *)
LEMMA QuietStep ==
  ASSUME NEW t \in Tasks, OrderInv, UNCHANGED <<stream, taken, received>>,
         \A e \in Ends : closed[e] => closed'[e],
         \A u \in Tasks : u # t => /\ pc'[u] = pc[u] /\ outcome'[u] = outcome[u]
                                  /\ partial'[u] = partial[u],
         t \in Readers => Reading(t)' /\ Returning(t)' /\ AtBoundary(End[t])'
  PROVE  OrderInv'
<1>1. \A e \in Ends : Turns(e)'
  BY DEF OrderInv, Turns
<1>2. ASSUME NEW e \in Ends PROVE AtBoundary(e)'
  <2>1. CASE t \in Readers /\ End[t] = e
    BY <2>1
  <2>2. CASE ~(t \in Readers /\ End[t] = e)
    <3>1. NoReader(e)' => NoReader(e)
      BY <2>2 DEF NoReader, Holds, Readers
    <3>. QED
      BY <3>1 DEF OrderInv, AtBoundary, Got
  <2>. QED
    BY <2>1, <2>2
<1>3. ASSUME NEW u \in Readers PROVE Reading(u)' /\ Returning(u)'
  <2>1. CASE u = t
    BY <2>1
  <2>2. CASE u # t
    <3>1. u \in Tasks /\ Reading(u) /\ Returning(u) /\ End[u] \in Ends
      BY Sides DEF OrderInv, Readers
    <3>2. pc'[u] = pc[u] /\ outcome'[u] = outcome[u] /\ partial'[u] = partial[u]
      BY <2>2, <3>1
    <3>3. Got(End[u])' = Got(End[u]) /\ (HasBody(u)' <=> HasBody(u))
      BY <3>2 DEF Got, HasBody
    <3>. QED
      BY <3>1, <3>2, <3>3 DEF Reading, Returning
  <2>. QED
    BY <2>1, <2>2
<1>4. DeliveredInOrder'
  BY DEF OrderInv, DeliveredInOrder
<1>. QED
  BY <1>1, <1>2, <1>3, <1>4 DEF OrderInv

(* The steps of t that leave the frames alone: a call that begins, gets    *)
(* the mutex, leaves the codec or the last check, or returns no frame.     *)
LEMMA QuietSteps ==
  ASSUME NEW t \in Tasks, IInv, OrderInv,
         \/ Call(t) \/ Lock(t) \/ WriteRefused(t) \/ RefuseMessage(t) \/ ReadEnd(t)
         \/ Fault(t) \/ FinishOk(t) \/ FinishError(t) \/ Shutdown(t)
         \/ ReturnOk(t) /\ t \notin Readers
  PROVE  OrderInv'
<1>. TypeOK /\ Closing
  BY DEF IInv
<1>1. /\ UNCHANGED <<stream, taken, received>>
      /\ \A e \in Ends : closed[e] => closed'[e]
  BY DEF Call, Lock, WriteRefused, RefuseMessage, ReadEnd, Fault, FinishError, Shutdown,
         FinishOk, ReturnOk, Deliver, Return, wire, TypeOK
<1>2. \A u \in Tasks : u # t => pc'[u] = pc[u]
  BY DEF Call, Lock, EnterCodec, WriteRefused, RefuseMessage, ReadEnd, Fault, FinishError,
         Shutdown, FinishOk, ReturnOk, Return, Outcome, TypeOK
<1>3. \A u \in Tasks : u # t => outcome'[u] = outcome[u] /\ partial'[u] = partial[u]
  BY DEF Call, Lock, EnterCodec, WriteRefused, RefuseMessage, ReadEnd, Fault, FinishError,
         Shutdown, FinishOk, ReturnOk, Return, Outcome, TypeOK
<1>4. ASSUME t \in Readers PROVE Reading(t)' /\ Returning(t)' /\ AtBoundary(End[t])'
  <2>. t \notin Writers /\ End[t] \in Ends
    BY <1>4, Sides DEF Readers
  <2>0. pc'[t] = "return" => FinishOk(t) /\ ~closed[End[t]] /\ closed' = closed
    BY <1>4 DEF Call, Lock, EnterCodec, WriteRefused, RefuseMessage, ReadEnd, Fault,
                FinishError, Shutdown, FinishOk, Return, Outcome, TypeOK
  <2>1. CASE closed'[End[t]]
    BY <2>0, <2>1 DEF Reading, Returning, AtBoundary
  <2>2. CASE Call(t) /\ ~closed'[End[t]]
    <3>1. ~Holds(t) /\ ~Holds(t)' /\ closed' = closed
      BY <2>2 DEF Call, Return, Holds, TypeOK
    <3>2. Reading(t)' /\ Returning(t)'
      BY <3>1 DEF Reading, Returning, Holds
    <3>3. NoReader(End[t])' => NoReader(End[t])
      BY <1>2, <3>1 DEF NoReader, Holds, Readers
    <3>4. AtBoundary(End[t])'
      BY <1>1, <3>1, <3>3 DEF AtBoundary, Got, OrderInv
    <3>. QED
      BY <3>2, <3>4
  <2>3. CASE Lock(t) /\ ~closed'[End[t]]
    <3>1. /\ ~closed[End[t]] /\ MutexFree(t)
          /\ pc'[t] = "read" /\ partial'[t] = << >>
      BY <2>3 DEF Lock, EnterCodec, TypeOK
    <3>2. NoReader(End[t])
      BY <1>4, <3>1 DEF NoReader, MutexFree, Direction, Readers
    <3>3. taken[From(t)] = Got(End[t])
      BY <3>1, <3>2, Sides DEF AtBoundary, OrderInv
    <3>4. Reading(t)' /\ Returning(t)'
      BY <1>1, <3>1, <3>3 DEF Reading, Returning, Got, From
    <3>5. ~NoReader(End[t])'
      BY <1>4, <3>1 DEF NoReader, Holds
    <3>. QED
      BY <3>4, <3>5 DEF AtBoundary
  <2>4. CASE (ReadEnd(t) \/ Fault(t)) /\ ~closed'[End[t]]
    <3>1. pc'[t] = "finish" /\ outcome'[t] # "ok"
      BY <2>4 DEF ReadEnd, Fault, Outcome, TypeOK
    <3>2. Reading(t)' /\ Returning(t)'
      BY <3>1 DEF Reading, Returning
    <3>3. ~NoReader(End[t])'
      BY <1>4, <3>1 DEF NoReader, Holds
    <3>. QED
      BY <3>2, <3>3 DEF AtBoundary
  <2>5. CASE WriteRefused(t) \/ RefuseMessage(t)
    BY <2>5 DEF WriteRefused, RefuseMessage, IInv, Control
  <2>6. CASE FinishError(t) \/ Shutdown(t) \/ (FinishOk(t) /\ closed[End[t]])
    <3>1. closed'[End[t]]
      BY <2>6 DEF FinishError, Shutdown, FinishOk, Closing, TypeOK
    <3>. QED
      BY <2>1, <3>1
  <2>7. CASE FinishOk(t) /\ ~closed'[End[t]]
    <3>1. /\ pc[t] = "finish" /\ outcome[t] = "ok" /\ pc'[t] = "return"
          /\ ~closed[End[t]] /\ UNCHANGED <<closed, partial, outcome>>
      BY <2>7 DEF FinishOk, Return, TypeOK
    <3>2. HasBody(t) /\ taken[From(t)] = Got(End[t]) + 2
      BY <1>4, <3>1 DEF OrderInv, Reading
    <3>3. Reading(t)' /\ Returning(t)'
      BY <1>1, <3>1, <3>2 DEF Reading, Returning, HasBody, Got, From
    <3>4. ~NoReader(End[t])'
      BY <1>4, <3>1 DEF NoReader, Holds
    <3>. QED
      BY <3>3, <3>4 DEF AtBoundary
  <2>. QED
    BY <1>4, <2>1, <2>2, <2>3, <2>4, <2>5, <2>6, <2>7
<1>. QED
  BY <1>1, <1>2, <1>3, <1>4, QuietStep

(* What is appended continues the turns, and no receiver notices.          *)
LEMMA WriteKeepsOrder ==
  ASSUME NEW t \in Tasks, IInv, OrderInv, Write(t)
  PROVE  OrderInv'
<1>. DEFINE e == End[t]
            n == Len(stream[e])
<1>. TypeOK /\ Control(t) /\ WriterAtEnd(t)
  BY DEF IInv
<1>1. /\ pc[t] \in {"body", "newline"} /\ t \in Writers /\ e \in Ends
      /\ UNCHANGED <<closed, partial, taken, received>>
      /\ stream' = [stream EXCEPT ![e] = Append(@, Sent(t, pc[t]))]
      /\ stream \in [Ends -> Seq(Unit)] /\ n \in Nat
  BY Sides DEF Write, Control, TypeOK
<1>2. /\ Len(stream'[e]) = n + 1 /\ stream'[e][n + 1].part = pc[t]
      /\ \A i \in 1..n : stream'[e][i] = stream[e][i]
      /\ \A f \in Ends : f # e => stream'[f] = stream[f]
  BY <1>1 DEF Sent
<1>3. \A u \in Tasks : u # t => pc'[u] = pc[u] /\ outcome'[u] = outcome[u]
  BY DEF Write, Outcome, TypeOK
<1>4. pc[t] = IF (n + 1) % 2 = 1 THEN "body" ELSE "newline"
  <2>1. Clean(e) <=> n % 2 = 0
    BY <1>1, CleanIsEven DEF OrderInv
  <2>2. pc[t] = "body" <=> Clean(e)
    BY <1>1 DEF WriterAtEnd, Clean, Sent
  <2>. HIDE DEF n
  <2>3. (n + 1) % 2 = 1 <=> n % 2 = 0
    BY <1>1, Parity
  <2>. QED
    BY <1>1, <2>1, <2>2, <2>3
<1>. HIDE DEF e, n
<1>5. \A f \in Ends : Turns(f)'
  <2>1. ASSUME NEW f \in Ends, f # e PROVE Turns(f)'
    BY <1>2, <2>1 DEF Turns, OrderInv
  <2>2. Turns(e)'
    <3>1. \A i \in 1..Len(stream'[e]) : i \in 1..n \/ i = n + 1
      BY <1>1, <1>2
    <3>2. Turns(e)
      BY <1>1 DEF OrderInv
    <3>. QED
      BY <1>2, <1>4, <3>1, <3>2 DEF Turns, n
  <2>. QED
    BY <2>1, <2>2
<1>6. ASSUME NEW u \in Readers PROVE Reading(u)' /\ Returning(u)'
  <2>1. u \in Tasks /\ u # t /\ End[u] \in Ends /\ From(u) \in Ends
    BY <1>1, Sides DEF Readers
  <2>2. pc'[u] = pc[u] /\ outcome'[u] = outcome[u]
    BY <1>3, <2>1
  <2>3. taken[From(u)] >= Got(End[u]) + 1 /\ HasBody(u) => HasBody(u)'
    <3>1. Got(End[u]) \in Nat /\ taken[From(u)] \in Nat /\ Len(stream[From(u)]) \in Nat
          /\ taken[From(u)] <= Len(stream[From(u)])
      BY <2>1 DEF Got, TypeOK
    <3>2. taken[From(u)] >= Got(End[u]) + 1 => Got(End[u]) + 1 \in 1..Len(stream[From(u)])
      BY <3>1
    <3>3. \A i \in 1..Len(stream[From(u)]) : stream'[From(u)][i] = stream[From(u)][i]
      BY <1>2, <2>1 DEF n
    <3>. QED
      BY <1>1, <3>2, <3>3 DEF HasBody, Got, From
  <2>4. /\ Got(End[u]) \in Nat /\ Got(End[u])' = Got(End[u])
        /\ Reading(u) /\ Returning(u)
    BY <1>1, <2>1 DEF Got, TypeOK, OrderInv
  <2>. QED
    BY <1>1, <2>2, <2>3, <2>4 DEF Reading, Returning
<1>7. ASSUME NEW f \in Ends PROVE AtBoundary(f)'
  <2>1. NoReader(f)' <=> NoReader(f)
    BY <1>1, <1>3 DEF NoReader, Holds, Readers
  <2>. QED
    BY <1>1, <2>1 DEF AtBoundary, Got, OrderInv
<1>8. DeliveredInOrder'
  <2>1. ASSUME NEW f \in Ends, NEW k \in 1..Len(received[f])
        PROVE  IsFrame(stream'[Other(f)], k, received[f][k])
    <3>. DEFINE g == Other(f)
    <3>1. g \in Ends /\ Len(stream[g]) \in Nat /\ Len(received[f]) \in Nat
      BY Sides DEF TypeOK
    <3>2. Len(stream'[g]) \in Nat /\ Len(stream'[g]) >= Len(stream[g])
      BY <1>1, <1>2, <3>1 DEF n
    <3>3. \A i \in 1..Len(stream[g]) : stream'[g][i] = stream[g][i]
      BY <1>2, <3>1 DEF n
    <3>4. IsFrame(stream[g], k, received[f][k])
      BY DEF OrderInv, DeliveredInOrder
    <3>5. 2 * k \in 1..Len(stream[g]) /\ 2 * k - 1 \in 1..Len(stream[g])
      BY <3>1, <3>4 DEF IsFrame
    <3>6. stream'[g][2 * k] = stream[g][2 * k] /\ stream'[g][2 * k - 1] = stream[g][2 * k - 1]
      BY <3>3, <3>5
    <3>7. 2 * k <= Len(stream'[g])
      BY <3>1, <3>2, <3>5
    <3>. QED
      BY <3>4, <3>6, <3>7 DEF IsFrame
  <2>. QED
    BY <1>1, <2>1 DEF DeliveredInOrder
<1>. QED
  BY <1>5, <1>6, <1>7, <1>8 DEF OrderInv

(* What a receiver takes is what comes next in its frame.                  *)
LEMMA ReadKeepsOrder ==
  ASSUME NEW t \in Tasks, IInv, OrderInv, Read(t)
  PROVE  OrderInv'
<1>. DEFINE e == End[t]
            f == From(t)
            got == Got(e)
            unit == stream[f][taken[f] + 1]
<1>. TypeOK /\ Control(t)
  BY DEF IInv
<1>1. /\ pc[t] = "read" /\ t \in Readers /\ e \in Ends /\ f \in Ends
      /\ taken[f] < Len(stream[f]) /\ taken' = [taken EXCEPT ![f] = @ + 1]
      /\ UNCHANGED <<closed, stream, received>>
  BY Sides DEF Read, Control, Readers
<1>2. \A u \in Tasks : u # t => /\ pc'[u] = pc[u] /\ outcome'[u] = outcome[u]
                                /\ partial'[u] = partial[u]
  BY DEF Read, Outcome, TypeOK
<1>3. \/ /\ unit.part = "body"
         /\ partial'[t] = Append(partial[t], unit) /\ pc'[t] = "read"
      \/ /\ unit.part # "body"
         /\ partial'[t] = partial[t] /\ pc'[t] = "finish"
  BY <1>1 DEF Read, Outcome, TypeOK
<1>4. got \in Nat /\ taken[f] \in Nat /\ Len(stream[f]) \in Nat /\ taken'[f] = taken[f] + 1
  BY <1>1 DEF Got, TypeOK
<1>5. unit.part = IF (taken[f] + 1) % 2 = 1 THEN "body" ELSE "newline"
  BY <1>1, <1>4 DEF OrderInv, Turns
<1>6. got % 2 = 0 /\ (got + 1) % 2 = 1 /\ (got + 2) % 2 = 0
  <2>1. \A k \in Nat : (2 * k) % 2 = 0 /\ (2 * k + 1) % 2 = 1 /\ (2 * k + 2) % 2 = 0
    OBVIOUS
  <2>2. Len(received[e]) \in Nat
    BY <1>1 DEF TypeOK
  <2>. QED
    BY <2>1, <2>2 DEF Got
<1>7. Reading(t)'
  <2>. SUFFICES ASSUME ~closed[e]
                PROVE  /\ pc'[t] = "read" =>
                            HasBody(t)' /\ taken'[f] = got + 1
                       /\ pc'[t] = "finish" => HasBody(t)' /\ taken'[f] = got + 2
    BY <1>1 DEF Reading, Got, From
  <2>1. \/ partial[t] = << >> /\ taken[f] = got
        \/ HasBody(t) /\ taken[f] = got + 1
    BY <1>1 DEF OrderInv, Reading
  <2>2. HasBody(t)' <=> partial'[t] = <<stream[f][got + 1]>>
    BY <1>1 DEF HasBody, Got, From
  <2>. HIDE DEF e, f, got
  <2>3. CASE partial[t] = << >> /\ taken[f] = got
    <3>1. unit.part = "body"
      BY <1>5, <1>6, <2>3
    <3>2. partial'[t] = <<stream[f][got + 1]>> /\ pc'[t] = "read"
      BY <1>3, <2>3, <3>1
    <3>. QED
      BY <1>4, <2>2, <2>3, <3>2
  <2>4. CASE HasBody(t) /\ taken[f] = got + 1
    <3>1. taken[f] + 1 = got + 2
      BY <1>4, <2>4
    <3>2. unit.part # "body"
      BY <1>5, <1>6, <3>1
    <3>3. partial'[t] = <<stream[f][got + 1]>> /\ pc'[t] = "finish"
      BY <1>3, <2>4, <3>2 DEF HasBody, e, f, got
    <3>. QED
      BY <1>4, <2>2, <3>1, <3>3
  <2>. QED
    BY <2>1, <2>3, <2>4
<1>8. ASSUME NEW u \in Readers, u # t PROVE Reading(u)' /\ Returning(u)'
  <2>1. u \in Tasks /\ End[u] \in Ends /\ From(u) = Other(End[u]) /\ f = Other(e)
    BY Sides DEF Readers
  <2>2. CASE End[u] = e
    <3>1. ~Holds(u)
      BY <1>1, <1>8, <2>1, <2>2 DEF IInv, OneHolder, Holds, Direction, Readers
    <3>. QED
      BY <1>2, <1>8, <2>1, <3>1 DEF Reading, Returning, Holds
  <2>3. CASE End[u] # e
    <3>1. From(u) # f
      BY <1>1, <2>1, <2>3, Sides
    <3>2. taken'[From(u)] = taken[From(u)]
      BY <1>1, <2>1, <3>1, Sides DEF TypeOK
    <3>3. /\ Reading(u) /\ Returning(u)
          /\ (HasBody(u)' <=> HasBody(u)) /\ Got(End[u])' = Got(End[u])
      BY <1>1, <1>2, <1>8, <2>1 DEF OrderInv, HasBody, Got
    <3>. QED
      BY <1>1, <1>2, <1>8, <2>1, <3>2, <3>3 DEF Reading, Returning
  <2>. QED
    BY <2>2, <2>3
<1>9. ASSUME NEW g \in Ends PROVE AtBoundary(g)'
  <2>1. CASE g = e
    <3>1. ~NoReader(g)'
      BY <1>1, <1>3, <2>1 DEF NoReader, Holds
    <3>. QED
      BY <3>1 DEF AtBoundary
  <2>2. CASE g # e
    <3>1. Other(g) # f /\ Other(g) \in Ends
      BY <1>1, <2>2, Sides
    <3>2. taken'[Other(g)] = taken[Other(g)]
      BY <1>1, <3>1 DEF TypeOK
    <3>3. NoReader(g)' <=> NoReader(g)
      BY <1>1, <1>2, <2>2 DEF NoReader, Holds, Readers
    <3>. QED
      BY <1>1, <3>2, <3>3 DEF AtBoundary, Got, OrderInv
  <2>. QED
    BY <2>1, <2>2
<1>10. \A g \in Ends : Turns(g)'
  BY <1>1 DEF OrderInv, Turns
<1>11. DeliveredInOrder'
  BY <1>1 DEF OrderInv, DeliveredInOrder
<1>12. Returning(t)'
  BY <1>3 DEF Returning
<1>. QED
  BY <1>7, <1>8, <1>9, <1>10, <1>11, <1>12 DEF OrderInv

(* A receiver that returns Ok delivers the next frame.                     *)
LEMMA DeliverKeepsOrder ==
  ASSUME NEW t \in Readers, IInv, OrderInv, ReturnOk(t)
  PROVE  OrderInv'
<1>. DEFINE e == End[t]
            f == Other(e)
            r == Len(received[e])
<1>. TypeOK /\ t \in Tasks
  BY DEF IInv, Readers
<1>1. /\ pc[t] = "return"
      /\ e \in Ends /\ f \in Ends /\ From(t) = f
      /\ received' = [received EXCEPT ![e] = Append(@, partial[t][1])]
      /\ UNCHANGED <<closed, partial, outcome, stream, taken>>
  BY Sides DEF ReturnOk, Deliver, wire
<1>2. pc'[t] = "idle" /\ \A u \in Tasks : u # t => pc'[u] = pc[u]
  BY <1>1 DEF ReturnOk, Return, TypeOK
<1>3. /\ r \in Nat /\ received[e] \in Seq(Unit)
      /\ taken[f] = 2 * r + 2 /\ partial[t] = <<stream[f][2 * r + 1]>>
      /\ taken[f] <= Len(stream[f]) /\ Len(stream[f]) \in Nat /\ stream[f] \in Seq(Unit)
  BY <1>1 DEF OrderInv, Returning, HasBody, Got, TypeOK
<1>4. partial[t][1] = stream[f][2 * r + 1] /\ partial[t][1] \in Unit
  BY <1>3
<1>5. /\ received'[e] = Append(received[e], partial[t][1])
      /\ Len(received'[e]) = r + 1
      /\ received'[e][r + 1] = partial[t][1]
      /\ \A n \in 1..r : received'[e][n] = received[e][n]
      /\ \A g \in Ends : g # e => received'[g] = received[g]
  BY <1>1, <1>3, <1>4 DEF TypeOK
<1>6. IsFrame(stream[f], r + 1, partial[t][1])
  <2>1. 2 * r + 1 \in 1..Len(stream[f]) /\ 2 * r + 2 \in 1..Len(stream[f])
    BY <1>3
  <2>2. (2 * r + 1) % 2 = 1 /\ (2 * r + 2) % 2 = 0
    <3>1. \A k \in Nat : (2 * k + 1) % 2 = 1 /\ (2 * k + 2) % 2 = 0
      OBVIOUS
    <3>. QED
      BY <1>3, <3>1
  <2>3. stream[f][2 * r + 2].part = "newline"
    BY <1>1, <2>1, <2>2 DEF OrderInv, Turns
  <2>4. (2 * r + 2) - 1 = 2 * r + 1
    BY <1>3
  <2>5. stream[f][2 * r + 1] = BodyOf(stream[f][2 * r + 2])
    BY <1>1, <2>1, <2>3, <2>4 DEF IInv, Whole
  <2>6. stream[f][2 * r + 2] \in Unit
    BY <1>3, <2>1
  <2>7. \A u \in Unit : u.part = "newline" => u = [BodyOf(u) EXCEPT !.part = "newline"]
    BY DEF Unit, BodyOf
  <2>8. /\ 2 * (r + 1) = 2 * r + 2 /\ 2 * (r + 1) - 1 = 2 * r + 1
        /\ 2 * (r + 1) <= Len(stream[f])
    BY <1>3
  <2>. QED
    BY <1>4, <2>3, <2>5, <2>6, <2>7, <2>8 DEF IsFrame
<1>. HIDE DEF e, f, r
<1>7. DeliveredInOrder'
  <2>1. ASSUME NEW g \in Ends, NEW n \in 1..Len(received'[g])
        PROVE  IsFrame(stream[Other(g)], n, received'[g][n])
    <3>1. CASE g # e
      BY <1>5, <2>1, <3>1 DEF OrderInv, DeliveredInOrder
    <3>2. CASE g = e /\ n = r + 1
      BY <1>5, <1>6, <3>2 DEF f
    <3>3. CASE g = e /\ n # r + 1
      <4>1. n \in 1..r
        BY <1>3, <1>5, <2>1, <3>3
      <4>. QED
        BY <1>1, <1>5, <3>3, <4>1 DEF OrderInv, DeliveredInOrder, r
    <3>. QED
      BY <3>1, <3>2, <3>3
  <2>. QED
    BY <1>1, <2>1 DEF DeliveredInOrder
<1>8. \A g \in Ends : Turns(g)'
  BY <1>1 DEF OrderInv, Turns
<1>9. ASSUME NEW u \in Readers PROVE Reading(u)' /\ Returning(u)'
  <2>1. u \in Tasks /\ End[u] \in Ends
    BY Sides DEF Readers
  <2>2. CASE End[u] = e
    <3>1. ~Holds(u)'
      BY <1>1, <1>2, <2>1, <2>2 DEF IInv, OneHolder, Holds, Direction, Readers, e
    <3>. QED
      BY <3>1 DEF Reading, Returning, Holds
  <2>3. CASE End[u] # e
    <3>1. u # t /\ Reading(u) /\ Returning(u)
      BY <2>3 DEF e, OrderInv
    <3>2. Got(End[u])' = Got(End[u]) /\ (HasBody(u)' <=> HasBody(u))
      BY <1>1, <1>5, <2>1, <2>3 DEF Got, HasBody
    <3>. QED
      BY <1>1, <1>2, <2>1, <3>1, <3>2 DEF Reading, Returning
  <2>. QED
    BY <2>2, <2>3
<1>10. ASSUME NEW g \in Ends PROVE AtBoundary(g)'
  <2>1. CASE g = e
    <3>1. Got(g)' = 2 * (r + 1)
      BY <1>5, <2>1 DEF Got
    <3>2. 2 * (r + 1) = taken[f]
      BY <1>3
    <3>. QED
      BY <1>1, <2>1, <3>1, <3>2 DEF AtBoundary, f
  <2>2. CASE g # e
    <3>1. NoReader(g)' <=> NoReader(g)
      BY <1>2, <2>2 DEF NoReader, Holds, Readers, e
    <3>. QED
      BY <1>1, <1>5, <2>2, <3>1 DEF AtBoundary, Got, OrderInv
  <2>. QED
    BY <2>1, <2>2
<1>. QED
  BY <1>7, <1>8, <1>9, <1>10 DEF OrderInv

LEMMA OrderStep == IInv /\ OrderInv /\ [Next]_vars => OrderInv'
<1>. SUFFICES ASSUME IInv, OrderInv, [Next]_vars PROVE OrderInv'
  OBVIOUS
<1>1. CASE UNCHANGED vars \/ \E e \in Ends : Drop(e)
  <2>1. UNCHANGED <<closed, pc, partial, outcome, stream, taken, received>>
    BY <1>1 DEF Drop, vars, wire
  <2>2. \A e \in Ends : Turns(e)' /\ AtBoundary(e)'
    BY <2>1 DEF OrderInv, Turns, AtBoundary, NoReader, Holds, Got
  <2>3. \A t \in Readers : Reading(t)' /\ Returning(t)'
    BY <2>1 DEF OrderInv, Reading, Returning, HasBody, Got
  <2>4. DeliveredInOrder'
    BY <2>1 DEF OrderInv, DeliveredInOrder
  <2>. QED
    BY <2>2, <2>3, <2>4 DEF OrderInv
<1>2. ASSUME NEW t \in Tasks, Call(t) \/ Step(t) \/ RefuseMessage(t) \/ Fault(t)
      PROVE  OrderInv'
  <2>1. CASE Write(t)
    BY <2>1, WriteKeepsOrder
  <2>2. CASE Read(t)
    BY <2>2, ReadKeepsOrder
  <2>3. CASE ReturnOk(t) /\ t \in Readers
    BY <2>3, DeliverKeepsOrder
  <2>. QED
    BY <1>2, <2>1, <2>2, <2>3, QuietSteps DEF Step
<1>. QED
  BY <1>1, <1>2 DEF Next

(* The frames come out as they went in: with any number of receivers that  *)
(* take turns at the mutex, none gets a frame again, out of its place or   *)
(* cut short, and none is skipped.                                         *)
THEOREM FramesInOrder == Spec => []DeliveredInOrder
<1>1. OrderInv => DeliveredInOrder
  BY DEF OrderInv
<1>. QED
  BY OrderInit, OrderStep, Invariance, <1>1, PTL DEF Spec

=============================================================================
