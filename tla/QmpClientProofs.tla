-------------------------- MODULE QmpClientProofs --------------------------
(***************************************************************************)
(* Proofs about QmpClient, for any timeout, any number of event names and  *)
(* any room on the connection.                                             *)
(*                                                                         *)
(* The argument: there is one request at a time and its id is new          *)
(* (Numbered, OneRequest), so that the reply the client accepts is the one *)
(* QEMU gave to the command of the present step, after it had executed it  *)
(* (Effects).  From savevm's reply on nothing replaces the snapshot.       *)
(***************************************************************************)
EXTENDS QmpClient, TLAPS

(* How many ids were given out before the command of a step. *)
Number == [greeting |-> 0, qmp_capabilities |-> 1, savevm |-> 2, loadvm |-> 3, done |-> 4]

Numbered ==
  /\ pc = "connect" => step = "greeting"
  /\ pc \in {"connect", "receive", "readline"} /\ step = "greeting" => nextId = 1
  /\ pc = "send" => step \in Commands /\ nextId = Number[step]
  /\ pc \in {"receive", "readline"} /\ step # "greeting" =>
       step \in Commands /\ nextId = Number[step] + 1
  /\ status = "running" <=> pc # "closed"
  /\ status = "ok" => step = "done"
  /\ step = "done" => pc = "closed"

(* The line answers the last request. *)
Answers(i) == incoming[i].kind = "reply" /\ incoming[i].id = nextId - 1

OneRequest ==
  /\ \A i \in 1..Len(incoming) : incoming[i].kind = "reply" => incoming[i].id < nextId
  /\ request # NoRequest =>
       /\ request.command = step /\ request.id = nextId - 1
       /\ pc \notin {"connect", "send"}
       /\ \A i \in 1..Len(incoming) : ~Answers(i)

(* What QEMU has done when its reply says so, and what it leaves so. *)
Effects ==
  /\ pc \in {"receive", "readline"} =>
       \A i \in 1..Len(incoming) :
         Answers(i) /\ incoming[i].result = "ok" =>
           /\ step = "savevm" => snapshot = "this_run"
           /\ step = "loadvm" => vm = "this_run"
  /\ step \in {"loadvm", "done"} => snapshot = "this_run"
  /\ step = "done" => vm = "this_run"
  /\ vm # "earlier"

IInv == TypeOK /\ Numbered /\ OneRequest /\ Effects

-----------------------------------------------------------------------------
(* The client. *)

(* The connection is made, or not.                                         *)
LEMMA ConnectStep ==
  ASSUME IInv, Connect
  PROVE  IInv'
<1>. TypeOK /\ Numbered /\ OneRequest /\ Effects
  BY DEF IInv
<1>. USE TimeoutAssumption, BoundsAssumption DEF clientVars, timeVars, qemuVars, Connect, Fail, Exit, NewDeadline
<1>1. TypeOK'
  BY DEF TypeOK, Commands
<1>2. Numbered'
  BY DEF Numbered
<1>3. OneRequest'
  BY DEF OneRequest, Answers
<1>4. Effects'
  BY DEF Effects, Answers, Numbered
<1>. QED
  BY <1>1, <1>2, <1>3, <1>4 DEF IInv

(* A request gets a new id, and nothing on its way has it.                 *)
LEMMA SendStep ==
  ASSUME IInv, Send
  PROVE  IInv'
<1>. TypeOK /\ Numbered /\ OneRequest /\ Effects
  BY DEF IInv
<1>. USE TimeoutAssumption, BoundsAssumption DEF clientVars, timeVars, qemuVars, Send, Fail, Exit, NewDeadline
<1>0. pc = "send" /\ step \in Commands /\ nextId \in 1..3 /\ request = NoRequest
  BY DEF Numbered, Number, OneRequest, Commands
<1>1. TypeOK'
  BY <1>0 DEF TypeOK, Request
<1>2. Numbered'
  BY <1>0 DEF Numbered, Commands
<1>3. OneRequest'
  <2>1. \A i \in 1..Len(incoming) : ~Answers(i)'
    BY <1>0 DEF OneRequest, Answers
  <2>2. \A i \in 1..Len(incoming) : incoming[i].kind = "reply" => incoming[i].id < nextId'
    <3>1. \A i \in 1..Len(incoming) : incoming[i].kind = "reply" => incoming[i].id \in 0..3
      BY DEF TypeOK, Line
    <3>. QED
      BY <1>0, <3>1 DEF OneRequest
  <2>3. request' # NoRequest =>
          request'.command = step' /\ request'.id = nextId' - 1 /\ pc' \notin {"connect", "send"}
    BY <1>0 DEF NoRequest
  <2>. QED
    BY <1>0, <2>1, <2>2, <2>3 DEF OneRequest
<1>4. Effects'
  BY <1>0 DEF Effects, OneRequest, Answers
<1>. QED
  BY <1>1, <1>2, <1>3, <1>4 DEF IInv

(* A readline begins, or the deadline is over.                             *)
LEMMA ReceiveStep ==
  ASSUME IInv, Receive
  PROVE  IInv'
<1>. TypeOK /\ Numbered /\ OneRequest /\ Effects
  BY DEF IInv
<1>. USE TimeoutAssumption, BoundsAssumption DEF clientVars, timeVars, qemuVars, Receive, Fail, Exit
<1>1. TypeOK'
  BY DEF TypeOK, Commands
<1>2. Numbered'
  BY DEF Numbered
<1>3. OneRequest'
  BY DEF OneRequest, Answers
<1>4. Effects'
  BY DEF Effects, Answers
<1>. QED
  BY <1>1, <1>2, <1>3, <1>4 DEF IInv

(* A readline goes on, or ends without a line.                             *)
LEMMA NoLineStep ==
  ASSUME IInv, ReadPart \/ ReadTimesOut \/ ReadEnds
  PROVE  IInv'
<1>. TypeOK /\ Numbered /\ OneRequest /\ Effects
  BY DEF IInv
<1>. USE TimeoutAssumption, BoundsAssumption DEF clientVars, timeVars, qemuVars, ReadPart, ReadTimesOut, ReadEnds, Fail, Exit
<1>1. TypeOK'
  BY DEF TypeOK, Commands
<1>2. Numbered'
  BY DEF Numbered
<1>3. OneRequest'
  BY DEF OneRequest, Answers
<1>4. Effects'
  BY DEF Effects, Answers
<1>. QED
  BY <1>1, <1>2, <1>3, <1>4 DEF IInv

(* A line is taken: what the step waited for, an event, or an error.       *)
LEMMA ReadLineStep ==
  ASSUME IInv, ReadLine
  PROVE  IInv'
<1>. TypeOK /\ Numbered /\ OneRequest /\ Effects
  BY DEF IInv
<1>a. /\ pc = "readline" /\ incoming # << >> /\ incoming' = Tail(incoming) /\ part' = 0
      /\ UNCHANGED <<nextId, budget, timer, request, up, snapshot, vm>>
  BY DEF ReadLine, qemuVars
<1>b. /\ incoming \in Seq(Line) /\ incoming' \in Seq(Line) /\ Len(incoming) <= Room
      /\ 1 \in 1..Len(incoming) /\ Len(incoming') = Len(incoming) - 1
      /\ \A i \in 1..Len(incoming') : i + 1 \in 1..Len(incoming) /\ incoming'[i] = incoming[i + 1]
      /\ Head(incoming) = incoming[1]
  BY <1>a DEF TypeOK
<1>c. \A i \in 1..Len(incoming') : Answers(i)' => Answers(i + 1)
  BY <1>a, <1>b DEF Answers
<1>d. part' \in 0..MaxParts - 1
  BY <1>a, BoundsAssumption
<1>3. OneRequest'
  <2>1. \A i \in 1..Len(incoming') : incoming'[i].kind = "reply" => incoming'[i].id < nextId'
    BY <1>a, <1>b DEF OneRequest
  <2>2. ASSUME request' # NoRequest
        PROVE  /\ request'.command = step' /\ request'.id = nextId' - 1
               /\ pc' \notin {"connect", "send"}
               /\ \A i \in 1..Len(incoming') : ~Answers(i)'
    <3>1. request.command = step /\ step \in Commands /\ ~Answers(1)
      BY <1>a, <1>b, <2>2 DEF OneRequest, TypeOK, Request
    <3>2. ~Expected(Head(incoming))
      BY <1>b, <3>1 DEF Expected, Answers, Commands
    <3>3. step' = step /\ pc' \in {"receive", "closed"}
      BY <3>2 DEF ReadLine, HandleEvent, Fail, Exit
    <3>. QED
      BY <1>a, <1>b, <1>c, <2>2, <3>1, <3>3 DEF OneRequest
  <2>. QED
    BY <2>1, <2>2 DEF OneRequest
<1>4. CASE Head(incoming).kind = "event" /\ step # "greeting"
  <2>0. RecordEvent /\ pc' = "receive" /\ UNCHANGED <<step, status, left, elapsed>>
    BY <1>4 DEF ReadLine, HandleEvent
  <2>1. TypeOK'
    BY <1>a, <1>b, <1>d, <2>0, BoundsAssumption DEF TypeOK, RecordEvent
  <2>2. Numbered'
    BY <1>a, <2>0 DEF Numbered
  <2>4. Effects'
    BY <1>a, <1>b, <1>c, <2>0 DEF Effects
  <2>. QED
    BY <1>3, <2>1, <2>2, <2>4 DEF IInv
<1>5. CASE /\ ~(Head(incoming).kind = "event" /\ step # "greeting")
           /\ ~Expected(Head(incoming))
  <2>0. /\ status' = "failed" /\ pc' = "closed"
        /\ UNCHANGED <<step, events, left, elapsed>>
    BY <1>5 DEF ReadLine, Fail, Exit
  <2>1. TypeOK'
    BY <1>a, <1>b, <1>d, <2>0, BoundsAssumption DEF TypeOK
  <2>2. Numbered'
    BY <1>a, <2>0 DEF Numbered
  <2>4. Effects'
    BY <1>a, <2>0 DEF Effects
  <2>. QED
    BY <1>3, <2>1, <2>2, <2>4 DEF IInv
<1>6. CASE /\ ~(Head(incoming).kind = "event" /\ step # "greeting")
           /\ Expected(Head(incoming))
  <2>a. Proceed /\ UNCHANGED <<events, left, elapsed>>
    BY <1>6 DEF ReadLine
  <2>b. \/ step = "greeting" /\ nextId = 1
        \/ /\ step \in Commands /\ nextId = Number[step] + 1
           /\ Answers(1) /\ incoming[1].result = "ok"
    BY <1>a, <1>b, <1>6 DEF Expected, Accepts, Answers, Numbered, Commands
  <2>0. \/ /\ step = "greeting" /\ step' = "qmp_capabilities" /\ pc' = "send"
           /\ UNCHANGED status /\ nextId = 1
        \/ /\ step = "qmp_capabilities" /\ step' = "savevm" /\ pc' = "send"
           /\ UNCHANGED status /\ nextId = 2
        \/ /\ step = "savevm" /\ step' = "loadvm" /\ pc' = "send"
           /\ UNCHANGED status /\ nextId = 3 /\ snapshot = "this_run"
        \/ /\ step = "loadvm" /\ step' = "done" /\ pc' = "closed"
           /\ status' = "ok" /\ nextId = 4 /\ snapshot = "this_run" /\ vm = "this_run"
    BY <1>a, <1>b, <2>a, <2>b DEF Proceed, Following, Exit, Number, Commands, Effects
  <2>1. TypeOK'
    BY <1>a, <1>b, <1>d, <2>a, <2>0, BoundsAssumption DEF TypeOK, Commands
  <2>2. Numbered'
    BY <1>a, <2>0 DEF Numbered, Number, Commands
  <2>4. Effects'
    BY <1>a, <2>0 DEF Effects
  <2>. QED
    BY <1>3, <2>1, <2>2, <2>4 DEF IInv
<1>. QED
  BY <1>4, <1>5, <1>6
-----------------------------------------------------------------------------
(* Time, and QEMU. *)

(* Time passes.                                                            *)
LEMMA TickStep ==
  ASSUME IInv, Tick
  PROVE  IInv'
<1>. TypeOK /\ Numbered /\ OneRequest /\ Effects
  BY DEF IInv
<1>. USE TimeoutAssumption, BoundsAssumption DEF clientVars, timeVars, qemuVars, Tick
<1>1. TypeOK'
  BY DEF TypeOK, Commands
<1>2. Numbered'
  BY DEF Numbered
<1>3. OneRequest'
  BY DEF OneRequest, Answers
<1>4. Effects'
  BY DEF Effects, Answers
<1>. QED
  BY <1>1, <1>2, <1>3, <1>4 DEF IInv

(* A line that answers nothing.                                            *)
LEMMA SpeakStep ==
  ASSUME IInv, Speak
  PROVE  IInv'
<1>. TypeOK /\ Numbered /\ OneRequest /\ Effects
  BY DEF IInv
<1>a. UNCHANGED <<clientVars, timeVars, qemuVars>>
  BY DEF Speak
<1>. USE <1>a DEF clientVars, timeVars, qemuVars
<1>b. PICK line \in Line : /\ incoming' = Append(incoming, line)
                           /\ Len(incoming) < Room
                           /\ line.kind = "reply" => line.id = 0
  <2>1. CASE \E k \in {"greeting", "event", "malformed"} : Say([kind |-> k])
    <3>1. PICK k \in {"greeting", "event", "malformed"} : Say([kind |-> k])
      BY <2>1
    <3>2. [kind |-> k] \in Line /\ [kind |-> k].kind # "reply"
      BY DEF Line
    <3>. QED
      BY <3>1, <3>2 DEF Say
  <2>2. CASE \E r \in Results : Say([kind |-> "reply", id |-> 0, result |-> r])
    <3>1. PICK r \in Results : Say([kind |-> "reply", id |-> 0, result |-> r])
      BY <2>2
    <3>2. [kind |-> "reply", id |-> 0, result |-> r] \in Line
      BY DEF Line
    <3>. QED
      BY <3>1, <3>2 DEF Say
  <2>. QED
    BY <2>1, <2>2 DEF Speak
<1>c. /\ incoming \in Seq(Line) /\ incoming' \in Seq(Line)
      /\ Len(incoming') = Len(incoming) + 1 /\ Len(incoming') <= Room
      /\ \A i \in 1..Len(incoming) : incoming'[i] = incoming[i]
      /\ incoming'[Len(incoming) + 1] = line
  BY <1>b, BoundsAssumption DEF TypeOK
<1>1. TypeOK'
  BY <1>c DEF TypeOK
<1>2. Numbered'
  BY DEF Numbered
<1>d. \A i \in 1..Len(incoming') : Answers(i)' =>
        (i \in 1..Len(incoming) /\ Answers(i)) \/ nextId = 1
  BY <1>b, <1>c DEF Answers, TypeOK
<1>3. OneRequest'
  <2>1. request # NoRequest => nextId # 1
    BY DEF OneRequest, TypeOK, Request
  <2>2. \A i \in 1..Len(incoming') : incoming'[i].kind = "reply" => incoming'[i].id < nextId
    BY <1>b, <1>c DEF OneRequest, TypeOK
  <2>. QED
    BY <1>d, <2>1, <2>2 DEF OneRequest
<1>4. Effects'
  <2>1. pc \in {"receive", "readline"} /\ step \in {"savevm", "loadvm"} => nextId # 1
    BY DEF Numbered, Number
  <2>. QED
    BY <1>c, <1>d, <2>1 DEF Effects
<1>. QED
  BY <1>1, <1>2, <1>3, <1>4 DEF IInv

(* The reply to the request, after its effect.                             *)
LEMMA ExecuteStep ==
  ASSUME IInv, Execute
  PROVE  IInv'
<1>. TypeOK /\ Numbered /\ OneRequest /\ Effects
  BY DEF IInv
<1>a. /\ UNCHANGED <<clientVars, timeVars, up>>
      /\ request # NoRequest /\ request' = NoRequest
  BY DEF Execute, Answer
<1>. USE <1>a DEF clientVars, timeVars
<1>e. /\ request \in Request /\ request.command = step /\ request.id = nextId - 1
      /\ pc \notin {"connect", "send"}
      /\ \A i \in 1..Len(incoming) : ~Answers(i)
  BY DEF OneRequest, TypeOK
<1>b. PICK line \in Line : /\ incoming' = Append(incoming, line)
                           /\ Len(incoming) < Room
                           /\ line.kind = "reply" /\ line.id = request.id
                           /\ line.result = "ok" =>
                                /\ request.command = "savevm" => snapshot' = "this_run"
                                /\ request.command = "loadvm" => vm' = snapshot
  <2>1. request.id \in 0..3
    <3>1. request \in Request
      BY <1>e
    <3>2. request.id \in 1..3
      BY <3>1 DEF Request
    <3>. QED
      BY <3>2
  <2>2. PICK r \in Results :
          /\ Answer(r)
          /\ r = "ok" => /\ request.command = "savevm" => snapshot' = "this_run"
                         /\ request.command = "loadvm" => vm' = snapshot
    BY DEF Execute, Results
  <2>3. [kind |-> "reply", id |-> request.id, result |-> r] \in Line
    BY <2>1 DEF Line
  <2>. QED
    BY <2>2, <2>3 DEF Answer, Say
<1>c. /\ incoming \in Seq(Line) /\ incoming' \in Seq(Line)
      /\ Len(incoming') = Len(incoming) + 1 /\ Len(incoming') <= Room
      /\ \A i \in 1..Len(incoming) : incoming'[i] = incoming[i]
      /\ incoming'[Len(incoming) + 1] = line
  BY <1>b, BoundsAssumption DEF TypeOK
<1>f. /\ snapshot' \in Contents /\ vm' \in Contents
      /\ request.command # "savevm" => snapshot' = snapshot
      /\ vm' = vm \/ (request.command = "loadvm" /\ vm' = snapshot)
  BY DEF Execute, TypeOK, Contents
<1>1. TypeOK'
  BY <1>c, <1>f DEF TypeOK
<1>2. Numbered'
  BY DEF Numbered
<1>3. OneRequest'
  BY <1>b, <1>c, <1>e DEF OneRequest, TypeOK
<1>4. Effects'
  <2>1. \A i \in 1..Len(incoming') : Answers(i)' => incoming'[i] = line
    BY <1>c, <1>e DEF Answers
  <2>2. step = "loadvm" => snapshot = "this_run"
    BY DEF Effects
  <2>3. step \in Commands
    BY <1>e DEF Request
  <2>. QED
    BY <1>b, <1>e, <1>f, <2>1, <2>2, <2>3 DEF Effects, Commands
<1>. QED
  BY <1>1, <1>2, <1>3, <1>4 DEF IInv

(* QEMU closes the connection.                                             *)
LEMMA HangUpStep ==
  ASSUME IInv, HangUp
  PROVE  IInv'
<1>. TypeOK /\ Numbered /\ OneRequest /\ Effects
  BY DEF IInv
<1>. USE TimeoutAssumption, BoundsAssumption DEF clientVars, timeVars, qemuVars, HangUp
<1>1. TypeOK'
  BY DEF TypeOK, Commands
<1>2. Numbered'
  BY DEF Numbered
<1>3. OneRequest'
  BY DEF OneRequest, Answers
<1>4. Effects'
  BY DEF Effects, Answers
<1>. QED
  BY <1>1, <1>2, <1>3, <1>4 DEF IInv

-----------------------------------------------------------------------------
(* The theorems. *)

LEMMA InitIInv == Init => IInv
<1>. SUFFICES ASSUME Init PROVE IInv
  OBVIOUS
<1>. USE TimeoutAssumption, BoundsAssumption DEF Init
<1>1. TypeOK
  BY DEF TypeOK, Contents
<1>2. Numbered /\ OneRequest /\ Effects
  BY DEF Numbered, OneRequest, Effects, Commands
<1>. QED
  BY <1>1, <1>2 DEF IInv

LEMMA NextStep == IInv /\ [Next]_vars => IInv'
<1>1. IInv /\ UNCHANGED vars => IInv'
  BY DEF IInv, vars, clientVars, timeVars, qemuVars, TypeOK, Numbered, OneRequest, Effects, Answers
<1>. QED
  BY <1>1, ConnectStep, SendStep, ReceiveStep, NoLineStep, ReadLineStep, TickStep, SpeakStep,
     ExecuteStep, HangUpStep DEF Next, Step

(* The inductive invariant, of which the others are consequences. *)
THEOREM Invariance == Spec => []IInv
  BY InitIInv, NextStep, PTL DEF Spec

(* Exit status 0 means that this run saved the VM and loaded it again.     *)
THEOREM RoundTrip == Spec => []OkMeansRoundTrip
<1>1. IInv => OkMeansRoundTrip
  BY DEF IInv, Numbered, Effects, OkMeansRoundTrip
<1>. QED
  BY <1>1, Invariance, PTL

(* The client never has an earlier snapshot loaded.                        *)
THEOREM NoRollBack == Spec => []LoadsOwnSnapshot
<1>1. IInv => LoadsOwnSnapshot
  BY DEF IInv, Effects, LoadsOwnSnapshot
<1>. QED
  BY <1>1, Invariance, PTL

(* Type correctness of qmp-smoke.py, with at most MaxEvents names kept.    *)
THEOREM TypeCorrectness == Spec => []TypeOK
<1>1. IInv => TypeOK
  BY DEF IInv
<1>. QED
  BY <1>1, Invariance, PTL
=============================================================================
