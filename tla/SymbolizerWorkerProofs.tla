----------------------- MODULE SymbolizerWorkerProofs -----------------------
(***************************************************************************)
(* Proofs about SymbolizerWorker, for every set of calls and every queue   *)
(* capacity, 0 included.                                                   *)
(*                                                                         *)
(* The argument: LifecycleAtControl ties the shared lifecycle to where the *)
(* worker thread is, RequestCustody says who holds each request, and       *)
(* StopHasCause who may have stopped the worker.  None of the three is     *)
(* inductive without the others, and together with the properties they     *)
(* make the inductive invariant IInv.  Each property then follows from     *)
(* IInv, or is a part of it.                                               *)
(*                                                                         *)
(* That the worker implements the service of SymbolizeService is shown     *)
(* step by step from IInv and ToldWhy: a caller who is refused is refused  *)
(* by a worker that will serve nobody any more, and told why it ended.     *)
(***************************************************************************)
EXTENDS SymbolizerWorker, TLAPS

-----------------------------------------------------------------------------
(* The initial states. *)

(* A worker that is being spawned is of the right types.                   *)
LEMMA InitTypeOK == Init => TypeOK
<1>. SUFFICES ASSUME Init PROVE TypeOK
  OBVIOUS
<1>1. /\ lifecycle \in WorkerState
      /\ wpc \in WorkerPC
      /\ current \in Calls \union {NoCall}
      /\ rejectWith \in StopErrors
  BY DEF Init, WorkerState, WorkerPC, StopErrors
<1>2. queue \in Seq(Calls)
  BY DEF Init
<1>3. reply \in [Calls -> Replies \union {"unsent", "dropped"}]
  BY DEF Init
<1>4. /\ pc \in [Calls -> {"idle", "checked", "waiting", "returned", "dropped"}]
      /\ outcome \in [Calls -> Outcomes \union {"none"}]
  BY DEF Init
<1>5. /\ unwinding \in BOOLEAN
      /\ requested \in BOOLEAN
      /\ signalled \in BOOLEAN
  BY DEF Init
<1>6. /\ initialized \in {"waiting", "ok", "error", "dropped"}
      /\ hpc \in {"spawning", "held", "requested", "joining", "dropping", "closed"}
      /\ handleResult \in StopErrors \union {"none", "ok", "shutdown_timeout", "init_error"}
  BY DEF Init
<1>. QED
  BY <1>1, <1>2, <1>3, <1>4, <1>5, <1>6 DEF TypeOK

(* A worker that is being spawned satisfies the inductive invariant.       *)
LEMMA InitIInv == Init => IInv
<1>. SUFFICES ASSUME Init PROVE IInv
  OBVIOUS
<1>1. TypeOK
  BY InitTypeOK
<1>2. LifecycleAtControl
  BY DEF Init, LifecycleAtControl
<1>3. RequestCustody /\ ReplyNeverBlocks /\ AcceptedRequestOwned
  BY DEF Init, RequestCustody, ReplyNeverBlocks, AcceptedRequestOwned, ReceiverDropped
<1>4. StopHasCause
  BY DEF Init, StopHasCause, Terminal
<1>5. ClosedChannelExplained /\ ShutdownOkQuiescent /\ EarlyStopExplained
  BY DEF Init, ClosedChannelExplained, ShutdownOkQuiescent, EarlyStopExplained, ReceiverDropped
<1>. QED
  BY <1>1, <1>2, <1>3, <1>4, <1>5 DEF IInv

-----------------------------------------------------------------------------
(* The steps of the worker thread. *)

(* The request at the head of the channel leaves it: everybody else in the *)
(* channel is still there.                                                 *)
LEMMA TailKeepsOthers ==
  ASSUME TypeOK, queue # << >>, queue' = Tail(queue),
         NEW c \in Calls, InQueue(c), c # Head(queue)
  PROVE  InQueue(c)'
<1>1. PICK i \in 1..Len(queue) : queue[i] = c
  BY DEF InQueue
<1>2. i # 1
  BY <1>1 DEF TypeOK
<1>3. i - 1 \in 1..Len(queue') /\ queue'[i - 1] = c
  BY <1>1, <1>2 DEF TypeOK
<1>. QED
  BY <1>3 DEF InQueue

(* Every step of the worker thread, from the factory to its end, keeps the *)
(* inductive invariant.                                                    *)
LEMMA WorkerStep == IInv /\ Worker => IInv'
<1>. SUFFICES ASSUME IInv, Worker PROVE IInv'
  OBVIOUS
<1>. USE CapacityAssumption, NoCallAssumption
    DEF IInv, TypeOK, LifecycleAtControl, RequestCustody, StopHasCause, ReplyNeverBlocks,
    AcceptedRequestOwned, ClosedChannelExplained, ShutdownOkQuiescent, EarlyStopExplained,
    ReceiverDropped, Finished, Spawned, AllClientsDropped, InQueue,
    workerVars, callVars, handleVars, vars,
    WorkerState, Terminal, WorkerPC, BackendResults, StopErrors, Replies, Outcomes,
    TerminalError, RequestShutdown, IsShutdownRequested, MarkStopped, FinishRequest, Answer
<1>1. CASE FactorySucceeds
  BY <1>1 DEF FactorySucceeds
<1>2. CASE FactoryFails
  <2>1. TypeOK' /\ LifecycleAtControl' /\ RequestCustody' /\ ReplyNeverBlocks'
    BY <1>2 DEF FactoryFails
  <2>2. AcceptedRequestOwned' /\ ClosedChannelExplained' /\ ShutdownOkQuiescent' /\ EarlyStopExplained'
    BY <1>2 DEF FactoryFails
  <2>3. hpc' = "spawning" /\ handleResult' = "none" /\ wpc' = "return"
    BY <1>2 DEF FactoryFails
  <2>4. StopHasCause'
    BY <1>2, <2>3 DEF FactoryFails
  <2>. QED
    BY <2>1, <2>2, <2>4
<1>3. CASE FactoryPanics
  <2>1. TypeOK' /\ LifecycleAtControl' /\ RequestCustody' /\ ReplyNeverBlocks'
    BY <1>3 DEF FactoryPanics
  <2>2. AcceptedRequestOwned' /\ ClosedChannelExplained' /\ ShutdownOkQuiescent' /\ EarlyStopExplained'
    BY <1>3 DEF FactoryPanics
  <2>3. hpc' = "spawning" /\ handleResult' = "none" /\ wpc' = "return"
    BY <1>3 DEF FactoryPanics
  <2>4. StopHasCause'
    BY <1>3, <2>3 DEF FactoryPanics
  <2>. QED
    BY <2>1, <2>2, <2>4
<1>4. CASE PollShutdown
  BY <1>4 DEF PollShutdown
<1>5. CASE CheckShutdown
  BY <1>5 DEF CheckShutdown
<1>6. CASE ReceiveRequest
  <2>1. TypeOK' /\ LifecycleAtControl' /\ RequestCustody' /\ StopHasCause'
    BY <1>6 DEF ReceiveRequest
  <2>2. ReplyNeverBlocks'
    BY <1>6 DEF ReceiveRequest
  <2>3. AcceptedRequestOwned'
    <3>1. SUFFICES ASSUME NEW c \in Calls, pc[c] = "waiting", reply[c] = "unsent"
                   PROVE  InQueue(c)' \/ current' = c
      BY <1>6 DEF ReceiveRequest
    <3>2. InQueue(c)
      BY <1>6, <3>1 DEF ReceiveRequest
    <3>. QED
      BY <1>6, <3>2, TailKeepsOthers DEF ReceiveRequest
  <2>4. ClosedChannelExplained' /\ ShutdownOkQuiescent' /\ EarlyStopExplained'
    BY <1>6 DEF ReceiveRequest
  <2>. QED
    BY <2>1, <2>2, <2>3, <2>4
<1>7. CASE ReceiveTimesOut
  BY <1>7 DEF ReceiveTimesOut
<1>8. CASE ReceiveDisconnected
  BY <1>8 DEF ReceiveDisconnected
<1>9. CASE BeginRequest
  BY <1>9 DEF BeginRequest
<1>10. CASE RefuseRequest
  BY <1>10 DEF RefuseRequest
<1>11. CASE BackendReturns
  BY <1>11 DEF BackendReturns
<1>12. CASE BackendHangs
  BY <1>12 DEF BackendHangs
<1>13. CASE BackendPanics
  BY <1>13 DEF BackendPanics
<1>14. CASE ReplyPanic
  BY <1>14 DEF ReplyPanic
<1>15. CASE FinishExecution
  BY <1>15 DEF FinishExecution
<1>16. CASE RejectPending
  <2>1. TypeOK' /\ LifecycleAtControl' /\ RequestCustody' /\ StopHasCause'
    BY <1>16 DEF RejectPending
  <2>2. ReplyNeverBlocks'
    BY <1>16 DEF RejectPending
  <2>3. ClosedChannelExplained' /\ ShutdownOkQuiescent' /\ EarlyStopExplained'
    BY <1>16 DEF RejectPending
  <2>4. AcceptedRequestOwned'
    <3>1. SUFFICES ASSUME NEW c \in Calls, pc[c] = "waiting", reply'[c] = "unsent"
                   PROVE  InQueue(c)' \/ current = c
      BY <1>16 DEF RejectPending
    <3>2. reply[c] = "unsent" /\ c # Head(queue)
      BY <1>16, <3>1 DEF RejectPending
    <3>3. CASE current = c
      BY <3>3
    <3>4. CASE InQueue(c)
      BY <1>16, <3>2, <3>4, TailKeepsOthers DEF RejectPending
    <3>. QED
      BY <3>1, <3>2, <3>3, <3>4
  <2>. QED
    BY <2>1, <2>2, <2>3, <2>4
<1>17. CASE DrainEnds
  BY <1>17 DEF DrainEnds
<1>18. CASE StopWorker
  BY <1>18 DEF StopWorker
<1>19. CASE DropReceiver
  BY <1>19 DEF DropReceiver
<1>20. CASE ThreadEnds
  BY <1>20 DEF ThreadEnds
<1>. QED
  BY <1>1, <1>2, <1>3, <1>4, <1>5, <1>6, <1>7, <1>8, <1>9, <1>10, <1>11, <1>12, <1>13, <1>14, <1>15, <1>16, <1>17, <1>18, <1>19, <1>20 DEF Worker

-----------------------------------------------------------------------------
(* The steps of a call. *)

(* Every step of a caller, from the check of the lifecycle to its answer,  *)
(* and the drop of a client keep the inductive invariant.                  *)
LEMMA CallStep ==
  ASSUME IInv, NEW c \in Calls, Call(c) \/ DropClient(c)
  PROVE  IInv'
<1>. USE CapacityAssumption, NoCallAssumption
    DEF IInv, TypeOK, LifecycleAtControl, RequestCustody, StopHasCause, ReplyNeverBlocks,
    AcceptedRequestOwned, ClosedChannelExplained, ShutdownOkQuiescent, EarlyStopExplained,
    ReceiverDropped, Finished, Spawned, AllClientsDropped, InQueue,
    workerVars, callVars, handleVars, vars,
    WorkerState, Terminal, WorkerPC, BackendResults, StopErrors, Replies, Outcomes,
    TerminalError, RequestShutdown, IsShutdownRequested, MarkStopped, FinishRequest, Return, HasRoom
<1>1. CASE CheckLifecycle(c)
  BY <1>1 DEF CheckLifecycle
<1>2. CASE SendAccepted(c)
  BY <1>2 DEF SendAccepted
<1>3. CASE SendFull(c)
  BY <1>3 DEF SendFull
<1>4. CASE SendDisconnected(c)
  BY <1>4 DEF SendDisconnected
<1>5. CASE ReceiveReply(c)
  BY <1>5 DEF ReceiveReply
<1>6. CASE CallTimesOut(c)
  BY <1>6 DEF CallTimesOut
<1>7. CASE ReplyDisconnected(c)
  BY <1>7 DEF ReplyDisconnected
<1>8. CASE DropClient(c)
  BY <1>8 DEF DropClient
<1>. QED
  BY <1>1, <1>2, <1>3, <1>4, <1>5, <1>6, <1>7, <1>8 DEF Call

-----------------------------------------------------------------------------
(* The steps of the owner of the handle. *)

(* request_shutdown, whoever calls it, leaves the lifecycle consistent     *)
(* with where the worker is.                                               *)
LEMMA RequestKeepsControl ==
  ASSUME IInv, BeginShutdown \/ DropHandle
  PROVE  LifecycleAtControl'
<1>1. /\ TypeOK /\ LifecycleAtControl /\ wpc # "factory"
      /\ lifecycle' = RequestShutdown(lifecycle)
      /\ wpc' = wpc /\ unwinding' = unwinding
  BY DEF IInv, StopHasCause, BeginShutdown, DropHandle, workerVars
<1>2. CASE lifecycle \in {"Running", "Executing"}
  <2>1. lifecycle' = "ShutdownRequested"
    BY <1>1, <1>2 DEF RequestShutdown
  <2>2. unwinding = FALSE
    BY <1>1, <1>2 DEF LifecycleAtControl, TypeOK
  <2>3. wpc \notin {"return", "rx_dropped", "finished"}
    BY <1>1, <1>2, <2>2 DEF LifecycleAtControl
  <2>. QED
    BY <1>1, <2>1, <2>2, <2>3 DEF LifecycleAtControl, TypeOK, WorkerPC
<1>3. CASE lifecycle \notin {"Running", "Executing"}
  <2>1. lifecycle' = lifecycle
    BY <1>1, <1>3 DEF RequestShutdown
  <2>. QED
    BY <1>1, <2>1 DEF LifecycleAtControl
<1>. QED
  BY <1>2, <1>3

(* Every step of the owner, in shutdown() or in drop, keeps the inductive  *)
(* invariant.                                                              *)
LEMMA HandleStep == IInv /\ (HandleFinishes \/ BeginShutdown \/ DropHandle) => IInv'
<1>. SUFFICES ASSUME IInv, HandleFinishes \/ BeginShutdown \/ DropHandle PROVE IInv'
  OBVIOUS
<1>. USE CapacityAssumption, NoCallAssumption
    DEF IInv, TypeOK, LifecycleAtControl, RequestCustody, StopHasCause, ReplyNeverBlocks,
    AcceptedRequestOwned, ClosedChannelExplained, ShutdownOkQuiescent, EarlyStopExplained,
    ReceiverDropped, Finished, Spawned, AllClientsDropped, InQueue,
    workerVars, callVars, handleVars, vars,
    WorkerState, Terminal, WorkerPC, BackendResults, StopErrors, Replies, Outcomes,
    TerminalError, RequestShutdown, IsShutdownRequested, MarkStopped, FinishRequest
<1>1. CASE SpawnSucceeds
  BY <1>1 DEF SpawnSucceeds
<1>2. CASE SpawnFails
  BY <1>2 DEF SpawnFails
<1>3. CASE SendShutdown
  BY <1>3 DEF SendShutdown
<1>4. CASE JoinFinished
  BY <1>4 DEF JoinFinished
<1>5. CASE ShutdownTimesOut
  BY <1>5 DEF ShutdownTimesOut
<1>6. CASE DropSends
  BY <1>6 DEF DropSends
<1>7. CASE BeginShutdown
  <2>1. TypeOK' /\ RequestCustody' /\ StopHasCause' /\ ReplyNeverBlocks'
    <3>1. TypeOK' /\ RequestCustody' /\ ReplyNeverBlocks'
      BY <1>7 DEF BeginShutdown
    <3>2. StopHasCause'
      BY <1>7 DEF BeginShutdown
    <3>. QED
      BY <3>1, <3>2
  <2>2. AcceptedRequestOwned' /\ ClosedChannelExplained' /\ ShutdownOkQuiescent' /\ EarlyStopExplained'
    BY <1>7 DEF BeginShutdown
  <2>3. LifecycleAtControl'
    BY <1>7, RequestKeepsControl DEF BeginShutdown
  <2>. QED
    BY <2>1, <2>2, <2>3
<1>8. CASE DropHandle
  <2>1. TypeOK' /\ RequestCustody' /\ StopHasCause' /\ ReplyNeverBlocks'
    BY <1>8 DEF DropHandle
  <2>2. AcceptedRequestOwned' /\ ClosedChannelExplained' /\ ShutdownOkQuiescent' /\ EarlyStopExplained'
    BY <1>8 DEF DropHandle
  <2>3. LifecycleAtControl'
    BY <1>8, RequestKeepsControl DEF DropHandle
  <2>. QED
    BY <2>1, <2>2, <2>3
<1>. QED
  BY <1>1, <1>2, <1>3, <1>4, <1>5, <1>6, <1>7, <1>8 DEF HandleFinishes

(* A step that changes nothing keeps the inductive invariant.              *)
LEMMA StutterStep == IInv /\ UNCHANGED vars => IInv'
<1>. USE CapacityAssumption, NoCallAssumption
    DEF IInv, TypeOK, LifecycleAtControl, RequestCustody, StopHasCause, ReplyNeverBlocks,
    AcceptedRequestOwned, ClosedChannelExplained, ShutdownOkQuiescent, EarlyStopExplained,
    ReceiverDropped, Finished, Spawned, AllClientsDropped, InQueue,
    workerVars, callVars, handleVars, vars,
    WorkerState, Terminal, WorkerPC, BackendResults, StopErrors, Replies, Outcomes,
    TerminalError, RequestShutdown, IsShutdownRequested, MarkStopped, FinishRequest
<1>. QED
  OBVIOUS

-----------------------------------------------------------------------------
(* The theorems. *)

(* IInv holds in every reachable state of the worker and its users. *)
THEOREM Invariance == Spec => []IInv
<1>1. IInv /\ [Next]_vars => IInv'
  BY WorkerStep, CallStep, HandleStep, StutterStep DEF Next
<1>. QED
  BY InitIInv, <1>1, PTL DEF Spec

(* Every variable keeps its type. *)
THEOREM TypeCorrectness == Spec => []TypeOK
<1>1. IInv => TypeOK
  BY DEF IInv
<1>. QED
  BY Invariance, <1>1, PTL

(* begin_request and finish_request never reach an unreachable!() arm. *)
THEOREM NoUnreachableArm == Spec => []UnreachableArms
<1>1. IInv => UnreachableArms
  BY DEF IInv, LifecycleAtControl, UnreachableArms
<1>. QED
  BY Invariance, <1>1, PTL

(* The worker answers each request at most once, so no reply blocks it. *)
THEOREM RepliesNeverBlock == Spec => []ReplyNeverBlocks
<1>1. IInv => ReplyNeverBlocks
  BY DEF IInv
<1>. QED
  BY Invariance, <1>1, PTL

(* An accepted request whose caller waits is never lost track of. *)
THEOREM RequestsAreOwned == Spec => []AcceptedRequestOwned
<1>1. IInv => AcceptedRequestOwned
  BY DEF IInv
<1>. QED
  BY Invariance, <1>1, PTL

(* A closed channel always comes with its reason in the lifecycle. *)
THEOREM ClosedChannelsExplained == Spec => []ClosedChannelExplained
<1>1. IInv => ClosedChannelExplained
  BY DEF IInv
<1>. QED
  BY Invariance, <1>1, PTL

(* An Ok from shutdown() means that the thread is gone and nobody waits. *)
THEOREM ShutdownOkIsQuiescent == Spec => []ShutdownOkQuiescent
<1>1. IInv => ShutdownOkQuiescent
  BY DEF IInv
<1>. QED
  BY Invariance, <1>1, PTL

(* shutdown() reports an early stop only if every client was dropped. *)
THEOREM EarlyStopsExplained == Spec => []EarlyStopExplained
<1>1. IInv => EarlyStopExplained
  BY DEF IInv
<1>. QED
  BY Invariance, <1>1, PTL

(* No step of any thread takes a requested stop back. *)
THEOREM StopStays == Spec => StopIsFinal
<1>1. IInv /\ [Next]_vars => [(lifecycle \in Terminal) => (lifecycle' \in Terminal)]_lifecycle
  <2>. SUFFICES ASSUME IInv, [Next]_vars, lifecycle \in Terminal
                PROVE  lifecycle' \in Terminal \/ lifecycle' = lifecycle
    OBVIOUS
  <2>1. CASE Worker
    <3>1. BeginRequest => FALSE
      BY DEF BeginRequest, Terminal
    <3>. QED
      BY <2>1, <3>1 DEF Worker, FactorySucceeds, FactoryFails, FactoryPanics, PollShutdown,
         CheckShutdown, ReceiveRequest, ReceiveTimesOut, ReceiveDisconnected, RefuseRequest,
         BackendReturns, BackendHangs, BackendPanics, ReplyPanic, FinishExecution, RejectPending,
         DrainEnds, StopWorker, DropReceiver, ThreadEnds, Terminal, RequestShutdown, MarkStopped,
         FinishRequest
  <2>2. ASSUME NEW c \in Calls, Call(c) \/ DropClient(c) PROVE lifecycle' = lifecycle
    BY <2>2 DEF Call, CheckLifecycle, SendAccepted, SendFull, SendDisconnected, ReceiveReply,
       CallTimesOut, ReplyDisconnected, DropClient
  <2>3. CASE HandleFinishes \/ BeginShutdown \/ DropHandle
    BY <2>3 DEF HandleFinishes, SpawnSucceeds, SpawnFails, SendShutdown, JoinFinished,
       ShutdownTimesOut, DropSends, BeginShutdown, DropHandle, RequestShutdown, Terminal
  <2>4. CASE UNCHANGED vars
    BY <2>4 DEF vars
  <2>. QED
    BY <2>1, <2>2, <2>3, <2>4 DEF Next
<1>. QED
  BY Invariance, <1>1, PTL DEF Spec, StopIsFinal

-----------------------------------------------------------------------------
(* The rendezvous. *)

(* With no buffer a request is in the channel only while the worker waits  *)
(* for one, and then it is alone there.                                    *)
Rendezvous ==
  /\ Len(queue) <= 1
  /\ wpc # "recv" => queue = << >>
  /\ \A c \in Calls : reply[c] # "dropped"

(* Nothing is in the channel before the worker runs. *)
LEMMA InitRendezvous == Init => Rendezvous
  BY DEF Init, Rendezvous

(* A worker takes the only request when it stops waiting, so that none is  *)
(* in the channel when the receiver goes.                                  *)
LEMMA WorkerKeepsRendezvous ==
  ASSUME IInv, Rendezvous, Worker PROVE Rendezvous'
<1>. TypeOK
  BY DEF IInv
<1>1. CASE FactorySucceeds \/ FactoryFails \/ FactoryPanics
  BY <1>1 DEF FactorySucceeds, FactoryFails, FactoryPanics, Rendezvous
<1>2. CASE PollShutdown \/ CheckShutdown \/ ReceiveTimesOut \/ ReceiveDisconnected
  BY <1>2 DEF PollShutdown, CheckShutdown, ReceiveTimesOut, ReceiveDisconnected, Rendezvous
<1>3. CASE ReceiveRequest
  <2>1. queue \in Seq(Calls) /\ queue # << >> /\ Len(queue) <= 1
    BY <1>3 DEF ReceiveRequest, Rendezvous, TypeOK
  <2>2. Tail(queue) = << >>
    BY <2>1
  <2>. QED
    BY <1>3, <2>2 DEF ReceiveRequest, Rendezvous
<1>4. CASE BeginRequest \/ BackendHangs \/ BackendPanics \/ FinishExecution
  BY <1>4 DEF BeginRequest, BackendHangs, BackendPanics, FinishExecution, Rendezvous
<1>5. CASE RefuseRequest \/ BackendReturns \/ ReplyPanic
  <2>1. PICK r \in Replies : Answer(r)
    BY <1>5 DEF RefuseRequest, BackendReturns, ReplyPanic, Replies, TerminalError,
                BackendResults, StopErrors, Terminal
  <2>2. \A c \in Calls : reply'[c] # "dropped"
    BY <2>1 DEF Answer, Rendezvous, TypeOK, Replies, BackendResults, StopErrors
  <2>3. queue' = queue /\ wpc # "recv" /\ wpc' # "recv"
    BY <1>5 DEF RefuseRequest, BackendReturns, ReplyPanic
  <2>. QED
    BY <2>2, <2>3 DEF Rendezvous
<1>6. CASE RejectPending
  BY <1>6 DEF RejectPending, Rendezvous
<1>7. CASE DrainEnds \/ StopWorker \/ ThreadEnds
  BY <1>7 DEF DrainEnds, StopWorker, ThreadEnds, Rendezvous
<1>8. CASE DropReceiver
  <2>1. queue = << >>
    BY <1>8 DEF DropReceiver, Rendezvous
  <2>2. \A c \in Calls : ~InQueue(c)
    BY <2>1 DEF InQueue
  <2>. QED
    BY <1>8, <2>2 DEF DropReceiver, Rendezvous
<1>. QED
  BY <1>1, <1>2, <1>3, <1>4, <1>5, <1>6, <1>7, <1>8 DEF Worker

(* A call puts its request into the channel only while the worker waits    *)
(* and nobody else has.                                                    *)
LEMMA CallKeepsRendezvous ==
  ASSUME IInv, Rendezvous, Capacity = 0, NEW c \in Calls, Call(c) \/ DropClient(c) PROVE Rendezvous'
<1>. TypeOK
  BY DEF IInv
<1>1. CASE SendAccepted(c)
  <2>1. wpc = "recv" /\ wpc' = "recv" /\ queue = << >> /\ queue' = Append(queue, c)
    BY <1>1 DEF SendAccepted, HasRoom, workerVars
  <2>2. Len(queue') <= 1
    BY <2>1
  <2>. QED
    BY <1>1, <2>1, <2>2 DEF SendAccepted, Rendezvous
<1>2. CASE UNCHANGED <<wpc, queue, reply>>
  BY <1>2 DEF Rendezvous
<1>. QED
  BY <1>1, <1>2 DEF Call, CheckLifecycle, SendFull, SendDisconnected, ReceiveReply, CallTimesOut,
                    ReplyDisconnected, DropClient, workerVars

(* The owner of the handle touches neither the channel nor a reply.        *)
LEMMA OwnerKeepsRendezvous ==
  ASSUME Rendezvous, HandleFinishes \/ BeginShutdown \/ DropHandle \/ UNCHANGED vars
  PROVE  Rendezvous'
<1>1. UNCHANGED <<wpc, queue, reply>>
  BY DEF HandleFinishes, SpawnSucceeds, SpawnFails, SendShutdown, JoinFinished, ShutdownTimesOut,
         DropSends, BeginShutdown, DropHandle, workerVars, vars
<1>. QED
  BY <1>1 DEF Rendezvous

(* With queue_capacity 0 no accepted request is ever lost with the channel, *)
(* however many clients call and whatever the worker does.                 *)
THEOREM NoneStranded ==
  ASSUME Capacity = 0
  PROVE  Spec => []RendezvousNeverStrands
<1>1. Init => Rendezvous
  BY InitRendezvous
<1>2. IInv /\ Rendezvous /\ [Next]_vars => Rendezvous'
  <2>. SUFFICES ASSUME IInv, Rendezvous, [Next]_vars PROVE Rendezvous'
    OBVIOUS
  <2>1. CASE Worker
    BY <2>1, WorkerKeepsRendezvous
  <2>2. ASSUME NEW c \in Calls, Call(c) \/ DropClient(c) PROVE Rendezvous'
    BY <2>2, CallKeepsRendezvous
  <2>3. CASE HandleFinishes \/ BeginShutdown \/ DropHandle \/ UNCHANGED vars
    BY <2>3, OwnerKeepsRendezvous
  <2>. QED
    BY <2>1, <2>2, <2>3 DEF Next
<1>3. Rendezvous => RendezvousNeverStrands
  BY DEF Rendezvous, RendezvousNeverStrands
<1>. QED
  BY Invariance, <1>1, <1>2, <1>3, PTL DEF Spec

-----------------------------------------------------------------------------
(* The service. *)

Ending == {"drain", "mark_stopped", "return", "rx_dropped", "finished"}

(* Whoever is told that the worker is gone is told why, and the worker     *)
(* that tells it serves nobody any more.                                   *)
ToldWhy ==
  /\ \A c \in Calls : reply[c] \in StopErrors =>
       /\ wpc \in Ending /\ lifecycle \in Terminal
       /\ reply[c] = TerminalError(lifecycle)
  /\ wpc = "drain" => lifecycle \in Terminal /\ rejectWith = TerminalError(lifecycle)
  /\ initialized = "error" => ~unwinding
  /\ initialized = "dropped" => unwinding

LEMMA ToldWhyStep == IInv /\ ToldWhy /\ [Next]_vars => ToldWhy'
<1>. SUFFICES ASSUME IInv, ToldWhy, [Next]_vars PROVE ToldWhy'
  OBVIOUS
<1>. TypeOK /\ LifecycleAtControl /\ RequestCustody /\ StopHasCause /\ ReplyNeverBlocks
  BY DEF IInv
<1>. USE DEF ToldWhy, Ending, Terminal, TerminalError, StopErrors
<1>1. CASE FactorySucceeds \/ FactoryFails \/ FactoryPanics
  BY <1>1 DEF FactorySucceeds, FactoryFails, FactoryPanics, MarkStopped, LifecycleAtControl, TypeOK
<1>2. CASE PollShutdown \/ CheckShutdown
  BY <1>2 DEF PollShutdown, CheckShutdown, RequestShutdown, IsShutdownRequested,
              LifecycleAtControl, TypeOK, WorkerState
<1>3. CASE ReceiveRequest \/ ReceiveTimesOut \/ ReceiveDisconnected \/ BeginRequest \/ BackendHangs
  BY <1>3 DEF ReceiveRequest, ReceiveTimesOut, ReceiveDisconnected, BeginRequest, BackendHangs
<1>4. CASE RefuseRequest
  BY <1>4 DEF RefuseRequest, Answer, TypeOK, LifecycleAtControl
<1>5. CASE BackendReturns
  BY <1>5 DEF BackendReturns, Answer, BackendResults, TypeOK
<1>6. CASE BackendPanics \/ ReplyPanic
  BY <1>6 DEF BackendPanics, ReplyPanic, Answer, TypeOK, LifecycleAtControl, StopHasCause
<1>7. CASE FinishExecution
  BY <1>7 DEF FinishExecution, FinishRequest, LifecycleAtControl, TypeOK
<1>8. CASE RejectPending
  BY <1>8 DEF RejectPending, workerVars, TypeOK
<1>9. CASE DrainEnds \/ StopWorker \/ ThreadEnds
  BY <1>9 DEF DrainEnds, StopWorker, ThreadEnds, MarkStopped, LifecycleAtControl, TypeOK
<1>10. CASE DropReceiver
  BY <1>10 DEF DropReceiver, TypeOK
<1>11. ASSUME NEW c \in Calls, Call(c) \/ DropClient(c) PROVE ToldWhy'
  <2>1. UNCHANGED <<reply, wpc, lifecycle, rejectWith, initialized, unwinding>>
    BY <1>11 DEF Call, CheckLifecycle, SendAccepted, SendFull, SendDisconnected, ReceiveReply,
       CallTimesOut, ReplyDisconnected, DropClient, workerVars
  <2>. QED
    BY <2>1
<1>12. CASE HandleFinishes
  <2>1. UNCHANGED <<reply, wpc, lifecycle, rejectWith, initialized, unwinding>>
    BY <1>12 DEF HandleFinishes, SpawnSucceeds, SpawnFails, SendShutdown, JoinFinished,
       ShutdownTimesOut, DropSends, workerVars
  <2>. QED
    BY <2>1
<1>13. CASE BeginShutdown \/ DropHandle
  <2>1. /\ UNCHANGED <<reply, wpc, rejectWith, initialized, unwinding>>
        /\ lifecycle \in Terminal => lifecycle' = lifecycle
    BY <1>13 DEF BeginShutdown, DropHandle, RequestShutdown, workerVars
  <2>. QED
    BY <2>1
<1>14. CASE UNCHANGED vars
  BY <1>14 DEF vars, workerVars
<1>. QED
  BY <1>1, <1>2, <1>3, <1>4, <1>5, <1>6, <1>7, <1>8, <1>9, <1>10, <1>11, <1>12, <1>13, <1>14
     DEF Next, Worker

LEMMA ServiceInit == Init => Service!Init
<1>. SUFFICES ASSUME Init PROVE Service!Init
  OBVIOUS
<1>1. ServiceMode = "starting" /\ ServiceBusy = {} /\ ServiceOwner = "starting"
  BY DEF Init, ServiceMode, ServiceBusy, ServiceOwner
<1>2. ServiceServed = {}
  BY DEF Init, ServiceServed, BackendResults
<1>3. ServiceStatus = [c \in Calls |-> "idle"]
  BY DEF Init, ServiceStatus, StatusOf
<1>. QED
  BY <1>1, <1>2, <1>3 DEF Init, Service!Init

(* The start of the worker. *)
LEMMA StartRefines ==
  ASSUME IInv, FactorySucceeds \/ FactoryFails \/ FactoryPanics
  PROVE  Service!Start
<1>1. ServiceMode = "starting" /\ ServiceMode' \in {"up", "down", "panicked"}
  BY DEF FactorySucceeds, FactoryFails, FactoryPanics, ServiceMode, MarkStopped, IInv,
         LifecycleAtControl
<1>2. ServiceBusy' = ServiceBusy
  BY DEF FactorySucceeds, FactoryFails, FactoryPanics, ServiceBusy
<1>3. /\ ServiceServed' = ServiceServed /\ ServiceStatus' = ServiceStatus
      /\ ServiceOwner' = ServiceOwner /\ outcome' = outcome /\ handleResult' = handleResult
  BY DEF FactorySucceeds, FactoryFails, FactoryPanics, ServiceServed, ServiceStatus, ServiceOwner,
         callVars, handleVars
<1>. QED
  BY <1>1, <1>2, <1>3 DEF Service!Start

(* The steps of the worker that the service does not show: polling,        *)
(* receiving, refusing, draining and ending.                               *)
LEMMA WorkerStutters ==
  ASSUME IInv, ToldWhy,
         \/ PollShutdown \/ CheckShutdown
         \/ ReceiveRequest \/ ReceiveTimesOut \/ ReceiveDisconnected \/ RefuseRequest
         \/ BackendHangs \/ ReplyPanic \/ FinishExecution
         \/ RejectPending \/ DrainEnds \/ DropReceiver \/ ThreadEnds
  PROVE  UNCHANGED Service!vars
<1>. TypeOK /\ LifecycleAtControl /\ RequestCustody /\ StopHasCause /\ ReplyNeverBlocks
  BY DEF IInv
<1>1. /\ wpc # "factory" /\ wpc' # "factory"
      /\ wpc' \in {"backend", "hung"} <=> wpc \in {"backend", "hung"}
      /\ wpc \in {"backend", "hung"} => current' = current
      /\ lifecycle' = lifecycle \/ (lifecycle = "Executing" /\ lifecycle' = "Running")
  BY DEF PollShutdown, CheckShutdown, ReceiveRequest, ReceiveTimesOut, ReceiveDisconnected,
         RefuseRequest, BackendHangs, ReplyPanic, FinishExecution, RejectPending, DrainEnds,
         DropReceiver, ThreadEnds, workerVars, StopHasCause, RequestShutdown, FinishRequest, Terminal
<1>2. ServiceMode' = ServiceMode
  <2>1. wpc # "factory" /\ wpc' # "factory"
    BY <1>1
  <2>2. CASE lifecycle' = lifecycle
    <3>1. lifecycle \in {"Running", "Executing", "ShutdownRequested", "Stopped", "Panicked"}
      BY DEF TypeOK, WorkerState
    <3>. QED
      BY <2>1, <2>2, <3>1 DEF ServiceMode
  <2>3. CASE lifecycle = "Executing" /\ lifecycle' = "Running"
    <3>1. ServiceMode = "up"
      BY <2>1, <2>3 DEF ServiceMode
    <3>2. ServiceMode' = "up"
      BY <2>1, <2>3 DEF ServiceMode
    <3>. QED
      BY <3>1, <3>2
  <2>. QED
    BY <1>1, <2>2, <2>3
<1>. ServiceBusy' = ServiceBusy
  BY <1>1 DEF ServiceBusy
<1>3. UNCHANGED <<pc, outcome, hpc, handleResult>>
  BY DEF PollShutdown, CheckShutdown, ReceiveRequest, ReceiveTimesOut, ReceiveDisconnected,
         RefuseRequest, BackendHangs, ReplyPanic, FinishExecution, RejectPending, DrainEnds,
         DropReceiver, ThreadEnds, callVars, handleVars
<1>4. ServiceStatus' = ServiceStatus /\ ServiceOwner' = ServiceOwner
  BY <1>3 DEF ServiceStatus, ServiceOwner
<1>5. ASSUME NEW c \in Calls PROVE reply'[c] \in BackendResults <=> reply[c] \in BackendResults
  <2>. USE DEF BackendResults, StopErrors, TypeOK
  <2>1. CASE reply' = reply
    BY <2>1
  <2>2. CASE RefuseRequest \/ ReplyPanic
    BY <2>2 DEF RefuseRequest, ReplyPanic, Answer, TerminalError, RequestCustody, ReplyNeverBlocks
  <2>3. CASE RejectPending
    <3>1. Head(queue) \in Calls /\ reply[Head(queue)] = "unsent"
      <4>1. 1 \in 1..Len(queue) /\ Head(queue) = queue[1] /\ queue[1] \in Calls
        BY <2>3 DEF RejectPending
      <4>. QED
        BY <4>1 DEF ReplyNeverBlocks
    <3>. QED
      BY <2>3, <3>1 DEF RejectPending, workerVars
  <2>4. CASE DropReceiver
    BY <2>4 DEF DropReceiver, InQueue, ReplyNeverBlocks
  <2>. QED
    BY <2>1, <2>2, <2>3, <2>4 DEF PollShutdown, CheckShutdown, ReceiveRequest, ReceiveTimesOut,
       ReceiveDisconnected, BackendHangs, FinishExecution, DrainEnds, ThreadEnds
<1>6. ServiceServed' = ServiceServed
  BY <1>5 DEF ServiceServed
<1>. QED
  BY <1>2, <1>3, <1>4, <1>6 DEF Service!vars

(* The backend call, from begin_request to its end, and the end of the     *)
(* worker.                                                                 *)
LEMMA ServeRefines ==
  ASSUME IInv, BeginRequest
  PROVE  \E c \in Calls : Service!Serve(c)
<1>. TypeOK /\ LifecycleAtControl /\ RequestCustody /\ StopHasCause /\ ReplyNeverBlocks
  BY DEF IInv
<1>1. /\ wpc = "begin" /\ wpc' = "backend" /\ lifecycle = "Running" /\ lifecycle' = "Executing"
      /\ UNCHANGED <<current, reply, pc, outcome, hpc, handleResult>>
  BY DEF BeginRequest, callVars, handleVars
<1>2. current \in Calls /\ pc[current] \notin {"idle", "checked"} /\ reply[current] = "unsent"
  BY <1>1 DEF RequestCustody, ReplyNeverBlocks, TypeOK
<1>3. ServiceMode = "up" /\ ServiceMode' = "up" /\ ServiceBusy = {} /\ ServiceBusy' = {current}
  BY <1>1 DEF ServiceMode, ServiceBusy
<1>4. current \notin ServiceServed
  BY <1>2 DEF ServiceServed, BackendResults
<1>5. ServiceStatus[current] # "idle"
  BY <1>2 DEF ServiceStatus, StatusOf, TypeOK
<1>6. ServiceStatus' = ServiceStatus /\ ServiceOwner' = ServiceOwner /\ ServiceServed' = ServiceServed
  BY <1>1 DEF ServiceStatus, ServiceOwner, ServiceServed
<1>. QED
  BY <1>1, <1>2, <1>3, <1>4, <1>5, <1>6 DEF Service!Serve

LEMMA ServedRefines ==
  ASSUME IInv, BackendReturns
  PROVE  Service!Served
<1>. TypeOK /\ RequestCustody
  BY DEF IInv
<1>1. PICK r \in BackendResults :
        /\ wpc = "backend" /\ wpc' = "finish" /\ reply' = [reply EXCEPT ![current] = r]
        /\ UNCHANGED <<lifecycle, pc, outcome, hpc, handleResult>>
  BY DEF BackendReturns, Answer, callVars, handleVars
<1>2. current \in Calls
  BY <1>1 DEF RequestCustody, TypeOK
<1>3. ServiceBusy = {current} /\ ServiceBusy' = {} /\ ServiceMode' = ServiceMode
  BY <1>1 DEF ServiceBusy, ServiceMode
<1>4. ServiceServed' = ServiceServed \union {current}
  BY <1>1, <1>2 DEF ServiceServed, TypeOK
<1>5. ServiceStatus' = ServiceStatus /\ ServiceOwner' = ServiceOwner
  BY <1>1 DEF ServiceStatus, ServiceOwner
<1>. QED
  BY <1>1, <1>3, <1>4, <1>5 DEF Service!Served

LEMMA PanicRefines ==
  ASSUME IInv, BackendPanics
  PROVE  Service!Panic
<1>1. /\ wpc = "backend" /\ wpc' = "panic_reply" /\ lifecycle' = "Panicked"
      /\ UNCHANGED <<reply, pc, outcome, hpc, handleResult>>
  BY DEF BackendPanics, callVars, handleVars
<1>2. ServiceBusy # {} /\ ServiceBusy' = {} /\ ServiceMode' = "panicked"
  BY <1>1 DEF ServiceBusy, ServiceMode
<1>3. ServiceStatus' = ServiceStatus /\ ServiceOwner' = ServiceOwner /\ ServiceServed' = ServiceServed
  BY <1>1 DEF ServiceStatus, ServiceOwner, ServiceServed
<1>. QED
  BY <1>1, <1>2, <1>3 DEF Service!Panic

LEMMA HaltRefines ==
  ASSUME IInv, StopWorker
  PROVE  Service!Halt
<1>. TypeOK /\ LifecycleAtControl /\ StopHasCause
  BY DEF IInv
<1>1. /\ wpc = "mark_stopped" /\ wpc' = "return" /\ lifecycle \in {"Running", "ShutdownRequested"}
      /\ lifecycle' = "Stopped"
      /\ UNCHANGED <<reply, pc, outcome, hpc, handleResult>>
  BY DEF StopWorker, MarkStopped, LifecycleAtControl, callVars, handleVars
<1>2. lifecycle = "Running" => Service!NoClientLeft
  <2>. SUFFICES ASSUME lifecycle = "Running", NEW c \in Calls PROVE ServiceStatus[c] = "gone"
    BY DEF Service!NoClientLeft
  <2>1. pc[c] = "dropped"
    BY <1>1 DEF StopHasCause, AllClientsDropped
  <2>. QED
    BY <2>1 DEF ServiceStatus, StatusOf
<1>3. ServiceBusy = {} /\ ServiceBusy' = {} /\ ServiceMode' = "down"
  BY <1>1 DEF ServiceBusy, ServiceMode
<1>4. ServiceMode = "stopping" \/ (ServiceMode = "up" /\ Service!NoClientLeft)
  BY <1>1, <1>2 DEF ServiceMode
<1>5. ServiceStatus' = ServiceStatus /\ ServiceOwner' = ServiceOwner /\ ServiceServed' = ServiceServed
  BY <1>1 DEF ServiceStatus, ServiceOwner, ServiceServed
<1>. QED
  BY <1>1, <1>3, <1>4, <1>5 DEF Service!Halt

(* The calls.  Each error a caller is given is the one the service gives.  *)
LEMMA EndIsTold ==
  ASSUME TypeOK, wpc # "factory", lifecycle \in Terminal
  PROVE  /\ ServiceMode \in {"stopping", "down", "panicked"}
         /\ Service!EndError = TerminalError(lifecycle)
  BY DEF ServiceMode, Terminal, Service!EndError, TerminalError

(* What the service sees of a step of call c. *)
LEMMA CallSeen ==
  ASSUME TypeOK, NEW c \in Calls, NEW p \in {"checked", "waiting", "returned", "dropped"},
         pc' = [pc EXCEPT ![c] = p], UNCHANGED <<lifecycle, workerVars, reply, handleVars>>
  PROVE  /\ ServiceStatus[c] = StatusOf(pc[c])
         /\ ServiceStatus' = [ServiceStatus EXCEPT ![c] = StatusOf(p)]
         /\ ServiceMode' = ServiceMode /\ ServiceBusy' = ServiceBusy
         /\ ServiceServed' = ServiceServed /\ ServiceOwner' = ServiceOwner
         /\ handleResult' = handleResult
<1>1. /\ ServiceMode' = ServiceMode /\ ServiceBusy' = ServiceBusy
      /\ ServiceServed' = ServiceServed /\ ServiceOwner' = ServiceOwner
      /\ handleResult' = handleResult
  BY DEF ServiceMode, ServiceBusy, ServiceServed, ServiceOwner, workerVars, handleVars
<1>2. ServiceStatus[c] = StatusOf(pc[c])
  BY DEF ServiceStatus
<1>3. ServiceStatus' = [ServiceStatus EXCEPT ![c] = StatusOf(p)]
  BY DEF ServiceStatus, TypeOK
<1>. QED
  BY <1>1, <1>2, <1>3

LEMMA ReturnSeen ==
  ASSUME TypeOK, NEW c \in Calls, NEW o, Return(c, o),
         UNCHANGED <<lifecycle, workerVars, reply, handleVars>>
  PROVE  Service!Close(c, o)
<1>1. pc' = [pc EXCEPT ![c] = "returned"] /\ outcome' = [outcome EXCEPT ![c] = o]
  BY DEF Return
<1>2. /\ ServiceStatus' = [ServiceStatus EXCEPT ![c] = StatusOf("returned")]
      /\ ServiceMode' = ServiceMode /\ ServiceBusy' = ServiceBusy
      /\ ServiceServed' = ServiceServed /\ ServiceOwner' = ServiceOwner
      /\ handleResult' = handleResult
  BY <1>1, CallSeen
<1>3. StatusOf("returned") = "closed"
  BY DEF StatusOf
<1>. QED
  BY <1>1, <1>2, <1>3 DEF Service!Close

LEMMA CallRefines ==
  ASSUME IInv, ToldWhy, NEW c \in Calls, Call(c) \/ DropClient(c)
  PROVE  \/ Service!Open(c) \/ Service!Refuse(c) \/ Service!Answer(c) \/ Service!Leave(c)
         \/ UNCHANGED Service!vars
<1>. TypeOK /\ LifecycleAtControl /\ RequestCustody /\ StopHasCause /\ ClosedChannelExplained
  BY DEF IInv
<1>0. UNCHANGED <<lifecycle, workerVars, reply, handleVars>>
  BY DEF Call, CheckLifecycle, SendAccepted, SendFull, SendDisconnected, ReceiveReply, CallTimesOut,
         ReplyDisconnected, DropClient
<1>1. Spawned => ServiceOwner # "starting" /\ wpc # "factory"
  BY DEF Spawned, ServiceOwner, StopHasCause, TypeOK
<1>2. pc[c] # "idle" => wpc # "factory"
  BY DEF StopHasCause
<1>3. ServiceStatus[c] = StatusOf(pc[c])
  BY DEF ServiceStatus
<1>4. CASE CheckLifecycle(c) /\ lifecycle \in Terminal
  <2>1. Service!Close(c, TerminalError(lifecycle))
    BY <1>0, <1>4, ReturnSeen DEF CheckLifecycle
  <2>2. ServiceStatus[c] = "idle"
    BY <1>3, <1>4 DEF CheckLifecycle, StatusOf
  <2>. QED
    BY <1>1, <1>4, <2>1, <2>2, EndIsTold DEF CheckLifecycle, Service!Refuse
<1>5. CASE CheckLifecycle(c) /\ lifecycle \notin Terminal
  <2>1. Spawned /\ pc[c] = "idle" /\ pc' = [pc EXCEPT ![c] = "checked"] /\ outcome' = outcome
    BY <1>5 DEF CheckLifecycle
  <2>2. ServiceMode = "up"
    BY <1>1, <1>5, <2>1 DEF ServiceMode, Terminal, TypeOK, WorkerState
  <2>3. StatusOf(pc[c]) = "idle" /\ StatusOf("checked") = "open"
    BY <2>1 DEF StatusOf
  <2>4. /\ ServiceStatus' = [ServiceStatus EXCEPT ![c] = StatusOf("checked")]
        /\ ServiceMode' = ServiceMode /\ ServiceBusy' = ServiceBusy
        /\ ServiceServed' = ServiceServed /\ ServiceOwner' = ServiceOwner
        /\ handleResult' = handleResult
    BY <1>0, <2>1, CallSeen
  <2>. QED
    BY <1>1, <1>3, <2>1, <2>2, <2>3, <2>4 DEF Service!Open
<1>6. CASE SendAccepted(c)
  <2>1. pc[c] = "checked" /\ pc' = [pc EXCEPT ![c] = "waiting"] /\ outcome' = outcome
    BY <1>6 DEF SendAccepted
  <2>2. /\ ServiceStatus' = [ServiceStatus EXCEPT ![c] = StatusOf("waiting")]
        /\ ServiceMode' = ServiceMode /\ ServiceBusy' = ServiceBusy
        /\ ServiceServed' = ServiceServed /\ ServiceOwner' = ServiceOwner
        /\ handleResult' = handleResult
    BY <1>0, <2>1, CallSeen
  <2>3. ServiceStatus[c] = StatusOf("waiting")
    BY <1>3, <2>1 DEF StatusOf
  <2>4. ServiceStatus' = ServiceStatus
    BY <2>2, <2>3 DEF ServiceStatus
  <2>. QED
    BY <2>1, <2>2, <2>4 DEF Service!vars
<1>7. CASE SendFull(c) \/ CallTimesOut(c)
  <2>1. PICK o \in {"queue_full", "timeout"} : Return(c, o)
    BY <1>7 DEF SendFull, CallTimesOut
  <2>2. Service!Close(c, o)
    BY <1>0, <2>1, ReturnSeen
  <2>3. ServiceStatus[c] = "open"
    BY <1>3, <1>7 DEF SendFull, CallTimesOut, StatusOf
  <2>. QED
    BY <2>2, <2>3 DEF Service!Answer
<1>8. CASE SendDisconnected(c) \/ ReplyDisconnected(c)
  <2>1. Return(c, TerminalError(lifecycle)) /\ pc[c] # "idle" /\ ServiceStatus[c] = "open"
    BY <1>3, <1>8 DEF SendDisconnected, ReplyDisconnected, StatusOf
  <2>2. lifecycle \in Terminal
    BY <1>8 DEF SendDisconnected, ReplyDisconnected, ClosedChannelExplained, Terminal
  <2>3. Service!Close(c, TerminalError(lifecycle))
    BY <1>0, <2>1, ReturnSeen
  <2>. QED
    BY <1>2, <2>1, <2>2, <2>3, EndIsTold DEF Service!Answer
<1>9. CASE ReceiveReply(c)
  <2>1. Return(c, reply[c]) /\ reply[c] \in Replies /\ pc[c] # "idle" /\ ServiceStatus[c] = "open"
    BY <1>3, <1>9 DEF ReceiveReply, StatusOf
  <2>2. Service!Close(c, reply[c])
    BY <1>0, <2>1, ReturnSeen
  <2>3. CASE reply[c] \in BackendResults
    <3>1. c \in ServiceServed
      BY <2>3 DEF ServiceServed
    <3>. QED
      BY <2>1, <2>2, <2>3, <3>1 DEF Service!Answer, BackendResults
  <2>4. CASE reply[c] \in StopErrors
    <3>1. lifecycle \in Terminal /\ reply[c] = TerminalError(lifecycle)
      BY <2>4 DEF ToldWhy
    <3>. QED
      BY <1>2, <2>1, <2>2, <3>1, EndIsTold DEF Service!Answer
  <2>. QED
    BY <2>1, <2>3, <2>4 DEF Replies
<1>10. CASE DropClient(c)
  <2>1. Spawned /\ pc[c] \in {"idle", "returned"} /\ pc' = [pc EXCEPT ![c] = "dropped"]
        /\ outcome' = outcome
    BY <1>10 DEF DropClient
  <2>2. /\ ServiceStatus' = [ServiceStatus EXCEPT ![c] = StatusOf("dropped")]
        /\ ServiceMode' = ServiceMode /\ ServiceBusy' = ServiceBusy
        /\ ServiceServed' = ServiceServed /\ ServiceOwner' = ServiceOwner
        /\ handleResult' = handleResult
    BY <1>0, <2>1, CallSeen
  <2>3. StatusOf(pc[c]) \in {"idle", "closed"} /\ StatusOf("dropped") = "gone"
    BY <2>1 DEF StatusOf
  <2>. QED
    BY <1>1, <1>3, <2>1, <2>2, <2>3 DEF Service!Leave
<1>. QED
  BY <1>4, <1>5, <1>6, <1>7, <1>8, <1>9, <1>10 DEF Call

(* The owner of the handle: what spawn and shutdown() report, and the two  *)
(* ways to ask for the stop.                                               *)
LEMMA OwnerRefines ==
  ASSUME IInv, ToldWhy, HandleFinishes \/ BeginShutdown \/ DropHandle
  PROVE  \/ Service!StartReported \/ Service!RequestStop \/ Service!StopReported
         \/ UNCHANGED Service!vars
<1>. TypeOK /\ LifecycleAtControl /\ StopHasCause
  BY DEF IInv
<1>1. UNCHANGED <<wpc, current, reply, pc, outcome>>
  BY DEF HandleFinishes, SpawnSucceeds, SpawnFails, SendShutdown, JoinFinished, ShutdownTimesOut,
         DropSends, BeginShutdown, DropHandle, workerVars, callVars
<1>2. /\ ServiceBusy' = ServiceBusy /\ ServiceServed' = ServiceServed
      /\ ServiceStatus' = ServiceStatus
  BY <1>1 DEF ServiceBusy, ServiceServed, ServiceStatus
<1>3. lifecycle' = lifecycle => ServiceMode' = ServiceMode
  BY <1>1 DEF ServiceMode
<1>4. CASE SpawnSucceeds
  <2>1. /\ hpc = "spawning" /\ hpc' = "held" /\ wpc # "factory" /\ lifecycle' = lifecycle
        /\ handleResult' = handleResult
    BY <1>4 DEF SpawnSucceeds, StopHasCause
  <2>2. ServiceOwner = "starting" /\ ServiceOwner' = "holding" /\ ServiceMode # "starting"
    BY <2>1 DEF ServiceOwner, ServiceMode, TypeOK, WorkerState
  <2>. QED
    BY <1>1, <1>2, <1>3, <2>1, <2>2 DEF Service!StartReported
<1>5. CASE SpawnFails
  <2>1. /\ hpc = "spawning" /\ hpc' = "closed" /\ wpc = "finished" /\ lifecycle' = lifecycle
        /\ initialized \in {"error", "dropped"}
        /\ handleResult' = IF initialized = "error" THEN "init_error" ELSE "worker_panic"
    BY <1>5 DEF SpawnFails, Finished
  <2>2. IF initialized = "error" THEN lifecycle = "Stopped" ELSE lifecycle = "Panicked"
    BY <2>1 DEF ToldWhy, LifecycleAtControl
  <2>3. ServiceOwner = "starting" /\ ServiceOwner' = "released"
    BY <2>1 DEF ServiceOwner
  <2>4. ServiceMode = IF initialized = "error" THEN "down" ELSE "panicked"
    BY <2>1, <2>2 DEF ServiceMode
  <2>. QED
    BY <1>1, <1>2, <1>3, <2>1, <2>3, <2>4 DEF Service!StartReported
<1>6. CASE SendShutdown \/ DropSends
  <2>1. UNCHANGED <<lifecycle, handleResult>> /\ ServiceOwner' = ServiceOwner
    BY <1>6 DEF SendShutdown, DropSends, ServiceOwner
  <2>. QED
    BY <1>1, <1>2, <1>3, <2>1 DEF Service!vars
<1>7. CASE JoinFinished \/ ShutdownTimesOut
  <2>1. hpc = "joining" /\ hpc' = "closed" /\ lifecycle' = lifecycle
    BY <1>7 DEF JoinFinished, ShutdownTimesOut
  <2>2. ServiceOwner = "stopping" /\ ServiceOwner' = "released"
    BY <2>1 DEF ServiceOwner
  <2>3. CASE ShutdownTimesOut
    <3>1. handleResult' = "shutdown_timeout"
      BY <2>3 DEF ShutdownTimesOut
    <3>. QED
      BY <1>1, <1>2, <1>3, <2>1, <2>2, <3>1 DEF Service!StopReported
  <2>4. CASE JoinFinished
    <3>1. /\ wpc = "finished"
          /\ handleResult' = IF unwinding THEN "worker_panic"
                             ELSE IF requested THEN "ok" ELSE "worker_stopped"
      BY <2>4 DEF JoinFinished, Finished
    <3>2. ServiceMode = IF unwinding THEN "panicked" ELSE "down"
      BY <3>1 DEF ServiceMode, LifecycleAtControl
    <3>3. ~unwinding /\ ~requested => Service!NoClientLeft
      <4>. SUFFICES ASSUME ~unwinding, ~requested, NEW c \in Calls PROVE ServiceStatus[c] = "gone"
        BY DEF Service!NoClientLeft
      <4>1. pc[c] = "dropped"
        BY <2>1 DEF StopHasCause, LifecycleAtControl, AllClientsDropped
      <4>. QED
        BY <4>1 DEF ServiceStatus, StatusOf
    <3>. QED
      BY <1>1, <1>2, <1>3, <2>1, <2>2, <3>1, <3>2, <3>3 DEF Service!StopReported
  <2>. QED
    BY <1>7, <2>3, <2>4
<1>8. CASE BeginShutdown \/ DropHandle
  <2>1. /\ hpc = "held" /\ hpc' \in {"requested", "dropping"} /\ wpc # "factory"
        /\ lifecycle' = RequestShutdown(lifecycle) /\ handleResult' = handleResult
    BY <1>8 DEF BeginShutdown, DropHandle, StopHasCause
  <2>2. ServiceOwner = "holding" /\ ServiceOwner' \in {"stopping", "released"}
    BY <2>1 DEF ServiceOwner
  <2>3. ServiceMode' = Service!ModeAfterRequest
    <3>1. CASE lifecycle \in {"Running", "Executing"}
      BY <1>1, <2>1, <3>1 DEF ServiceMode, Service!ModeAfterRequest, RequestShutdown
    <3>2. CASE lifecycle \notin {"Running", "Executing"}
      <4>1. lifecycle' = lifecycle
        BY <2>1, <3>2 DEF RequestShutdown
      <4>2. ServiceMode # "up"
        BY <2>1, <3>2 DEF ServiceMode, TypeOK, WorkerState
      <4>. QED
        BY <1>3, <4>1, <4>2 DEF Service!ModeAfterRequest
    <3>. QED
      BY <3>1, <3>2
  <2>. QED
    BY <1>1, <1>2, <2>1, <2>2, <2>3 DEF Service!RequestStop
<1>. QED
  BY <1>4, <1>5, <1>6, <1>7, <1>8 DEF HandleFinishes

LEMMA ServiceStep == IInv /\ ToldWhy /\ [Next]_vars => [Service!Next]_(Service!vars)
<1>. SUFFICES ASSUME IInv, ToldWhy, [Next]_vars PROVE [Service!Next]_(Service!vars)
  OBVIOUS
<1>1. CASE Worker
  BY <1>1, StartRefines, WorkerStutters, ServeRefines, ServedRefines, PanicRefines, HaltRefines
     DEF Worker, Service!Next
<1>2. ASSUME NEW c \in Calls, Call(c) \/ DropClient(c) PROVE [Service!Next]_(Service!vars)
  BY <1>2, CallRefines DEF Service!Next
<1>3. CASE HandleFinishes \/ BeginShutdown \/ DropHandle
  BY <1>3, OwnerRefines DEF Service!Next
<1>4. CASE UNCHANGED vars
  BY <1>4 DEF vars, workerVars, callVars, handleVars, Service!vars, ServiceMode, ServiceBusy,
              ServiceServed, ServiceStatus, ServiceOwner
<1>. QED
  BY <1>1, <1>2, <1>3, <1>4 DEF Next

(* The thread, the queue and the channels behave as the service promises:  *)
(* every step of theirs is one of its steps or none of them.               *)
THEOREM Implementation == Spec => ImplementsService
<1>1. Init => ToldWhy
  BY DEF Init, ToldWhy, StopErrors
<1>. QED
  BY Invariance, <1>1, ToldWhyStep, ServiceInit, ServiceStep, PTL
     DEF Spec, ImplementsService, Service!Spec

=============================================================================
