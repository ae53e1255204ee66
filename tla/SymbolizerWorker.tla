-------------------------- MODULE SymbolizerWorker --------------------------
(***************************************************************************)
(* The symbolizer worker of the guest agent                                *)
(* (crates/guest-agent/src/symbolize.rs): one worker thread owns the       *)
(* symbol backend, cloned clients send it requests through a bounded       *)
(* channel and wait a bounded time for the reply on a channel of their     *)
(* own, and one handle stops the thread.  The three kinds of thread share  *)
(* the lifecycle state, which is only touched under its mutex.             *)
(*                                                                         *)
(* A step of the model is one visible operation of one thread: a lifecycle *)
(* method, a channel operation, or the end of the backend call.  A local   *)
(* computation is part of the operation that follows it.                   *)
(*                                                                         *)
(* A "call" is one execution of symbolize() on a client clone of its own.  *)
(* A thread that calls several times in a row is several calls of which    *)
(* the later starts after the earlier returned.  Time is abstracted: a     *)
(* wait with a timeout may run out whenever what it waits for is missing.  *)
(***************************************************************************)
EXTENDS Naturals, Sequences

CONSTANTS
  Calls,     \* the calls made on the clones of the client
  NoCall,    \* the worker holds no request
  Capacity   \* SymbolizerWorkerConfig::queue_capacity

ASSUME CapacityAssumption == Capacity \in Nat
ASSUME NoCallAssumption   == NoCall \notin Calls

VARIABLES
  lifecycle,    \* WorkerLifecycle::state
  wpc,          \* where the worker thread is
  current,      \* the request the worker has taken and not yet answered
  rejectWith,   \* the error reject_pending_requests is running with
  unwinding,    \* the worker thread is ending by a panic
  queue,        \* the request channel, oldest first
  reply,        \* what each call's reply channel carries
  pc,           \* where each call is
  outcome,      \* what each call returned
  initialized,  \* the initialized channel of spawn_worker
  hpc,          \* where the owner of the handle is
  requested,    \* shutdown(): what its request_shutdown returned
  signalled,    \* something arrived on the shutdown channel, or it closed
  handleResult  \* what spawn failed with, or what shutdown() returned

workerVars == <<wpc, current, rejectWith, unwinding>>
callVars   == <<pc, outcome>>
handleVars == <<hpc, requested, signalled, handleResult>>
vars == <<lifecycle, workerVars, queue, reply, callVars, initialized, handleVars>>

WorkerState == {"Running", "Executing", "ShutdownRequested", "Stopped", "Panicked"}

\* The states in which terminal_error() is Some.
Terminal == {"ShutdownRequested", "Stopped", "Panicked"}

WorkerPC == {"factory", "poll", "check", "recv", "begin", "backend", "hung",
             "finish", "panic_reply", "drain", "mark_stopped", "return",
             "rx_dropped", "finished"}

BackendResults == {"ok", "backend_error"}
StopErrors     == {"worker_stopped", "worker_panic"}
Replies        == BackendResults \union StopErrors \* what can be sent to a caller
Outcomes       == Replies \union {"queue_full", "timeout"}

TypeOK ==
  /\ lifecycle \in WorkerState
  /\ wpc \in WorkerPC
  /\ current \in Calls \union {NoCall}
  /\ rejectWith \in StopErrors
  /\ unwinding \in BOOLEAN
  /\ queue \in Seq(Calls)
  /\ reply \in [Calls -> Replies \union {"unsent", "dropped"}]
  /\ pc \in [Calls -> {"idle", "checked", "waiting", "returned", "dropped"}]
  /\ outcome \in [Calls -> Outcomes \union {"none"}]
  /\ initialized \in {"waiting", "ok", "error", "dropped"}
  /\ hpc \in {"spawning", "held", "requested", "joining", "dropping", "closed"}
  /\ requested \in BOOLEAN
  /\ signalled \in BOOLEAN
  /\ handleResult \in StopErrors \union {"none", "ok", "shutdown_timeout", "init_error"}

-----------------------------------------------------------------------------
(* WorkerLifecycle, as functions of the state the mutex protects. *)

TerminalError(s) == IF s = "Panicked" THEN "worker_panic" ELSE "worker_stopped"

RequestShutdown(s) == IF s \in {"Running", "Executing"} THEN "ShutdownRequested" ELSE s

(* Mutant: a requested shutdown is only noticed once the worker stopped. *)
IsShutdownRequestedLate(s) == s = "Stopped"

IsShutdownRequested(s) == s \in {"ShutdownRequested", "Stopped"}

(* Mutant: mark_stopped forgotten on the way out. *)
MarkStoppedForgotten(s) == s

MarkStopped(s) == IF s = "Panicked" THEN s ELSE "Stopped"

(* Mutant: finish_request restores Running whatever it finds. *)
FinishRequestForgetsStop(s) == "Running"

(* Mutant: finish_request leaves the mark of the finished request. *)
FinishRequestKeepsMark(s) == s

FinishRequest(s) == IF s = "Executing" THEN "Running" ELSE s

-----------------------------------------------------------------------------
ReceiverDropped == wpc \in {"rx_dropped", "finished"}

(* The JoinHandle's is_finished(). *)
Finished == wpc = "finished"

(* The clients exist once spawn_worker has returned Ok. *)
Spawned == hpc # "spawning" /\ initialized = "ok"

(* No sender of the request channel is left. *)
AllClientsDropped == \A c \in Calls : pc[c] = "dropped"

(* try_send finds room.  A channel of capacity 0 is a rendezvous: it takes *)
(* a message only while the worker is parked in recv_timeout and has not   *)
(* been handed one yet.                                                    *)
HasRoom ==
  IF Capacity = 0 THEN wpc = "recv" /\ queue = << >> ELSE Len(queue) < Capacity

InQueue(c) == \E i \in 1..Len(queue) : queue[i] = c

Init ==
  /\ lifecycle = "Running"
  /\ wpc = "factory"
  /\ current = NoCall
  /\ rejectWith = "worker_stopped"
  /\ unwinding = FALSE
  /\ queue = << >>
  /\ reply = [c \in Calls |-> "unsent"]
  /\ pc = [c \in Calls |-> "idle"]
  /\ outcome = [c \in Calls |-> "none"]
  /\ initialized = "waiting"
  /\ hpc = "spawning"
  /\ requested = FALSE
  /\ signalled = FALSE
  /\ handleResult = "none"

-----------------------------------------------------------------------------
(* The worker thread: the backend factory. *)

FactorySucceeds ==
  /\ wpc = "factory"
  /\ wpc' = "poll"
  /\ initialized' = "ok"
  /\ UNCHANGED <<lifecycle, current, rejectWith, unwinding, queue, reply, callVars, handleVars>>

FactoryFails ==
  /\ wpc = "factory"
  /\ wpc' = "return"
  /\ lifecycle' = MarkStopped(lifecycle)
  /\ initialized' = "error"
  /\ UNCHANGED <<current, rejectWith, unwinding, queue, reply, callVars, handleVars>>

FactoryPanics ==
  /\ wpc = "factory"
  /\ wpc' = "return"
  /\ unwinding' = TRUE
  /\ lifecycle' = "Panicked"
  /\ initialized' = "dropped"
  /\ UNCHANGED <<current, rejectWith, queue, reply, callVars, handleVars>>

-----------------------------------------------------------------------------
(* The worker thread: worker_loop. *)

(* shutdown.try_recv(): a message and a closed channel have the same       *)
(* effect.  Every sender requests the shutdown before it sends, so a       *)
(* message that is seen ends the loop in the same round and it makes no    *)
(* difference that the model leaves it in the channel.                     *)
PollShutdown ==
  /\ wpc = "poll"
  /\ wpc' = "check"
  /\ lifecycle' = IF signalled THEN RequestShutdown(lifecycle) ELSE lifecycle
  /\ UNCHANGED <<current, rejectWith, unwinding, queue, reply, callVars, initialized, handleVars>>

(* Mutant: a worker that is asked to stop keeps polling and never drains. *)
CheckShutdownIdles ==
  /\ wpc = "check"
  /\ wpc' = IF IsShutdownRequested(lifecycle) THEN "poll" ELSE "recv"
  /\ UNCHANGED <<lifecycle, current, rejectWith, unwinding, queue, reply, callVars, initialized, handleVars>>

CheckShutdown ==
  /\ wpc = "check"
  /\ IF IsShutdownRequested(lifecycle)
       THEN wpc' = "drain" /\ rejectWith' = "worker_stopped"
       ELSE wpc' = "recv" /\ UNCHANGED rejectWith
  /\ UNCHANGED <<lifecycle, current, unwinding, queue, reply, callVars, initialized, handleVars>>

ReceiveRequest ==
  /\ wpc = "recv"
  /\ queue # << >>
  /\ wpc' = "begin"
  /\ current' = Head(queue)
  /\ queue' = Tail(queue)
  /\ UNCHANGED <<lifecycle, rejectWith, unwinding, reply, callVars, initialized, handleVars>>

ReceiveTimesOut ==
  /\ wpc = "recv"
  /\ queue = << >>
  /\ ~AllClientsDropped
  /\ wpc' = "poll"
  /\ UNCHANGED <<lifecycle, current, rejectWith, unwinding, queue, reply, callVars, initialized, handleVars>>

ReceiveDisconnected ==
  /\ wpc = "recv"
  /\ queue = << >>
  /\ AllClientsDropped
  /\ wpc' = "mark_stopped"
  /\ UNCHANGED <<lifecycle, current, rejectWith, unwinding, queue, reply, callVars, initialized, handleVars>>

(* Mutant: begin_request looks only for a panic. *)
BeginRequestUnchecked ==
  /\ wpc = "begin"
  /\ lifecycle # "Panicked"
  /\ lifecycle' = "Executing"
  /\ wpc' = "backend"
  /\ UNCHANGED <<current, rejectWith, unwinding, queue, reply, callVars, initialized, handleVars>>

(* begin_request() succeeds.  Its Executing arm is unreachable!(). *)
BeginRequest ==
  /\ wpc = "begin"
  /\ lifecycle = "Running"
  /\ lifecycle' = "Executing"
  /\ wpc' = "backend"
  /\ UNCHANGED <<current, rejectWith, unwinding, queue, reply, callVars, initialized, handleVars>>

(* The single answer to the request the worker holds. *)
Answer(r) ==
  /\ reply' = [reply EXCEPT ![current] = r]
  /\ current' = NoCall

(* begin_request() fails: a shutdown overtook the request on its way from  *)
(* the channel to the backend.                                             *)
RefuseRequest ==
  /\ wpc = "begin"
  /\ lifecycle \in Terminal
  /\ Answer(TerminalError(lifecycle))
  /\ rejectWith' = TerminalError(lifecycle)
  /\ wpc' = "drain"
  /\ UNCHANGED <<lifecycle, unwinding, queue, callVars, initialized, handleVars>>

BackendReturns ==
  /\ wpc = "backend"
  /\ \E r \in BackendResults : Answer(r)
  /\ wpc' = "finish"
  /\ UNCHANGED <<lifecycle, rejectWith, unwinding, queue, callVars, initialized, handleVars>>

(* The backend never returns; the thread is lost. *)
BackendHangs ==
  /\ wpc = "backend"
  /\ wpc' = "hung"
  /\ UNCHANGED <<lifecycle, current, rejectWith, unwinding, queue, reply, callVars, initialized, handleVars>>

BackendPanics ==
  /\ wpc = "backend"
  /\ lifecycle' = "Panicked"
  /\ unwinding' = TRUE
  /\ wpc' = "panic_reply"
  /\ UNCHANGED <<current, rejectWith, queue, reply, callVars, initialized, handleVars>>

ReplyPanic ==
  /\ wpc = "panic_reply"
  /\ Answer("worker_panic")
  /\ rejectWith' = "worker_panic"
  /\ wpc' = "drain"
  /\ UNCHANGED <<lifecycle, unwinding, queue, callVars, initialized, handleVars>>

(* finish_request(); its Running arm is unreachable!(). *)
FinishExecution ==
  /\ wpc = "finish"
  /\ lifecycle # "Running"
  /\ lifecycle' = FinishRequest(lifecycle)
  /\ IF lifecycle = "Executing"
       THEN wpc' = "poll" /\ UNCHANGED rejectWith
       ELSE wpc' = "drain" /\ rejectWith' = "worker_stopped"
  /\ UNCHANGED <<current, unwinding, queue, reply, callVars, initialized, handleVars>>

(* Mutant: a pending request is answered and left in the channel. *)
RejectPendingPeeks ==
  /\ wpc = "drain"
  /\ queue # << >>
  /\ reply' = [reply EXCEPT ![Head(queue)] = rejectWith]
  /\ UNCHANGED <<lifecycle, workerVars, queue, callVars, initialized, handleVars>>

(* Mutant: the drain takes the requests into a list that outlives the      *)
(* thread: nobody answers them and no reply channel closes.                *)
RejectPendingCollects ==
  /\ wpc = "drain"
  /\ queue # << >>
  /\ queue' = Tail(queue)
  /\ UNCHANGED <<lifecycle, workerVars, reply, callVars, initialized, handleVars>>

(* One round of reject_pending_requests. *)
RejectPending ==
  /\ wpc = "drain"
  /\ queue # << >>
  /\ reply' = [reply EXCEPT ![Head(queue)] = rejectWith]
  /\ queue' = Tail(queue)
  /\ UNCHANGED <<lifecycle, workerVars, callVars, initialized, handleVars>>

DrainEnds ==
  /\ wpc = "drain"
  /\ queue = << >>
  /\ wpc' = IF unwinding THEN "return" ELSE "mark_stopped"
  /\ UNCHANGED <<lifecycle, current, rejectWith, unwinding, queue, reply, callVars, initialized, handleVars>>

StopWorker ==
  /\ wpc = "mark_stopped"
  /\ lifecycle' = MarkStopped(lifecycle)
  /\ wpc' = "return"
  /\ UNCHANGED <<current, rejectWith, unwinding, queue, reply, callVars, initialized, handleVars>>

(* worker_loop returns or unwinds: the receiver goes, and with it every    *)
(* request accepted after the last round of the drain, each with the       *)
(* sender of its reply channel.                                            *)
DropReceiver ==
  /\ wpc = "return"
  /\ wpc' = "rx_dropped"
  /\ reply' = [c \in Calls |-> IF InQueue(c) THEN "dropped" ELSE reply[c]]
  /\ queue' = << >>
  /\ UNCHANGED <<lifecycle, current, rejectWith, unwinding, callVars, initialized, handleVars>>

ThreadEnds ==
  /\ wpc = "rx_dropped"
  /\ wpc' = "finished"
  /\ UNCHANGED <<lifecycle, current, rejectWith, unwinding, queue, reply, callVars, initialized, handleVars>>

Worker ==
  \/ FactorySucceeds \/ FactoryFails \/ FactoryPanics
  \/ PollShutdown \/ CheckShutdown
  \/ ReceiveRequest \/ ReceiveTimesOut \/ ReceiveDisconnected
  \/ BeginRequest \/ RefuseRequest
  \/ BackendReturns \/ BackendHangs \/ BackendPanics \/ ReplyPanic
  \/ FinishExecution \/ RejectPending \/ DrainEnds
  \/ StopWorker \/ DropReceiver \/ ThreadEnds

-----------------------------------------------------------------------------
(* A call of symbolize(). *)

Return(c, o) ==
  /\ pc' = [pc EXCEPT ![c] = "returned"]
  /\ outcome' = [outcome EXCEPT ![c] = o]

CheckLifecycle(c) ==
  /\ Spawned
  /\ pc[c] = "idle"
  /\ IF lifecycle \in Terminal
       THEN Return(c, TerminalError(lifecycle))
       ELSE pc' = [pc EXCEPT ![c] = "checked"] /\ UNCHANGED outcome
  /\ UNCHANGED <<lifecycle, workerVars, queue, reply, initialized, handleVars>>

SendAccepted(c) ==
  /\ pc[c] = "checked"
  /\ ~ReceiverDropped
  /\ HasRoom
  /\ queue' = Append(queue, c)
  /\ pc' = [pc EXCEPT ![c] = "waiting"]
  /\ UNCHANGED <<lifecycle, workerVars, reply, outcome, initialized, handleVars>>

SendFull(c) ==
  /\ pc[c] = "checked"
  /\ ~ReceiverDropped
  /\ ~HasRoom
  /\ Return(c, "queue_full")
  /\ UNCHANGED <<lifecycle, workerVars, queue, reply, initialized, handleVars>>

(* terminal_error().unwrap_or(WorkerStopped) *)
SendDisconnected(c) ==
  /\ pc[c] = "checked"
  /\ ReceiverDropped
  /\ Return(c, TerminalError(lifecycle))
  /\ UNCHANGED <<lifecycle, workerVars, queue, reply, initialized, handleVars>>

ReceiveReply(c) ==
  /\ pc[c] = "waiting"
  /\ reply[c] \in Replies
  /\ Return(c, reply[c])
  /\ UNCHANGED <<lifecycle, workerVars, queue, reply, initialized, handleVars>>

(* Mutant: recv() in place of recv_timeout(). *)
CallNeverTimesOut(c) == pc[c] = "waiting" /\ FALSE /\ UNCHANGED vars

CallTimesOut(c) ==
  /\ pc[c] = "waiting"
  /\ reply[c] = "unsent"
  /\ Return(c, "timeout")
  /\ UNCHANGED <<lifecycle, workerVars, queue, reply, initialized, handleVars>>

(* terminal_error().unwrap_or(WorkerStopped), after the reply channel closed *)
ReplyDisconnected(c) ==
  /\ pc[c] = "waiting"
  /\ reply[c] = "dropped"
  /\ Return(c, TerminalError(lifecycle))
  /\ UNCHANGED <<lifecycle, workerVars, queue, reply, initialized, handleVars>>

DropClient(c) ==
  /\ Spawned
  /\ pc[c] \in {"idle", "returned"}
  /\ pc' = [pc EXCEPT ![c] = "dropped"]
  /\ UNCHANGED <<lifecycle, workerVars, queue, reply, outcome, initialized, handleVars>>

Call(c) ==
  \/ CheckLifecycle(c)
  \/ SendAccepted(c) \/ SendFull(c) \/ SendDisconnected(c)
  \/ ReceiveReply(c) \/ CallTimesOut(c) \/ ReplyDisconnected(c)

-----------------------------------------------------------------------------
(* The owner of the handle: spawn_worker, then shutdown() or drop. *)

SpawnSucceeds ==
  /\ hpc = "spawning"
  /\ initialized = "ok"
  /\ hpc' = "held"
  /\ UNCHANGED <<lifecycle, workerVars, queue, reply, callVars, initialized, requested, signalled, handleResult>>

(* The spawner joins the thread before it reports the failure. *)
SpawnFails ==
  /\ hpc = "spawning"
  /\ initialized \in {"error", "dropped"}
  /\ Finished
  /\ hpc' = "closed"
  /\ handleResult' = IF initialized = "error" THEN "init_error" ELSE "worker_panic"
  /\ UNCHANGED <<lifecycle, workerVars, queue, reply, callVars, initialized, requested, signalled>>

(* Mutant: request_shutdown reports TRUE for an idle worker only. *)
BeginShutdownMissesExecuting ==
  /\ hpc = "held"
  /\ hpc' = "requested"
  /\ requested' = (lifecycle = "Running")
  /\ lifecycle' = RequestShutdown(lifecycle)
  /\ UNCHANGED <<workerVars, queue, reply, callVars, initialized, signalled, handleResult>>

BeginShutdown ==
  /\ hpc = "held"
  /\ hpc' = "requested"
  /\ requested' = (lifecycle \in {"Running", "Executing"})
  /\ lifecycle' = RequestShutdown(lifecycle)
  /\ UNCHANGED <<workerVars, queue, reply, callVars, initialized, signalled, handleResult>>

SendShutdown ==
  /\ hpc = "requested"
  /\ hpc' = "joining"
  /\ signalled' = TRUE
  /\ UNCHANGED <<lifecycle, workerVars, queue, reply, callVars, initialized, requested, handleResult>>

(* Mutant: the result is read without waiting for the thread. *)
JoinUnfinished ==
  /\ hpc = "joining"
  /\ hpc' = "closed"
  /\ handleResult' = IF unwinding THEN "worker_panic"
                     ELSE IF requested THEN "ok" ELSE "worker_stopped"
  /\ UNCHANGED <<lifecycle, workerVars, queue, reply, callVars, initialized, requested, signalled>>

JoinFinished ==
  /\ hpc = "joining"
  /\ Finished
  /\ hpc' = "closed"
  /\ handleResult' = IF unwinding THEN "worker_panic"
                     ELSE IF requested THEN "ok" ELSE "worker_stopped"
  /\ UNCHANGED <<lifecycle, workerVars, queue, reply, callVars, initialized, requested, signalled>>

(* The thread is left behind, detached. *)
ShutdownTimesOut ==
  /\ hpc = "joining"
  /\ ~Finished
  /\ hpc' = "closed"
  /\ handleResult' = "shutdown_timeout"
  /\ UNCHANGED <<lifecycle, workerVars, queue, reply, callVars, initialized, requested, signalled>>

(* Drop for SymbolizerWorkerHandle: request_shutdown, then send. *)
DropHandle ==
  /\ hpc = "held"
  /\ hpc' = "dropping"
  /\ lifecycle' = RequestShutdown(lifecycle)
  /\ UNCHANGED <<workerVars, queue, reply, callVars, initialized, requested, signalled, handleResult>>

DropSends ==
  /\ hpc = "dropping"
  /\ hpc' = "closed"
  /\ signalled' = TRUE
  /\ UNCHANGED <<lifecycle, workerVars, queue, reply, callVars, initialized, requested, handleResult>>

HandleFinishes ==
  \/ SpawnSucceeds \/ SpawnFails
  \/ SendShutdown \/ JoinFinished \/ ShutdownTimesOut \/ DropSends

Next ==
  \/ Worker
  \/ \E c \in Calls : Call(c) \/ DropClient(c)
  \/ HandleFinishes \/ BeginShutdown \/ DropHandle

Spec == Init /\ [][Next]_vars

(* A thread that is runnable runs (the backend either returns, panics or   *)
(* hangs), every wait with a timeout ends, and a call or a shutdown once   *)
(* begun is carried through.  Nobody is forced to call, to drop a client   *)
(* or to stop the worker.                                                  *)
Fairness ==
  /\ WF_vars(Worker)
  /\ WF_vars(HandleFinishes)
  /\ \A c \in Calls : WF_vars(Call(c) /\ pc[c] # "idle")

FairSpec == Spec /\ Fairness

-----------------------------------------------------------------------------
(* Safety. *)

(* The two unreachable!() arms: begin_request never finds another request  *)
(* executing and finish_request never finds the mark of its own request    *)
(* gone, whatever a shutdown does in between.  (A panic there would poison *)
(* the mutex every client takes.)                                          *)
UnreachableArms ==
  /\ wpc = "begin" => lifecycle # "Executing"
  /\ wpc = "finish" => lifecycle # "Running"

(* Each request is answered at most once, so that the worker's send on a   *)
(* reply channel of capacity 1 never blocks the worker, even when nobody   *)
(* is waiting at the other end.                                            *)
ReplyNeverBlocks ==
  /\ current # NoCall => reply[current] = "unsent" /\ ~InQueue(current)
  /\ \A i, j \in 1..Len(queue) :
       /\ reply[queue[i]] = "unsent"
       /\ queue[i] = queue[j] => i = j

(* A request whose caller still waits is never forgotten: it is queued,    *)
(* or in the worker's hands, or it was answered, or its reply channel is   *)
(* closed and the caller finds out.                                        *)
AcceptedRequestOwned ==
  \A c \in Calls :
    pc[c] = "waiting" /\ reply[c] = "unsent" => InQueue(c) \/ current = c

(* Whoever finds the request channel or its reply channel closed finds the *)
(* reason in the lifecycle too: the unwrap_or(WorkerStopped) of            *)
(* symbolize_inner is never needed and a panic is never reported as a stop.*)
ClosedChannelExplained ==
  ReceiverDropped \/ (\E c \in Calls : reply[c] = "dropped") =>
    lifecycle = IF unwinding THEN "Panicked" ELSE "Stopped"

(* shutdown() returns Ok only when the thread is gone, nothing is left in  *)
(* the channel and no caller waits for an answer nobody will send.         *)
ShutdownOkQuiescent ==
  handleResult = "ok" =>
    /\ Finished
    /\ lifecycle = "Stopped"
    /\ \A c \in Calls : pc[c] = "waiting" => reply[c] # "unsent"

(* shutdown() blames the worker for having stopped by itself only if every *)
(* client was dropped first, which is why the default introspection keeps  *)
(* its client alive through the shutdown.                                  *)
EarlyStopExplained ==
  handleResult = "worker_stopped" => AllClientsDropped

(* A stop, once requested, is never forgotten and the worker never becomes *)
(* ready for work again: in particular finish_request, running after a     *)
(* request_shutdown, must not restore Running.                             *)
StopIsFinal ==
  [][(lifecycle \in Terminal) => (lifecycle' \in Terminal)]_lifecycle

(* At capacity 0 nothing is ever buffered, so no accepted request is lost  *)
(* with the channel: it was executed or answered.                          *)
RendezvousNeverStrands ==
  /\ \A c \in Calls : reply[c] # "dropped"
  /\ wpc \in {"drain", "mark_stopped", "return"} => queue = << >>

-----------------------------------------------------------------------------
(* The inductive invariant behind the above. *)

(* What the lifecycle can be at each point of the worker thread. *)
LifecycleAtControl ==
  /\ wpc = "factory" => lifecycle = "Running"
  /\ wpc \in {"poll", "check", "recv", "begin", "mark_stopped"} =>
       lifecycle \in {"Running", "ShutdownRequested"}
  /\ wpc \in {"backend", "hung", "finish"} =>
       lifecycle \in {"Executing", "ShutdownRequested"}
  /\ wpc = "panic_reply" => unwinding
  /\ wpc = "drain" /\ ~unwinding => lifecycle = "ShutdownRequested"
  /\ wpc \in {"return", "rx_dropped", "finished"} /\ ~unwinding =>
       lifecycle = "Stopped"
  /\ unwinding <=> lifecycle = "Panicked"
  /\ unwinding => wpc \in {"panic_reply", "drain", "return", "rx_dropped", "finished"}

(* Who holds a request: the worker exactly while it deals with it. *)
RequestCustody ==
  /\ current # NoCall <=> wpc \in {"begin", "backend", "hung", "panic_reply"}
  /\ current # NoCall => pc[current] \notin {"idle", "checked"}
  /\ \A i \in 1..Len(queue) : pc[queue[i]] \notin {"idle", "checked"}
  /\ \A c \in Calls : pc[c] \in {"idle", "checked"} => reply[c] = "unsent"
  /\ ReceiverDropped => queue = << >>

(* No stop is under way behind the back of the handle, except that of a    *)
(* worker whose factory failed or whose clients are all gone.              *)
StopHasCause ==
  /\ initialized = "waiting" <=> wpc = "factory"
  /\ initialized = "waiting" => hpc = "spawning" /\ handleResult = "none"
  /\ initialized \in {"error", "dropped"} =>
       /\ wpc \in {"return", "rx_dropped", "finished"}
       /\ hpc \in {"spawning", "closed"}
       /\ handleResult \in {"none", "init_error", "worker_panic"}
  /\ hpc \in {"spawning", "held"} => lifecycle # "ShutdownRequested"
  /\ hpc = "spawning" => \A c \in Calls : pc[c] = "idle"
  /\ hpc \in {"requested", "joining", "dropping"} => lifecycle \in Terminal
  /\ signalled => lifecycle \in Terminal
  /\ wpc = "mark_stopped" /\ lifecycle = "Running" => AllClientsDropped
  /\ hpc \in {"spawning", "held"} /\ initialized = "ok" /\ lifecycle = "Stopped" =>
       AllClientsDropped
  /\ hpc \in {"requested", "joining"} /\ ~requested =>
       lifecycle = "Panicked" \/ (lifecycle = "Stopped" /\ AllClientsDropped)

IInv ==
  /\ TypeOK
  /\ LifecycleAtControl
  /\ RequestCustody
  /\ StopHasCause
  /\ ReplyNeverBlocks
  /\ AcceptedRequestOwned
  /\ ClosedChannelExplained
  /\ ShutdownOkQuiescent
  /\ EarlyStopExplained

-----------------------------------------------------------------------------
(* Refinement: the worker implements the service. *)

ServiceMode ==
  IF wpc = "factory" THEN "starting"
  ELSE CASE lifecycle \in {"Running", "Executing"} -> "up"
         [] lifecycle = "ShutdownRequested" -> "stopping"
         [] lifecycle = "Stopped" -> "down"
         [] lifecycle = "Panicked" -> "panicked"

ServiceBusy == IF wpc \in {"backend", "hung"} THEN {current} ELSE {}

ServiceServed == {c \in Calls : reply[c] \in BackendResults}

StatusOf(p) == CASE p \in {"checked", "waiting"} -> "open"
                 [] p = "returned" -> "closed"
                 [] p = "dropped" -> "gone"
                 [] p = "idle" -> "idle"

ServiceStatus == [c \in Calls |-> StatusOf(pc[c])]

ServiceOwner == CASE hpc = "spawning" -> "starting"
                  [] hpc = "held" -> "holding"
                  [] hpc \in {"requested", "joining"} -> "stopping"
                  [] hpc \in {"dropping", "closed"} -> "released"

Service == INSTANCE SymbolizeService WITH
  mode <- ServiceMode,
  busy <- ServiceBusy,
  served <- ServiceServed,
  status <- ServiceStatus,
  owner <- ServiceOwner,
  verdict <- handleResult

(* Every behaviour of the three kinds of thread is one the service allows: *)
(* see the promises listed in SymbolizeService.                            *)
ImplementsService == Service!Spec

-----------------------------------------------------------------------------
(* Liveness. *)

(* A call that got past the lifecycle check returns, and so do shutdown(), *)
(* drop and a failing spawn, even if the backend hangs for ever: the       *)
(* answer, the end of the thread or the timeout ends every wait.           *)
WaitsAreBounded ==
  /\ \A c \in Calls : pc[c] \in {"checked", "waiting"} ~> pc[c] \in {"returned", "dropped"}
  /\ hpc \in {"requested", "joining", "dropping"} ~> hpc = "closed"
  /\ initialized # "waiting" ~> hpc # "spawning"

(* An accepted request is eventually answered, or its reply channel closed,*)
(* unless the backend hangs: none is left behind by a drain that a sender  *)
(* overtakes, and none waits for a timeout only because the worker is gone.*)
AcceptedRequestsSettled ==
  \A c \in Calls : InQueue(c) \/ current = c ~> reply[c] # "unsent" \/ wpc = "hung"

(* Once a stop is requested the thread ends, unless the backend hangs; and *)
(* so it does when every client is gone, with nobody asking for the stop.  *)
WorkerEnds ==
  (lifecycle = "ShutdownRequested" \/ (Spawned /\ AllClientsDropped))
    ~> (Finished \/ wpc = "hung")
=============================================================================
