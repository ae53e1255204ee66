------------------------- MODULE LaunchReservation -------------------------
(***************************************************************************)
(* The launch reservations of scripts/m0/run-vm.sh.  Each invocation of    *)
(* the script (a "wrapper") makes one directory per resource of its VM,    *)
(* starts QEMU as its child, waits for it, and removes the directories.    *)
(* Nothing but those directories keeps two VMs off the same QMP path, pid  *)
(* file, GDB port, CID or disk, and nothing but the shell's traps removes  *)
(* them, so the model follows the traps command by command.                *)
(*                                                                         *)
(* bash runs a trap between two commands, and at once inside `wait`.       *)
(* While TERM has no trap of its own but EXIT has, a TERM runs the EXIT    *)
(* trap; while neither has one, or the EXIT trap is already running, the   *)
(* shell dies on the spot.  TERM and INT differ in what they forward and   *)
(* in the exit status only; the model has one signal.                      *)
(***************************************************************************)
EXTENDS Naturals, Sequences

CONSTANTS
  Wrappers,    \* the invocations of run-vm.sh
  Locks,       \* the reservation directories
  NoOne,       \* the directory does not exist
  Wants,       \* the directories of each wrapper, in the order it makes them
  MaxSignals   \* bound: TERM or INT signals sent to each wrapper

ASSUME WantsAssumption == Wants \in [Wrappers -> Seq(Locks)]
ASSUME NoOneAssumption == NoOne \notin Wrappers
ASSUME MaxSignalsAssumption == MaxSignals \in Nat

VARIABLES
  owner,      \* of each directory: who made it (the scripts see only that it exists)
  pc,         \* where each wrapper is
  held,       \* launch_locks
  index,      \* the index of release_launch_locks
  traps,      \* what TERM and INT do: "forward", "defer" or "none"
  exitArmed,  \* the EXIT trap is set and not running
  pending,    \* launch_signal is set
  pidKnown,   \* qemu_pid is set
  qemu,       \* the child: "none", "running", "signalled" or "exited"
  signals     \* how many signals each wrapper got

fileVars  == <<owner, held, index>>
trapVars  == <<traps, exitArmed, pending>>
childVars == <<pidKnown, qemu>>
vars == <<pc, fileVars, trapVars, childVars, signals>>

(* "exited" by the exit of a trap; "dead" of a TERM or INT that found no    *)
(* trap; "killed" by SIGKILL.                                              *)
PC == {"acquire", "made", "deferred", "forked", "recorded", "armed", "wait",
       "stop_child", "await_child", "release", "released", "cleanup", "exited", "dead", "killed"}

TypeOK ==
  /\ owner \in [Locks -> Wrappers \union {NoOne}]
  /\ pc \in [Wrappers -> PC]
  /\ held \in [Wrappers -> Seq(Locks)]
  /\ index \in [Wrappers -> Nat]
  /\ \A w \in Wrappers : index[w] <= Len(held[w])
  /\ traps \in [Wrappers -> {"forward", "defer", "none"}]
  /\ exitArmed \in [Wrappers -> BOOLEAN]
  /\ pending \in [Wrappers -> BOOLEAN]
  /\ pidKnown \in [Wrappers -> BOOLEAN]
  /\ qemu \in [Wrappers -> {"none", "running", "signalled", "exited"}]
  /\ signals \in [Wrappers -> 0..MaxSignals]

(* Every wrapper starts after its checks, with its traps just set. *)
Init ==
  /\ owner = [l \in Locks |-> NoOne]
  /\ pc = [w \in Wrappers |-> "acquire"]
  /\ held = [w \in Wrappers |-> << >>]
  /\ index = [w \in Wrappers |-> 0]
  /\ traps = [w \in Wrappers |-> "forward"]
  /\ exitArmed = [w \in Wrappers |-> TRUE]
  /\ pending = [w \in Wrappers |-> FALSE]
  /\ pidKnown = [w \in Wrappers |-> FALSE]
  /\ qemu = [w \in Wrappers |-> "none"]
  /\ signals = [w \in Wrappers |-> 0]

Goto(w, to) == pc' = [pc EXCEPT ![w] = to]

ChildAlive(w) == qemu[w] \in {"running", "signalled"}

-----------------------------------------------------------------------------
(* Making the reservations. *)

NextLock(w) == Wants[w][Len(held[w]) + 1]

(* mkdir succeeds ... *)
MakeLock(w) ==
  /\ pc[w] = "acquire"
  /\ Len(held[w]) < Len(Wants[w])
  /\ owner[NextLock(w)] = NoOne
  /\ owner' = [owner EXCEPT ![NextLock(w)] = w]
  /\ Goto(w, "made")
  /\ UNCHANGED <<held, index, trapVars, childVars, signals>>

(* ... and the next command appends the path to launch_locks. *)
RecordLock(w) ==
  /\ pc[w] = "made"
  /\ held' = [held EXCEPT ![w] = Append(@, NextLock(w))]
  /\ Goto(w, "acquire")
  /\ UNCHANGED <<owner, index, trapVars, childVars, signals>>

(* die "launch resources are already reserved" *)
LockTaken(w) ==
  /\ pc[w] = "acquire"
  /\ Len(held[w]) < Len(Wants[w])
  /\ owner[NextLock(w)] # NoOne
  /\ Goto(w, "cleanup")
  /\ exitArmed' = [exitArmed EXCEPT ![w] = FALSE]
  /\ UNCHANGED <<fileVars, traps, pending, childVars, signals>>

AllMade(w) == pc[w] = "acquire" /\ Len(held[w]) = Len(Wants[w])

(* The end of a --dry-run, or a failure to save QEMU's standard input. *)
ExitUnlaunched(w) ==
  /\ AllMade(w)
  /\ Goto(w, "cleanup")
  /\ exitArmed' = [exitArmed EXCEPT ![w] = FALSE]
  /\ UNCHANGED <<fileVars, traps, pending, childVars, signals>>

-----------------------------------------------------------------------------
(* Launching QEMU. *)

(* Mutant: the launch keeps the forwarding traps. *)
KeepForwarding(w) ==
  /\ AllMade(w)
  /\ Goto(w, "deferred")
  /\ UNCHANGED <<fileVars, trapVars, childVars, signals>>

DeferSignals(w) ==
  /\ AllMade(w)
  /\ Goto(w, "deferred")
  /\ traps' = [traps EXCEPT ![w] = "defer"]
  /\ UNCHANGED <<fileVars, exitArmed, pending, childVars, signals>>

Fork(w) ==
  /\ pc[w] = "deferred"
  /\ Goto(w, "forked")
  /\ qemu' = [qemu EXCEPT ![w] = "running"]
  /\ UNCHANGED <<fileVars, trapVars, pidKnown, signals>>

RecordPid(w) ==
  /\ pc[w] = "forked"
  /\ Goto(w, "recorded")
  /\ pidKnown' = [pidKnown EXCEPT ![w] = TRUE]
  /\ UNCHANGED <<fileVars, trapVars, qemu, signals>>

RearmTraps(w) ==
  /\ pc[w] = "recorded"
  /\ Goto(w, "armed")
  /\ traps' = [traps EXCEPT ![w] = "forward"]
  /\ UNCHANGED <<fileVars, exitArmed, pending, childVars, signals>>

(* Mutant: the signal recorded during the launch is not looked at. *)
DropPendingSignal(w) ==
  /\ pc[w] = "armed"
  /\ Goto(w, "wait")
  /\ UNCHANGED <<fileVars, trapVars, childVars, signals>>

(* A signal recorded during the launch is forwarded now. *)
ReplaySignal(w) ==
  /\ pc[w] = "armed"
  /\ IF pending[w]
       THEN Goto(w, "stop_child") /\ traps' = [traps EXCEPT ![w] = "none"]
       ELSE Goto(w, "wait") /\ UNCHANGED traps
  /\ pending' = [pending EXCEPT ![w] = FALSE]
  /\ UNCHANGED <<fileVars, exitArmed, childVars, signals>>

(* The child ended by itself: qemu_pid= and exit. *)
ChildEnded(w) ==
  /\ pc[w] = "wait"
  /\ qemu[w] = "exited"
  /\ Goto(w, "cleanup")
  /\ pidKnown' = [pidKnown EXCEPT ![w] = FALSE]
  /\ exitArmed' = [exitArmed EXCEPT ![w] = FALSE]
  /\ UNCHANGED <<fileVars, traps, pending, qemu, signals>>

-----------------------------------------------------------------------------
(* forward_signal and cleanup_on_exit: stop the child, wait, release. *)

(* cleanup_on_exit: trap - EXIT TERM INT *)
BeginCleanup(w) ==
  /\ pc[w] = "cleanup"
  /\ Goto(w, "stop_child")
  /\ traps' = [traps EXCEPT ![w] = "none"]
  /\ UNCHANGED <<fileVars, exitArmed, pending, childVars, signals>>

BeginRelease(w) ==
  /\ Goto(w, "release")
  /\ index' = [index EXCEPT ![w] = Len(held[w])]

StopChild(w) ==
  /\ pc[w] = "stop_child"
  /\ IF pidKnown[w]
       THEN /\ Goto(w, "await_child")
            /\ qemu' = [qemu EXCEPT ![w] = IF @ = "running" THEN "signalled" ELSE @]
            /\ UNCHANGED index
       ELSE BeginRelease(w) /\ UNCHANGED qemu
  /\ UNCHANGED <<owner, held, trapVars, pidKnown, signals>>

(* Mutant: the child is sent the signal and not waited for. *)
AwaitNothing(w) ==
  /\ pc[w] = "await_child"
  /\ pidKnown' = [pidKnown EXCEPT ![w] = FALSE]
  /\ BeginRelease(w)
  /\ UNCHANGED <<owner, held, trapVars, qemu, signals>>

AwaitChild(w) ==
  /\ pc[w] = "await_child"
  /\ qemu[w] = "exited"
  /\ pidKnown' = [pidKnown EXCEPT ![w] = FALSE]
  /\ BeginRelease(w)
  /\ UNCHANGED <<owner, held, trapVars, qemu, signals>>

(* Mutant: the reservation made first is left out (an index off by one). *)
ReleaseAllButFirst(w) ==
  /\ pc[w] = "release"
  /\ IF index[w] > 1
       THEN /\ owner' = [owner EXCEPT ![held[w][index[w]]] = NoOne]
            /\ index' = [index EXCEPT ![w] = @ - 1]
            /\ UNCHANGED <<held, pc>>
       ELSE /\ held' = [held EXCEPT ![w] = << >>]
            /\ index' = [index EXCEPT ![w] = 0]
            /\ Goto(w, "released")
            /\ UNCHANGED owner
  /\ UNCHANGED <<trapVars, childVars, signals>>

(* One round of release_launch_locks, newest first; rmdir removes the      *)
(* directory whoever made it.  The array is emptied only after the loop.   *)
ReleaseLock(w) ==
  /\ pc[w] = "release"
  /\ IF index[w] > 0
       THEN /\ owner' = [owner EXCEPT ![held[w][index[w]]] = NoOne]
            /\ index' = [index EXCEPT ![w] = @ - 1]
            /\ UNCHANGED <<held, pc>>
       ELSE /\ held' = [held EXCEPT ![w] = << >>]
            /\ Goto(w, "released")
            /\ UNCHANGED <<owner, index>>
  /\ UNCHANGED <<trapVars, childVars, signals>>

(* trap - EXIT, in forward_signal, and exit *)
Exit(w) ==
  /\ pc[w] = "released"
  /\ Goto(w, "exited")
  /\ exitArmed' = [exitArmed EXCEPT ![w] = FALSE]
  /\ UNCHANGED <<fileVars, traps, pending, childVars, signals>>

-----------------------------------------------------------------------------
(* Signals, and the child. *)

Live(w) == pc[w] \notin {"exited", "dead", "killed"}

SignalForwarded(w) ==
  /\ traps[w] = "forward"
  /\ Goto(w, "stop_child")
  /\ traps' = [traps EXCEPT ![w] = "none"]
  /\ UNCHANGED <<exitArmed, pending>>

SignalDeferred(w) ==
  /\ traps[w] = "defer"
  /\ pending' = [pending EXCEPT ![w] = TRUE]
  /\ UNCHANGED <<pc, traps, exitArmed>>

SignalRunsExitTrap(w) ==
  /\ traps[w] = "none"
  /\ exitArmed[w]
  /\ Goto(w, "cleanup")
  /\ exitArmed' = [exitArmed EXCEPT ![w] = FALSE]
  /\ UNCHANGED <<traps, pending>>

SignalFatal(w) ==
  /\ traps[w] = "none"
  /\ ~exitArmed[w]
  /\ Goto(w, "dead")
  /\ UNCHANGED trapVars

Signal(w) ==
  /\ Live(w)
  /\ signals[w] < MaxSignals
  /\ signals' = [signals EXCEPT ![w] = @ + 1]
  /\ SignalForwarded(w) \/ SignalDeferred(w) \/ SignalRunsExitTrap(w) \/ SignalFatal(w)
  /\ UNCHANGED <<fileVars, childVars>>

(* SIGKILL: no trap runs, the child and the directories stay. *)
Kill(w) ==
  /\ Live(w)
  /\ Goto(w, "killed")
  /\ UNCHANGED <<fileVars, trapVars, childVars, signals>>

(* QEMU ends, by itself or because of the signal. *)
ChildExits(w) ==
  /\ ChildAlive(w)
  /\ qemu' = [qemu EXCEPT ![w] = "exited"]
  /\ UNCHANGED <<pc, fileVars, trapVars, pidKnown, signals>>

Step(w) ==
  \/ MakeLock(w) \/ RecordLock(w) \/ LockTaken(w) \/ ExitUnlaunched(w)
  \/ DeferSignals(w) \/ Fork(w) \/ RecordPid(w) \/ RearmTraps(w) \/ ReplaySignal(w)
  \/ ChildEnded(w) \/ BeginCleanup(w) \/ StopChild(w) \/ AwaitChild(w)
  \/ ReleaseLock(w) \/ Exit(w)

Next == \E w \in Wrappers : Step(w) \/ Signal(w) \/ Kill(w) \/ ChildExits(w)

Spec == Init /\ [][Next]_vars

(* The shell runs, and QEMU ends once it is told to.  Nothing else must    *)
(* happen: a VM that nobody stops may run for ever.                        *)
Fairness ==
  \A w \in Wrappers :
    /\ WF_vars(Step(w))
    /\ WF_vars(ChildExits(w) /\ qemu[w] = "signalled")

FairSpec == Spec /\ Fairness

-----------------------------------------------------------------------------
Wanted(w) == {Wants[w][i] : i \in 1..Len(Wants[w])}

(* M0.md: "the locks remain until the QEMU child exits".  The directories  *)
(* of a VM that runs are there and are its own, whatever its wrapper and   *)
(* the other wrappers went through.                                        *)
HeldWhileRunning ==
  \A w \in Wrappers : ChildAlive(w) => \A l \in Wanted(w) : owner[l] = w

(* Two VMs that run share no resource. *)
NoSharedResource ==
  \A v, w \in Wrappers :
    v # w /\ ChildAlive(v) /\ ChildAlive(w) => Wanted(v) \intersect Wanted(w) = {}

(* A wrapper that ends by itself or by a signal it can handle leaves no VM *)
(* behind: no signal slips between the fork and qemu_pid=$!, and one that  *)
(* kills the shell in the middle of its EXIT trap finds the VM gone.       *)
ChildReaped == \A w \in Wrappers : pc[w] \in {"exited", "dead"} => ~ChildAlive(w)

(* M0.md: the wrapper, stopped or done, "releases all reservations".       *)
ReservationsReleased ==
  \A w \in Wrappers : pc[w] = "exited" => \A l \in Locks : owner[l] # w

(* What is left of that with one signal, SIGKILL apart.  A wrapper that    *)
(* nobody signals leaves no directory.  One that runs its trap to the end  *)
(* leaves at most the directory it was making when the signal came, and    *)
(* then it started no VM.  Only one that dies of the signal, because       *)
(* cleanup_on_exit has reset its traps, can leave more, VM or no VM.       *)
LeftoversExplained ==
  \A w \in Wrappers :
    pc[w] \in {"exited", "dead"} =>
      \A l \in Locks : owner[l] = w =>
        /\ signals[w] > 0
        /\ pc[w] = "exited" => /\ qemu[w] = "none"
                               /\ \A k \in Locks : owner[k] = w => k = l

(* A signal is never lost, not even one that comes during the launch: the  *)
(* wrapper stops its VM and ends.                                          *)
SignalEndsWrapper ==
  \A w \in Wrappers : signals[w] > 0 ~> ~Live(w)
=============================================================================
