---------------------- MODULE LaunchReservationProofs ----------------------
(***************************************************************************)
(* Proofs about LaunchReservation, for any number of wrappers and          *)
(* directories, when no wrapper gets more than one TERM or INT (with two   *)
(* HeldWhileRunning fails).                                                *)
(*                                                                         *)
(* The argument: a second pass over launch_locks needs the EXIT trap to be *)
(* set while TERM's is not, and TrapsAtCommand says that the only signal   *)
(* has come by then.  So what a wrapper goes through when it releases is   *)
(* still its own (OwnedByHolder), no step of another one touches it, and a *)
(* child that runs is known to a wrapper that has not begun to release     *)
(* (ChildAtCommand).                                                       *)
(***************************************************************************)
EXTENDS LaunchReservation, TLAPS

OneSignal == MaxSignals <= 1

(* Which traps are set at which command, and what set them.                *)
TrapsAtCommand(w) ==
  /\ pc[w] = "dead" => signals[w] = 1
  /\ pc[w] \notin {"dead", "killed"} =>
    /\ traps[w] = "forward" => pc[w] \in {"acquire", "made", "armed", "wait", "cleanup"}
    /\ traps[w] = "defer" => pc[w] \in {"deferred", "forked", "recorded"}
    /\ pc[w] = "cleanup" => ~exitArmed[w]
    /\ pending[w] => signals[w] = 1
    /\ traps[w] = "none" /\ exitArmed[w] => signals[w] = 1
    /\ pc[w] = "cleanup" => ~pidKnown[w]
    /\ traps[w] = "none" /\ signals[w] = 0 => ~pidKnown[w]

(* Where the child may run, and who knows its pid. *)
ChildAtCommand(w) ==
  /\ pc[w] \in {"acquire", "made", "deferred"} => qemu[w] = "none"
  /\ pc[w] \in {"deferred", "forked"} => traps[w] = "defer"
  /\ pc[w] \in {"recorded", "await_child"} => pidKnown[w]
  /\ pc[w] = "forked" => qemu[w] # "none"
  /\ pidKnown[w] => qemu[w] # "none"
  /\ ChildAlive(w) =>
       /\ pidKnown[w] \/ pc[w] \in {"forked", "killed"}
       /\ pc[w] \notin {"release", "released", "exited", "dead"}
       /\ Len(held[w]) = Len(Wants[w])
  /\ pc[w] = "deferred" => Len(held[w]) = Len(Wants[w])
  /\ pc[w] = "made" => Len(held[w]) < Len(Wants[w])

(* launch_locks is the first part of what the wrapper wants, and no path   *)
(* is in it twice.                                                         *)
HeldAreWanted(w) ==
  /\ Len(held[w]) <= Len(Wants[w])
  /\ \A i \in 1..Len(held[w]) : held[w][i] = Wants[w][i]
  /\ \A i, j \in 1..Len(held[w]) : held[w][i] = held[w][j] => i = j

(* How much of launch_locks has not been released. *)
StillHeld(w) ==
  IF pc[w] = "release" THEN index[w]
  ELSE IF pc[w] \in {"released", "exited", "dead"} \/ (pc[w] = "killed" /\ ~ChildAlive(w))
    THEN 0
  ELSE Len(held[w])

IsHeld(w, l) == \E i \in 1..StillHeld(w) : held[w][i] = l

OwnedByHolder(w) ==
  /\ \A i \in 1..StillHeld(w) : owner[held[w][i]] = w
  /\ pc[w] = "made" => owner[NextLock(w)] = w /\ ~IsHeld(w, NextLock(w))

(* The directory a signal found made and not recorded. *)
Stray(w, l) ==
  /\ pc[w] \in {"stop_child", "release", "released", "exited"}
  /\ qemu[w] = "none" /\ signals[w] = 1
  /\ \A k \in Locks : owner[k] = w => k = l \/ IsHeld(w, k)

(* Every directory of a wrapper is one it still holds, or is making, or    *)
(* the one it will leave behind.                                           *)
Accounted(w) ==
  pc[w] \notin {"dead", "killed"} =>
    \A l \in Locks : owner[l] = w =>
      \/ IsHeld(w, l)
      \/ pc[w] = "made" /\ l = NextLock(w)
      \/ Stray(w, l)

Good(w) ==
  TrapsAtCommand(w) /\ ChildAtCommand(w) /\ HeldAreWanted(w) /\ OwnedByHolder(w) /\ Accounted(w)

IInv == TypeOK /\ \A w \in Wrappers : Good(w)

-----------------------------------------------------------------------------
(* The other wrappers. *)

(* Everything of v but the directories. *)
SameOf(v) ==
  /\ pc'[v] = pc[v] /\ held'[v] = held[v] /\ index'[v] = index[v]
  /\ traps'[v] = traps[v] /\ exitArmed'[v] = exitArmed[v] /\ pending'[v] = pending[v]
  /\ pidKnown'[v] = pidKnown[v] /\ qemu'[v] = qemu[v] /\ signals'[v] = signals[v]

(* A step that neither makes nor removes a directory of v, and is not its  *)
(* own, does not disturb it.                                               *)
LEMMA OthersKeep ==
  ASSUME NEW v \in Wrappers, TypeOK, Good(v), SameOf(v),
         \A l \in Locks : owner'[l] = v <=> owner[l] = v
  PROVE  Good(v)'
<1>1. StillHeld(v)' = StillHeld(v) /\ ChildAlive(v)' = ChildAlive(v) /\ NextLock(v)' = NextLock(v)
  BY DEF SameOf, StillHeld, ChildAlive, NextLock
<1>2. \A l \in Locks : IsHeld(v, l)' <=> IsHeld(v, l)
  BY <1>1 DEF SameOf, IsHeld
<1>3. TrapsAtCommand(v)' /\ ChildAtCommand(v)' /\ HeldAreWanted(v)'
  BY <1>1 DEF Good, SameOf, TrapsAtCommand, ChildAtCommand, HeldAreWanted
<1>4. OwnedByHolder(v)'
  <2>1. \A i \in 1..StillHeld(v) : held[v][i] \in Locks
    BY DEF TypeOK, StillHeld
  <2>2. pc[v] = "made" => NextLock(v) \in Locks
    BY WantsAssumption DEF TypeOK, Good, ChildAtCommand, NextLock
  <2>. QED
    BY <1>1, <1>2, <2>1, <2>2 DEF Good, SameOf, OwnedByHolder
<1>5. Accounted(v)'
  BY <1>1, <1>2 DEF Good, SameOf, Accounted, Stray
<1>. QED
  BY <1>3, <1>4, <1>5 DEF Good

(* Only its own pc and variables change in a step of w that leaves the     *)
(* directories alone.                                                      *)
LEMMA LocalStep ==
  ASSUME NEW w \in Wrappers, IInv, TypeOK', owner' = owner, Good(w)',
         \A v \in Wrappers : v # w => SameOf(v)
  PROVE  IInv'
<1>1. ASSUME NEW v \in Wrappers, v # w PROVE Good(v)'
  BY <1>1, OthersKeep DEF IInv
<1>. QED
  BY <1>1 DEF IInv

-----------------------------------------------------------------------------
(* The steps that leave the directories alone.                             *)

(* A reservation is taken.                                                 *)
LEMMA LockTakenStep ==
  ASSUME NEW w \in Wrappers, IInv, LockTaken(w)
  PROVE  IInv'
<1>. TypeOK /\ Good(w)
  BY DEF IInv
<1>. USE DEF TypeOK, Good, LockTaken, Goto, fileVars, trapVars, childVars
<1>1. TypeOK'
  BY WantsAssumption, MaxSignalsAssumption DEF PC, ChildAlive
<1>2. owner' = owner /\ \A v \in Wrappers : v # w => SameOf(v)
  BY DEF SameOf
<1>3. TrapsAtCommand(w)'
  BY DEF TrapsAtCommand, ChildAtCommand
<1>4. ChildAtCommand(w)'
  BY DEF TrapsAtCommand, ChildAtCommand, HeldAreWanted, ChildAlive
<1>5. HeldAreWanted(w)'
  BY DEF HeldAreWanted
<1>6. OwnedByHolder(w)'
  BY DEF OwnedByHolder, ChildAtCommand, StillHeld, ChildAlive, IsHeld
<1>7. Accounted(w)'
  BY DEF Accounted, ChildAtCommand, TrapsAtCommand, Stray, IsHeld, StillHeld, ChildAlive
<1>. QED
  BY <1>1, <1>2, <1>3, <1>4, <1>5, <1>6, <1>7, LocalStep

(* A dry run ends.                                                         *)
LEMMA ExitUnlaunchedStep ==
  ASSUME NEW w \in Wrappers, IInv, ExitUnlaunched(w)
  PROVE  IInv'
<1>. TypeOK /\ Good(w)
  BY DEF IInv
<1>. USE DEF TypeOK, Good, ExitUnlaunched, AllMade, Goto, fileVars, trapVars, childVars
<1>1. TypeOK'
  BY WantsAssumption, MaxSignalsAssumption DEF PC, ChildAlive
<1>2. owner' = owner /\ \A v \in Wrappers : v # w => SameOf(v)
  BY DEF SameOf
<1>3. TrapsAtCommand(w)'
  BY DEF TrapsAtCommand, ChildAtCommand
<1>4. ChildAtCommand(w)'
  BY DEF TrapsAtCommand, ChildAtCommand, HeldAreWanted, ChildAlive
<1>5. HeldAreWanted(w)'
  BY DEF HeldAreWanted
<1>6. OwnedByHolder(w)'
  BY DEF OwnedByHolder, ChildAtCommand, StillHeld, ChildAlive, IsHeld
<1>7. Accounted(w)'
  BY DEF Accounted, ChildAtCommand, TrapsAtCommand, Stray, IsHeld, StillHeld, ChildAlive
<1>. QED
  BY <1>1, <1>2, <1>3, <1>4, <1>5, <1>6, <1>7, LocalStep

(* The launch begins.                                                      *)
LEMMA DeferSignalsStep ==
  ASSUME NEW w \in Wrappers, IInv, DeferSignals(w)
  PROVE  IInv'
<1>. TypeOK /\ Good(w)
  BY DEF IInv
<1>. USE DEF TypeOK, Good, DeferSignals, AllMade, Goto, fileVars, trapVars, childVars
<1>1. TypeOK'
  BY WantsAssumption, MaxSignalsAssumption DEF PC, ChildAlive
<1>2. owner' = owner /\ \A v \in Wrappers : v # w => SameOf(v)
  BY DEF SameOf
<1>3. TrapsAtCommand(w)'
  BY DEF TrapsAtCommand, ChildAtCommand
<1>4. ChildAtCommand(w)'
  BY DEF TrapsAtCommand, ChildAtCommand, HeldAreWanted, ChildAlive
<1>5. HeldAreWanted(w)'
  BY DEF HeldAreWanted
<1>6. OwnedByHolder(w)'
  BY DEF OwnedByHolder, ChildAtCommand, StillHeld, ChildAlive, IsHeld
<1>7. Accounted(w)'
  BY DEF Accounted, ChildAtCommand, TrapsAtCommand, Stray, IsHeld, StillHeld, ChildAlive
<1>. QED
  BY <1>1, <1>2, <1>3, <1>4, <1>5, <1>6, <1>7, LocalStep

(* The child starts, with its pid unknown and the traps deferred.          *)
LEMMA ForkStep ==
  ASSUME NEW w \in Wrappers, IInv, Fork(w)
  PROVE  IInv'
<1>. TypeOK /\ Good(w)
  BY DEF IInv
<1>. USE DEF TypeOK, Good, Fork, Goto, fileVars, trapVars, childVars
<1>1. TypeOK'
  BY WantsAssumption, MaxSignalsAssumption DEF PC, ChildAlive
<1>2. owner' = owner /\ \A v \in Wrappers : v # w => SameOf(v)
  BY DEF SameOf
<1>3. TrapsAtCommand(w)'
  BY DEF TrapsAtCommand, ChildAtCommand
<1>4. ChildAtCommand(w)'
  BY DEF TrapsAtCommand, ChildAtCommand, HeldAreWanted, ChildAlive
<1>5. HeldAreWanted(w)'
  BY DEF HeldAreWanted
<1>6. OwnedByHolder(w)'
  BY DEF OwnedByHolder, ChildAtCommand, StillHeld, ChildAlive, IsHeld
<1>7. Accounted(w)'
  BY DEF Accounted, ChildAtCommand, TrapsAtCommand, Stray, IsHeld, StillHeld, ChildAlive
<1>. QED
  BY <1>1, <1>2, <1>3, <1>4, <1>5, <1>6, <1>7, LocalStep

(* qemu_pid is set.                                                        *)
LEMMA RecordPidStep ==
  ASSUME NEW w \in Wrappers, IInv, RecordPid(w)
  PROVE  IInv'
<1>. TypeOK /\ Good(w)
  BY DEF IInv
<1>. USE DEF TypeOK, Good, RecordPid, Goto, fileVars, trapVars, childVars
<1>1. TypeOK'
  BY WantsAssumption, MaxSignalsAssumption DEF PC, ChildAlive
<1>2. owner' = owner /\ \A v \in Wrappers : v # w => SameOf(v)
  BY DEF SameOf
<1>3. TrapsAtCommand(w)'
  BY DEF TrapsAtCommand, ChildAtCommand
<1>4. ChildAtCommand(w)'
  BY DEF TrapsAtCommand, ChildAtCommand, HeldAreWanted, ChildAlive
<1>5. HeldAreWanted(w)'
  BY DEF HeldAreWanted
<1>6. OwnedByHolder(w)'
  BY DEF OwnedByHolder, ChildAtCommand, StillHeld, ChildAlive, IsHeld
<1>7. Accounted(w)'
  BY DEF Accounted, ChildAtCommand, TrapsAtCommand, Stray, IsHeld, StillHeld, ChildAlive
<1>. QED
  BY <1>1, <1>2, <1>3, <1>4, <1>5, <1>6, <1>7, LocalStep

(* The forwarding traps are set again.                                     *)
LEMMA RearmTrapsStep ==
  ASSUME NEW w \in Wrappers, IInv, RearmTraps(w)
  PROVE  IInv'
<1>. TypeOK /\ Good(w)
  BY DEF IInv
<1>. USE DEF TypeOK, Good, RearmTraps, Goto, fileVars, trapVars, childVars
<1>1. TypeOK'
  BY WantsAssumption, MaxSignalsAssumption DEF PC, ChildAlive
<1>2. owner' = owner /\ \A v \in Wrappers : v # w => SameOf(v)
  BY DEF SameOf
<1>3. TrapsAtCommand(w)'
  BY DEF TrapsAtCommand, ChildAtCommand
<1>4. ChildAtCommand(w)'
  BY DEF TrapsAtCommand, ChildAtCommand, HeldAreWanted, ChildAlive
<1>5. HeldAreWanted(w)'
  BY DEF HeldAreWanted
<1>6. OwnedByHolder(w)'
  BY DEF OwnedByHolder, ChildAtCommand, StillHeld, ChildAlive, IsHeld
<1>7. Accounted(w)'
  BY DEF Accounted, ChildAtCommand, TrapsAtCommand, Stray, IsHeld, StillHeld, ChildAlive
<1>. QED
  BY <1>1, <1>2, <1>3, <1>4, <1>5, <1>6, <1>7, LocalStep

(* A signal that came during the launch is acted upon: it was the only     *)
(* one.                                                                    *)
LEMMA ReplaySignalStep ==
  ASSUME NEW w \in Wrappers, IInv, ReplaySignal(w)
  PROVE  IInv'
<1>. TypeOK /\ Good(w)
  BY DEF IInv
<1>. USE DEF TypeOK, Good, ReplaySignal, Goto, fileVars, trapVars, childVars
<1>1. TypeOK'
  BY WantsAssumption, MaxSignalsAssumption DEF PC, ChildAlive
<1>2. owner' = owner /\ \A v \in Wrappers : v # w => SameOf(v)
  BY DEF SameOf
<1>3. TrapsAtCommand(w)'
  BY DEF TrapsAtCommand, ChildAtCommand
<1>4. ChildAtCommand(w)'
  BY DEF TrapsAtCommand, ChildAtCommand, HeldAreWanted, ChildAlive
<1>5. HeldAreWanted(w)'
  BY DEF HeldAreWanted
<1>6. OwnedByHolder(w)'
  BY DEF OwnedByHolder, ChildAtCommand, StillHeld, ChildAlive, IsHeld
<1>7. Accounted(w)'
  BY DEF Accounted, ChildAtCommand, TrapsAtCommand, Stray, IsHeld, StillHeld, ChildAlive
<1>. QED
  BY <1>1, <1>2, <1>3, <1>4, <1>5, <1>6, <1>7, LocalStep

(* The child ended by itself.                                              *)
LEMMA ChildEndedStep ==
  ASSUME NEW w \in Wrappers, IInv, ChildEnded(w)
  PROVE  IInv'
<1>. TypeOK /\ Good(w)
  BY DEF IInv
<1>. USE DEF TypeOK, Good, ChildEnded, Goto, fileVars, trapVars, childVars
<1>1. TypeOK'
  BY WantsAssumption, MaxSignalsAssumption DEF PC, ChildAlive
<1>2. owner' = owner /\ \A v \in Wrappers : v # w => SameOf(v)
  BY DEF SameOf
<1>3. TrapsAtCommand(w)'
  BY DEF TrapsAtCommand, ChildAtCommand
<1>4. ChildAtCommand(w)'
  BY DEF TrapsAtCommand, ChildAtCommand, HeldAreWanted, ChildAlive
<1>5. HeldAreWanted(w)'
  BY DEF HeldAreWanted
<1>6. OwnedByHolder(w)'
  BY DEF OwnedByHolder, ChildAtCommand, StillHeld, ChildAlive, IsHeld
<1>7. Accounted(w)'
  BY DEF Accounted, ChildAtCommand, TrapsAtCommand, Stray, IsHeld, StillHeld, ChildAlive
<1>. QED
  BY <1>1, <1>2, <1>3, <1>4, <1>5, <1>6, <1>7, LocalStep

(* cleanup_on_exit resets the traps.                                       *)
LEMMA BeginCleanupStep ==
  ASSUME NEW w \in Wrappers, IInv, BeginCleanup(w)
  PROVE  IInv'
<1>. TypeOK /\ Good(w)
  BY DEF IInv
<1>. USE DEF TypeOK, Good, BeginCleanup, Goto, fileVars, trapVars, childVars
<1>1. TypeOK'
  BY WantsAssumption, MaxSignalsAssumption DEF PC, ChildAlive
<1>2. owner' = owner /\ \A v \in Wrappers : v # w => SameOf(v)
  BY DEF SameOf
<1>3. TrapsAtCommand(w)'
  BY DEF TrapsAtCommand, ChildAtCommand
<1>4. ChildAtCommand(w)'
  BY DEF TrapsAtCommand, ChildAtCommand, HeldAreWanted, ChildAlive
<1>5. HeldAreWanted(w)'
  BY DEF HeldAreWanted
<1>6. OwnedByHolder(w)'
  BY DEF OwnedByHolder, ChildAtCommand, StillHeld, ChildAlive, IsHeld
<1>7. Accounted(w)'
  BY DEF Accounted, ChildAtCommand, TrapsAtCommand, Stray, IsHeld, StillHeld, ChildAlive
<1>. QED
  BY <1>1, <1>2, <1>3, <1>4, <1>5, <1>6, <1>7, LocalStep

(* The child is signalled, or there is none and the release begins.        *)
LEMMA StopChildStep ==
  ASSUME NEW w \in Wrappers, IInv, StopChild(w)
  PROVE  IInv'
<1>. TypeOK /\ Good(w)
  BY DEF IInv
<1>. USE DEF TypeOK, Good, StopChild, BeginRelease, Goto, fileVars, trapVars, childVars
<1>1. TypeOK'
  <2>1. CASE pidKnown[w]
    BY <2>1 DEF PC
  <2>2. CASE ~pidKnown[w]
    <3>1. Len(held[w]) \in Nat /\ held' = held /\ index' = [index EXCEPT ![w] = Len(held[w])]
      BY <2>2
    <3>2. \A v \in Wrappers : index'[v] \in Nat /\ index'[v] <= Len(held'[v])
      BY <3>1
    <3>. QED
      BY <2>2, <3>2 DEF PC
  <2>. QED
    BY <2>1, <2>2
<1>2. owner' = owner /\ \A v \in Wrappers : v # w => SameOf(v)
  BY DEF SameOf
<1>3. TrapsAtCommand(w)'
  BY DEF TrapsAtCommand, ChildAtCommand
<1>4. ChildAtCommand(w)'
  BY DEF TrapsAtCommand, ChildAtCommand, HeldAreWanted, ChildAlive
<1>5. HeldAreWanted(w)'
  BY DEF HeldAreWanted
<1>6. OwnedByHolder(w)'
  BY DEF OwnedByHolder, ChildAtCommand, StillHeld, ChildAlive, IsHeld
<1>7. Accounted(w)'
  BY DEF Accounted, ChildAtCommand, TrapsAtCommand, Stray, IsHeld, StillHeld, ChildAlive
<1>. QED
  BY <1>1, <1>2, <1>3, <1>4, <1>5, <1>6, <1>7, LocalStep

(* The child is gone and the release begins.                               *)
LEMMA AwaitChildStep ==
  ASSUME NEW w \in Wrappers, IInv, AwaitChild(w)
  PROVE  IInv'
<1>. TypeOK /\ Good(w)
  BY DEF IInv
<1>. USE DEF TypeOK, Good, AwaitChild, BeginRelease, Goto, fileVars, trapVars, childVars
<1>1. TypeOK'
  BY WantsAssumption, MaxSignalsAssumption DEF PC, ChildAlive
<1>2. owner' = owner /\ \A v \in Wrappers : v # w => SameOf(v)
  BY DEF SameOf
<1>3. TrapsAtCommand(w)'
  BY DEF TrapsAtCommand, ChildAtCommand
<1>4. ChildAtCommand(w)'
  BY DEF TrapsAtCommand, ChildAtCommand, HeldAreWanted, ChildAlive
<1>5. HeldAreWanted(w)'
  BY DEF HeldAreWanted
<1>6. OwnedByHolder(w)'
  BY DEF OwnedByHolder, ChildAtCommand, StillHeld, ChildAlive, IsHeld
<1>7. Accounted(w)'
  BY DEF Accounted, ChildAtCommand, TrapsAtCommand, Stray, IsHeld, StillHeld, ChildAlive
<1>. QED
  BY <1>1, <1>2, <1>3, <1>4, <1>5, <1>6, <1>7, LocalStep

(* The wrapper ends.                                                       *)
LEMMA ExitStep ==
  ASSUME NEW w \in Wrappers, IInv, Exit(w)
  PROVE  IInv'
<1>. TypeOK /\ Good(w)
  BY DEF IInv
<1>. USE DEF TypeOK, Good, Exit, Goto, fileVars, trapVars, childVars
<1>1. TypeOK'
  BY WantsAssumption, MaxSignalsAssumption DEF PC, ChildAlive
<1>2. owner' = owner /\ \A v \in Wrappers : v # w => SameOf(v)
  BY DEF SameOf
<1>3. TrapsAtCommand(w)'
  BY DEF TrapsAtCommand, ChildAtCommand
<1>4. ChildAtCommand(w)'
  BY DEF TrapsAtCommand, ChildAtCommand, HeldAreWanted, ChildAlive
<1>5. HeldAreWanted(w)'
  BY DEF HeldAreWanted
<1>6. OwnedByHolder(w)'
  BY DEF OwnedByHolder, ChildAtCommand, StillHeld, ChildAlive, IsHeld
<1>7. Accounted(w)'
  BY DEF Accounted, ChildAtCommand, TrapsAtCommand, Stray, IsHeld, StillHeld, ChildAlive
<1>. QED
  BY <1>1, <1>2, <1>3, <1>4, <1>5, <1>6, <1>7, LocalStep

(* SIGKILL: the wrapper holds on to what it has.                           *)
LEMMA KillStep ==
  ASSUME NEW w \in Wrappers, IInv, Kill(w)
  PROVE  IInv'
<1>. TypeOK /\ Good(w)
  BY DEF IInv
<1>. USE DEF TypeOK, Good, Kill, Live, Goto, fileVars, trapVars, childVars
<1>1. TypeOK'
  BY WantsAssumption, MaxSignalsAssumption DEF PC, ChildAlive
<1>2. owner' = owner /\ \A v \in Wrappers : v # w => SameOf(v)
  BY DEF SameOf
<1>3. TrapsAtCommand(w)'
  BY DEF TrapsAtCommand, ChildAtCommand
<1>4. ChildAtCommand(w)'
  BY DEF TrapsAtCommand, ChildAtCommand, HeldAreWanted, ChildAlive
<1>5. HeldAreWanted(w)'
  BY DEF HeldAreWanted
<1>6. OwnedByHolder(w)'
  BY DEF OwnedByHolder, ChildAtCommand, StillHeld, ChildAlive, IsHeld
<1>7. Accounted(w)'
  BY DEF Accounted, ChildAtCommand, TrapsAtCommand, Stray, IsHeld, StillHeld, ChildAlive
<1>. QED
  BY <1>1, <1>2, <1>3, <1>4, <1>5, <1>6, <1>7, LocalStep

(* The child ends.                                                         *)
LEMMA ChildExitsStep ==
  ASSUME NEW w \in Wrappers, IInv, ChildExits(w)
  PROVE  IInv'
<1>. TypeOK /\ Good(w)
  BY DEF IInv
<1>. USE DEF TypeOK, Good, ChildExits, Goto, fileVars, trapVars, childVars
<1>1. TypeOK'
  BY WantsAssumption, MaxSignalsAssumption DEF PC, ChildAlive
<1>2. owner' = owner /\ \A v \in Wrappers : v # w => SameOf(v)
  BY DEF SameOf
<1>3. TrapsAtCommand(w)'
  BY DEF TrapsAtCommand, ChildAtCommand
<1>4. ChildAtCommand(w)'
  BY DEF TrapsAtCommand, ChildAtCommand, HeldAreWanted, ChildAlive
<1>5. HeldAreWanted(w)'
  BY DEF HeldAreWanted
<1>6. OwnedByHolder(w)'
  BY DEF OwnedByHolder, ChildAtCommand, StillHeld, ChildAlive, IsHeld
<1>7. Accounted(w)'
  BY DEF Accounted, ChildAtCommand, TrapsAtCommand, Stray, IsHeld, StillHeld, ChildAlive
<1>. QED
  BY <1>1, <1>2, <1>3, <1>4, <1>5, <1>6, <1>7, LocalStep

(* The path is recorded.                                                   *)
LEMMA RecordLockStep ==
  ASSUME NEW w \in Wrappers, IInv, RecordLock(w)
  PROVE  IInv'
<1>. TypeOK /\ Good(w)
  BY DEF IInv
<1>. USE DEF TypeOK, Good, RecordLock, NextLock, Goto, fileVars, trapVars, childVars
<1>1. TypeOK'
  <2>1. Wants[w] \in Seq(Locks) /\ Len(held[w]) < Len(Wants[w])
    BY WantsAssumption DEF ChildAtCommand
  <2>2. NextLock(w) \in Locks
    BY <2>1
  <2>3. held' \in [Wrappers -> Seq(Locks)]
    BY <2>2
  <2>4. \A v \in Wrappers : index'[v] <= Len(held'[v])
    BY <2>2
  <2>. QED
    BY <2>3, <2>4 DEF PC
<1>2. owner' = owner /\ \A v \in Wrappers : v # w => SameOf(v)
  BY DEF SameOf
<1>3. TrapsAtCommand(w)'
  BY DEF TrapsAtCommand, ChildAtCommand
<1>4. ChildAtCommand(w)'
  BY DEF TrapsAtCommand, ChildAtCommand, HeldAreWanted, ChildAlive
<1>5. HeldAreWanted(w)'
  <2>1. /\ Len(held[w]) < Len(Wants[w])
        /\ \A i \in 1..Len(held[w]) : held[w][i] # NextLock(w)
    BY DEF ChildAtCommand, OwnedByHolder, IsHeld, StillHeld
  <2>2. /\ Len(held'[w]) = Len(held[w]) + 1
        /\ held'[w][Len(held[w]) + 1] = NextLock(w)
        /\ \A i \in 1..Len(held[w]) : held'[w][i] = held[w][i]
    OBVIOUS
  <2>. QED
    BY <2>1, <2>2, WantsAssumption DEF HeldAreWanted
<1>6. OwnedByHolder(w)'
  BY DEF OwnedByHolder, ChildAtCommand, StillHeld, ChildAlive, IsHeld
<1>7. Accounted(w)'
  <2>1. /\ Len(held'[w]) = Len(held[w]) + 1
        /\ held'[w][Len(held[w]) + 1] = NextLock(w)
        /\ \A i \in 1..Len(held[w]) : held'[w][i] = held[w][i]
    OBVIOUS
  <2>2. StillHeld(w)' = StillHeld(w) + 1 /\ StillHeld(w) = Len(held[w])
    BY <2>1 DEF StillHeld
  <2>3. ASSUME NEW l \in Locks, l = NextLock(w) PROVE IsHeld(w, l)'
    <3>1. Len(held[w]) + 1 \in 1..StillHeld(w)'
      BY <2>2
    <3>. QED
      BY <2>1, <2>3, <3>1 DEF IsHeld
  <2>4. ASSUME NEW l \in Locks, IsHeld(w, l) PROVE IsHeld(w, l)'
    <3>1. PICK i \in 1..StillHeld(w) : held[w][i] = l
      BY <2>4 DEF IsHeld
    <3>2. i \in 1..StillHeld(w)' /\ held'[w][i] = l
      BY <2>1, <2>2, <3>1
    <3>. QED
      BY <3>2 DEF IsHeld
  <2>. QED
    BY <2>3, <2>4 DEF Accounted, Stray
<1>. QED
  BY <1>1, <1>2, <1>3, <1>4, <1>5, <1>6, <1>7, LocalStep

(* A signal comes: it runs a trap that has not run, or kills the shell.    *)
LEMMA SignalStep ==
  ASSUME OneSignal, NEW w \in Wrappers, IInv, Signal(w)
  PROVE  IInv'
<1>. TypeOK /\ Good(w)
  BY DEF IInv
<1>. USE DEF TypeOK, Good, Signal, Live, SignalForwarded, SignalDeferred, SignalRunsExitTrap, SignalFatal, Goto, fileVars, trapVars, childVars
<1>0. signals[w] = 0 /\ signals'[w] = 1
  BY MaxSignalsAssumption DEF OneSignal
<1>1. TypeOK'
  <2>1. CASE SignalForwarded(w)
    BY MaxSignalsAssumption, <2>1 DEF PC, ChildAlive
  <2>2. CASE SignalDeferred(w)
    BY MaxSignalsAssumption, <2>2 DEF PC, ChildAlive
  <2>3. CASE SignalRunsExitTrap(w)
    BY MaxSignalsAssumption, <2>3 DEF PC, ChildAlive
  <2>4. CASE SignalFatal(w)
    BY MaxSignalsAssumption, <2>4 DEF PC, ChildAlive
  <2>. QED
    BY <2>1, <2>2, <2>3, <2>4
<1>2. owner' = owner /\ \A v \in Wrappers : v # w => SameOf(v)
  BY DEF SameOf
<1>3. TrapsAtCommand(w)'
  BY MaxSignalsAssumption DEF TrapsAtCommand, ChildAtCommand, OneSignal
<1>4. ChildAtCommand(w)'
  <2>1. ~SignalRunsExitTrap(w)
    BY <1>0 DEF TrapsAtCommand
  <2>2. CASE SignalForwarded(w) \/ SignalDeferred(w)
    BY <2>2 DEF TrapsAtCommand, ChildAtCommand, HeldAreWanted, ChildAlive
  <2>3. CASE SignalFatal(w)
    <3>1. ~pidKnown[w] /\ pc[w] # "forked"
      BY <1>0, <2>3 DEF TrapsAtCommand, ChildAtCommand
    <3>2. ~ChildAlive(w)
      BY <3>1 DEF ChildAtCommand
    <3>. QED
      BY <2>3, <3>1, <3>2 DEF ChildAtCommand, HeldAreWanted, ChildAlive
  <2>. QED
    BY <2>1, <2>2, <2>3
<1>5. HeldAreWanted(w)'
  BY DEF HeldAreWanted
<1>6. OwnedByHolder(w)'
  <2>1. ~SignalRunsExitTrap(w)
    BY MaxSignalsAssumption DEF TrapsAtCommand, OneSignal
  <2>2. pc'[w] # "made"
    BY <2>1 DEF TrapsAtCommand
  <2>3. StillHeld(w)' = StillHeld(w) \/ StillHeld(w)' = 0
    BY <2>1 DEF StillHeld, ChildAlive, TrapsAtCommand, ChildAtCommand
  <2>. QED
    BY <2>2, <2>3 DEF OwnedByHolder
<1>7. Accounted(w)'
  <2>1. ~SignalRunsExitTrap(w)
    BY MaxSignalsAssumption DEF TrapsAtCommand, OneSignal
  <2>2. CASE SignalForwarded(w)
    <3>1. StillHeld(w)' = StillHeld(w)
      BY <2>2 DEF StillHeld, TrapsAtCommand
    <3>2. \A l \in Locks : IsHeld(w, l)' <=> IsHeld(w, l)
      BY <2>2, <3>1 DEF IsHeld
    <3>3. pc[w] = "made" => qemu[w] = "none"
      BY DEF ChildAtCommand
    <3>. QED
      BY <1>0, <2>2, <3>2, <3>3 DEF Accounted, Stray, TrapsAtCommand
  <2>3. CASE SignalDeferred(w)
    <3>1. StillHeld(w)' = StillHeld(w) /\ pc' = pc /\ held' = held
      BY <2>3 DEF StillHeld, ChildAlive
    <3>2. \A l \in Locks : IsHeld(w, l)' <=> IsHeld(w, l)
      BY <3>1 DEF IsHeld
    <3>. QED
      BY <1>0, <2>3, <3>1, <3>2 DEF Accounted, Stray, NextLock
  <2>4. CASE SignalFatal(w)
    BY <2>4 DEF Accounted
  <2>. QED
    BY <2>1, <2>2, <2>3, <2>4
<1>. QED
  BY <1>1, <1>2, <1>3, <1>4, <1>5, <1>6, <1>7, LocalStep

-----------------------------------------------------------------------------
(* The steps that make and remove directories. *)

(* mkdir succeeds: the directory was nobody's. *)
LEMMA MakeLockStep ==
  ASSUME NEW w \in Wrappers, IInv, MakeLock(w)
  PROVE  IInv'
<1>. TypeOK /\ Good(w)
  BY DEF IInv
<1>. USE DEF TypeOK, Good, MakeLock, Goto, trapVars, childVars
<1>1. /\ Wants[w] \in Seq(Locks) /\ Len(held[w]) < Len(Wants[w])
      /\ NextLock(w) \in Locks /\ NextLock(w)' = NextLock(w)
  BY WantsAssumption DEF NextLock
<1>2. owner' = [owner EXCEPT ![NextLock(w)] = w] /\ owner[NextLock(w)] = NoOne /\ NoOne # w
  BY NoOneAssumption
<1>3. TypeOK'
  BY <1>1, <1>2 DEF PC
<1>4. TrapsAtCommand(w)' /\ ChildAtCommand(w)' /\ HeldAreWanted(w)'
  BY <1>1 DEF TrapsAtCommand, ChildAtCommand, HeldAreWanted, ChildAlive
<1>5. /\ StillHeld(w) = Len(held[w]) /\ StillHeld(w)' = Len(held[w])
      /\ held' = held
  BY DEF StillHeld
<1>6. \A l \in Locks : IsHeld(w, l)' <=> IsHeld(w, l)
  BY <1>5 DEF IsHeld
<1>7. \A i \in 1..Len(held[w]) : owner[held[w][i]] = w /\ held[w][i] # NextLock(w)
  BY <1>2, <1>5 DEF OwnedByHolder
<1>8. OwnedByHolder(w)'
  <2>1. ~IsHeld(w, NextLock(w))
    BY <1>5, <1>7 DEF IsHeld
  <2>. QED
    BY <1>1, <1>2, <1>5, <1>6, <1>7, <2>1 DEF OwnedByHolder
<1>9. Accounted(w)'
  BY <1>1, <1>2, <1>6 DEF Accounted, Stray
<1>10. ASSUME NEW v \in Wrappers, v # w PROVE Good(v)'
  <2>1. SameOf(v)
    BY <1>10 DEF SameOf
  <2>2. \A l \in Locks : owner'[l] = v <=> owner[l] = v
    BY <1>1, <1>2, <1>10, NoOneAssumption
  <2>. QED
    BY <2>1, <2>2, OthersKeep DEF IInv
<1>. QED
  BY <1>3, <1>4, <1>8, <1>9, <1>10 DEF IInv

(* rmdir removes a directory of this wrapper, and no other's: with one     *)
(* signal the loop runs once.                                              *)
LEMMA ReleaseLockStep ==
  ASSUME NEW w \in Wrappers, IInv, ReleaseLock(w)
  PROVE  IInv'
<1>. TypeOK /\ Good(w)
  BY DEF IInv
<1>. USE DEF TypeOK, Good, ReleaseLock, Goto, trapVars, childVars
<1>1. CASE index[w] > 0
  <2>1. /\ index[w] \in 1..Len(held[w]) /\ pc[w] = "release" /\ pc' = pc /\ held' = held
        /\ StillHeld(w) = index[w] /\ StillHeld(w)' = index[w] - 1
    BY <1>1 DEF StillHeld
  <2> DEFINE lock == held[w][index[w]]
  <2>2. /\ lock \in Locks /\ owner[lock] = w
        /\ owner' = [owner EXCEPT ![lock] = NoOne]
    BY <1>1, <2>1 DEF OwnedByHolder
  <2>3. TypeOK'
    <3>1. \A v \in Wrappers : index'[v] \in Nat /\ index'[v] <= Len(held'[v])
      <4>1. index' = [index EXCEPT ![w] = index[w] - 1] /\ held' = held /\ index[w] >= 1
        BY <1>1, <2>1
      <4>. QED
        BY <4>1
    <3>2. owner' \in [Locks -> Wrappers \union {NoOne}]
      BY <2>2
    <3>. QED
      BY <1>1, <2>1, <3>1, <3>2
  <2>4. TrapsAtCommand(w)' /\ ChildAtCommand(w)' /\ HeldAreWanted(w)'
    BY <1>1 DEF TrapsAtCommand, ChildAtCommand, HeldAreWanted, ChildAlive
  <2>5. OwnedByHolder(w)'
    <3>1. \A i \in 1..index[w] - 1 : held[w][i] \in Locks /\ held[w][i] # lock /\ owner[held[w][i]] = w
      BY <2>1 DEF OwnedByHolder, HeldAreWanted
    <3>. QED
      BY <2>1, <2>2, <3>1 DEF OwnedByHolder
  <2>6. \A l \in Locks : IsHeld(w, l) => l = lock \/ IsHeld(w, l)'
    <3>1. ASSUME NEW l \in Locks, IsHeld(w, l), l # lock PROVE IsHeld(w, l)'
      <4>1. PICK i \in 1..index[w] : held[w][i] = l
        BY <2>1, <3>1 DEF IsHeld
      <4>2. i \in 1..index[w] - 1
        BY <2>1, <3>1, <4>1
      <4>. QED
        BY <2>1, <4>1, <4>2 DEF IsHeld
    <3>. QED
      BY <3>1
  <2>7. Accounted(w)'
    <3>1. \A l \in Locks : owner'[l] = w => owner[l] = w /\ l # lock
      BY <2>2, NoOneAssumption
    <3>. QED
      BY <1>1, <2>1, <2>6, <3>1 DEF Accounted, Stray
  <2>8. ASSUME NEW v \in Wrappers, v # w PROVE Good(v)'
    <3>1. SameOf(v)
      BY <1>1, <2>8 DEF SameOf
    <3>2. \A l \in Locks : owner'[l] = v <=> owner[l] = v
      BY <2>2, <2>8, NoOneAssumption
    <3>. QED
      BY <3>1, <3>2, OthersKeep DEF IInv
  <2>. QED
    BY <2>3, <2>4, <2>5, <2>7, <2>8 DEF IInv
<1>2. CASE index[w] = 0
  <2>1. /\ pc[w] = "release" /\ pc' = [pc EXCEPT ![w] = "released"]
        /\ held' = [held EXCEPT ![w] = << >>] /\ owner' = owner /\ index' = index
        /\ StillHeld(w) = 0 /\ StillHeld(w)' = 0
    BY <1>2 DEF StillHeld
  <2>2. TypeOK'
    BY <1>2, <2>1 DEF PC
  <2>3. TrapsAtCommand(w)' /\ ChildAtCommand(w)'
    BY <2>1 DEF TrapsAtCommand, ChildAtCommand, ChildAlive
  <2>4. HeldAreWanted(w)' /\ OwnedByHolder(w)'
    BY <2>1, WantsAssumption DEF HeldAreWanted, OwnedByHolder
  <2>5. \A l : ~IsHeld(w, l) /\ ~IsHeld(w, l)'
    BY <2>1 DEF IsHeld
  <2>6. Accounted(w)'
    BY <2>1, <2>5 DEF Accounted, Stray
  <2>7. \A v \in Wrappers : v # w => SameOf(v)
    BY <1>2, <2>1 DEF SameOf
  <2>. QED
    BY <2>1, <2>2, <2>3, <2>4, <2>6, <2>7, LocalStep
<1>. QED
  BY <1>1, <1>2

-----------------------------------------------------------------------------
(* The theorems. *)

(* The first states: nothing is reserved and nothing runs. *)
LEMMA InitIInv == Init => IInv
<1>. SUFFICES ASSUME Init PROVE IInv
  OBVIOUS
<1>1. TypeOK
  BY MaxSignalsAssumption DEF Init, TypeOK, PC
<1>2. ASSUME NEW w \in Wrappers PROVE Good(w)
  <2>1. TrapsAtCommand(w) /\ ChildAtCommand(w)
    BY DEF Init, TrapsAtCommand, ChildAtCommand, ChildAlive
  <2>2. HeldAreWanted(w) /\ OwnedByHolder(w)
    BY WantsAssumption DEF Init, HeldAreWanted, OwnedByHolder, StillHeld
  <2>3. Accounted(w)
    BY NoOneAssumption DEF Init, Accounted
  <2>. QED
    BY <2>1, <2>2, <2>3 DEF Good
<1>. QED
  BY <1>1, <1>2 DEF IInv

(* Every step, of the script, of a signal or of the child, keeps IInv. *)
LEMMA NextStep ==
  ASSUME OneSignal, IInv, Next
  PROVE  IInv'
<1>. PICK w \in Wrappers : Step(w) \/ Signal(w) \/ Kill(w) \/ ChildExits(w)
  BY DEF Next
<1>1. CASE Step(w)
  BY <1>1, MakeLockStep, RecordLockStep, LockTakenStep, ExitUnlaunchedStep, DeferSignalsStep,
     ForkStep, RecordPidStep, RearmTrapsStep, ReplaySignalStep, ChildEndedStep,
     BeginCleanupStep, StopChildStep, AwaitChildStep, ReleaseLockStep, ExitStep DEF Step
<1>2. CASE Signal(w) \/ Kill(w) \/ ChildExits(w)
  BY <1>2, SignalStep, KillStep, ChildExitsStep
<1>. QED
  BY <1>1, <1>2

(* A step that changes nothing. *)
LEMMA StutterStep ==
  ASSUME IInv, UNCHANGED vars
  PROVE  IInv'
<1>. USE DEF vars, fileVars, trapVars, childVars
<1>1. TypeOK'
  BY DEF IInv, TypeOK
<1>2. ASSUME NEW v \in Wrappers PROVE Good(v)'
  <2>1. SameOf(v)
    BY DEF SameOf
  <2>. QED
    BY <2>1, OthersKeep DEF IInv
<1>. QED
  BY <1>1, <1>2 DEF IInv

(* The inductive invariant of run-vm.sh under at most one signal. *)
THEOREM Invariance ==
  ASSUME OneSignal
  PROVE  Spec => []IInv
<1>1. IInv /\ [Next]_vars => IInv'
  BY NextStep, StutterStep
<1>. QED
  BY <1>1, InitIInv, PTL DEF Spec

(* The directories of a VM that runs are its own, for any number of        *)
(* wrappers, whatever each of them wants.                                  *)
LEMMA HeldFollows == IInv => HeldWhileRunning
<1>. SUFFICES ASSUME IInv, NEW w \in Wrappers, ChildAlive(w), NEW l \in Wanted(w)
              PROVE  owner[l] = w
  BY DEF HeldWhileRunning
<1>1. StillHeld(w) = Len(held[w]) /\ Len(held[w]) = Len(Wants[w])
  BY DEF IInv, Good, ChildAtCommand, StillHeld
<1>2. PICK i \in 1..Len(Wants[w]) : l = Wants[w][i]
  BY DEF Wanted
<1>3. i \in 1..StillHeld(w) /\ held[w][i] = l
  BY <1>1, <1>2 DEF IInv, Good, HeldAreWanted
<1>. QED
  BY <1>3 DEF IInv, Good, OwnedByHolder

(* docs/M0.md: "the locks remain until the QEMU child exits". *)
THEOREM LocksRemain ==
  ASSUME OneSignal
  PROVE  Spec => []HeldWhileRunning
<1>. QED
  BY Invariance, HeldFollows, PTL

(* Two VMs that run share no resource: what the reservations are for. *)
THEOREM Exclusion ==
  ASSUME OneSignal
  PROVE  Spec => []NoSharedResource
<1>1. HeldWhileRunning => NoSharedResource
  BY DEF HeldWhileRunning, NoSharedResource
<1>. QED
  BY <1>1, LocksRemain, PTL

(* A wrapper that ended, other than by SIGKILL, left no VM behind. *)
THEOREM NoChildLeft ==
  ASSUME OneSignal
  PROVE  Spec => []ChildReaped
<1>1. IInv => ChildReaped
  BY DEF IInv, Good, ChildAtCommand, ChildReaped
<1>. QED
  BY <1>1, Invariance, PTL

(* What a wrapper can leave behind, and after what: nothing unless it got  *)
(* a signal; the one directory it was making if it ran its trap; more only *)
(* if the signal killed it on its way out.                                 *)
THEOREM LeftoversHaveCause ==
  ASSUME OneSignal
  PROVE  Spec => []LeftoversExplained
<1>1. ASSUME IInv, NEW w \in Wrappers, pc[w] = "exited", NEW l \in Locks, owner[l] = w
      PROVE  /\ signals[w] = 1 /\ qemu[w] = "none"
             /\ \A k \in Locks : owner[k] = w => k = l
  <2>1. \A k : ~IsHeld(w, k)
    BY <1>1 DEF IsHeld, StillHeld
  <2>. QED
    BY <1>1, <2>1 DEF IInv, Good, Accounted, Stray
<1>2. ASSUME IInv, NEW w \in Wrappers, pc[w] = "dead"
      PROVE  signals[w] = 1
  BY <1>2 DEF IInv, Good, TrapsAtCommand
<1>3. IInv => LeftoversExplained
  BY <1>1, <1>2 DEF LeftoversExplained
<1>. QED
  BY <1>3, Invariance, PTL

(* Type correctness of run-vm.sh. *)
THEOREM TypeCorrectness ==
  ASSUME OneSignal
  PROVE  Spec => []TypeOK
<1>1. IInv => TypeOK
  BY DEF IInv
<1>. QED
  BY <1>1, Invariance, PTL
=============================================================================
