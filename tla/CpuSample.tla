------------------------------ MODULE CpuSample -----------------------------
(***************************************************************************)
(* The percentage of CPU in a result (crates/guest-agent/src/introspect.rs *)
(* and proc_source.rs).  Two counters that the kernel keeps advancing, the *)
(* ticks of the process and those of all CPUs together, are read one after *)
(* the other, before the rest of the snapshot and again after a sleep; the *)
(* percentage relates what each of them has gained.                        *)
(***************************************************************************)
EXTENDS Integers, Sequences

CONSTANTS
  Cpus,      \* logical_cpus
  MaxTicks,  \* bound: ticks of the clock during one call
  MaxSkew    \* bound: ticks that pass while one file is read

ASSUME CpusAssumption == Cpus \in Nat \ {0}
ASSUME TicksAssumption == MaxTicks \in Nat /\ MaxSkew \in Nat

VARIABLES
  step,      \* the step of the call that is due
  ticks,     \* ticks of the clock since the call began
  since,     \* those since its last step
  process,   \* the counter of the process: utime + stime
  system,    \* the counter of the system
  idle,      \* history: what the CPUs have not spent on the process
  regressed, \* history: a counter has gone backwards
  start,     \* the CpuCounters of the snapshot
  end,       \* those of cpu_counters()
  sample     \* the CpuSample

callVars  == <<step, start, end, sample>>
clockVars == <<ticks, process, system, idle, regressed>>
sampleVars == <<callVars, since, clockVars>>

(* Mutant: the system counter is read with the global values at the end of *)
(* the snapshot.                                                           *)
SystemLast == <<"stat", "rest", "system", "sleep", "end_stat", "end_system", "percent">>

(* read_adjacent_cpu_pair, the rest of the snapshot, the sleep, and the    *)
(* pair again.                                                             *)
Steps == <<"stat", "system", "rest", "sleep", "end_stat", "end_system", "percent">>

Due(name) == step \in 1..Len(Steps) /\ Steps[step] = name

Unavailable == [usable |-> FALSE, process |-> 0, system |-> 0]

NoCounters == [process |-> 0, system |-> 0]

SampleTypeOK ==
  /\ step \in 1..8
  /\ ticks \in 0..MaxTicks /\ since \in 0..MaxTicks
  /\ process \in Nat /\ system \in Nat /\ idle \in Nat
  /\ regressed \in BOOLEAN
  /\ start \in [process : Nat, system : Nat] /\ end \in [process : Nat, system : Nat]
  /\ sample \in [usable : BOOLEAN, process : Nat, system : Nat]

SampleInit ==
  /\ step = 1
  /\ ticks = 0 /\ since = 0
  /\ process = 0 /\ system = 0 /\ idle = 0 /\ regressed = FALSE
  /\ start = NoCounters /\ end = NoCounters
  /\ sample = Unavailable

-----------------------------------------------------------------------------
(* The kernel. *)

(* Each CPU gains a tick, the process those of the CPUs it ran on.  Few    *)
(* ticks pass during one read, any number during the other steps.          *)
Tick ==
  /\ ticks < MaxTicks
  /\ Due("rest") \/ Due("sleep") \/ since < MaxSkew
  /\ ticks' = ticks + 1 /\ since' = since + 1
  /\ system' = system + Cpus
  /\ \E busy \in 0..Cpus : process' = process + busy /\ idle' = idle + (Cpus - busy)
  /\ UNCHANGED <<callVars, regressed>>

(* The system counter may step back: the idle and I/O wait times in it are *)
(* not kept exactly.                                                       *)
StepBack ==
  /\ ~regressed
  /\ regressed' = TRUE
  /\ \E s \in 0..system - 1 : system' = s
  /\ UNCHANGED <<callVars, since, ticks, process, idle>>

-----------------------------------------------------------------------------
(* The call. *)

Does(name) ==
  /\ Due(name)
  /\ step' = step + 1
  /\ since' = 0
  /\ UNCHANGED clockVars

ReadProcess ==
  \/ Does("stat") /\ start' = [start EXCEPT !.process = process] /\ UNCHANGED <<end, sample>>
  \/ Does("end_stat") /\ end' = [end EXCEPT !.process = process] /\ UNCHANGED <<start, sample>>

ReadSystem ==
  \/ Does("system") /\ start' = [start EXCEPT !.system = system] /\ UNCHANGED <<end, sample>>
  \/ Does("end_system") /\ end' = [end EXCEPT !.system = system] /\ UNCHANGED <<start, sample>>

(* The other files of the snapshot; SampleClock::sleep. *)
Pass ==
  /\ Does("rest") \/ Does("sleep")
  /\ UNCHANGED <<start, end, sample>>

(* calculate_cpu_percent: process / system * logical_cpus * 100, which is  *)
(* kept as the two increments.                                             *)
CalculateCpuPercent ==
  /\ Does("percent")
  /\ LET process_delta == end.process - start.process
         system_delta  == end.system - start.system
     IN  IF process_delta >= 0 /\ system_delta > 0
           THEN sample' = [usable |-> TRUE, process |-> process_delta, system |-> system_delta]
           ELSE sample' = Unavailable
  /\ UNCHANGED <<start, end>>

SampleNext == Tick \/ StepBack \/ ReadProcess \/ ReadSystem \/ Pass \/ CalculateCpuPercent

SampleSpec == SampleInit /\ [][SampleNext]_sampleVars

-----------------------------------------------------------------------------
(* The two increments are those of almost the same time, although nothing  *)
(* stops the clock between two reads: while the system counter does not    *)
(* step back, a process is never credited with more than all CPUs had, nor *)
(* with less than they did not spend otherwise, except for the ticks that  *)
(* fall between the two adjacent reads of a pair.                          *)
WindowsMatch ==
  sample.usable /\ ~regressed =>
    /\ sample.process <= sample.system + Cpus * MaxSkew
    /\ sample.system <= sample.process + idle + Cpus * MaxSkew
=============================================================================
