--------------------------- MODULE Introspection ---------------------------
(***************************************************************************)
(* One introspect(pid) of the guest agent: the reads of /proc that         *)
(* crates/guest-agent/src/proc_source.rs makes one after the other, while  *)
(* the process may exit and another take its pid, and the assembly of the  *)
(* result in introspect.rs with what it says about its own doubts.         *)
(*                                                                         *)
(* What the files contain is abstracted to what the code's decisions and   *)
(* the reported doubts depend on.  A read is one step; a process is told   *)
(* from its successor by its start time, which the model takes to differ.  *)
(* The worker behind the symbolizer is SymbolizerWorker's subject: here it *)
(* starts or not, names a frame or not, and stops in time or not.          *)
(***************************************************************************)
EXTENDS LowConfidence, FiniteSets

CONSTANTS
  MaxGeneration,   \* bound: processes that have the pid during the call
  MaxFlaws,        \* bound: inputs of one call that are degraded
  MaxFrames        \* bound: frames of a kernel stack (the code takes 5)

ASSUME BoundsAssumption ==
  MaxGeneration \in Nat /\ MaxFlaws \in Nat /\ MaxFrames \in 0..5

VARIABLES
  generation,   \* the start time of the process that has, or had, the pid
  present,      \* that process exists
  vanished,     \* history: at some time of the call no process had the pid
  touched,      \* history: the start times of the processes that were read
  at,           \* how many reads have been made
  pc,           \* where the call is
  initial,      \* ProcessGeneration of the first stat
  run,          \* the run state in it
  latest,       \* the start time in the stat of the CPU sample
  quality,      \* how each text came
  flaws,        \* how many inputs are degraded so far
  parsed,       \* what the parsers made of the snapshot
  fields,       \* confidence.low_fields
  merged,       \* how many of the Reports are in it
  overall,      \* confidence.overall
  token,        \* cost_hint.token: of a result, the entries it was estimated with
  worker,       \* the symbolizer worker
  result        \* Ok, or the error, once it is known

envVars    == <<generation, present, vanished>>
readVars   == <<touched, at, initial, run, quality, latest>>
resultVars == <<parsed, fields, merged, overall, token>>
vars == <<envVars, readVars, pc, flaws, resultVars, worker, result>>

ReadOrder == <<"stat", "system", "status", "maps", "wchan", "cmdline", "fd", "stack",
               "exe", "cgroup", "page_size", "final_stat", "cpu_stat", "cpu_system">>

Texts    == {"stat", "status", "maps", "wchan", "cmdline", "stack", "exe", "cgroup"}
Optional == {"wchan", "stack", "exe", "cgroup"}
Global   == {"system", "page_size", "cpu_system"}

RunStates == {"R", "S", "D", "unknown"}
Errors == {"invalid_pid", "proc_not_found", "permission", "parse", "read",
           "invalid_page_size", "cpu_sample_failed"}

(* The paths a text that is not UTF-8 makes doubtful. *)
LossyPaths ==
  [stat |-> <<"identity.comm">>,
   status |-> <<"identity.uid", "resource.ctxt_switches">>,
   maps |-> <<"mem_shape">>,
   wchan |-> <<"state.wchan">>,
   stack |-> <<"hotspot.frames">>,
   cgroup |-> <<"identity.cgroup">>,
   exe |-> <<"identity.exe">>,
   cmdline |-> <<"identity.cmdline">>]

FramePaths == <<"hotspot.frames[0].symbol", "hotspot.frames[1].symbol",
                "hotspot.frames[2].symbol", "hotspot.frames[3].symbol",
                "hotspot.frames[4].symbol">>

(* What blazesym finds of an address: debug information with a line, a     *)
(* name, or a symbol without either.                                       *)
BlazeSymbols == [line : BOOLEAN, named : BOOLEAN]

KernelBlazeConfidence(symbol) ==
  IF symbol.line THEN "dwarf" ELSE IF symbol.named THEN "kallsyms" ELSE "none"

(* KernelBlazeBackend through its worker: an address without symbol and a  *)
(* failure of blazesym are errors, as those of the worker are.             *)
KernelSymbols == {KernelBlazeConfidence(s) : s \in BlazeSymbols} \union {"error"}

(* FallbackSymbolizer *)
FallbackSymbols == {"error"}

NothingParsed ==
  [wchan |-> "none", symbols |-> << >>, maps |-> {}, switches |-> TRUE, cpu |-> TRUE]

(* The confidences are those of the schema.  Which numbers the overall     *)
(* confidence can be is part of OverallCountsFields.                       *)
TypeOK ==
  /\ generation \in 0..MaxGeneration
  /\ present \in BOOLEAN /\ vanished \in BOOLEAN
  /\ touched \subseteq 0..MaxGeneration
  /\ at \in 0..Len(ReadOrder)
  /\ pc \in {"spawn", "read", "absent", "build", "merge", "stop", "returned"}
  /\ initial \in 0..MaxGeneration
  /\ run \in RunStates
  /\ latest \in 0..MaxGeneration
  /\ quality \in [Texts -> {"unread", "clean", "lossy", "absent"}]
  /\ flaws \in 0..MaxFlaws
  /\ parsed \in [wchan : {"none", "top", "other"},
                 symbols : UNION {[1..n -> Confidences \union {"error"}] : n \in 0..MaxFrames},
                 maps : SUBSET {"skipped", "truncated"}, switches : BOOLEAN, cpu : BOOLEAN]
  /\ fields \in Seq(LowFields)
  /\ merged \in Nat
  /\ worker \in {"none", "up", "init_failed", "stopped", "stop_failed"}
  /\ result \in Errors \union {"none", "ok"}

Init ==
  /\ generation = 0
  /\ present \in BOOLEAN
  /\ vanished = ~present
  /\ touched = {}
  /\ at = 0
  /\ pc = "spawn"
  /\ initial = 0
  /\ run = "R"
  /\ latest = 0
  /\ quality = [t \in Texts |-> "unread"]
  /\ flaws = 0
  /\ parsed = NothingParsed
  /\ fields = << >>
  /\ merged = 0
  /\ overall = 0
  /\ token = << >>
  /\ worker = "none"
  /\ result = "none"

-----------------------------------------------------------------------------
(* The process and its pid. *)

Exits ==
  /\ pc \in {"read", "absent"}
  /\ present
  /\ present' = FALSE
  /\ vanished' = TRUE
  /\ UNCHANGED <<generation, readVars, pc, flaws, resultVars, worker, result>>

PidReused ==
  /\ pc \in {"read", "absent"}
  /\ ~present
  /\ generation < MaxGeneration
  /\ generation' = generation + 1
  /\ present' = TRUE
  /\ UNCHANGED <<vanished, readVars, pc, flaws, resultVars, worker, result>>

-----------------------------------------------------------------------------
(* assemble_default_introspection: the worker, then introspect_from_ports. *)

(* validate_requested_pid, before anything is started. *)
RefusePid ==
  /\ pc = "spawn"
  /\ result' = "invalid_pid"
  /\ pc' = "returned"
  /\ UNCHANGED <<envVars, readVars, flaws, resultVars, worker>>

WorkerStarts ==
  /\ pc = "spawn"
  /\ worker' = "up"
  /\ pc' = "read"
  /\ UNCHANGED <<envVars, readVars, flaws, resultVars, result>>

(* Without a worker the FallbackSymbolizer is used. *)
WorkerInitFails ==
  /\ pc = "spawn"
  /\ worker' = "init_failed"
  /\ flaws < MaxFlaws /\ flaws' = flaws + 1
  /\ pc' = "read"
  /\ UNCHANGED <<envVars, readVars, resultVars, result>>

(* Mutant: `?` on the result, before the worker is shut down. *)
FailAtOnce(e) ==
  /\ result' = e
  /\ pc' = "returned"
  /\ UNCHANGED <<envVars, readVars, flaws, resultVars, worker>>

(* introspect_from_ports returns an error; the worker is still shut down. *)
Fail(e) ==
  /\ result' = e
  /\ pc' = IF worker = "up" THEN "stop" ELSE "returned"
  /\ UNCHANGED <<envVars, readVars, flaws, resultVars, worker>>

-----------------------------------------------------------------------------
(* LinuxProcSource::snapshot and cpu_counters. *)

File == ReadOrder[at + 1]

(* The kernel stack is read of a process in state D only. *)
NextRead == IF File = "fd" /\ run # "D" THEN at + 2 ELSE at + 1

ReadDone ==
  /\ at' = NextRead
  /\ pc' = IF File = "cpu_system" THEN "build" ELSE "read"

Touch == touched' = touched \union {generation}

(* Mutant: the process is recognised by its pid alone. *)
SamePid(startTime) == TRUE

(* The ProcessGeneration read later is that of the first stat. *)
SameProcess(startTime) == startTime = initial

(* A text comes clean or not; a cgroup file may also name no group. *)
Came(q) ==
  /\ quality' = [quality EXCEPT ![File] = q]
  /\ q = "absent" => File = "cgroup"
  /\ IF q = "clean" THEN UNCHANGED flaws ELSE flaws < MaxFlaws /\ flaws' = flaws + 1

ReadStat ==
  /\ pc = "read" /\ File = "stat" /\ present
  /\ \E q \in {"clean", "lossy"} : Came(q)
  /\ run' \in RunStates
  /\ initial' = generation
  /\ Touch
  /\ ReadDone
  /\ UNCHANGED <<envVars, latest, resultVars, worker, result>>

ReadText ==
  /\ pc = "read" /\ File \in Texts \ {"stat"} /\ present
  /\ \E q \in {"clean", "lossy", "absent"} : Came(q)
  /\ Touch
  /\ ReadDone
  /\ UNCHANGED <<envVars, initial, run, latest, resultVars, worker, result>>

ReadFds ==
  /\ pc = "read" /\ File = "fd" /\ present
  /\ Touch
  /\ ReadDone
  /\ UNCHANGED <<envVars, initial, run, quality, latest, flaws, resultVars, worker, result>>

ReadGlobal ==
  /\ pc = "read" /\ File \in {"system", "page_size"}
  /\ ReadDone
  /\ UNCHANGED <<envVars, touched, initial, run, quality, latest, flaws, resultVars, worker, result>>

(* The end of with_stable_process_generation. *)
ReadFinalStat ==
  /\ pc = "read" /\ File = "final_stat" /\ present
  /\ IF SameProcess(generation)
       THEN /\ ReadDone
            /\ Touch
            /\ UNCHANGED <<envVars, initial, run, quality, latest, flaws, resultVars, worker, result>>
       ELSE Fail("proc_not_found")

(* sample_cpu: both counters are read, then the start times are compared. *)
ReadCpuStat ==
  /\ pc = "read" /\ File = "cpu_stat" /\ present
  /\ latest' = generation
  /\ Touch
  /\ ReadDone
  /\ UNCHANGED <<envVars, initial, run, quality, flaws, resultVars, worker, result>>

ReadCpuSystem ==
  /\ pc = "read" /\ File = "cpu_system"
  /\ IF SameProcess(latest)
       THEN /\ ReadDone
            /\ UNCHANGED <<envVars, touched, initial, run, quality, latest, flaws, resultVars, worker, result>>
       ELSE Fail("proc_not_found")

(* The failure of a CPU sample is reported as such, unless the process is  *)
(* gone.                                                                   *)
ErrorOf(e) ==
  IF File \in {"cpu_stat", "cpu_system"} /\ e # "proc_not_found" THEN "cpu_sample_failed" ELSE e

(* parse_cgroup fails, when the process was found to be the same. *)
CgroupFails ==
  /\ pc = "read" /\ File = "cpu_stat"
  /\ quality["cgroup"] \in {"clean", "lossy"}
  /\ Fail("parse")

(* A file that is there and cannot be read, or not be parsed. *)
ReadFails ==
  /\ pc = "read"
  /\ present \/ File \in Global
  /\ \E e \in {"permission", "parse", "read"} : Fail(ErrorOf(e))

PageSizeInvalid ==
  /\ pc = "read" /\ File = "page_size"
  /\ Fail("invalid_page_size")

(* The process is gone: ESRCH, or ENOENT of a file that must be there. *)
ReadFindsNobody ==
  /\ pc = "read"
  /\ ~present /\ File \notin Global
  /\ Fail("proc_not_found")

(* ENOENT of an optional file: it is absent, or the process is gone. *)
ReadFindsNothing ==
  /\ pc = "read" /\ File \in Optional
  /\ pc' = "absent"
  /\ touched' = IF present THEN touched \union {generation} ELSE touched
  /\ UNCHANGED <<envVars, at, initial, run, quality, latest, flaws, resultVars, worker, result>>

(* Mutant: a missing file is taken for a missing process. *)
AbsentMeansGone ==
  /\ pc = "absent"
  /\ Fail("proc_not_found")

(* absent_or_gone: the directory of the pid tells which, unless it cannot  *)
(* be looked at.                                                           *)
CheckDirectory ==
  /\ pc = "absent"
  /\ \/ /\ present
        /\ flaws < MaxFlaws /\ flaws' = flaws + 1
        /\ quality' = [quality EXCEPT ![File] = "absent"]
        /\ Touch
        /\ ReadDone
        /\ UNCHANGED <<envVars, initial, run, latest, resultVars, worker, result>>
     \/ ~present /\ Fail("proc_not_found")
     \/ present /\ \E e \in {"permission", "read"} : Fail(e)

-----------------------------------------------------------------------------
(* build_level0. *)

(* calculate_cpu_percent gives a percentage: no counter went backwards and *)
(* nothing is divided by zero.                                             *)
CpuUsable(processDelta, systemDelta, cpus) ==
  processDelta >= 0 /\ systemDelta > 0 /\ cpus > 0

StackRead == run = "D" /\ quality["stack"] \in {"clean", "lossy"}

Stacks ==
  IF ~StackRead THEN {<< >>}
  ELSE UNION {[1..n -> IF worker = "up" THEN KernelSymbols ELSE FallbackSymbols] :
                n \in 0..MaxFrames}

(* The texts parse, each with what may be wrong in it: rows of the maps,   *)
(* lines missing in the status, a wchan that is not the top frame.         *)
Parse ==
  \E stack \in Stacks, maps \in SUBSET {"skipped", "truncated"}, switches \in BOOLEAN,
     wchan \in IF quality["wchan"] = "absent" THEN {"none"} ELSE {"none", "top", "other"},
     processDelta, systemDelta \in -1..1, cpus \in 0..1 :
       /\ parsed' = [wchan |-> wchan, symbols |-> stack, maps |-> maps, switches |-> switches,
                     cpu |-> CpuUsable(processDelta, systemDelta, cpus)]
       /\ flaws' = flaws + Cardinality({x \in 1..4 :
            \/ x = 1 /\ wchan = "other"
            \/ x = 2 /\ maps # {}
            \/ x = 3 /\ ~switches
            \/ x = 4 /\ ~CpuUsable(processDelta, systemDelta, cpus)})
       /\ flaws' <= MaxFlaws

(* The frames of the hotspot: the raw symbol stands in for a failed one. *)
FrameConfidence(symbol) == IF symbol = "error" THEN "kallsyms" ELSE symbol
Frames(symbols) == [i \in 1..Len(symbols) |-> FrameConfidence(symbols[i])]

(* Their numbers, one after the other; nothing depends on the order.       *)
Failed(symbols) == SetToSeq({i \in 1..Len(symbols) : symbols[i] = "error"})
Nameless(frames) == SetToSeq({i \in 1..Len(frames) : frames[i] = "none"})

(* build_hotspot pushes its reports without a look at what is there. *)
HotspotReports(symbols) ==
  IF run # "D" THEN << >>
  ELSE IF symbols = << >> THEN <<Report("hotspot.frames", "none", "no_stack")>>
  ELSE LET failed == Failed(symbols)
       IN  [i \in 1..Len(failed) |->
              Report(FramePaths[failed[i]], "kallsyms", "symbolizer_failed")]

BuildHotspot ==
  /\ pc = "build"
  /\ Parse
  /\ fields' = [i \in 1..Len(HotspotReports(parsed'.symbols)) |->
                  Entry(HotspotReports(parsed'.symbols)[i])]
  /\ pc' = "merge"
  /\ UNCHANGED <<envVars, readVars, merged, overall, token, worker, result>>

(* parse_status fails; malformed rows of the maps are skipped. *)
BuildFails ==
  /\ pc = "build"
  /\ Fail("parse")

(* build_confidence *)
ConfidenceReports ==
  LET frames  == Frames(parsed.symbols)
      nothing == Nameless(frames)
      differs == parsed.wchan = "other" /\ frames # << >>
  IN  [i \in 1..Len(nothing) |-> Report(FramePaths[nothing[i]], "none", "no_symbol")]
      \o OneIf(differs, Report("state.wchan", "kallsyms", "mismatch"))
      \o OneIf(differs, Report(FramePaths[1], frames[1], "mismatch"))

Lossy(t) ==
  IF quality[t] = "lossy"
    THEN [i \in 1..Len(LossyPaths[t]) |-> Report(LossyPaths[t][i], "none", t)]
    ELSE << >>

(* ProcSnapshot::degradations, in the order snapshot() collects them. *)
SnapshotReports ==
  Lossy("stat") \o Lossy("status") \o Lossy("maps") \o Lossy("cmdline")
  \o Lossy("wchan") \o Lossy("stack") \o Lossy("exe") \o Lossy("cgroup")

MapsReports ==
  OneIf("skipped" \in parsed.maps, Report("mem_shape", "none", "skipped"))
  \o OneIf("truncated" \in parsed.maps, Report("mem_shape.top_n[0].backing", "none", "truncated"))

MissingReports ==
  OneIf(run = "unknown", Report("state.run_state", "none", "unknown"))
  \o OneIf(run \in {"S", "D"} /\ parsed.wchan = "none", Report("state.wchan", "none", "missing"))
  \o OneIf(~parsed.switches, Report("resource.ctxt_switches", "none", "missing"))
  \o OneIf(quality["cgroup"] = "absent", Report("identity.cgroup", "none", "missing"))
  \o OneIf(quality["exe"] = "absent", Report("identity.exe", "none", "missing"))
  \o OneIf(~parsed.cpu, Report("resource.pct_cpu", "none", "unusable"))

(* Mutant: what parse_maps reports is not merged. *)
ReportsWithoutMaps == ConfidenceReports \o SnapshotReports \o MissingReports

Reports == ConfidenceReports \o SnapshotReports \o MapsReports \o MissingReports

MergeReport ==
  /\ pc = "merge"
  /\ merged < Len(Reports)
  /\ fields' = Merge(fields, Reports[merged + 1])
  /\ merged' = merged + 1
  /\ UNCHANGED <<envVars, readVars, pc, flaws, parsed, overall, token, worker, result>>

(* estimate_level0_tokens goes by the size of the whole result, of which   *)
(* only the entries change afterwards: it is kept as those it saw.         *)
EstimateTokens(entries) == entries

(* build_level0 returns Ok. *)
Assemble ==
  /\ pc = "merge"
  /\ merged = Len(Reports)
  /\ overall' = Overall(Frames(parsed.symbols), fields)
  /\ token' = EstimateTokens(fields)
  /\ result' = "ok"
  /\ pc' = "stop"
  /\ UNCHANGED <<envVars, readVars, flaws, parsed, fields, merged, worker>>

-----------------------------------------------------------------------------
(* The end of assemble_default_introspection. *)

(* Mutant: the overall confidence is left as it was. *)
RecordWithoutOverall(reason) ==
  /\ fields' = Merge(fields, Report("hotspot.frames", "none", reason))
  /\ UNCHANGED <<overall, token>>

(* record_symbolizer_degradation *)
RecordSymbolizerDegradation(reason) ==
  /\ fields' = Merge(fields, Report("hotspot.frames", "none", reason))
  /\ overall' = Overall(Frames(parsed.symbols), fields')
  /\ token' = EstimateTokens(fields')

(* The handle of a running worker is shut down whatever the result is, and *)
(* a failure of that, or of its start, is told by a result that is Ok.     *)
StopWorker ==
  /\ pc = "stop"
  /\ \/ worker = "up" /\ worker' = "stopped" /\ UNCHANGED <<flaws, fields, overall, token>>
     \/ /\ worker = "up" /\ worker' = "stop_failed"
        /\ flaws < MaxFlaws /\ flaws' = flaws + 1
        /\ IF result = "ok" THEN RecordSymbolizerDegradation("shutdown_failed")
                            ELSE UNCHANGED <<fields, overall, token>>
     \/ /\ worker = "init_failed" /\ UNCHANGED <<worker, flaws>>
        /\ RecordSymbolizerDegradation("init_failed")
  /\ pc' = "returned"
  /\ UNCHANGED <<envVars, readVars, parsed, merged, result>>

Read ==
  \/ ReadStat \/ ReadText \/ ReadFds \/ ReadGlobal \/ ReadFinalStat
  \/ ReadCpuStat \/ ReadCpuSystem \/ CgroupFails
  \/ ReadFails \/ PageSizeInvalid \/ ReadFindsNobody \/ ReadFindsNothing \/ CheckDirectory

Next ==
  \/ Exits \/ PidReused
  \/ RefusePid \/ WorkerStarts \/ WorkerInitFails \/ Read
  \/ BuildHotspot \/ BuildFails \/ MergeReport \/ Assemble \/ StopWorker

Spec == Init /\ [][Next]_vars

-----------------------------------------------------------------------------
(* Properties. *)

(* All that went into a result was read from one process, though it may    *)
(* exit and its pid be reused between any two of the fourteen reads, also  *)
(* between the ENOENT of a file and the look at the directory, and before  *)
(* the CPU sample.                                                         *)
OneProcess == result = "ok" => touched = {initial}

(* proc_not_found is the truth: a process that lives through the call is   *)
(* never reported missing because one of its optional files is.            *)
NotFoundMeansGone == result = "proc_not_found" => vanished

Marked(path) ==
  \E i \in 1..Len(fields) : fields[i].path = path /\ fields[i].confidence = "none"

Told(path, reason) ==
  \E i \in 1..Len(fields) : fields[i].path = path /\ reason \in fields[i].reasons

(* No doubt gets lost on the way from what raised it to the result,        *)
(* through the collecting, the merging and the end of the worker.  What    *)
(* was not read, or not in full, leaves no confidence in its path; where   *)
(* only a better source was missed, or two sources differ, that is among   *)
(* the reasons.  By source: a text that is not UTF-8; the maps; what was   *)
(* missing; the frames; the worker; the CPU sample.                        *)
DoubtsReachResult ==
  result = "ok" /\ pc = "returned" =>
    /\ \A t \in Texts : quality[t] = "lossy" =>
         \A i \in 1..Len(LossyPaths[t]) : Marked(LossyPaths[t][i])
    /\ "skipped" \in parsed.maps => Marked("mem_shape")
    /\ "truncated" \in parsed.maps => Marked("mem_shape.top_n[0].backing")
    /\ run = "unknown" => Marked("state.run_state")
    /\ run \in {"S", "D"} /\ parsed.wchan = "none" => Marked("state.wchan")
    /\ ~parsed.switches => Marked("resource.ctxt_switches")
    /\ quality["exe"] = "absent" => Marked("identity.exe")
    /\ quality["cgroup"] = "absent" => Marked("identity.cgroup")
    /\ run = "D" /\ parsed.symbols = << >> => Marked("hotspot.frames")
    /\ \A i \in 1..Len(parsed.symbols) :
         /\ parsed.symbols[i] = "none" => Marked(FramePaths[i])
         /\ parsed.symbols[i] = "error" => Told(FramePaths[i], "symbolizer_failed")
    /\ parsed.wchan = "other" /\ parsed.symbols # << >> =>
         Told("state.wchan", "mismatch") /\ Told(FramePaths[1], "mismatch")
    /\ worker \in {"init_failed", "stop_failed"} => Marked("hotspot.frames")
    /\ ~parsed.cpu => Marked("resource.pct_cpu")

ReportsMade ==
  LET hotspot == HotspotReports(parsed.symbols)
  IN  {hotspot[i] : i \in 1..Len(hotspot)}
      \union {Reports[i] : i \in 1..merged}
      \union {Report("hotspot.frames", "none", r) :
                r \in {x \in {"init_failed", "shutdown_failed"} :
                         pc = "returned" /\ worker = IF x = "init_failed" THEN x ELSE "stop_failed"}}

(* low_fields has one entry for each doubtful path, with every reason and  *)
(* the lowest confidence reported for it, although build_hotspot pushes    *)
(* and several sources report the same path.                               *)
FieldsStandForReports ==
  pc = "merge" \/ (result = "ok") => StandFor(fields, ReportsMade)

(* What a result derives from its entries is derived from the final ones,  *)
(* also when the last came from the worker after the result was built:     *)
(* the overall confidence is at most 1 / (1 + n / 10) with n of them, and  *)
(* the token estimate counts them all.                                     *)
OverallCountsFields ==
  result = "ok" =>
    /\ overall \in 0..(10000 \div (10 + Len(fields)))
    /\ token = EstimateTokens(fields)

(* However the call ends, the worker it started has been told to stop.     *)
WorkerNotLeft == pc = "returned" => worker # "up"

(* PROGRESS.md: a shutdown failure "lowers confidence".                    *)
ShutdownFailureLowersConfidence ==
  [][result = "ok" /\ worker' = "stop_failed" => overall' < overall]_vars
=============================================================================
