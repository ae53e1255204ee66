--------------------------- MODULE LowConfidence ---------------------------
(***************************************************************************)
(* The bookkeeping of crates/guest-agent/src/introspect.rs about what a    *)
(* result does not know for sure: confidence.low_fields, one entry for     *)
(* each doubtful field with the lowest confidence reported for it and      *)
(* every reason given, and the overall confidence computed from it.        *)
(***************************************************************************)
EXTENDS Integers, Sequences, SequencesExt

Confidences == {"dwarf", "kallsyms", "dynsym", "disasm", "none"}

(* SymbolConfidence::score, in hundredths. *)
Score == [dwarf |-> 100, kallsyms |-> 75, dynsym |-> 50, disasm |-> 25, none |-> 0]

Report(path, confidence, reason) ==
  [path |-> path, confidence |-> confidence, reason |-> reason]

OneIf(condition, report) == IF condition THEN <<report>> ELSE << >>

(* The paths of a result that can be doubtful, and why.                    *)
Paths ==
  {"identity.comm", "identity.uid", "identity.cgroup", "identity.exe", "identity.cmdline",
   "resource.ctxt_switches", "resource.pct_cpu", "mem_shape", "mem_shape.top_n[0].backing",
   "state.wchan", "state.run_state", "hotspot.frames", "hotspot.frames[0].symbol",
   "hotspot.frames[1].symbol", "hotspot.frames[2].symbol", "hotspot.frames[3].symbol",
   "hotspot.frames[4].symbol"}

Reasons ==
  {"stat", "status", "maps", "wchan", "cmdline", "stack", "exe", "cgroup", "no_stack",
   "symbolizer_failed", "no_symbol", "mismatch", "skipped", "truncated", "unknown", "missing",
   "unusable", "init_failed", "shutdown_failed"}

LowFields == [path : Paths, confidence : Confidences, reasons : SUBSET Reasons]

(* A new entry of low_fields. *)
Entry(r) == [path |-> r.path, confidence |-> r.confidence, reasons |-> {r.reason}]

Lower(current, confidence) ==
  IF Score[current] <= Score[confidence] THEN current ELSE confidence

IsAbout(fields, i, path) == i \in 1..Len(fields) /\ fields[i].path = path

FirstAbout(fields, path) ==
  CHOOSE i \in 1..Len(fields) :
    IsAbout(fields, i, path) /\ \A j \in 1..i - 1 : ~IsAbout(fields, j, path)

(* Mutant: only the reason is added to an entry that is there. *)
ReasonAdded(entry, r) == [entry EXCEPT !.reasons = @ \union {r.reason}]

(* The entry that is there, of which the report r comes too.  The reasons, *)
(* which the code strings together, are a set.                             *)
Lowered(entry, r) ==
  [path |-> entry.path, confidence |-> Lower(entry.confidence, r.confidence),
   reasons |-> entry.reasons \union {r.reason}]

(* merge_low_confidence_field *)
Merge(fields, r) ==
  IF \E i \in 1..Len(fields) : IsAbout(fields, i, r.path)
    THEN [fields EXCEPT ![FirstAbout(fields, r.path)] = Lowered(@, r)]
    ELSE Append(fields, Entry(r))

(* calculate_overall_confidence, in thousandths: the mean score of the     *)
(* frames (1 if there are none), less a tenth for each low field.          *)
Overall(frames, fields) ==
  LET scores == [i \in 1..Len(frames) |-> Score[frames[i]]]
      total  == IF frames = << >> THEN 100 ELSE SumFunction(scores)
      count  == IF frames = << >> THEN 1 ELSE Len(frames)
  IN  (100 * total) \div (count * (10 + Len(fields)))

-----------------------------------------------------------------------------
(* The entries stand for exactly the reports R: no path has two entries,   *)
(* no report and no reason is lost, none is made up, and each entry has    *)
(* the lowest confidence that was reported for its path.                   *)
StandFor(fields, R) ==
  /\ \A i, j \in 1..Len(fields) : fields[i].path = fields[j].path => i = j
  /\ \A r \in R : \E i \in 1..Len(fields) : fields[i].path = r.path
  /\ \A i \in 1..Len(fields) :
       LET about == {r \in R : r.path = fields[i].path}
       IN  /\ fields[i].reasons = {r.reason : r \in about}
           /\ \E r \in about : r.confidence = fields[i].confidence
           /\ \A r \in about : Score[fields[i].confidence] <= Score[r.confidence]
=============================================================================
