------------------------------ MODULE ProcView -----------------------------
(***************************************************************************)
(* The parsers of crates/guest-agent/src/proc_view.rs, each a loop over    *)
(* the lines of one file of /proc.  A round of a loop is one action, the   *)
(* end of the loop another; what the loop keeps between two rounds is a    *)
(* variable.  Blank lines, which every parser skips, are left out.         *)
(***************************************************************************)
EXTENDS ProcText

CONSTANTS
  Content,   \* Content[f]: what file f may hold
  TopN,      \* MEM_SHAPE_TOP_N
  U32Max     \* the greatest u32

ASSUME TopAssumption == TopN \in Nat /\ U32Max \in Nat

VARIABLES
  file,      \* the file that is parsed
  text,      \* its lines; of stat the process it is about
  at,        \* how many lines have been read
  result,    \* "none" while the parser runs, then "ok" or "error"
  stat,      \* the Stat, once there is one
  cpu,       \* aggregate and logical_cpus of parse_system_cpu
  cgroup,    \* first_v1, first_error and the path of parse_cgroup
  status,    \* the Status
  frames,    \* out of read_kernel_stack_from_str
  flat,      \* what was made of a file without lines
  buckets,   \* the histogram of parse_maps, by kind
  tops,      \* its candidates for top_n; at the end top_n itself
  skipped,   \* its skipped_line_count
  notes      \* its degradations

mapsVars == <<buckets, tops, skipped, notes>>
vars == <<file, text, at, result, stat, cpu, cgroup, status, frames, flat, mapsVars>>

Files == {"stat", "cpu", "cgroup", "status", "stack", "maps", "wchan", "fd", "cmdline"}
ASSUME ContentAssumption == DOMAIN Content = Files

(* What a line holds: of stat the process it is about, of cmdline a        *)
(* character.  No word the kernel prints has a parenthesis or white space. *)
Printable == STRING \ {"(", ")", " "}

ASSUME LinesAssumption ==
  /\ Numerals \in Seq(Printable)
  /\ Content["stat"] \subseteq
       [pid : Range(Numerals), comm : Seq(STRING), columns : Seq(Printable)]
  /\ Content["cpu"] \subseteq Seq([name : STRING, values : Seq(Int)])
  /\ Content["cgroup"] \subseteq
       Seq([hierarchy : STRING, controllers : STRING, path : STRING])
  /\ Content["status"] \subseteq Seq([key : STRING, value : Int])
  /\ Content["stack"] \subseteq Seq([bracketed : BOOLEAN, addr : Nat, symbol : STRING])
  /\ Content["maps"] \subseteq
       Seq([start : Int, end : Int, perms : Seq(STRING), rest : STRING,
            path : {"none", "pseudo", "heap", "stack", "file"}, backing : Seq(Nat)])
  /\ Content["cmdline"] \subseteq Seq(STRING)

Kinds     == {"heap", "stack", "anon", "file", "x_lib"}
KindOrder == <<"heap", "stack", "anon", "file", "x_lib">>

NoTicks == -1
NoPath  == "none"

(* None is not a path. *)
ASSUME PathAssumption == \A t \in Content["cgroup"] : \A i \in DOMAIN t : t[i].path # NoPath

Init ==
  /\ file \in Files
  /\ text \in Content[file]
  /\ at = 0
  /\ result = "none"
  /\ stat = << >>
  /\ cpu = [ticks |-> NoTicks, cpus |-> 0]
  /\ cgroup = [v1 |-> NoPath, error |-> 0, path |-> NoPath]
  /\ status = [uid |-> 0, fd_size |-> -1, voluntary |-> 0, nonvoluntary |-> 0, has |-> {}]
  /\ frames = << >>
  /\ flat = << >>
  /\ buckets = [k \in Kinds |-> [count |-> 0, size |-> 0]]
  /\ tops = << >>
  /\ skipped = 0
  /\ notes = << >>

(* A round of the loop over file f. *)
Round(f) ==
  /\ file = f /\ result = "none" /\ at < Len(text)
  /\ at' = at + 1
  /\ UNCHANGED <<file, text>>

Line == text[at + 1]

(* The lines of f are used up. *)
Done(f) ==
  /\ file = f /\ result = "none" /\ at = Len(text)
  /\ UNCHANGED <<file, text, at>>

Goes    == UNCHANGED result
Returns(r) == result' = r

-----------------------------------------------------------------------------
(* parse_stat has no loop. *)
ParseStat ==
  /\ file = "stat" /\ result = "none"
  /\ \/ StatOk(Printed(text)) /\ Returns("ok") /\ stat' = Stat(Printed(text))
     \/ ~StatOk(Printed(text)) /\ Returns("error") /\ UNCHANGED stat
  /\ UNCHANGED <<file, text, at, cpu, cgroup, status, frames, flat, mapsVars>>

-----------------------------------------------------------------------------
(* parse_system_cpu.  A value that is not a u64 is -1. *)

(* values.into_iter().take(8) *)
Counters(values) == SubSeq(values, 1, IF Len(values) < 8 THEN Len(values) ELSE 8)

Ticks(values) == SumFunction(Counters(values))

CountersOk(values) ==
  /\ Len(values) >= 4
  /\ \A i \in DOMAIN Counters(values) : Counters(values)[i] >= 0
  /\ Ticks(values) <= U64Max

SystemCpuLine ==
  /\ Round("cpu")
  /\ \/ /\ Line.name = "cpu" /\ CountersOk(Line.values)
        /\ cpu' = [cpu EXCEPT !.ticks = Ticks(Line.values)]
        /\ Goes
     \/ /\ Line.name = "cpu" /\ ~CountersOk(Line.values)
        /\ Returns("error") /\ UNCHANGED cpu
     \/ /\ Line.name = "cpuN" /\ cpu.cpus < U32Max
        /\ cpu' = [cpu EXCEPT !.cpus = @ + 1]
        /\ Goes
     \/ /\ Line.name = "cpuN" /\ cpu.cpus = U32Max
        /\ Returns("error") /\ UNCHANGED cpu
     \/ /\ Line.name \notin {"cpu", "cpuN"}
        /\ Goes /\ UNCHANGED cpu
  /\ UNCHANGED <<stat, cgroup, status, frames, flat, mapsVars>>

SystemCpuEnd ==
  /\ Done("cpu")
  /\ Returns(IF cpu.ticks = NoTicks \/ cpu.cpus = 0 THEN "error" ELSE "ok")
  /\ UNCHANGED <<stat, cpu, cgroup, status, frames, flat, mapsVars>>

-----------------------------------------------------------------------------
(* parse_cgroup *)

CgroupUnified ==
  /\ Round("cgroup") /\ Unified(Line)
  /\ cgroup' = [cgroup EXCEPT !.path = Line.path]
  /\ Returns("ok")
  /\ UNCHANGED <<stat, cpu, status, frames, flat, mapsVars>>

(* Mutant: the path of a legacy line is returned at once. *)
CgroupLegacyReturns ==
  /\ Round("cgroup") /\ Legacy(Line)
  /\ cgroup' = [cgroup EXCEPT !.path = Line.path]
  /\ Returns("ok")
  /\ UNCHANGED <<stat, cpu, status, frames, flat, mapsVars>>

CgroupLegacy ==
  /\ Round("cgroup") /\ Legacy(Line)
  /\ cgroup' = IF cgroup.v1 = NoPath THEN [cgroup EXCEPT !.v1 = Line.path] ELSE cgroup
  /\ Goes
  /\ UNCHANGED <<stat, cpu, status, frames, flat, mapsVars>>

(* first_error is the line it is about. *)
CgroupMalformed ==
  /\ Round("cgroup") /\ ~Unified(Line) /\ ~Legacy(Line)
  /\ cgroup' = IF cgroup.error = 0 THEN [cgroup EXCEPT !.error = at + 1] ELSE cgroup
  /\ Goes
  /\ UNCHANGED <<stat, cpu, status, frames, flat, mapsVars>>

CgroupEnd ==
  /\ Done("cgroup")
  /\ \/ cgroup.v1 # NoPath /\ cgroup' = [cgroup EXCEPT !.path = cgroup.v1] /\ Returns("ok")
     \/ cgroup.v1 = NoPath /\ cgroup.error # 0 /\ Returns("error") /\ UNCHANGED cgroup
     \/ cgroup.v1 = NoPath /\ cgroup.error = 0 /\ Returns("ok") /\ UNCHANGED cgroup
  /\ UNCHANGED <<stat, cpu, status, frames, flat, mapsVars>>

-----------------------------------------------------------------------------
(* parse_status.  A value that is not a number is -1, a key without value  *)
(* has none.                                                               *)

NoValue == -2

(* Mutant: the key is looked for anywhere in the line. *)
KeyContained(line, key) ==
  line.key = key \/ (line.key = "nonvoluntary" /\ key = "voluntary")

(* strip_prefix *)
HasKey(line, key) == line.key = key

(* A Uid line without columns is taken for uid 0. *)
Uid(value) == IF value = NoValue THEN 0 ELSE value

Switches == {"voluntary", "nonvoluntary"}

(* The branches of the if-else chain that may take the line, in order. *)
StatusKey(line) ==
  LET chain == <<"Uid", "FDSize", "voluntary", "nonvoluntary">>
      takes == {i \in DOMAIN chain : HasKey(line, chain[i])}
  IN  IF takes = {} THEN "other" ELSE chain[Min(takes)]

StatusLine ==
  /\ Round("status")
  /\ \/ /\ StatusKey(Line) = "Uid" /\ Uid(Line.value) >= 0
        /\ status' = [status EXCEPT !.uid = Uid(Line.value)]
        /\ Goes
     \/ /\ StatusKey(Line) = "FDSize" /\ Line.value >= 0
        /\ status' = [status EXCEPT !.fd_size = Line.value]
        /\ Goes
     \/ /\ StatusKey(Line) \in Switches /\ Line.value >= 0
        /\ status' = [status EXCEPT ![StatusKey(Line)] = Line.value,
                                    !.has = @ \union {StatusKey(Line)}]
        /\ Goes
     \/ /\ StatusKey(Line) = "other"
        /\ Goes /\ UNCHANGED status
     \/ /\ StatusKey(Line) = "Uid" /\ Uid(Line.value) < 0
        /\ Returns("error") /\ UNCHANGED status
     \/ /\ StatusKey(Line) \in Switches \union {"FDSize"} /\ Line.value < 0
        /\ Returns("error") /\ UNCHANGED status
  /\ UNCHANGED <<stat, cpu, cgroup, frames, flat, mapsVars>>

StatusEnd ==
  /\ Done("status")
  /\ Returns("ok")
  /\ UNCHANGED <<stat, cpu, cgroup, status, frames, flat, mapsVars>>

-----------------------------------------------------------------------------
(* read_kernel_stack_from_str skips what is not [<address>] symbol. *)

FrameOk(line) == line.bracketed /\ line.symbol # "empty"

StackLine ==
  /\ Round("stack")
  /\ frames' = IF FrameOk(Line) THEN Append(frames, <<Line.addr, Line.symbol>>) ELSE frames
  /\ Goes
  /\ UNCHANGED <<stat, cpu, cgroup, status, flat, mapsVars>>

StackEnd ==
  /\ Done("stack")
  /\ Returns("ok")
  /\ UNCHANGED <<stat, cpu, cgroup, status, frames, flat, mapsVars>>

-----------------------------------------------------------------------------
(* parse_maps_with_diagnostics *)

MapsLine ==
  /\ Round("maps")
  /\ \/ /\ MapLineOk(Line)
        /\ buckets' = [buckets EXCEPT ![MapKind(Line)] =
                         [count |-> @.count + 1, size |-> @.size + Size(Line)]]
        /\ tops' = Append(tops, [line |-> at + 1, size |-> Size(Line),
                                 kind |-> MapKind(Line), backing |-> Line.backing])
        /\ UNCHANGED skipped
     \/ /\ ~MapLineOk(Line)
        /\ skipped' = skipped + 1
        /\ UNCHANGED <<buckets, tops>>
  /\ Goes
  /\ UNCHANGED <<notes, stat, cpu, cgroup, status, frames, flat>>

(* sort_by_key(Reverse(size)) is stable: a candidate comes after those     *)
(* that are larger, and after the earlier ones of its own size.            *)
Rank(candidates, i) ==
  1 + Cardinality({j \in DOMAIN candidates :
        \/ candidates[j].size > candidates[i].size
        \/ candidates[j].size = candidates[i].size /\ j < i})

(* Mutant: the first candidates are kept, whatever their size. *)
FirstCandidates(candidates) ==
  SubSeq(candidates, 1, IF Len(candidates) < TopN THEN Len(candidates) ELSE TopN)

Largest(candidates) ==
  [r \in 1..(IF Len(candidates) < TopN THEN Len(candidates) ELSE TopN) |->
     candidates[CHOOSE i \in DOMAIN candidates : Rank(candidates, i) = r]]

TooLong(map) == Bytes(map.backing) > BackingMax

(* The paths of the degradations; a backing is named by its index in top_n. *)
TruncationNotes(top) ==
  Collect([i \in DOMAIN top |-> [field |-> "backing", index |-> i - 1]],
          {i \in DOMAIN top : TooLong(top[i])})

SkippedNotes == IF skipped > 0 THEN <<[field |-> "mem_shape", index |-> 0]>> ELSE << >>

(* Mutant: the backings are cut before the candidates are sorted. *)
MapsEndCutFirst ==
  /\ Done("maps")
  /\ tops' = Largest([i \in DOMAIN tops |-> [tops[i] EXCEPT !.backing = TruncateUtf8(@)]])
  /\ notes' = SkippedNotes \o TruncationNotes(tops)
  /\ Returns("ok")
  /\ UNCHANGED <<buckets, skipped, stat, cpu, cgroup, status, frames, flat>>

MapsEnd ==
  /\ Done("maps")
  /\ LET top == Largest(tops)
     IN  /\ tops' = [i \in DOMAIN top |-> [top[i] EXCEPT !.backing = TruncateUtf8(@)]]
         /\ notes' = SkippedNotes \o TruncationNotes(top)
  /\ Returns("ok")
  /\ UNCHANGED <<buckets, skipped, stat, cpu, cgroup, status, frames, flat>>

Histogram ==
  Collect([i \in DOMAIN KindOrder |->
             [kind |-> KindOrder[i], count |-> buckets[KindOrder[i]].count,
                                     size  |-> buckets[KindOrder[i]].size]],
          {i \in DOMAIN KindOrder : buckets[KindOrder[i]].count > 0})

-----------------------------------------------------------------------------
(* The files without lines, which no parser refuses. *)

ReadFlat ==
  /\ result = "none"
  /\ \/ file = "wchan"   /\ flat' = Wchan(text)
     \/ file = "fd"      /\ flat' = Fds(text)
     \/ file = "cmdline" /\ flat' = Cmdline(text)
  /\ Returns("ok")
  /\ UNCHANGED <<file, text, at, stat, cpu, cgroup, status, frames, mapsVars>>

-----------------------------------------------------------------------------
Next ==
  \/ ParseStat
  \/ SystemCpuLine \/ SystemCpuEnd
  \/ CgroupUnified \/ CgroupLegacy \/ CgroupMalformed \/ CgroupEnd
  \/ StatusLine \/ StatusEnd
  \/ StackLine \/ StackEnd
  \/ MapsLine \/ MapsEnd
  \/ ReadFlat

Spec == Init /\ [][Next]_vars

-----------------------------------------------------------------------------
(* Properties. *)

(* A process chooses its comm: whatever parentheses, spaces and would-be   *)
(* columns it puts there, parse_stat gives the comm back as it is, takes   *)
(* every other column from the place the kernel printed it at, and fails   *)
(* only if one of those columns is missing or no number.                   *)
StatFieldsUnmoved ==
  file = "stat" /\ result # "none" =>
    /\ result = "ok" <=> \A c \in DOMAIN Column : ColumnOk(text.columns, c)
    /\ result = "ok" =>
         LET In(c) == Value(text.columns[Column[c] + 1])
         IN  /\ stat.comm = text.comm
             /\ stat.pid = Value(text.pid)
             /\ stat.state.char = text.columns[1]
             /\ \A c \in {"ppid", "nr_threads", "vsize", "rss", "last_cpu"} : stat[c] = In(c)
             /\ stat.start_time = In("starttime")
             /\ stat.process_ticks \in {In("utime") + In("stime"), U64Max}
             /\ stat.process_ticks <= U64Max

FirstOf(S) == text[Min(S)].path

(* The cgroup of a process is its unified one wherever that line stands,   *)
(* in a hybrid hierarchy its first legacy one otherwise; a malformed line  *)
(* hides neither, and is not passed over when there is nothing else.       *)
CgroupChoice ==
  file = "cgroup" /\ result # "none" =>
    LET unified == {i \in DOMAIN text : Unified(text[i])}
        legacy  == {i \in DOMAIN text : Legacy(text[i])}
    IN  /\ unified # {} => result = "ok" /\ cgroup.path = FirstOf(unified)
        /\ unified = {} /\ legacy # {} => result = "ok" /\ cgroup.path = FirstOf(legacy)
        /\ unified = {} /\ legacy = {} =>
             /\ cgroup.path = NoPath
             /\ result = IF text = << >> THEN "ok" ELSE "error"

Before(P(_)) == {i \in 1..at : P(text[i])}

(* What the status, the CPU counters and the stack hold after each line is *)
(* what those lines say: the last value of a key and none of another key   *)
(* that contains its name, the first eight counters of the aggregate line  *)
(* only, and the frames in their order, whatever was skipped in between.   *)
(* A short command line is the beginning of the whole one, of which the    *)
(* length tells, and says where it was cut.                                *)
ScansAgree ==
  result # "error" =>
    /\ file = "status" => \A k \in Switches :
         LET lines == Before(LAMBDA l : l.key = k)
         IN  /\ k \in status.has <=> lines # {}
             /\ status[k] = IF lines = {} THEN 0 ELSE text[Max(lines)].value
    /\ file = "cpu" =>
         LET total == Before(LAMBDA l : l.name = "cpu")
         IN  /\ cpu.cpus = Cardinality(Before(LAMBDA l : l.name = "cpuN"))
             /\ total # {} =>
                  LET values == text[Max(total)].values
                  IN  cpu.ticks = SumFunctionOnSet(values, (1..8) \intersect DOMAIN values)
             /\ result = "ok" => total # {} /\ cpu.cpus > 0
    /\ file = "stack" =>
         LET good == Before(FrameOk)
         IN  /\ Len(frames) = Cardinality(good)
             /\ \A i \in good : frames[Cardinality({j \in good : j <= i})]
                                  = <<text[i].addr, text[i].symbol>>
    /\ file = "cmdline" /\ result = "ok" =>
         LET ink   == {i \in DOMAIN text : text[i] \notin {"nul", " "}}
             whole == IF ink = {} THEN << >> ELSE SubSeq(text, Min(ink), Max(ink))
         IN  /\ \A i \in DOMAIN whole : i <= CmdlineMax =>
                  flat.short[i] = IF whole[i] = "nul" THEN " " ELSE whole[i]
             /\ Len(whole) <= CmdlineMax => Len(flat.short) = Len(whole)
             /\ Len(whole) > CmdlineMax => flat.short[CmdlineMax + 1] = "..."
             /\ flat.full_len = Len(whole) + 2 * Cardinality({i \in DOMAIN whole : whole[i] = "wide"})

Sizes(S) == SumFunction([i \in S |-> Size(text[i])])

(* The projection loses no line of the maps without saying so: each one is *)
(* in the bucket of its kind or counted and reported as skipped, and what  *)
(* top_n leaves out is no larger than what it keeps.                       *)
ShapeAccountsForMaps ==
  file = "maps" /\ result = "ok" =>
    LET valid    == {i \in DOMAIN text : MapLineOk(text[i])}
        kept     == {tops[r].line : r \in DOMAIN tops}
        Of(k)    == {i \in valid :
                       \/ k = "x_lib" /\ text[i].path = "file" /\ text[i].perms[3] = "x"
                       \/ k = "file" /\ text[i].path = "file" /\ text[i].perms[3] # "x"
                       \/ k = "anon" /\ text[i].path \in {"none", "pseudo"}
                       \/ k \in {"heap", "stack"} /\ text[i].path = k}
    IN  /\ \A h \in DOMAIN Histogram :
             Histogram[h].count = Cardinality(Of(Histogram[h].kind))
             /\ Histogram[h].size = Sizes(Of(Histogram[h].kind))
        /\ \A k \in Kinds : Of(k) # {} => \E h \in DOMAIN Histogram : Histogram[h].kind = k
        /\ skipped = Len(text) - Cardinality(valid)
        /\ skipped > 0 <=> \E n \in DOMAIN notes : notes[n].field = "mem_shape"
        /\ kept \subseteq valid
        /\ Cardinality(kept) = Len(tops)
        /\ Len(tops) = TopN \/ kept = valid
        /\ \A r \in DOMAIN tops : \A i \in valid \ kept : Size(text[i]) <= tops[r].size
        /\ \A r, q \in DOMAIN tops : r < q => tops[r].size >= tops[q].size

(* A backing that was cut is reported at the index it has in top_n after   *)
(* the sort, and only such a one; what is left of it is the most whole     *)
(* characters that fit.                                                    *)
TruncationsNamed ==
  file = "maps" /\ result = "ok" => \A r \in DOMAIN tops :
    LET full == text[tops[r].line].backing
        rest == tops[r].backing
        cut  == rest # full
    IN  /\ cut <=> \E n \in DOMAIN notes : notes[n] = [field |-> "backing", index |-> r - 1]
        /\ rest = SubSeq(full, 1, Len(rest))
        /\ Bytes(rest) <= BackingMax
        /\ cut => Bytes(rest) + full[Len(rest) + 1] > BackingMax
=============================================================================
