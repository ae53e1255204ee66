----------------------------- MODULE MCProcView ----------------------------
(* Files of up to MaxLines lines, of the lines that tell the branches of   *)
(* the parsers apart; and the CPU sample, the one value of a result that   *)
(* is not parsed from a file, beside the parser that has least to do.      *)
EXTENDS ProcView, CpuSample

CONSTANTS
  MaxLines,  \* bound: lines of a file
  MaxMaps,   \* bound: lines of the maps
  MaxComm    \* bound: what a comm is made of

Texts(lines, max) == UNION {[1..n -> lines] : n \in 0..max}

(* A complete line, one that stops before last_cpu, one without state, one *)
(* with a utime that is not a number, one whose ticks exceed U64Max.       *)
Columns ==
  LET full == [i \in 1..38 |-> IF i = 1 THEN "R" ELSE IF i \in {5, 20} THEN "1" ELSE
                               IF i \in {12, 13, 37} THEN "2" ELSE "0"]
  IN  {full, SubSeq(full, 1, 36), << >>, [full EXCEPT ![12] = "x"],
       [full EXCEPT ![1] = "?", ![13] = "3", ![12] = "3"]}

Processes ==
  {[pid |-> "3", comm |-> comm, columns |-> columns] :
     comm \in Texts({"(", ")", " ", "R", "1"}, MaxComm), columns \in Columns}

CpuLines ==
  {[name |-> "cpuN", values |-> <<1>>], [name |-> "cpufreq", values |-> <<1>>]}
  \union {[name |-> "cpu", values |-> v] :
            v \in {<<1, 2, 3>>, <<1, 2, 1, 1>>, <<1, 0, 1, 1, 0, 0, 0, 1, 3, 3>>,
                   <<1, -1, 1, 1>>, <<4, 4, 4, 4>>}}

CgroupLines ==
  {[hierarchy |-> h, controllers |-> c, path |-> p] :
     h \in {"0", "1"}, c \in {"empty", "some"}, p \in {"/a", "/b"}}
  \union {[hierarchy |-> "x", controllers |-> "some", path |-> "/a"],
          [hierarchy |-> "0", controllers |-> "empty", path |-> "relative"],
          [hierarchy |-> "1", controllers |-> "absent", path |-> "absent"]}

StatusLines ==
  {[key |-> k, value |-> v] : k \in {"voluntary", "nonvoluntary"}, v \in {1, 2}}
  \union {[key |-> "Uid", value |-> 1], [key |-> "Uid", value |-> NoValue],
          [key |-> "FDSize", value |-> 2], [key |-> "VmRSS", value |-> -1],
          [key |-> "voluntary", value |-> -1], [key |-> "Uid", value |-> -1]}

StackLines ==
  {[bracketed |-> TRUE, addr |-> 1, symbol |-> "f"], [bracketed |-> TRUE, addr |-> 2, symbol |-> "g"],
   [bracketed |-> TRUE, addr |-> 1, symbol |-> "empty"], [bracketed |-> FALSE, addr |-> 1, symbol |-> "f"]}

MapsLineOf(size, perms, path, backing) ==
  [start |-> 1, end |-> size + 1, perms |-> perms, rest |-> "ok", path |-> path, backing |-> backing]

(* A library with a name of wide characters, a file, [heap], an executable *)
(* pseudo-path, anonymous memory, and lines that are malformed.            *)
MapsLines ==
  LET rx == <<"r", "-", "x", "p">>
      rw == <<"r", "w", "-", "p">>
  IN  {MapsLineOf(1, rx, "file", <<1, 3, 2>>), MapsLineOf(2, rw, "file", <<2, 2, 1>>),
       MapsLineOf(2, rw, "heap", <<1>>), MapsLineOf(3, rx, "pseudo", <<1, 1>>),
       MapsLineOf(3, rw, "none", << >>),
       MapsLineOf(1, <<"r", "w", "x">>, "file", <<1>>), MapsLineOf(0, rw, "file", <<1>>)}

MCContent ==
  [stat |-> Processes, cpu |-> Texts(CpuLines, MaxLines), cgroup |-> Texts(CgroupLines, MaxLines),
   status |-> Texts(StatusLines, MaxLines), stack |-> Texts(StackLines, MaxLines),
   maps |-> Texts(MapsLines, MaxMaps), wchan |-> Texts({"0", " ", "f"}, 2),
   fd |-> Texts({"", ".", "..", "0", "1"}, 3), cmdline |-> Texts({"nul", " ", "a", "wide"}, MaxLines)]

MCNumerals == <<"0", "1", "2", "3">>

MCInit == Init /\ SampleInit

MCNext ==
  \/ Next /\ UNCHANGED sampleVars
  \/ SampleNext /\ UNCHANGED vars /\ file = "wchan" /\ text = << >> /\ result = "ok"

MCSpec == MCInit /\ [][MCNext]_<<vars, sampleVars>>
=============================================================================
