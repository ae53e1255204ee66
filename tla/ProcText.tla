------------------------------ MODULE ProcText -----------------------------
(***************************************************************************)
(* What crates/guest-agent/src/proc_view.rs makes of one line of a /proc   *)
(* file.  A text is a sequence of words and of the single characters the   *)
(* parsers look for: "(", ")" and " ", which stands for any white space.   *)
(* A number is a word of Numerals, its value the place it has there; a     *)
(* word that is not there is one Rust's parse refuses.                     *)
(***************************************************************************)
EXTENDS Integers, Sequences, FiniteSets, FiniteSetsExt, Functions, SequencesExt

CONSTANTS
  Numerals,   \* the words that are numbers; the first is 0, the next 1, ...
  U64Max,     \* the greatest u64
  BackingMax, \* TOP_MAP_BACKING_MAX_BYTES
  CmdlineMax  \* CMDLINE_SHORT_MAX

ASSUME NumeralsAssumption == Numerals \in Seq(STRING)
ASSUME WidthAssumption == U64Max \in Nat /\ BackingMax \in Nat /\ CmdlineMax \in Nat

IsNumber(word) == \E i \in DOMAIN Numerals : Numerals[i] = word

Value(word) == (CHOOSE i \in DOMAIN Numerals : Numerals[i] = word) - 1

(* The elements of s at the given places, in their order. *)
Collect(s, places) ==
  FoldLeftDomain(LAMBDA found, i : IF i \in places THEN Append(found, s[i]) ELSE found, << >>, s)

(* str::trim *)
Trim(s) ==
  LET ink == {i \in DOMAIN s : s[i] # " "}
  IN  IF ink = {} THEN << >> ELSE SubSeq(s, Min(ink), Max(ink))

(* str::split_whitespace: every element but white space is a word.         *)
Words(s) == Collect(s, {i \in DOMAIN s : s[i] # " "})

-----------------------------------------------------------------------------
(* parse_stat *)

(* Mutant: the comm ends at the first closing parenthesis. *)
FirstParen(s) ==
  LET close == {i \in DOMAIN s : s[i] = ")"} IN IF close = {} THEN 0 ELSE Min(close)

(* find('(') and rfind(')'); 0 if there is none. *)
LeftParen(s) ==
  LET open == {i \in DOMAIN s : s[i] = "("} IN IF open = {} THEN 0 ELSE Min(open)

RightParen(s) ==
  LET close == {i \in DOMAIN s : s[i] = ")"} IN IF close = {} THEN 0 ELSE Max(close)

PidText(s)   == Trim(SubSeq(s, 1, LeftParen(s) - 1))
CommText(s)  == SubSeq(s, LeftParen(s) + 1, RightParen(s) - 1)
AfterComm(s) == SubSeq(s, RightParen(s) + 1, Len(s))

(* The columns that are read, counted from the one after the comm. *)
Column == [state |-> 0, ppid |-> 1, utime |-> 11, stime |-> 12, nr_threads |-> 17,
           starttime |-> 19, vsize |-> 20, rss |-> 21, last_cpu |-> 36]

ColumnOk(words, c) ==
  /\ Column[c] < Len(words)
  /\ c = "state" \/ IsNumber(words[Column[c] + 1])

(* parse_stat returns Ok. *)
StatOk(content) ==
  LET s     == Trim(content)
      words == Words(AfterComm(s))
  IN  /\ LeftParen(s) > 0 /\ LeftParen(s) < RightParen(s)
      /\ Len(PidText(s)) = 1 /\ IsNumber(PidText(s)[1])
      /\ Len(AfterComm(s)) > 1 /\ AfterComm(s)[1] = " " /\ AfterComm(s)[2] # " "
      /\ \A c \in DOMAIN Column : ColumnOk(words, c)

(* RunState::from_char: a state this build does not know keeps its name.   *)
FromChar(c) == IF c \in {"R", "S", "D", "Z", "T", "t", "X", "P", "I"}
                 THEN [known |-> TRUE, char |-> c] ELSE [known |-> FALSE, char |-> c]

SaturatingAdd(a, b) == IF a + b > U64Max THEN U64Max ELSE a + b

(* The Stat it returns. *)
Stat(content) ==
  LET s      == Trim(content)
      words  == Words(AfterComm(s))
      At(c)  == words[Column[c] + 1]
  IN  [pid           |-> Value(PidText(s)[1]),
       comm          |-> CommText(s),
       state         |-> FromChar(At("state")),
       ppid          |-> Value(At("ppid")),
       nr_threads    |-> Value(At("nr_threads")),
       vsize         |-> Value(At("vsize")),
       rss           |-> Value(At("rss")),
       process_ticks |-> SaturatingAdd(Value(At("utime")), Value(At("stime"))),
       start_time    |-> Value(At("starttime")),
       last_cpu      |-> Value(At("last_cpu"))]

(* What the kernel prints for a process; it alone chooses the comm, while  *)
(* no column after it holds a parenthesis.  External.                      *)
Printed(p) ==
  <<p.pid, " ", "(">> \o p.comm \o <<")", " ">>
  \o [i \in 1..2 * Len(p.columns) |->
        IF i % 2 = 1 THEN p.columns[(i + 1) \div 2] ELSE " "]

-----------------------------------------------------------------------------
(* parse_cgroup_line: hierarchy, controllers and path of a line, each      *)
(* "absent" if there are not so many colons.                               *)

CgroupFieldsOk(line) ==
  /\ line.controllers # "absent"
  /\ line.path \notin {"absent", "empty", "relative"}
  /\ IsNumber(line.hierarchy)

Unified(line) ==
  CgroupFieldsOk(line) /\ line.hierarchy = "0" /\ line.controllers = "empty"

Legacy(line) ==
  CgroupFieldsOk(line) /\ line.hierarchy # "0" /\ line.controllers # "empty"

-----------------------------------------------------------------------------
(* parse_map_line.  An address that is not hexadecimal is -1; rest says    *)
(* whether offset, device and inode are there and well formed; the backing *)
(* is the text after them, white space inside it included, as the number   *)
(* of bytes of each of its characters.                                     *)

PermsOk(perms) ==
  /\ Len(perms) = 4
  /\ perms[1] \in {"r", "-"} /\ perms[2] \in {"w", "-"}
  /\ perms[3] \in {"x", "-"} /\ perms[4] \in {"p", "s"}

MapLineOk(line) ==
  /\ line.start >= 0 /\ line.end > line.start
  /\ PermsOk(line.perms)
  /\ line.rest = "ok"

(* classify_map_kind.  path says what the backing names: nothing, [heap],  *)
(* a stack, another name in brackets, or a file.                           *)
MapKind(line) ==
  IF line.path = "none" \/ line.path = "pseudo" THEN "anon"
  ELSE IF line.path \in {"heap", "stack"} THEN line.path
  ELSE IF "x" \in ToSet(line.perms) THEN "x_lib" ELSE "file"

Size(line) == line.end - line.start

Bytes(text) == SumFunction(text)

(* truncate_utf8_bytes: back from the limit to the end of a character. *)
TruncateUtf8(text) ==
  SubSeq(text, 1, Max({n \in 0..Len(text) : Bytes(SubSeq(text, 1, n)) <= BackingMax}))

-----------------------------------------------------------------------------
(* The files without lines. *)

(* read_wchan_from_str: nothing, or 0, of a process that does not wait. *)
Wchan(content) ==
  IF Trim(content) \in {<< >>, <<"0">>} THEN << >> ELSE Trim(content)

(* scan_fds_from_names *)
Fds(names) == Cardinality({i \in DOMAIN names : names[i] \notin {"", ".", ".."}})

(* What build_cmdline of introspect.rs joins: the arguments end in "nul".  *)
Joined(bytes) ==
  Trim([i \in DOMAIN bytes |-> IF bytes[i] = "nul" THEN " " ELSE bytes[i]])

(* str::len; "wide" stands for the characters of three bytes. *)
ByteLen(chars) == SumFunction([i \in DOMAIN chars |-> IF chars[i] = "wide" THEN 3 ELSE 1])

(* The short copy is cut by characters, full_len counts bytes; "..." is    *)
(* the one character that tells a cut.                                     *)
Cmdline(bytes) ==
  LET joined == Joined(bytes)
  IN  [short    |-> IF Len(joined) > CmdlineMax THEN SubSeq(joined, 1, CmdlineMax) \o <<"...">>
                                                ELSE joined,
       full_len |-> ByteLen(joined)]
=============================================================================
