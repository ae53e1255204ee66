---------------------------- MODULE FrameReader ----------------------------
(***************************************************************************)
(* JsonLinesCodec::read_frame (crates/vsock/src/codec.rs): splitting what  *)
(* an untrusted peer sends into lines of bounded length.  The bytes arrive *)
(* in chunks of any size, the peer may stop anywhere, and the code must    *)
(* decide with a buffer of max_frame_bytes + 1 bytes, the extra byte being *)
(* for the carriage return of a CRLF line.                                 *)
(*                                                                         *)
(* A byte is a newline, a carriage return or anything else.  One reader    *)
(* makes one call after another until a call fails, as the endpoints do    *)
(* (an error closes the connection).                                       *)
(***************************************************************************)
EXTENDS Integers, Sequences

CONSTANTS
  Inputs,     \* what the peer may send before it closes
  Limits,     \* the values of max_frame_bytes
  UsizeMax    \* usize::MAX

CR == "cr"
LF == "lf"
Bytes == {"other", CR, LF}

ASSUME InputsAssumption == Inputs \subseteq Seq(Bytes)
ASSUME LimitsAssumption == UsizeMax \in Nat /\ Limits \subseteq 0..UsizeMax
(* No buffer is as long as usize::MAX, so the additions of lengths do not  *)
(* saturate.                                                               *)
ASSUME LengthAssumption == \A s \in Inputs : 2 * Len(s) < UsizeMax

VARIABLES
  max,      \* max_frame_bytes
  input,    \* everything the peer sends
  pos,      \* how much of it has been consumed
  filled,   \* how much of the rest is in the BufReader
  frame,    \* OwnedFrame: the bytes copied so far
  start,    \* history: where the call in progress began to read
  calls     \* the calls that returned: where each began, and its result

vars == <<max, input, pos, filled, frame, start, calls>>

Errors == {"frame_too_large", "empty_frame", "peer_closed", "truncated_frame", "io"}

Failure(e) == [error |-> e]
Success(f) == [frame |-> f]

(* Not a result of the code: a slice out of range. *)
Panic == Failure("panic")

Results == [error : Errors \union {"panic"}] \union [frame : Seq(Bytes)]

TypeOK ==
  /\ max \in Limits
  /\ input \in Inputs
  /\ pos \in 0..Len(input)
  /\ filled \in 0..Len(input) - pos
  /\ start \in 0..pos
  /\ frame \in Seq(Bytes)
  /\ calls \in Seq([from : 0..Len(input), result : Results])

Init ==
  /\ max \in Limits
  /\ input \in Inputs
  /\ pos = 0
  /\ filled = 0
  /\ frame = << >>
  /\ start = 0
  /\ calls = << >>

Failed(c) == "error" \in DOMAIN c.result

(* The connection is open: no call has failed. *)
Open == \A i \in 1..Len(calls) : ~Failed(calls[i])

OwnedLimit == max + 1

(* The bytes of the input from place i + 1 to place j. *)
Between(i, j) == SubSeq(input, i + 1, j)

(* No byte after place i and up to place j is a newline. *)
NoNewline(i, j) == \A k \in i + 1..j : input[k] # LF

(* position(): n bytes come before the first newline in the BufReader. *)
NewlineIndex(n) ==
  /\ n \in 0..filled - 1
  /\ input[pos + n + 1] = LF
  /\ NoNewline(pos, pos + n)

Smaller(a, b) == IF a < b THEN a ELSE b

(* Mutant: the carriage return stays. *)
KeepTrailingCR(f) == f

StripTrailingCR(f) ==
  IF f # << >> /\ f[Len(f)] = CR THEN SubSeq(f, 1, Len(f) - 1) ELSE f

(* OwnedFrame::append has room for n more bytes. *)
Fits(n) == Len(frame) + n <= OwnedLimit

(* The call ends; the next one starts with an empty frame. *)
Return(r) ==
  /\ calls' = Append(calls, [from |-> start, result |-> r])
  /\ frame' = << >>

-----------------------------------------------------------------------------
(* max_frame_bytes.checked_add(1) *)
LimitOverflows ==
  /\ Open
  /\ max = UsizeMax
  /\ Return(Failure("frame_too_large"))
  /\ UNCHANGED <<max, input, pos, filled, start>>

Reading == Open /\ max < UsizeMax

(* fill_buf() with an empty buffer: some more bytes have arrived ... *)
FillBuffer ==
  /\ Reading
  /\ filled = 0
  /\ filled' \in 1..Len(input) - pos
  /\ UNCHANGED <<max, input, pos, frame, start, calls>>

(* ... or the peer has closed ... *)
EndOfInput ==
  /\ Reading
  /\ filled = 0
  /\ pos = Len(input)
  /\ Return(Failure(IF frame = << >> THEN "peer_closed" ELSE "truncated_frame"))
  /\ UNCHANGED <<max, input, pos, filled, start>>

(* ... or the read fails. *)
ReadFails ==
  /\ Reading
  /\ filled = 0
  /\ Return(Failure("io"))
  /\ UNCHANGED <<max, input, pos, filled, start>>

Consume(n) ==
  /\ pos' = pos + n
  /\ filled' = filled - n

(* What a line of `total` bytes amounts to, f being what was copied of it. *)
LineResult(total, f) ==
  LET line == StripTrailingCR(f)
  IN  IF total > OwnedLimit \/ Len(line) > max THEN Failure("frame_too_large")
      ELSE IF line = << >> THEN Failure("empty_frame")
      ELSE Success(line)

(* Mutant: as much is copied as the line is long. *)
CopyWholeLine(n) == n

CopyLength(n) == Smaller(n, OwnedLimit - Len(frame))

ReadLine(n, taken) ==
  /\ Return(IF Fits(CopyLength(n))
              THEN LineResult(Len(frame) + n, frame \o Between(pos, pos + CopyLength(n)))
              ELSE Panic)
  /\ Consume(taken)
  /\ start' = pos + taken
  /\ UNCHANGED <<max, input>>

(* Mutant: the newline is left for the next call. *)
FindNewlineLeavesIt ==
  Reading /\ \E n \in 0..filled - 1 : NewlineIndex(n) /\ ReadLine(n, n)

FindNewline ==
  Reading /\ \E n \in 0..filled - 1 : NewlineIndex(n) /\ ReadLine(n, n + 1)

(* A chunk that does not fit fails unread, and one that fills the buffer   *)
(* fails unless a CR may yet make it a line of max_frame_bytes.            *)
CopyChunk ==
  /\ Reading
  /\ filled > 0
  /\ NoNewline(pos, pos + filled)
  /\ LET longer == frame \o Between(pos, pos + filled)
     IN  IF ~Fits(filled)
           THEN Return(Failure("frame_too_large")) /\ UNCHANGED <<pos, filled>>
           ELSE /\ Consume(filled)
                /\ IF Len(longer) = OwnedLimit /\ longer[Len(longer)] # CR
                     THEN Return(Failure("frame_too_large"))
                     ELSE frame' = longer /\ UNCHANGED calls
  /\ UNCHANGED <<max, input, start>>

Next ==
  \/ LimitOverflows \/ FillBuffer \/ EndOfInput \/ ReadFails
  \/ FindNewline \/ CopyChunk

Spec == Init /\ [][Next]_vars

-----------------------------------------------------------------------------
(* What a call must return, from the bytes alone and however they came.    *)

(* The line that begins after place i ends with the newline at place e. *)
LineEnd(i, e) == e \in i + 1..Len(input) /\ input[e] = LF /\ NoNewline(i, e - 1)

(* Its bytes without CR and LF: up to place PayloadEnd(i, e). *)
PayloadEnd(i, e) == IF e - 1 > i /\ input[e - 1] = CR THEN e - 2 ELSE e - 1

LineOk(i, e, r) ==
  LET n == PayloadEnd(i, e) - i
  IN  \/ n > max /\ r = Failure("frame_too_large")
      \/ n = 0 /\ r = Failure("empty_frame")
      \/ n \in 1..max /\ r = Success(Between(i, PayloadEnd(i, e)))

(* A line the peer never ended is too large as soon as no newline could    *)
(* still make it a legal one.                                              *)
RestOk(i, r) ==
  LET n == Len(input) - i
      MayBeLegal == n <= max \/ (n = max + 1 /\ input[Len(input)] = CR)
  IN  \/ n = 0 /\ r = Failure("peer_closed")
      \/ n > 0 /\ MayBeLegal /\ r = Failure("truncated_frame")
      \/ n > 0 /\ ~MayBeLegal /\ r = Failure("frame_too_large")

ResultOk(i, r) ==
  \/ r = Failure("io")
  \/ max = UsizeMax /\ r = Failure("frame_too_large")
  \/ /\ max < UsizeMax
     /\ \/ \E e \in i + 1..Len(input) : LineEnd(i, e) /\ LineOk(i, e, r)
        \/ NoNewline(i, Len(input)) /\ RestOk(i, r)

(* Where the chunks are cut shows in no result: each call gives exactly    *)
(* what the line it began at is, whether the line came at once or byte by  *)
(* byte, and in particular a line of max_frame_bytes followed by CRLF is   *)
(* accepted wherever the cut falls between CR and LF.                      *)
ChunkingInvisible == \A i \in 1..Len(calls) : ResultOk(calls[i].from, calls[i].result)

(* The calls read line after line: each begins right behind the newline    *)
(* that ended the line of the call before, so that one frame never leaks   *)
(* into the next and no line is skipped.                                   *)
LinesInOrder ==
  /\ Open => start = pos - Len(frame)
  /\ \A i \in 1..Len(calls) :
       /\ i = 1 => calls[i].from = 0
       /\ i > 1 => LineEnd(calls[i - 1].from, calls[i].from)

(* The storage of max_frame_bytes + 1 bytes is never overrun: no copy      *)
(* panics, and no more than that is held of a line that never ends.        *)
StorageSuffices ==
  /\ max < UsizeMax => Len(frame) <= OwnedLimit
  /\ \A i \in 1..Len(calls) : calls[i].result # Panic

-----------------------------------------------------------------------------
(* What the four rest on: the call in progress holds all it consumed, has  *)
(* met no newline, and was refused unless a legal line may still come out. *)
CallInProgress ==
  Open =>
    /\ frame = Between(start, pos)
    /\ NoNewline(start, pos)
    /\ Len(frame) <= OwnedLimit
    /\ Len(frame) = OwnedLimit => input[pos] = CR
    /\ calls = << >> => start = 0
    /\ calls # << >> => LineEnd(calls[Len(calls)].from, start)

(* The inductive invariant: what a call holds explains what it returns. *)
IInv ==
  /\ TypeOK
  /\ CallInProgress
  /\ ChunkingInvisible
  /\ LinesInOrder
  /\ StorageSuffices
=============================================================================
