------------------------- MODULE FrameReaderProofs -------------------------
(***************************************************************************)
(* The properties of FrameReader for every input, every limit and every    *)
(* way of cutting the input into chunks.  The inductive invariant IInv     *)
(* says what the call in progress holds: all the bytes since its start, no *)
(* newline among them, and no more than can still become a legal line.     *)
(* From that, the result of each call is what ResultOk asks for.           *)
(***************************************************************************)
EXTENDS FrameReader, SequenceTheorems, WellFoundedInduction, TLAPS

-----------------------------------------------------------------------------
(* Sequences. *)

(* What a slice of the input is: its length and its bytes. *)
LEMMA BetweenProperties ==
  ASSUME NEW s \in Seq(Bytes), NEW i \in 0..Len(s), NEW j \in i..Len(s)
  PROVE  /\ SubSeq(s, i + 1, j) \in Seq(Bytes)
         /\ Len(SubSeq(s, i + 1, j)) = j - i
         /\ \A k \in 1..j - i : SubSeq(s, i + 1, j)[k] = s[i + k]
  OBVIOUS

(* OwnedFrame::append: two adjacent slices are one. *)
LEMMA AdjacentSlices ==
  ASSUME NEW s \in Seq(Bytes), NEW i \in 0..Len(s),
         NEW j \in i..Len(s), NEW k \in j..Len(s)
  PROVE  SubSeq(s, i + 1, j) \o SubSeq(s, j + 1, k) = SubSeq(s, i + 1, k)
  OBVIOUS

(* strip_trailing_cr on a slice of the input gives a slice of the input. *)
LEMMA StripSlice ==
  ASSUME NEW s \in Seq(Bytes), NEW i \in 0..Len(s), NEW j \in i..Len(s)
  PROVE  StripTrailingCR(SubSeq(s, i + 1, j)) =
           SubSeq(s, i + 1, IF j > i /\ s[j] = CR THEN j - 1 ELSE j)
<1>1. CASE j = i
  BY <1>1 DEF StripTrailingCR
<1>2. CASE j > i
  <2>1. /\ SubSeq(s, i + 1, j) # << >>
        /\ Len(SubSeq(s, i + 1, j)) = j - i
        /\ SubSeq(s, i + 1, j)[j - i] = s[j]
    BY <1>2, BetweenProperties
  <2>2. SubSeq(SubSeq(s, i + 1, j), 1, j - i - 1) = SubSeq(s, i + 1, j - 1)
    BY <1>2
  <2>3. QED
    BY <1>2, <2>1, <2>2 DEF StripTrailingCR
<1>3. QED
  BY <1>1, <1>2

(* A set of naturals that is not empty has a least element. *)
LEMMA LeastNatural ==
  ASSUME NEW S \in SUBSET Nat, S # {}
  PROVE  \E m \in S : \A k \in S : m <= k
<1> DEFINE R == OpToRel(<, Nat)
<1>1. R = {p \in Nat \X Nat : p[1] < p[2]}
  BY Zenon DEF OpToRel
<1>2. IsWellFoundedOn(R, Nat)
  BY NatLessThanWellFounded, Zenon
<1> HIDE DEF R
<1>3. PICK m \in S : \A k \in S : ~(<<k, m>> \in R)
  BY <1>2, WFMin
<1>4. ASSUME NEW k \in S
      PROVE  m <= k
  <2>1. <<k, m>> \notin R /\ k \in Nat /\ m \in Nat
    BY <1>3
  <2>2. <<k, m>> \in Nat \X Nat /\ <<k, m>>[1] = k /\ <<k, m>>[2] = m
    BY <2>1
  <2>3. ~(k < m)
    BY <2>1, <2>2, <1>1
  <2>4. QED
    BY <2>1, <2>3
<1>5. QED
  BY <1>4

(* If the rest of the input has a newline, it has a first one. *)
LEMMA FirstNewline ==
  ASSUME input \in Seq(Bytes), NEW i \in 0..Len(input), ~NoNewline(i, Len(input))
  PROVE  \E e : LineEnd(i, e)
<1> DEFINE S == {k \in i + 1..Len(input) : input[k] = LF}
<1>1. S # {} /\ S \in SUBSET Nat
  BY DEF NoNewline
<1>2. PICK e \in S : \A k \in S : e <= k
  <2> HIDE DEF S
  <2>1. QED
    BY <1>1, LeastNatural
<1>3. QED
  BY <1>2 DEF LineEnd, NoNewline

-----------------------------------------------------------------------------
(* A call that returns. *)

(* A call whose result is right leaves all the calls right, and in order.  *)
LEMMA ReturnKeepsCalls ==
  ASSUME IInv, Open, UNCHANGED <<max, input>>, NEW r \in Results, Return(r),
         ResultOk(start, r), r # Panic
  PROVE  /\ calls' \in Seq([from : 0..Len(input), result : Results])
         /\ frame' = << >>
         /\ ChunkingInvisible'
         /\ \A i \in 1..Len(calls') :
              /\ i = 1 => calls'[i].from = 0
              /\ i > 1 => LineEnd(calls'[i - 1].from, calls'[i].from)
         /\ StorageSuffices'
         /\ calls' # << >>
         /\ calls'[Len(calls')] = [from |-> start, result |-> r]
         /\ "error" \in DOMAIN r => ~Open'
         /\ Open' => Open
<1> DEFINE call == [from |-> start, result |-> r]
<1>1. /\ calls \in Seq([from : 0..Len(input), result : Results])
      /\ call \in [from : 0..Len(input), result : Results]
      /\ max \in Nat
      /\ input \in Seq(Bytes)
  BY InputsAssumption, LimitsAssumption DEF IInv, TypeOK
<1>2. /\ calls' \in Seq([from : 0..Len(input), result : Results])
      /\ Len(calls') = Len(calls) + 1
      /\ \A i \in 1..Len(calls) : calls'[i] = calls[i]
      /\ calls'[Len(calls) + 1] = call
      /\ frame' = << >>
  BY <1>1 DEF Return
<1>3. \A f, q : ResultOk(f, q)' <=> ResultOk(f, q)
  BY DEF ResultOk, LineEnd, LineOk, RestOk, PayloadEnd, Between, NoNewline
<1>4. ChunkingInvisible'
  <2>1. SUFFICES ASSUME NEW i \in 1..Len(calls')
                 PROVE  ResultOk(calls'[i].from, calls'[i].result)
    BY <1>3 DEF ChunkingInvisible
  <2>2. CASE i \in 1..Len(calls)
    <3>1. ResultOk(calls[i].from, calls[i].result)
      BY <2>2 DEF ChunkingInvisible, IInv
    <3>2. QED
      BY <3>1, <2>2, <1>2
  <2>3. CASE i = Len(calls) + 1
    BY <2>3, <1>2
  <2>4. QED
    BY <2>2, <2>3, <1>1, <1>2
<1>5. ASSUME NEW i \in 1..Len(calls')
      PROVE  /\ i = 1 => calls'[i].from = 0
             /\ i > 1 => LineEnd(calls'[i - 1].from, calls'[i].from)
  <2>1. CASE i \in 1..Len(calls)
    <3>1. /\ i = 1 => calls[i].from = 0
          /\ i > 1 => LineEnd(calls[i - 1].from, calls[i].from)
      BY <2>1 DEF LinesInOrder, IInv
    <3>2. ASSUME i > 1
          PROVE  calls'[i - 1] = calls[i - 1]
      <4>1. i - 1 \in 1..Len(calls)
        BY <3>2, <2>1, <1>1
      <4>2. QED
        BY <4>1, <1>2
    <3>3. QED
      BY <3>1, <3>2, <2>1, <1>2
  <2>2. CASE i = Len(calls) + 1
    BY <2>2, <1>1, <1>2 DEF CallInProgress, IInv
  <2>3. QED
    BY <2>1, <2>2, <1>1, <1>2
<1>6. StorageSuffices'
  <2>1. max' < UsizeMax => Len(frame') <= max' + 1
    BY <1>1, <1>2
  <2>2. ASSUME NEW i \in 1..Len(calls')
        PROVE  calls'[i].result # Panic
    <3>1. CASE i \in 1..Len(calls)
      BY <3>1, <1>2 DEF StorageSuffices, IInv
    <3>2. CASE i = Len(calls) + 1
      BY <3>2, <1>2
    <3>3. QED
      BY <3>1, <3>2, <1>1, <1>2
  <2>3. QED
    BY <2>1, <2>2 DEF StorageSuffices, OwnedLimit, Panic, Failure
<1>7. "error" \in DOMAIN r => ~Open'
  BY <1>1, <1>2 DEF Open, Failed
<1>8. QED
  BY <1>1, <1>2, <1>4, <1>5, <1>6, <1>7

(* A failed call ends the connection: nothing else is asked of the state.  *)
LEMMA FailureKeepsInvariant ==
  ASSUME IInv, Open, UNCHANGED <<max, input, start>>, NEW e \in Errors,
         Return(Failure(e)), ResultOk(start, Failure(e)),
         pos' \in pos..Len(input), filled' \in 0..Len(input) - pos'
  PROVE  IInv'
<1>1. /\ Failure(e) \in Results
      /\ Failure(e) # Panic
      /\ "error" \in DOMAIN Failure(e)
  BY DEF Failure, Panic, Results, Errors
<1>2. /\ calls' \in Seq([from : 0..Len(input), result : Results])
      /\ frame' = << >>
      /\ ChunkingInvisible'
      /\ \A i \in 1..Len(calls') :
           /\ i = 1 => calls'[i].from = 0
           /\ i > 1 => LineEnd(calls'[i - 1].from, calls'[i].from)
      /\ StorageSuffices'
      /\ ~Open'
  BY <1>1, ReturnKeepsCalls
<1>3. TypeOK'
  BY <1>2 DEF IInv, TypeOK
<1>4. LinesInOrder'
  BY <1>2 DEF LinesInOrder, LineEnd, NoNewline
<1>5. QED
  BY <1>2, <1>3, <1>4 DEF IInv, CallInProgress

(* What IInv says of the call in progress, with the types at hand. *)
Facts ==
  /\ input \in Seq(Bytes)
  /\ max \in Nat /\ UsizeMax \in Nat /\ max <= UsizeMax
  /\ pos \in 0..Len(input)
  /\ filled \in 0..Len(input) - pos
  /\ start \in 0..pos
  /\ frame = SubSeq(input, start + 1, pos)
  /\ frame \in Seq(Bytes)
  /\ Len(frame) = pos - start
  /\ frame = << >> <=> pos = start
  /\ NoNewline(start, pos)
  /\ pos - start <= max + 1
  /\ pos - start = max + 1 => input[pos] = CR

(* These facts hold of an open connection. *)
LEMMA InProgress ==
  ASSUME IInv, Open
  PROVE  Facts
<1>1. /\ input \in Seq(Bytes)
      /\ max \in Nat /\ UsizeMax \in Nat /\ max <= UsizeMax
      /\ pos \in 0..Len(input)
      /\ filled \in 0..Len(input) - pos
      /\ start \in 0..pos
  BY InputsAssumption, LimitsAssumption DEF IInv, TypeOK
<1>2. /\ frame = SubSeq(input, start + 1, pos)
      /\ NoNewline(start, pos)
      /\ Len(frame) <= max + 1
      /\ Len(frame) = max + 1 => input[pos] = CR
  BY DEF IInv, CallInProgress, OwnedLimit, Between
<1>3. /\ Len(frame) = pos - start
      /\ frame \in Seq(Bytes)
  BY <1>1, <1>2, BetweenProperties
<1>4. QED
  BY <1>1, <1>2, <1>3 DEF Facts

-----------------------------------------------------------------------------
(* The actions. *)

(* checked_add fails: nothing was read, and every line would be refused.   *)
LEMMA LimitOverflowsStep == IInv /\ LimitOverflows => IInv'
<1>1. SUFFICES ASSUME IInv, LimitOverflows PROVE IInv'
  OBVIOUS
<1>2. ResultOk(start, Failure("frame_too_large"))
  BY <1>1 DEF LimitOverflows, ResultOk
<1>3. Facts
  BY <1>1, InProgress DEF LimitOverflows
<1>4. /\ pos' \in pos..Len(input)
      /\ filled' \in 0..Len(input) - pos'
  BY <1>1, <1>3 DEF LimitOverflows, Facts
<1>5. QED
  BY <1>1, <1>2, <1>4, FailureKeepsInvariant DEF LimitOverflows, Errors

(* A read that fails. *)
LEMMA ReadFailsStep == IInv /\ ReadFails => IInv'
<1>1. SUFFICES ASSUME IInv, ReadFails PROVE IInv'
  OBVIOUS
<1>2. ResultOk(start, Failure("io"))
  BY DEF ResultOk
<1>3. Facts
  BY <1>1, InProgress DEF ReadFails, Reading
<1>4. /\ pos' \in pos..Len(input)
      /\ filled' \in 0..Len(input) - pos'
  BY <1>1, <1>3 DEF ReadFails, Facts
<1>5. QED
  BY <1>1, <1>2, <1>4, FailureKeepsInvariant DEF ReadFails, Reading, Errors

(* The peer closed: what was read since start is all there is. *)
LEMMA EndOfInputStep == IInv /\ EndOfInput => IInv'
<1>1. SUFFICES ASSUME IInv, EndOfInput PROVE IInv'
  OBVIOUS
<1> DEFINE e == IF frame = << >> THEN "peer_closed" ELSE "truncated_frame"
<1>2. Open /\ max < UsizeMax /\ pos = Len(input)
  BY <1>1 DEF EndOfInput, Reading
<1>3. Facts
  BY <1>1, <1>2, InProgress
<1>4. RestOk(start, Failure(e))
  BY <1>2, <1>3 DEF RestOk, Facts
<1>5. ResultOk(start, Failure(e))
  BY <1>2, <1>3, <1>4 DEF ResultOk, Facts
<1>6. /\ pos' \in pos..Len(input)
      /\ filled' \in 0..Len(input) - pos'
  BY <1>1, <1>3 DEF EndOfInput, Facts
<1>7. e \in Errors
  BY DEF Errors
<1> HIDE DEF e
<1>8. Return(Failure(e)) /\ UNCHANGED <<max, input, start>>
  BY <1>1 DEF EndOfInput, e
<1>9. QED
  BY <1>1, <1>2, <1>5, <1>6, <1>7, <1>8, FailureKeepsInvariant

(* More bytes in the BufReader change nothing that was read. *)
LEMMA FillBufferStep == IInv /\ FillBuffer => IInv'
<1>1. SUFFICES ASSUME IInv, FillBuffer PROVE IInv'
  OBVIOUS
<1>2. UNCHANGED <<max, input, pos, frame, start, calls>> /\ Open
  BY <1>1 DEF FillBuffer, Reading
<1>3. Facts
  BY <1>1, <1>2, InProgress
<1>4. TypeOK'
  BY <1>1, <1>2, <1>3 DEF IInv, TypeOK, FillBuffer, Facts
<1>5. CallInProgress' /\ LinesInOrder' /\ StorageSuffices'
  BY <1>1, <1>2 DEF IInv, CallInProgress, LinesInOrder, StorageSuffices, Open, Failed,
     OwnedLimit, Between, NoNewline, LineEnd
<1>6. ChunkingInvisible'
  BY <1>1, <1>2 DEF IInv, ChunkingInvisible, ResultOk, LineEnd, LineOk, RestOk,
     PayloadEnd, Between, NoNewline
<1>7. QED
  BY <1>4, <1>5, <1>6 DEF IInv

(* Enough was read to know that no newline can make a legal line of it.    *)
LEMMA TooLarge ==
  ASSUME Facts, max < UsizeMax, NEW j \in pos..Len(input), NoNewline(start, j),
         \/ j - start > max + 1
         \/ j - start = max + 1 /\ input[j] # CR
  PROVE  ResultOk(start, Failure("frame_too_large"))
<1>1. CASE NoNewline(start, Len(input))
  <2>1. /\ Len(input) - start > max
        /\ Len(input) - start = max + 1 => input[Len(input)] # CR
    BY DEF Facts
  <2>2. RestOk(start, Failure("frame_too_large"))
    BY <2>1 DEF RestOk, Facts
  <2>3. QED
    BY <2>2, <1>1 DEF ResultOk
<1>2. CASE ~NoNewline(start, Len(input))
  <2>1. PICK e : LineEnd(start, e)
    BY <1>2, FirstNewline DEF Facts
  <2>2. e \in j + 1..Len(input)
    BY <2>1 DEF LineEnd, NoNewline, Facts
  <2>3. PayloadEnd(start, e) - start > max
    BY <2>2 DEF PayloadEnd, Facts
  <2>4. LineOk(start, e, Failure("frame_too_large"))
    BY <2>3 DEF LineOk
  <2>5. QED
    BY <2>1, <2>4 DEF ResultOk, LineEnd
<1>3. QED
  BY <1>1, <1>2

(* A chunk without newline is kept whole, unless the line is lost already. *)
LEMMA CopyChunkStep == IInv /\ CopyChunk => IInv'
<1>1. SUFFICES ASSUME IInv, CopyChunk PROVE IInv'
  OBVIOUS
<1> DEFINE longer == frame \o Between(pos, pos + filled)
<1>2. /\ Open
      /\ max < UsizeMax
      /\ filled > 0
      /\ UNCHANGED <<max, input, start>>
      /\ NoNewline(pos, pos + filled)
      /\ IF ~Fits(filled)
           THEN Return(Failure("frame_too_large")) /\ UNCHANGED <<pos, filled>>
           ELSE /\ Consume(filled)
                /\ IF Len(longer) = OwnedLimit /\ longer[Len(longer)] # CR
                     THEN Return(Failure("frame_too_large"))
                     ELSE frame' = longer /\ UNCHANGED calls
  BY <1>1 DEF CopyChunk, Reading
<1>3. Facts
  BY <1>1, <1>2, InProgress
<1> DEFINE next == pos + filled
<1>4. /\ start \in 0..Len(input)
      /\ pos \in start..Len(input)
      /\ next \in pos..Len(input)
      /\ next \in start..Len(input)
      /\ next > pos
      /\ input \in Seq(Bytes)
      /\ frame = SubSeq(input, start + 1, pos)
      /\ filled = next - pos
  BY <1>2, <1>3 DEF Facts
<1> HIDE DEF next
<1>5. longer = SubSeq(input, start + 1, next)
  BY <1>4, AdjacentSlices DEF Between, next
<1> HIDE DEF longer
<1>6. /\ Len(longer) = next - start
      /\ longer[Len(longer)] = input[next]
      /\ longer \in Seq(Bytes)
  <2>1. Len(longer) = next - start /\ longer \in Seq(Bytes)
    BY <1>4, <1>5, BetweenProperties
  <2>2. next - start \in 1..next - start /\ start + (next - start) = next
    BY <1>4
  <2>3. longer[next - start] = input[start + (next - start)]
    BY <2>2, <1>4, <1>5, BetweenProperties
  <2>4. QED
    BY <2>1, <2>2, <2>3
<1>7. NoNewline(start, next)
  BY <1>2, <1>3, <1>4 DEF NoNewline, Facts, next
<1>8. ASSUME \/ next - start > max + 1
             \/ next - start = max + 1 /\ input[next] # CR
      PROVE  ResultOk(start, Failure("frame_too_large"))
  BY <1>2, <1>3, <1>4, <1>7, <1>8, TooLarge
<1>9. Fits(filled) <=> next - start <= max + 1
  BY <1>3, <1>4 DEF Fits, OwnedLimit, Facts
<1>10. CASE ~Fits(filled)
  <2>1. next - start > max + 1
    BY <1>3, <1>4, <1>9, <1>10 DEF Facts
  <2>2. /\ pos' \in pos..Len(input)
        /\ filled' \in 0..Len(input) - pos'
    BY <1>2, <1>3, <1>10 DEF Facts
  <2>3. QED
    BY <2>1, <2>2, <1>1, <1>2, <1>8, <1>10, FailureKeepsInvariant DEF Errors
<1>11. CASE Fits(filled) /\ Len(longer) = OwnedLimit /\ longer[Len(longer)] # CR
  <2>1. Return(Failure("frame_too_large")) /\ Consume(filled)
    BY <1>2, <1>11
  <2>2. ResultOk(start, Failure("frame_too_large"))
    BY <1>6, <1>8, <1>11 DEF OwnedLimit
  <2>3. pos' = next /\ filled' = 0
    BY <2>1, <1>3, <1>4 DEF Consume, Facts, next
  <2>4. /\ pos' \in pos..Len(input)
        /\ filled' \in 0..Len(input) - pos'
    BY <2>3, <1>4
  <2>5. QED
    BY <2>1, <2>2, <2>4, <1>1, <1>2, FailureKeepsInvariant DEF Errors
<1>12. CASE Fits(filled) /\ ~(Len(longer) = OwnedLimit /\ longer[Len(longer)] # CR)
  <2>1. frame' = longer /\ calls' = calls /\ pos' = next /\ filled' = 0
    BY <1>2, <1>3, <1>4, <1>12 DEF Consume, Facts, next
  <2>2. Len(longer) <= max + 1
    BY <1>6, <1>9, <1>12
  <2>3. TypeOK'
    BY <2>1, <1>1, <1>2, <1>3, <1>4, <1>6 DEF IInv, TypeOK, Facts
  <2>4. CallInProgress'
    <3>1. longer = Between(start, pos)' /\ NoNewline(start, pos)'
      BY <2>1, <1>2, <1>5, <1>7 DEF Between, NoNewline
    <3>2. Len(longer) = OwnedLimit' => input'[pos'] = CR
      BY <2>1, <1>2, <1>6, <1>12 DEF OwnedLimit
    <3>3. /\ calls' = << >> => start' = 0
          /\ calls' # << >> => LineEnd(calls[Len(calls)].from, start)'
      BY <2>1, <1>1, <1>2 DEF IInv, CallInProgress, LineEnd, NoNewline
    <3>4. QED
      BY <3>1, <3>2, <3>3, <2>1, <2>2, <1>2 DEF CallInProgress, OwnedLimit
  <2>5. LinesInOrder'
    <3>1. start' = pos' - Len(frame')
      BY <2>1, <1>2, <1>4, <1>6
    <3>2. QED
      BY <3>1, <2>1, <1>1, <1>2 DEF IInv, LinesInOrder, LineEnd, NoNewline
  <2>6. StorageSuffices'
    BY <2>1, <2>2, <1>1, <1>2 DEF IInv, StorageSuffices, OwnedLimit
  <2>7. ChunkingInvisible'
    BY <2>1, <1>1, <1>2 DEF IInv, ChunkingInvisible, ResultOk, LineEnd, LineOk, RestOk,
       PayloadEnd, Between, NoNewline
  <2>8. QED
    BY <2>3, <2>4, <2>5, <2>6, <2>7 DEF IInv
<1>13. QED
  BY <1>10, <1>11, <1>12

(* The line is there: what is returned is the line without CR and LF.      *)
LEMMA FindNewlineStep == IInv /\ FindNewline => IInv'
<1>1. SUFFICES ASSUME IInv, Open, max < UsizeMax, NEW n \in 0..filled - 1,
                      NewlineIndex(n), ReadLine(n, n + 1)
               PROVE  IInv'
  BY DEF FindNewline, Reading
<1>2. Facts
  BY <1>1, InProgress
<1> DEFINE e == pos + n + 1
           c == CopyLength(n)
           f == frame \o Between(pos, pos + c)
           r == LineResult(Len(frame) + n, f)
<1>3. /\ c \in 0..n
      /\ Fits(c)
      /\ c # n => pos + c - start = max + 1
  BY <1>2 DEF CopyLength, Smaller, Fits, OwnedLimit, Facts
<1>4. /\ Return(r)
      /\ UNCHANGED <<max, input>>
      /\ pos' = e /\ start' = e /\ filled' = filled - (n + 1)
  BY <1>1, <1>2, <1>3 DEF ReadLine, Consume, Facts
<1> HIDE DEF c
<1> DEFINE cut == pos + c
<1>5. /\ n \in Nat
      /\ e \in pos + 1..Len(input)
      /\ start \in 0..Len(input)
      /\ pos \in start..Len(input)
      /\ cut \in pos..e - 1
      /\ cut \in pos..Len(input)
      /\ cut \in start..Len(input)
      /\ cut # e - 1 => cut - start = max + 1
      /\ input \in Seq(Bytes)
      /\ frame = SubSeq(input, start + 1, pos)
      /\ max \in Nat
  BY <1>2, <1>3 DEF Facts
<1>6. LineEnd(start, e)
  BY <1>1, <1>2, <1>5 DEF LineEnd, NewlineIndex, NoNewline, Facts
<1>7. r = LineResult(e - 1 - start, f)
  BY <1>2, <1>5 DEF Facts
<1> HIDE DEF e, cut
<1>8. f = SubSeq(input, start + 1, cut)
  BY <1>5, AdjacentSlices DEF Between, cut
<1> HIDE DEF f, r
<1> DEFINE last == IF cut > start /\ input[cut] = CR THEN cut - 1 ELSE cut
           line == StripTrailingCR(f)
<1>9. last \in start..Len(input) /\ line = Between(start, last)
  <2>1. last \in start..Len(input)
    BY <1>5
  <2>2. line = SubSeq(input, start + 1, last)
    BY <1>5, <1>8, StripSlice
  <2>3. QED
    BY <2>1, <2>2 DEF Between
<1> HIDE DEF line
<1>10. Len(line) = last - start /\ line \in Seq(Bytes)
  BY <1>5, <1>9, BetweenProperties DEF Between
<1>11. line = << >> <=> last = start
  BY <1>5, <1>9, <1>10
<1>12. r = IF e - 1 - start > max + 1 \/ last - start > max
             THEN Failure("frame_too_large")
             ELSE IF last = start THEN Failure("empty_frame") ELSE Success(line)
  BY <1>7, <1>10, <1>11 DEF LineResult, OwnedLimit, line
<1>13. LineOk(start, e, r)
  <2>1. CASE cut = e - 1
    <3>1. PayloadEnd(start, e) = last
      BY <2>1, <1>5 DEF PayloadEnd
    <3>2. e - 1 - start > max + 1 => last - start > max
      BY <2>1, <1>5
    <3>3. QED
      BY <3>1, <3>2, <1>5, <1>9, <1>12 DEF LineOk
  <2>2. CASE cut # e - 1
    <3>1. /\ e - 1 - start > max + 1
          /\ PayloadEnd(start, e) - start > max
      BY <2>2, <1>5 DEF PayloadEnd
    <3>2. QED
      BY <3>1, <1>12 DEF LineOk
  <2>3. QED
    BY <2>1, <2>2
<1>14. r \in Results /\ r # Panic
  BY <1>10, <1>12 DEF Results, Errors, Failure, Success, Panic
<1>15. ResultOk(start, r)
  BY <1>1, <1>6, <1>13 DEF ResultOk, LineEnd
<1>16. /\ calls' \in Seq([from : 0..Len(input), result : Results])
       /\ frame' = << >>
       /\ ChunkingInvisible'
       /\ \A i \in 1..Len(calls') :
            /\ i = 1 => calls'[i].from = 0
            /\ i > 1 => LineEnd(calls'[i - 1].from, calls'[i].from)
       /\ StorageSuffices'
       /\ calls' # << >>
       /\ calls'[Len(calls')] = [from |-> start, result |-> r]
  BY <1>1, <1>4, <1>14, <1>15, ReturnKeepsCalls
<1>17. filled' \in 0..Len(input) - pos' /\ pos' \in 0..Len(input)
  BY <1>2, <1>4, <1>5 DEF Facts, e
<1>18. TypeOK'
  BY <1>1, <1>4, <1>16, <1>17 DEF IInv, TypeOK
<1>19. LinesInOrder'
  BY <1>4, <1>16, <1>17 DEF LinesInOrder, LineEnd, NoNewline
<1>20. CallInProgress'
  <2>1. Between(start, pos)' = << >> /\ NoNewline(start, pos)'
    BY <1>4, <1>5 DEF Between, NoNewline
  <2>2. LineEnd(calls[Len(calls)].from, start)'
    BY <1>4, <1>6, <1>16 DEF LineEnd, NoNewline
  <2>3. max \in Nat /\ max' = max
    BY <1>4, <1>5
  <2>4. QED
    <3>1. frame' = << >> /\ calls' # << >>
      BY <1>16
    <3>2. 0 <= OwnedLimit' /\ 0 # OwnedLimit'
      BY <2>3 DEF OwnedLimit
    <3>3. Len(frame') = 0
      BY <3>1
    <3>4. Len(frame') <= OwnedLimit' /\ Len(frame') # OwnedLimit'
      BY <3>2, <3>3
    <3>5. QED
      BY <3>1, <3>4, <2>1, <2>2 DEF CallInProgress
<1>21. QED
  BY <1>16, <1>18, <1>19, <1>20 DEF IInv

-----------------------------------------------------------------------------
(* The theorems. *)

(* The inductive invariant holds of every behaviour. *)
THEOREM Invariance == Spec => []IInv
<1>1. Init => IInv
  <2>1. SUFFICES ASSUME Init PROVE IInv
    OBVIOUS
  <2>2. max \in Nat /\ input \in Seq(Bytes)
    BY <2>1, InputsAssumption, LimitsAssumption DEF Init
  <2>3. TypeOK
    BY <2>1, <2>2 DEF Init, TypeOK
  <2>4. CallInProgress
    BY <2>1, <2>2 DEF Init, CallInProgress, Between, NoNewline, OwnedLimit
  <2>5. ChunkingInvisible /\ LinesInOrder /\ StorageSuffices
    <3>1. /\ frame = << >> /\ calls = << >> /\ start = 0 /\ pos = 0
          /\ Len(calls) = 0 /\ Len(frame) = 0
      BY <2>1 DEF Init
    <3>2. Len(frame) <= OwnedLimit
      BY <3>1, <2>2 DEF OwnedLimit
    <3>3. \A i : i \notin 1..Len(calls)
      BY <3>1
    <3>4. start = pos - Len(frame)
      <4>1. 0 = 0 - 0
        OBVIOUS
      <4>2. QED
        BY <3>1, <4>1, Zenon
    <3>5. ChunkingInvisible
      BY <3>3 DEF ChunkingInvisible
    <3>6. LinesInOrder
      BY <3>3, <3>4 DEF LinesInOrder
    <3>7. StorageSuffices
      BY <3>2, <3>3 DEF StorageSuffices
    <3>8. QED
      BY <3>5, <3>6, <3>7
  <2>6. QED
    BY <2>3, <2>4, <2>5 DEF IInv
<1>2. IInv /\ [Next]_vars => IInv'
  <2>1. IInv /\ Next => IInv'
    BY LimitOverflowsStep, ReadFailsStep, EndOfInputStep, FillBufferStep, CopyChunkStep,
       FindNewlineStep DEF Next
  <2>2. IInv /\ UNCHANGED vars => IInv'
    BY DEF vars, IInv, TypeOK, CallInProgress, ChunkingInvisible, LinesInOrder,
       StorageSuffices, Open, Failed, OwnedLimit, ResultOk, LineEnd, LineOk, RestOk,
       PayloadEnd, Between, NoNewline
  <2>3. QED
    BY <2>1, <2>2
<1>3. QED
  BY <1>1, <1>2, PTL DEF Spec

(* Every call of read_frame returns what the line it began at is, for any  *)
(* input, any limit and any way the bytes arrive.                          *)
THEOREM ResultsAreRight == Spec => []ChunkingInvisible
<1>1. IInv => ChunkingInvisible
  BY DEF IInv
<1>2. QED
  BY <1>1, Invariance, PTL

(* read_frame reads one line after the other and skips none. *)
THEOREM LinesAreRead == Spec => []LinesInOrder
<1>1. IInv => LinesInOrder
  BY DEF IInv
<1>2. QED
  BY <1>1, Invariance, PTL

(* OwnedFrame never panics and never holds more than max_frame_bytes + 1.  *)
THEOREM NoOverrun == Spec => []StorageSuffices
<1>1. IInv => StorageSuffices
  BY DEF IInv
<1>2. QED
  BY <1>1, Invariance, PTL

(* The variables have their types. *)
THEOREM TypeCorrectness == Spec => []TypeOK
<1>1. IInv => TypeOK
  BY DEF IInv
<1>2. QED
  BY <1>1, Invariance, PTL

=============================================================================
