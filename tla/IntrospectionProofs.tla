------------------------ MODULE IntrospectionProofs ------------------------
(***************************************************************************)
(* What one introspection promises, for any number of processes that come  *)
(* to have the pid during the call, any number of degraded inputs and      *)
(* stacks of up to five frames.                                            *)
(*                                                                         *)
(* OneProcess is about the reads (ReadFromOne, VacancySeen), the doubts    *)
(* are about the reports (MergeStands, Merging, MarkedBy), and the overall *)
(* confidence is about the entries it was last derived from (Derived).     *)
(***************************************************************************)
EXTENDS Introspection, FiniteSetTheorems, SequenceTheorems, TLAPS

-----------------------------------------------------------------------------
(* merge_low_confidence_field.                                             *)

ReportType == [path : Paths, confidence : Confidences, reason : Reasons]

LEMMA ScoreNat == \A c \in Confidences : Score[c] \in Nat
  BY DEF Confidences, Score

LEMMA NoScore == \A c \in Confidences : Score[c] <= 0 => c = "none"
  BY DEF Confidences, Score

LEMMA LowerType ==
  ASSUME NEW c \in Confidences, NEW d \in Confidences
  PROVE  /\ Lower(c, d) \in Confidences
         /\ Lower(c, d) \in {c, d}
         /\ Score[Lower(c, d)] <= Score[c]
         /\ Score[Lower(c, d)] <= Score[d]
  BY ScoreNat DEF Lower

(* An entry that takes a report in keeps its path.                         *)
LEMMA LoweredFields ==
  ASSUME NEW f \in LowFields, NEW r \in ReportType
  PROVE  /\ Lowered(f, r) \in LowFields
         /\ Lowered(f, r).path = f.path
         /\ Lowered(f, r).confidence = Lower(f.confidence, r.confidence)
         /\ Lowered(f, r).reasons = f.reasons \union {r.reason}
<1>1. f.confidence \in Confidences /\ r.confidence \in Confidences
  BY DEF LowFields, ReportType
<1>2. Lower(f.confidence, r.confidence) \in Confidences
  BY <1>1, LowerType
<1>. QED
  BY <1>2 DEF Lowered, LowFields, ReportType

LEMMA EntryFields ==
  ASSUME NEW r \in ReportType
  PROVE  /\ Entry(r) \in LowFields
         /\ Entry(r).path = r.path
         /\ Entry(r).confidence = r.confidence
         /\ Entry(r).reasons = {r.reason}
  BY DEF Entry, LowFields, ReportType

(* Where no path has two entries, the one about a path is the first.       *)
LEMMA FirstIsOnly ==
  ASSUME NEW F \in Seq(LowFields), NEW p, NEW i \in 1..Len(F), F[i].path = p,
         \A j, k \in 1..Len(F) : F[j].path = F[k].path => j = k
  PROVE  FirstAbout(F, p) = i
<1>. DEFINE Q(k) == IsAbout(F, k, p) /\ \A j \in 1..k - 1 : ~IsAbout(F, j, p)
<1>1. Len(F) \in Nat
  BY LenProperties
<1>2. Q(i)
  BY <1>1 DEF IsAbout
<1>3. \A k \in 1..Len(F) : Q(k) => k = i
  BY DEF IsAbout
<1>. QED
  BY <1>2, <1>3 DEF FirstAbout

(* StandFor, with the reports about a path named.                          *)
About(R, p) == {r \in R : r.path = p}

Represents(f, A) ==
  /\ f.reasons = {r.reason : r \in A}
  /\ \E r \in A : r.confidence = f.confidence
  /\ \A r \in A : Score[f.confidence] <= Score[r.confidence]

LEMMA StandForAbout ==
  ASSUME NEW F, NEW R
  PROVE  StandFor(F, R) <=>
           /\ \A i, j \in 1..Len(F) : F[i].path = F[j].path => i = j
           /\ \A r \in R : \E i \in 1..Len(F) : F[i].path = r.path
           /\ \A i \in 1..Len(F) : Represents(F[i], About(R, F[i].path))
  BY Zenon DEF StandFor, Represents, About

LEMMA LoweredRepresents ==
  ASSUME NEW f \in LowFields, NEW r \in ReportType, NEW A \in SUBSET ReportType,
         Represents(f, A)
  PROVE  Represents(Lowered(f, r), A \union {r})
<1>. DEFINE g == Lowered(f, r)
<1>0. f.confidence \in Confidences /\ r.confidence \in Confidences
      /\ \A x \in A : x.confidence \in Confidences
  BY DEF LowFields, ReportType
<1>1. /\ g.confidence = Lower(f.confidence, r.confidence)
      /\ g.reasons = f.reasons \union {r.reason}
  BY LoweredFields
<1>. HIDE DEF g
<1>2. g.reasons = {x.reason : x \in A \union {r}}
  BY <1>1 DEF Represents
<1>3. \E x \in A \union {r} : x.confidence = g.confidence
  <2>1. g.confidence \in {f.confidence, r.confidence}
    BY <1>0, <1>1, LowerType
  <2>. QED
    BY <2>1 DEF Represents
<1>4. \A x \in A \union {r} : Score[g.confidence] <= Score[x.confidence]
  <2>1. /\ Score[g.confidence] <= Score[f.confidence]
        /\ Score[g.confidence] <= Score[r.confidence]
        /\ g.confidence \in Confidences
    BY <1>0, <1>1, LowerType
  <2>2. \A x \in A : Score[f.confidence] <= Score[x.confidence]
    BY DEF Represents
  <2>. QED
    BY <1>0, <2>1, <2>2, ScoreNat
<1>. QED
  BY <1>2, <1>3, <1>4 DEF Represents, g

LEMMA EntryRepresents ==
  ASSUME NEW r \in ReportType
  PROVE  Represents(Entry(r), {r})
<1>1. r.confidence \in Confidences
  BY DEF ReportType
<1>2. Score[r.confidence] <= Score[r.confidence]
  BY <1>1, ScoreNat
<1>. QED
  BY <1>2, EntryFields DEF Represents

(* One more report is merged: the entries stand for it too.                *)
LEMMA MergeStands ==
  ASSUME NEW F \in Seq(LowFields), NEW r \in ReportType, NEW R \in SUBSET ReportType,
         StandFor(F, R)
  PROVE  /\ Merge(F, r) \in Seq(LowFields)
         /\ StandFor(Merge(F, r), R \union {r})
<1>. DEFINE G == Merge(F, r)
            S == R \union {r}
<1>0. Len(F) \in Nat /\ \A i \in 1..Len(F) : F[i] \in LowFields
  BY LenProperties, ElementOfSeq
<1>a. /\ \A i, j \in 1..Len(F) : F[i].path = F[j].path => i = j
      /\ \A x \in R : \E i \in 1..Len(F) : F[i].path = x.path
      /\ \A i \in 1..Len(F) : Represents(F[i], About(R, F[i].path))
  BY StandForAbout
<1>b. \A p : About(R, p) \in SUBSET ReportType
  BY DEF About
<1>1. CASE \E i \in 1..Len(F) : IsAbout(F, i, r.path)
  <2>1. PICK k \in 1..Len(F) : F[k].path = r.path
    BY <1>1 DEF IsAbout
  <2>2. FirstAbout(F, r.path) = k
    BY <1>a, <2>1, FirstIsOnly
  <2>3. F[k] \in LowFields
    BY ElementOfSeq
  <2>4. G = [F EXCEPT ![k] = Lowered(F[k], r)]
    BY <1>1, <2>2 DEF Merge
  <2>5. /\ G \in Seq(LowFields) /\ Len(G) = Len(F)
        /\ \A i \in 1..Len(F) : G[i] = IF i = k THEN Lowered(F[k], r) ELSE F[i]
    BY <2>3, <2>4, LoweredFields, ExceptSeq
  <2>6. \A i \in 1..Len(F) : G[i].path = F[i].path
    BY <2>3, <2>5, LoweredFields
  <2>. HIDE DEF G
  <2>7. \A x \in S : \E i \in 1..Len(G) : G[i].path = x.path
    BY <1>a, <2>1, <2>5, <2>6
  <2>8. ASSUME NEW i \in 1..Len(G) PROVE Represents(G[i], About(S, G[i].path))
    <3>1. CASE i = k
      <4>1. About(S, G[i].path) = About(R, F[k].path) \union {r}
        BY <2>1, <2>5, <2>6, <3>1 DEF About
      <4>2. Represents(F[k], About(R, F[k].path)) /\ About(R, F[k].path) \in SUBSET ReportType
        BY <1>a, <1>b
      <4>3. Represents(Lowered(F[k], r), About(R, F[k].path) \union {r})
        BY <2>3, <4>2, LoweredRepresents
      <4>. QED
        BY <2>5, <3>1, <4>1, <4>3
    <3>2. CASE i # k
      <4>1. G[i].path # r.path
        BY <1>a, <2>1, <2>5, <2>6, <3>2
      <4>2. About(S, G[i].path) = About(R, F[i].path)
        BY <2>5, <2>6, <4>1 DEF About
      <4>. QED
        BY <1>a, <2>5, <3>2, <4>2
    <3>. QED
      BY <3>1, <3>2
  <2>9. \A i, j \in 1..Len(G) : G[i].path = G[j].path => i = j
    BY <1>a, <2>5, <2>6
  <2>10. StandFor(G, S)
    BY <2>7, <2>8, <2>9, StandForAbout
  <2>. QED
    BY <2>5, <2>10 DEF G
<1>2. CASE ~ \E i \in 1..Len(F) : IsAbout(F, i, r.path)
  <2>1. G = Append(F, Entry(r))
    BY <1>2 DEF Merge
  <2>2. Entry(r) \in LowFields /\ Entry(r).path = r.path
    BY EntryFields
  <2>3. /\ G \in Seq(LowFields) /\ Len(G) = Len(F) + 1
        /\ \A i \in 1..Len(F) : G[i] = F[i]
        /\ G[Len(F) + 1] = Entry(r)
    BY <2>1, <2>2, AppendProperties
  <2>. HIDE DEF G
  <2>4. \A i \in 1..Len(F) : F[i].path # r.path
    BY <1>2 DEF IsAbout
  <2>5. \A i \in 1..Len(G) : i \in 1..Len(F) \/ i = Len(F) + 1
    BY <1>0, <2>3
  <2>6. \A x \in S : \E i \in 1..Len(G) : G[i].path = x.path
    <3>1. 1..Len(F) \subseteq 1..Len(G) /\ Len(F) + 1 \in 1..Len(G)
      BY <1>0, <2>3
    <3>. QED
      BY <1>a, <2>2, <2>3, <3>1
  <2>7. \A i, j \in 1..Len(G) : G[i].path = G[j].path => i = j
    BY <1>0, <1>a, <2>2, <2>3, <2>4, <2>5
  <2>8. ASSUME NEW i \in 1..Len(G) PROVE Represents(G[i], About(S, G[i].path))
    <3>1. CASE i \in 1..Len(F)
      <4>1. About(S, G[i].path) = About(R, F[i].path)
        BY <2>3, <2>4, <3>1 DEF About
      <4>. QED
        BY <1>a, <2>3, <3>1, <4>1
    <3>2. CASE i = Len(F) + 1
      <4>1. About(S, G[i].path) = {r}
        BY <1>a, <2>2, <2>3, <2>4, <3>2 DEF About
      <4>. QED
        BY <2>3, <3>2, <4>1, EntryRepresents
    <3>. QED
      BY <2>5, <3>1, <3>2
  <2>9. StandFor(G, S)
    BY <2>6, <2>7, <2>8, StandForAbout
  <2>. QED
    BY <2>3, <2>9 DEF G
<1>. QED
  BY <1>1, <1>2

-----------------------------------------------------------------------------
(* Sequences: those made from functions and from sets, and what is in them. *)

LEMMA SeqOfFunction ==
  ASSUME NEW n \in Nat, NEW X, NEW f \in [1..n -> X]
  PROVE  f \in Seq(X) /\ Len(f) = n /\ \A i \in 1..n : f[i] \in X
  OBVIOUS

LEMMA SeqOfSet ==
  ASSUME NEW S, IsFiniteSet(S)
  PROVE  /\ SetToSeq(S) \in Seq(S)
         /\ Len(SetToSeq(S)) \in Nat
         /\ \A i, j \in 1..Len(SetToSeq(S)) : SetToSeq(S)[i] = SetToSeq(S)[j] => i = j
         /\ \A x \in S : \E i \in 1..Len(SetToSeq(S)) : SetToSeq(S)[i] = x
         /\ S = {} => SetToSeq(S) = << >>
<1>. DEFINE n == Cardinality(S)
            s == SetToSeq(S)
<1>1. n \in Nat /\ \E f \in [1..n -> S] : IsInjective(f)
  BY FS_CardinalityType DEF ExistsBijection, Bijection, Injection
<1>2. s \in [1..n -> S] /\ IsInjective(s)
  BY <1>1 DEF SetToSeq
<1>3. s \in Seq(S) /\ Len(s) = n
  BY <1>1, <1>2, SeqOfFunction
<1>4. s \in Surjection(1..n, S)
  <2>1. IsFiniteSet(1..n) /\ Cardinality(1..n) = n
    BY <1>1, FS_Interval
  <2>. QED
    BY <1>2, <2>1, FS_Injection DEF Injection
<1>. HIDE DEF s
<1>5. \A i, j \in 1..n : s[i] = s[j] => i = j
  BY <1>2 DEF IsInjective
<1>6. \A x \in S : \E i \in 1..n : s[i] = x
  BY <1>4 DEF Surjection
<1>7. S = {} => s = << >>
  BY <1>1, <1>2, <1>3, FS_EmptySet
<1>. QED
  BY <1>1, <1>3, <1>5, <1>6, <1>7 DEF s

In(x, s) == \E i \in 1..Len(s) : s[i] = x

LEMMA InConcat ==
  ASSUME NEW X, NEW s \in Seq(X), NEW t \in Seq(X), NEW x
  PROVE  s \o t \in Seq(X) /\ (In(x, s \o t) <=> In(x, s) \/ In(x, t))
<1>1. /\ s \o t \in Seq(X) /\ Len(s) \in Nat /\ Len(t) \in Nat
      /\ Len(s \o t) = Len(s) + Len(t)
      /\ \A i \in 1..Len(s) : (s \o t)[i] = s[i]
      /\ \A i \in Len(s) + 1..Len(s) + Len(t) : (s \o t)[i] = t[i - Len(s)]
  BY ConcatProperties, LenProperties
<1>2. ASSUME In(x, s \o t) PROVE In(x, s) \/ In(x, t)
  <2>1. PICK i \in 1..Len(s) + Len(t) : (s \o t)[i] = x
    BY <1>1, <1>2 DEF In
  <2>2. CASE i <= Len(s)
    BY <1>1, <2>1, <2>2 DEF In
  <2>3. CASE i > Len(s)
    <3>1. i - Len(s) \in 1..Len(t) /\ t[i - Len(s)] = x
      BY <1>1, <2>1, <2>3
    <3>. QED
      BY <3>1 DEF In
  <2>. QED
    BY <1>1, <2>1, <2>2, <2>3
<1>3. ASSUME In(x, s) PROVE In(x, s \o t)
  BY <1>1, <1>3 DEF In
<1>4. ASSUME In(x, t) PROVE In(x, s \o t)
  <2>1. PICK j \in 1..Len(t) : t[j] = x
    BY <1>4 DEF In
  <2>2. /\ Len(s) + j \in 1..Len(s \o t) /\ Len(s) + j \in Len(s) + 1..Len(s) + Len(t)
        /\ (Len(s) + j) - Len(s) = j
    BY <1>1, <2>1
  <2>3. (s \o t)[Len(s) + j] = x
    BY <1>1, <2>1, <2>2
  <2>. QED
    BY <2>2, <2>3 DEF In
<1>. QED
  BY <1>1, <1>2, <1>3, <1>4

-----------------------------------------------------------------------------
(* The reports of a call.                                                  *)

SymbolLists == UNION {[1..n -> Confidences \union {"error"}] : n \in 0..MaxFrames}

LEMMA SymbolsSeq ==
  ASSUME NEW s \in SymbolLists
  PROVE  /\ Len(s) \in 0..5
         /\ \A i \in 1..Len(s) : s[i] \in Confidences \union {"error"}
         /\ Len(s) = 0 <=> s = << >>
<1>1. PICK n \in 0..MaxFrames : s \in [1..n -> Confidences \union {"error"}]
  BY DEF SymbolLists
<1>2. n \in Nat /\ n <= 5
  BY BoundsAssumption
<1>3. s \in Seq(Confidences \union {"error"}) /\ Len(s) = n
  BY <1>1, <1>2, SeqOfFunction
<1>. QED
  BY <1>1, <1>2, <1>3, EmptySeq

LEMMA FramesSeq ==
  ASSUME NEW s \in SymbolLists
  PROVE  /\ Frames(s) \in Seq(Confidences)
         /\ Len(Frames(s)) = Len(s)
         /\ \A i \in 1..Len(s) : Frames(s)[i] = FrameConfidence(s[i])
<1>1. Len(s) \in Nat
  BY SymbolsSeq
<1>2. \A i \in 1..Len(s) : FrameConfidence(s[i]) \in Confidences
  BY SymbolsSeq DEF FrameConfidence, Confidences
<1>3. Frames(s) \in [1..Len(s) -> Confidences]
  BY <1>2 DEF Frames
<1>. QED
  BY <1>1, <1>3, SeqOfFunction DEF Frames

LEMMA PathOfFrame ==
  /\ \A i \in 1..5 : FramePaths[i] \in Paths
  /\ \A i, j \in 1..5 : FramePaths[i] = FramePaths[j] => i = j
  BY DEF FramePaths, Paths

(* Indices of frames, in a sequence of their own.                          *)
LEMMA IndexSeq ==
  ASSUME NEW n \in 0..5, NEW I \in SUBSET (1..n)
  PROVE  /\ SetToSeq(I) \in Seq(1..5)
         /\ Len(SetToSeq(I)) \in Nat
         /\ \A i \in 1..Len(SetToSeq(I)) : SetToSeq(I)[i] \in I
         /\ \A i, j \in 1..Len(SetToSeq(I)) : SetToSeq(I)[i] = SetToSeq(I)[j] => i = j
         /\ \A x \in I : In(x, SetToSeq(I))
<1>1. IsFiniteSet(1..n) /\ I \subseteq 1..5
  <2>1. n \in Int /\ 1 \in Int
    OBVIOUS
  <2>2. IsFiniteSet(1..n)
    BY <2>1, FS_Interval
  <2>3. I \subseteq 1..5
    OBVIOUS
  <2>. QED
    BY <2>2, <2>3
<1>2. IsFiniteSet(I)
  BY <1>1, FS_Subset
<1>3. SetToSeq(I) \in Seq(I)
  BY <1>2, SeqOfSet
<1>. QED
  BY <1>1, <1>2, <1>3, SeqOfSet, SeqMonotonic, ElementOfSeq DEF In

LEMMA ReportFields ==
  ASSUME NEW p \in Paths, NEW c \in Confidences, NEW x \in Reasons
  PROVE  /\ Report(p, c, x) \in ReportType
         /\ Report(p, c, x).path = p
         /\ Report(p, c, x).confidence = c
         /\ Report(p, c, x).reason = x
  BY DEF Report, ReportType

LEMMA HotspotSeq ==
  ASSUME NEW s \in SymbolLists
  PROVE  LET H == HotspotReports(s)
         IN  /\ H \in Seq(ReportType)
             /\ \A i, j \in 1..Len(H) : H[i].path = H[j].path => i = j
             /\ run = "D" /\ s = << >> => In(Report("hotspot.frames", "none", "no_stack"), H)
             /\ run = "D" => \A i \in 1..Len(s) : s[i] = "error" =>
                  In(Report(FramePaths[i], "kallsyms", "symbolizer_failed"), H)
<1>. DEFINE H == HotspotReports(s)
<1>0. Len(s) \in 0..5 /\ (Len(s) = 0 <=> s = << >>)
  BY SymbolsSeq
<1>1. CASE run # "D"
  BY <1>1, EmptySeq DEF HotspotReports
<1>2. CASE run = "D" /\ s = << >>
  <2>1. Report("hotspot.frames", "none", "no_stack") \in ReportType
    <3>1. "hotspot.frames" \in Paths
      BY DEF Paths
    <3>2. "none" \in Confidences
      BY DEF Confidences
    <3>3. "no_stack" \in Reasons
      BY DEF Reasons
    <3>. QED
      BY <3>1, <3>2, <3>3, ReportFields
  <2>2. H = <<Report("hotspot.frames", "none", "no_stack")>>
    BY <1>2 DEF HotspotReports
  <2>3. H \in Seq(ReportType) /\ Len(H) = 1 /\ H[1] = Report("hotspot.frames", "none", "no_stack")
    BY <2>1, <2>2
  <2>. QED
    BY <1>0, <1>2, <2>3 DEF In
<1>3. CASE run = "D" /\ s # << >>
  <2>. DEFINE I == {i \in 1..Len(s) : s[i] = "error"}
              f == SetToSeq(I)
              r(i) == Report(FramePaths[i], "kallsyms", "symbolizer_failed")
  <2>1. /\ f \in Seq(1..5) /\ Len(f) \in Nat
        /\ \A i \in 1..Len(f) : f[i] \in I
        /\ \A i, j \in 1..Len(f) : f[i] = f[j] => i = j
        /\ \A x \in I : In(x, f)
    <3>1. I \in SUBSET (1..Len(s))
      OBVIOUS
    <3>. HIDE DEF I
    <3>. QED
      BY <1>0, <3>1, IndexSeq
  <2>2. H = [i \in 1..Len(f) |-> r(f[i])]
    BY <1>3 DEF HotspotReports, Failed
  <2>3. \A i \in 1..5 : r(i) \in ReportType /\ r(i).path = FramePaths[i]
    <3>1. "kallsyms" \in Confidences /\ "symbolizer_failed" \in Reasons
      BY DEF Confidences, Reasons
    <3>. QED
      BY <3>1, PathOfFrame, ReportFields
  <2>4. I \subseteq 1..5
    BY <1>0
  <2>5. \A i \in 1..Len(s) : s[i] = "error" => i \in I
    OBVIOUS
  <2>. HIDE DEF f, r, I
  <2>6. \A i \in 1..Len(f) : f[i] \in 1..5
    BY <2>1, <2>4
  <2>7. H \in [1..Len(f) -> ReportType]
    BY <2>2, <2>3, <2>6
  <2>8. H \in Seq(ReportType) /\ Len(H) = Len(f) /\ \A i \in 1..Len(f) : H[i] = r(f[i])
    BY <2>1, <2>2, <2>7, SeqOfFunction
  <2>9. \A i, j \in 1..Len(H) : H[i].path = H[j].path => i = j
    BY <2>1, <2>3, <2>6, <2>8, PathOfFrame
  <2>10. ASSUME NEW i \in 1..Len(s), s[i] = "error" PROVE In(r(i), H)
    BY <2>1, <2>5, <2>8, <2>10 DEF In
  <2>. QED
    BY <1>3, <2>8, <2>9, <2>10 DEF r
<1>. QED
  BY <1>1, <1>2, <1>3

LEMMA OneIfSeq ==
  ASSUME NEW c, NEW r \in ReportType
  PROVE  OneIf(c, r) \in Seq(ReportType) /\ (c => In(r, OneIf(c, r)))
<1>1. CASE c
  BY <1>1 DEF OneIf, In
<1>2. CASE ~c
  BY <1>2, EmptySeq DEF OneIf
<1>. QED
  BY <1>1, <1>2

LEMMA LossySeq ==
  ASSUME NEW t \in Texts
  PROVE  /\ Lossy(t) \in Seq(ReportType)
         /\ \A i \in 1..Len(LossyPaths[t]) :
              /\ LossyPaths[t][i] \in Paths
              /\ quality[t] = "lossy" => In(Report(LossyPaths[t][i], "none", t), Lossy(t))
<1>. DEFINE n == Len(LossyPaths[t])
            r(i) == Report(LossyPaths[t][i], "none", t)
<1>1. n \in Nat /\ \A i \in 1..n : LossyPaths[t][i] \in Paths
  BY DEF Texts, LossyPaths, Paths
<1>2. t \in Reasons
  BY DEF Texts, Reasons
<1>3. \A i \in 1..n : r(i) \in ReportType
  BY <1>1, <1>2, ReportFields DEF Confidences
<1>4. CASE quality[t] = "lossy"
  <2>1. Lossy(t) = [i \in 1..n |-> r(i)]
    BY <1>4 DEF Lossy
  <2>. HIDE DEF r, n
  <2>2. Lossy(t) \in [1..n -> ReportType]
    BY <1>3, <2>1
  <2>3. Lossy(t) \in Seq(ReportType) /\ Len(Lossy(t)) = n /\ \A i \in 1..n : Lossy(t)[i] = r(i)
    BY <1>1, <2>1, <2>2, SeqOfFunction
  <2>. QED
    BY <1>1, <2>3 DEF In, r, n
<1>5. CASE quality[t] # "lossy"
  BY <1>1, <1>5, EmptySeq DEF Lossy
<1>. QED
  BY <1>4, <1>5

Parsed ==
  [wchan : {"none", "top", "other"}, symbols : SymbolLists,
   maps : SUBSET {"skipped", "truncated"}, switches : BOOLEAN, cpu : BOOLEAN]

NoSymbol(i) == Report(FramePaths[i], "none", "no_symbol")
WchanDiffers == Report("state.wchan", "kallsyms", "mismatch")
TopDiffers == Report(FramePaths[1], Frames(parsed.symbols)[1], "mismatch")

LEMMA ConfidenceSeq ==
  ASSUME parsed \in Parsed
  PROVE  /\ ConfidenceReports \in Seq(ReportType)
         /\ \A i \in 1..Len(parsed.symbols) : parsed.symbols[i] = "none" =>
              In(NoSymbol(i), ConfidenceReports)
         /\ parsed.wchan = "other" /\ parsed.symbols # << >> =>
              /\ In(WchanDiffers, ConfidenceReports) /\ In(TopDiffers, ConfidenceReports)
              /\ TopDiffers \in ReportType
<1>. DEFINE frames == Frames(parsed.symbols)
            differs == parsed.wchan = "other" /\ frames # << >>
            I == {i \in 1..Len(frames) : frames[i] = "none"}
            f == SetToSeq(I)
            unnamed == [i \in 1..Len(f) |-> NoSymbol(f[i])]
            r1 == WchanDiffers
            r2 == TopDiffers
<1>0. parsed.symbols \in SymbolLists
  BY DEF Parsed
<1>1. /\ frames \in Seq(Confidences) /\ Len(frames) = Len(parsed.symbols) /\ Len(frames) \in 0..5
      /\ \A i \in 1..Len(frames) : frames[i] = FrameConfidence(parsed.symbols[i])
      /\ frames # << >> => frames[1] \in Confidences
  BY <1>0, SymbolsSeq, FramesSeq, EmptySeq, ElementOfSeq
<1>2. ConfidenceReports = unnamed \o OneIf(differs, r1) \o OneIf(differs, r2)
  BY DEF ConfidenceReports, Nameless, NoSymbol, WchanDiffers, TopDiffers
<1>21. r2 = Report(FramePaths[1], frames[1], "mismatch")
  BY DEF TopDiffers
<1>22. parsed.wchan = "other" /\ parsed.symbols # << >> => differs
  BY <1>0, SymbolsSeq, FramesSeq
<1>. HIDE DEF frames
<1>3. /\ f \in Seq(1..5) /\ Len(f) \in Nat
      /\ \A i \in 1..Len(f) : f[i] \in I
      /\ \A x \in I : In(x, f)
  <2>1. I \in SUBSET (1..Len(frames))
    OBVIOUS
  <2>. HIDE DEF I
  <2>. QED
    BY <1>1, <2>1, IndexSeq
<1>4. "none" \in Confidences /\ "kallsyms" \in Confidences /\ "no_symbol" \in Reasons
      /\ "mismatch" \in Reasons /\ "state.wchan" \in Paths
  BY DEF Confidences, Reasons, Paths
<1>5. \A i \in 1..5 : NoSymbol(i) \in ReportType
  BY <1>4, PathOfFrame, ReportFields DEF NoSymbol
<1>6. I \subseteq 1..5 /\ \A i \in 1..Len(parsed.symbols) : parsed.symbols[i] = "none" => i \in I
  BY <1>1 DEF FrameConfidence
<1>. HIDE DEF I, f
<1>7. unnamed \in [1..Len(f) -> ReportType]
  BY <1>3, <1>5, <1>6
<1>8. unnamed \in Seq(ReportType) /\ Len(unnamed) = Len(f)
  BY <1>3, <1>7, SeqOfFunction
<1>9. \A i \in I : In(NoSymbol(i), unnamed)
  BY <1>3, <1>8 DEF In
<1>. HIDE DEF unnamed
<1>10. OneIf(differs, r1) \in Seq(ReportType) /\ (differs => In(r1, OneIf(differs, r1)))
  <2>1. r1 \in ReportType
    BY <1>4, ReportFields DEF WchanDiffers
  <2>. QED
    BY <2>1, OneIfSeq
<1>11. /\ OneIf(differs, r2) \in Seq(ReportType)
       /\ differs => r2 \in ReportType /\ In(r2, OneIf(differs, r2))
  <2>1. CASE frames # << >>
    <3>1. r2 \in ReportType
      BY <1>1, <1>4, <1>21, <2>1, PathOfFrame, ReportFields
    <3>. QED
      BY <3>1, OneIfSeq
  <2>2. CASE frames = << >>
    BY <2>2, EmptySeq DEF OneIf
  <2>. QED
    BY <2>1, <2>2
<1>. HIDE DEF differs
<1>. DEFINE s2 == unnamed \o OneIf(differs, r1)
            s3 == s2 \o OneIf(differs, r2)
<1>12. s2 \in Seq(ReportType) /\ \A x : In(x, s2) <=> In(x, unnamed) \/ In(x, OneIf(differs, r1))
  BY <1>8, <1>10, InConcat
<1>13. s3 = ConfidenceReports
  BY <1>2
<1>. HIDE DEF s2
<1>14. s3 \in Seq(ReportType) /\ \A x : In(x, s3) <=> In(x, s2) \/ In(x, OneIf(differs, r2))
  BY <1>11, <1>12, InConcat
<1>. HIDE DEF s3
<1>. QED
  BY <1>6, <1>9, <1>10, <1>11, <1>12, <1>13, <1>14, <1>22

LEMMA SnapshotSeq ==
  /\ SnapshotReports \in Seq(ReportType)
  /\ \A t \in Texts : quality[t] = "lossy" =>
       \A i \in 1..Len(LossyPaths[t]) : In(Report(LossyPaths[t][i], "none", t), SnapshotReports)
<1>1. \A t \in Texts : Lossy(t) \in Seq(ReportType)
  BY LossySeq
<1>. DEFINE s1 == Lossy("stat") \o Lossy("status")
            s2 == s1 \o Lossy("maps")
            s3 == s2 \o Lossy("cmdline")
            s4 == s3 \o Lossy("wchan")
            s5 == s4 \o Lossy("stack")
            s6 == s5 \o Lossy("exe")
            s7 == s6 \o Lossy("cgroup")
<1>2. Texts = {"stat", "status", "maps", "wchan", "cmdline", "stack", "exe", "cgroup"}
  BY DEF Texts
<1>3. s1 \in Seq(ReportType) /\ \A x : In(x, s1) <=> In(x, Lossy("stat")) \/ In(x, Lossy("status"))
  BY <1>1, <1>2, InConcat
<1>. HIDE DEF s1
<1>4. s2 \in Seq(ReportType) /\ \A x : In(x, s2) <=> In(x, s1) \/ In(x, Lossy("maps"))
  BY <1>1, <1>2, <1>3, InConcat
<1>. HIDE DEF s2
<1>5. s3 \in Seq(ReportType) /\ \A x : In(x, s3) <=> In(x, s2) \/ In(x, Lossy("cmdline"))
  BY <1>1, <1>2, <1>4, InConcat
<1>. HIDE DEF s3
<1>6. s4 \in Seq(ReportType) /\ \A x : In(x, s4) <=> In(x, s3) \/ In(x, Lossy("wchan"))
  BY <1>1, <1>2, <1>5, InConcat
<1>. HIDE DEF s4
<1>7. s5 \in Seq(ReportType) /\ \A x : In(x, s5) <=> In(x, s4) \/ In(x, Lossy("stack"))
  BY <1>1, <1>2, <1>6, InConcat
<1>. HIDE DEF s5
<1>8. s6 \in Seq(ReportType) /\ \A x : In(x, s6) <=> In(x, s5) \/ In(x, Lossy("exe"))
  BY <1>1, <1>2, <1>7, InConcat
<1>. HIDE DEF s6
<1>9. s7 \in Seq(ReportType) /\ \A x : In(x, s7) <=> In(x, s6) \/ In(x, Lossy("cgroup"))
  BY <1>1, <1>2, <1>8, InConcat
<1>10. s7 = SnapshotReports
  BY DEF SnapshotReports, s1, s2, s3, s4, s5, s6
<1>. HIDE DEF s7
<1>11. \A t \in Texts : \A x : In(x, Lossy(t)) => In(x, SnapshotReports)
  BY <1>2, <1>3, <1>4, <1>5, <1>6, <1>7, <1>8, <1>9, <1>10
<1>. QED
  BY <1>9, <1>10, <1>11, LossySeq

LEMMA MapsSeq ==
  /\ MapsReports \in Seq(ReportType)
  /\ "skipped" \in parsed.maps => In(Report("mem_shape", "none", "skipped"), MapsReports)
  /\ "truncated" \in parsed.maps =>
       In(Report("mem_shape.top_n[0].backing", "none", "truncated"), MapsReports)
<1>. DEFINE r1 == Report("mem_shape", "none", "skipped")
            r2 == Report("mem_shape.top_n[0].backing", "none", "truncated")
            m1 == OneIf("skipped" \in parsed.maps, r1)
            m2 == OneIf("truncated" \in parsed.maps, r2)
<1>1. /\ "none" \in Confidences /\ "skipped" \in Reasons /\ "truncated" \in Reasons
      /\ "mem_shape" \in Paths /\ "mem_shape.top_n[0].backing" \in Paths
  BY DEF Paths, Confidences, Reasons
<1>2. r1 \in ReportType /\ r2 \in ReportType
  BY <1>1, ReportFields
<1>. HIDE DEF r1, r2
<1>3. /\ m1 \in Seq(ReportType) /\ m2 \in Seq(ReportType)
      /\ "skipped" \in parsed.maps => In(r1, m1)
      /\ "truncated" \in parsed.maps => In(r2, m2)
  BY <1>2, OneIfSeq
<1>. HIDE DEF m1, m2
<1>4. m1 \o m2 \in Seq(ReportType) /\ \A x : In(x, m1 \o m2) <=> In(x, m1) \/ In(x, m2)
  BY <1>3, InConcat
<1>5. m1 \o m2 = MapsReports
  BY DEF MapsReports, m1, m2, r1, r2
<1>. QED
  BY <1>3, <1>4, <1>5 DEF r1, r2

LEMMA MissingSeq ==
  /\ MissingReports \in Seq(ReportType)
  /\ run = "unknown" => In(Report("state.run_state", "none", "unknown"), MissingReports)
  /\ ~parsed.switches =>
       In(Report("resource.ctxt_switches", "none", "missing"), MissingReports)
  /\ run \in {"S", "D"} /\ parsed.wchan = "none" =>
       In(Report("state.wchan", "none", "missing"), MissingReports)
  /\ quality["cgroup"] = "absent" =>
       In(Report("identity.cgroup", "none", "missing"), MissingReports)
  /\ quality["exe"] = "absent" =>
       In(Report("identity.exe", "none", "missing"), MissingReports)
  /\ ~parsed.cpu => In(Report("resource.pct_cpu", "none", "unusable"), MissingReports)
<1>. DEFINE r1 == Report("state.run_state", "none", "unknown")
            r2 == Report("state.wchan", "none", "missing")
            r3 == Report("resource.ctxt_switches", "none", "missing")
            r4 == Report("identity.cgroup", "none", "missing")
            r5 == Report("identity.exe", "none", "missing")
            r6 == Report("resource.pct_cpu", "none", "unusable")
            m1 == OneIf(run = "unknown", r1)
            m2 == OneIf(run \in {"S", "D"} /\ parsed.wchan = "none", r2)
            m3 == OneIf(~parsed.switches, r3)
            m4 == OneIf(quality["cgroup"] = "absent", r4)
            m5 == OneIf(quality["exe"] = "absent", r5)
            m6 == OneIf(~parsed.cpu, r6)
            s2 == m1 \o m2
            s3 == s2 \o m3
            s4 == s3 \o m4
            s5 == s4 \o m5
            s6 == s5 \o m6
<1>1. /\ "none" \in Confidences
      /\ "unknown" \in Reasons /\ "missing" \in Reasons /\ "unusable" \in Reasons
  BY DEF Confidences, Reasons
<1>2. /\ "state.run_state" \in Paths /\ "state.wchan" \in Paths
      /\ "resource.ctxt_switches" \in Paths /\ "identity.cgroup" \in Paths
      /\ "identity.exe" \in Paths /\ "resource.pct_cpu" \in Paths
  BY DEF Paths
<1>3. /\ r1 \in ReportType /\ r2 \in ReportType /\ r3 \in ReportType
      /\ r4 \in ReportType /\ r5 \in ReportType /\ r6 \in ReportType
  BY <1>1, <1>2, ReportFields
<1>. HIDE DEF r1, r2, r3, r4, r5, r6
<1>4. /\ m1 \in Seq(ReportType) /\ m2 \in Seq(ReportType) /\ m3 \in Seq(ReportType)
      /\ m4 \in Seq(ReportType) /\ m5 \in Seq(ReportType) /\ m6 \in Seq(ReportType)
  BY <1>3, EmptySeq DEF OneIf
<1>5. /\ run = "unknown" => In(r1, m1)
      /\ ~parsed.switches => In(r3, m3)
      /\ run \in {"S", "D"} /\ parsed.wchan = "none" => In(r2, m2)
      /\ quality["cgroup"] = "absent" => In(r4, m4)
      /\ quality["exe"] = "absent" => In(r5, m5)
      /\ ~parsed.cpu => In(r6, m6)
  BY <1>3, OneIfSeq
<1>. HIDE DEF m1, m2, m3, m4, m5, m6
<1>6. s2 \in Seq(ReportType) /\ \A x : In(x, s2) <=> In(x, m1) \/ In(x, m2)
  BY <1>4, InConcat
<1>. HIDE DEF s2
<1>7. s3 \in Seq(ReportType) /\ \A x : In(x, s3) <=> In(x, s2) \/ In(x, m3)
  BY <1>4, <1>6, InConcat
<1>. HIDE DEF s3
<1>8. s4 \in Seq(ReportType) /\ \A x : In(x, s4) <=> In(x, s3) \/ In(x, m4)
  BY <1>4, <1>7, InConcat
<1>. HIDE DEF s4
<1>9. s5 \in Seq(ReportType) /\ \A x : In(x, s5) <=> In(x, s4) \/ In(x, m5)
  BY <1>4, <1>8, InConcat
<1>. HIDE DEF s5
<1>10. s6 \in Seq(ReportType) /\ \A x : In(x, s6) <=> In(x, s5) \/ In(x, m6)
  BY <1>4, <1>9, InConcat
<1>11. s6 = MissingReports
  BY DEF MissingReports, m1, m2, m3, m4, m5, m6, s2, s3, s4, s5, r1, r2, r3, r4, r5, r6
<1>. HIDE DEF s6
<1>. QED
  BY <1>5, <1>6, <1>7, <1>8, <1>9, <1>10, <1>11 DEF r1, r2, r3, r4, r5, r6

(* The reports are made of what was found, and nothing found is left out.  *)
LEMMA ReportsSeq ==
  ASSUME parsed \in Parsed
  PROVE  /\ Reports \in Seq(ReportType)
         /\ \A x : In(x, Reports) <=>
              \/ In(x, ConfidenceReports) \/ In(x, SnapshotReports)
              \/ In(x, MapsReports) \/ In(x, MissingReports)
<1>. DEFINE s2 == ConfidenceReports \o SnapshotReports
            s3 == s2 \o MapsReports
            s4 == s3 \o MissingReports
<1>1. s2 \in Seq(ReportType)
      /\ \A x : In(x, s2) <=> In(x, ConfidenceReports) \/ In(x, SnapshotReports)
  BY ConfidenceSeq, SnapshotSeq, InConcat
<1>. HIDE DEF s2
<1>2. s3 \in Seq(ReportType) /\ \A x : In(x, s3) <=> In(x, s2) \/ In(x, MapsReports)
  BY <1>1, MapsSeq, InConcat
<1>. HIDE DEF s3
<1>3. s4 \in Seq(ReportType) /\ \A x : In(x, s4) <=> In(x, s3) \/ In(x, MissingReports)
  BY <1>2, MissingSeq, InConcat
<1>4. s4 = Reports
  BY DEF Reports, s2, s3
<1>. HIDE DEF s4
<1>. QED
  BY <1>1, <1>2, <1>3, <1>4

-----------------------------------------------------------------------------
(* The inductive invariant.                                                *)

(* What is read next.                                                      *)
Position ==
  /\ pc = "spawn" => at = 0
  /\ pc = "read" => at \in 0..13
  /\ pc = "absent" => at \in {4, 7, 8, 9}

(* While the pid has no process, and once it has another, there was a time *)
(* without.                                                                *)
VacancySeen == ~present \/ generation # 0 => vanished

(* Only processes from the first that was read on to the one that has the  *)
(* pid now were read, and none but the first once the start times have     *)
(* been compared.                                                          *)
ReadFromOne ==
  /\ at = 0 => touched = {}
  /\ at # 0 => initial \in touched
  /\ \A g \in touched : g <= generation
  /\ at \in 1..11 => \A g \in touched : initial <= g
  /\ at \in {12, 14} => touched = {initial}
  /\ at = 13 => touched = {initial, latest}

Outcome ==
  /\ pc \in {"spawn", "read", "absent", "build", "merge"} => result = "none"
  /\ pc \in {"build", "merge"} => at = 14
  /\ result = "ok" => pc \in {"stop", "returned"} /\ at = 14
  /\ result = "proc_not_found" => vanished

WorkerKnown ==
  /\ pc = "spawn" => worker = "none"
  /\ pc \in {"read", "absent", "build", "merge"} => worker \in {"up", "init_failed"}
  /\ pc = "stop" => worker = "up" \/ (worker = "init_failed" /\ result = "ok")
  /\ pc = "returned" => worker # "up"
  /\ pc = "returned" /\ result = "ok" => worker \in {"stopped", "stop_failed", "init_failed"}

(* The entries stand for the reports merged so far.                        *)
Merging ==
  /\ pc \in {"spawn", "read", "absent", "build"} => merged = 0
  /\ pc = "merge" => merged = 0 \/ merged <= Len(Reports)
  /\ result = "ok" => merged = Len(Reports)
  /\ pc = "merge" \/ result = "ok" =>
       /\ StandFor(fields, ReportsMade)
       /\ quality["wchan"] = "absent" => parsed.wchan = "none"
       /\ parsed.symbols # << >> => run = "D"

IInv ==
  /\ TypeOK /\ Position /\ VacancySeen /\ ReadFromOne
  /\ Outcome /\ WorkerKnown /\ Merging

-----------------------------------------------------------------------------
(* The reads.                                                              *)

LEMMA Reading ==
  /\ Len(ReadOrder) = 14
  /\ \A i \in 0..13 :
       LET f == ReadOrder[i + 1]
       IN  /\ f = "stat" <=> i = 0
           /\ f \in Global <=> i \in {1, 10, 13}
           /\ f = "fd" <=> i = 6
           /\ f = "final_stat" <=> i = 11
           /\ f = "cpu_stat" <=> i = 12
           /\ f = "cpu_system" <=> i = 13
           /\ f \in Texts <=> i \in {0, 2, 3, 4, 5, 7, 8, 9}
           /\ f \in Optional <=> i \in {4, 7, 8, 9}
  BY DEF ReadOrder, Global, Texts, Optional

(* A read that brings the call on.                                         *)
Advance ==
  /\ pc \in {"read", "absent"} /\ at \in 0..13
  /\ at' = IF at = 6 /\ run # "D" THEN 8 ELSE at + 1
  /\ pc' = IF at = 13 THEN "build" ELSE "read"
  /\ touched' \in {touched, touched \union {generation}}
  /\ IF at = 0 THEN initial' = generation ELSE UNCHANGED <<initial, run>>
  /\ IF at = 12 THEN latest' = generation ELSE latest' = latest
  /\ at \in {0, 11, 12} => touched' = touched \union {generation}
  /\ at = 13 => touched' = touched /\ latest = initial
  /\ at = 11 => generation = initial
  /\ run' \in RunStates
  /\ quality' \in [Texts -> {"unread", "clean", "lossy", "absent"}]
  /\ flaws' \in 0..MaxFlaws
  /\ UNCHANGED <<envVars, resultVars, worker, result>>

(* A read that ends it, told what the truth is.                            *)
Failing ==
  /\ pc \in {"read", "absent", "build"}
  /\ \E e \in Errors : Fail(e) /\ (e = "proc_not_found" => vanished)

LEMMA CameTyped ==
  ASSUME TypeOK, File \in Texts, NEW q \in {"clean", "lossy", "absent"}, Came(q)
  PROVE  /\ quality' \in [Texts -> {"unread", "clean", "lossy", "absent"}]
         /\ flaws' \in 0..MaxFlaws
<1>1. quality' \in [Texts -> {"unread", "clean", "lossy", "absent"}]
  BY DEF TypeOK, Came
<1>2. flaws' \in 0..MaxFlaws
  BY BoundsAssumption DEF TypeOK, Came
<1>. QED
  BY <1>1, <1>2

LEMMA ReadAdvances ==
  ASSUME IInv,
         \/ ReadStat \/ ReadText \/ ReadFds \/ ReadGlobal \/ ReadCpuStat
         \/ (ReadFinalStat /\ SameProcess(generation))
         \/ (ReadCpuSystem /\ SameProcess(latest))
  PROVE  Advance
<1>. TypeOK /\ Position
  BY DEF IInv
<1>1. pc = "read" /\ at \in 0..13
  BY DEF Position, ReadStat, ReadText, ReadFds, ReadGlobal, ReadFinalStat, ReadCpuStat, ReadCpuSystem
<1>2. /\ File = "stat" <=> at = 0
      /\ File \in Global <=> at \in {1, 10, 13}
      /\ File = "fd" <=> at = 6
      /\ File = "final_stat" <=> at = 11
      /\ File = "cpu_stat" <=> at = 12
      /\ File = "cpu_system" <=> at = 13
      /\ File \in Texts <=> at \in {0, 2, 3, 4, 5, 7, 8, 9}
  BY <1>1, Reading DEF File
<1>3. ReadDone => /\ at' = IF at = 6 /\ run # "D" THEN 8 ELSE at + 1
                  /\ pc' = IF at = 13 THEN "build" ELSE "read"
  BY <1>1, <1>2 DEF ReadDone, NextRead
<1>4. /\ run \in RunStates /\ flaws \in 0..MaxFlaws
      /\ quality \in [Texts -> {"unread", "clean", "lossy", "absent"}]
  BY DEF TypeOK
<1>5. CASE ReadStat
  BY <1>1, <1>2, <1>3, <1>5, CameTyped DEF ReadStat, Touch, Advance
<1>6. CASE ReadText
  <2>1. at \in {2, 3, 4, 5, 7, 8, 9}
    BY <1>1, <1>2, <1>6 DEF ReadText
  <2>. QED
    BY <1>1, <1>2, <1>3, <1>4, <1>6, <2>1, CameTyped DEF ReadText, Touch, Advance
<1>7. CASE ReadFds
  BY <1>1, <1>2, <1>3, <1>4, <1>7 DEF ReadFds, Touch, Advance
<1>8. CASE ReadGlobal
  <2>1. at \in {1, 10}
    BY <1>1, <1>2, <1>8 DEF ReadGlobal, Global
  <2>. QED
    BY <1>1, <1>3, <1>4, <1>8, <2>1 DEF ReadGlobal, Advance
<1>9. CASE ReadFinalStat /\ SameProcess(generation)
  BY <1>1, <1>2, <1>3, <1>4, <1>9 DEF ReadFinalStat, SameProcess, Touch, Advance
<1>10. CASE ReadCpuStat
  BY <1>1, <1>2, <1>3, <1>4, <1>10 DEF ReadCpuStat, Touch, Advance
<1>11. CASE ReadCpuSystem /\ SameProcess(latest)
  BY <1>1, <1>2, <1>3, <1>4, <1>11 DEF ReadCpuSystem, SameProcess, Advance
<1>. QED
  BY <1>5, <1>6, <1>7, <1>8, <1>9, <1>10, <1>11

(* A start time that differs is that of a later process.                   *)
LEMMA LaterProcess ==
  ASSUME IInv, pc \in {"read", "absent"}
  PROVE  /\ at = 11 /\ generation # initial => vanished
         /\ at = 13 /\ latest # initial => vanished
<1>. TypeOK /\ VacancySeen /\ ReadFromOne
  BY DEF IInv
<1>1. generation \in Nat /\ initial \in Nat /\ latest \in Nat
  BY DEF TypeOK
<1>2. CASE at = 11 /\ generation # initial
  <2>1. initial \in touched /\ initial <= generation
    BY <1>2 DEF ReadFromOne
  <2>2. generation # 0
    BY <1>1, <1>2, <2>1
  <2>. QED
    BY <1>2, <2>2 DEF VacancySeen
<1>3. CASE at = 13 /\ latest # initial
  <2>1. initial <= generation /\ latest <= generation
    BY <1>3 DEF ReadFromOne
  <2>2. generation # 0
    BY <1>1, <1>3, <2>1
  <2>. QED
    BY <1>3, <2>2 DEF VacancySeen
<1>. QED
  BY <1>2, <1>3

LEMMA ReadStops ==
  ASSUME IInv,
         \/ ReadFails \/ PageSizeInvalid \/ ReadFindsNobody \/ CgroupFails \/ BuildFails
         \/ (ReadFinalStat /\ ~SameProcess(generation))
         \/ (ReadCpuSystem /\ ~SameProcess(latest))
         \/ (CheckDirectory /\ ~present)
  PROVE  Failing
<1>. TypeOK /\ Position /\ VacancySeen
  BY DEF IInv
<1>1. CASE ReadFails
  <2>1. PICK e \in {"permission", "parse", "read"} : Fail(ErrorOf(e)) /\ pc = "read"
    BY <1>1 DEF ReadFails
  <2>2. ErrorOf(e) \in Errors /\ ErrorOf(e) # "proc_not_found"
    BY DEF ErrorOf, Errors
  <2>. QED
    BY <2>1, <2>2 DEF Failing
<1>2. CASE PageSizeInvalid \/ CgroupFails \/ BuildFails
  <2>1. pc \in {"read", "build"} /\ \E e \in {"invalid_page_size", "parse"} : Fail(e)
    BY <1>2 DEF PageSizeInvalid, CgroupFails, BuildFails
  <2>. QED
    BY <2>1 DEF Failing, Errors
<1>3. CASE ReadFindsNobody \/ (CheckDirectory /\ ~present)
  <2>1. pc \in {"read", "absent"} /\ ~present /\ Fail("proc_not_found")
    BY <1>3 DEF ReadFindsNobody, CheckDirectory
  <2>2. vanished
    BY <2>1 DEF VacancySeen
  <2>. QED
    BY <2>1, <2>2 DEF Failing, Errors
<1>4. CASE ReadFinalStat /\ ~SameProcess(generation)
  <2>1. /\ pc = "read" /\ File = "final_stat" /\ generation # initial
        /\ Fail("proc_not_found")
    BY <1>4 DEF ReadFinalStat, SameProcess
  <2>2. at = 11
    BY <2>1, Reading DEF Position, File
  <2>. QED
    BY <2>1, <2>2, LaterProcess DEF Failing, Errors
<1>5. CASE ReadCpuSystem /\ ~SameProcess(latest)
  <2>1. /\ pc = "read" /\ File = "cpu_system" /\ latest # initial
        /\ Fail("proc_not_found")
    BY <1>5 DEF ReadCpuSystem, SameProcess
  <2>2. at = 13
    BY <2>1, Reading DEF Position, File
  <2>. QED
    BY <2>1, <2>2, LaterProcess DEF Failing, Errors
<1>. QED
  BY <1>1, <1>2, <1>3, <1>4, <1>5

(* The directory of an absent file's pid.                                  *)
LEMMA DirectoryTells ==
  ASSUME IInv, CheckDirectory
  PROVE  Advance \/ Failing
<1>. TypeOK /\ Position
  BY DEF IInv
<1>1. pc = "absent" /\ at \in {4, 7, 8, 9} /\ at \in 0..13
  BY DEF CheckDirectory, Position
<1>2. File \in Texts /\ File # "fd" /\ File # "cpu_system"
  BY <1>1, Reading DEF File
<1>3. CASE ~present
  BY <1>3, ReadStops
<1>4. CASE present /\ \E e \in {"permission", "read"} : Fail(e)
  BY <1>1, <1>4 DEF Failing, Errors
<1>5. CASE /\ flaws < MaxFlaws /\ flaws' = flaws + 1
           /\ quality' = [quality EXCEPT ![File] = "absent"]
           /\ Touch
           /\ ReadDone
           /\ UNCHANGED <<envVars, initial, run, latest, resultVars, worker, result>>
  <2>1. at' = at + 1 /\ pc' = "read"
    BY <1>2, <1>5 DEF ReadDone, NextRead
  <2>2. quality' \in [Texts -> {"unread", "clean", "lossy", "absent"}]
    BY <1>5 DEF TypeOK
  <2>3. flaws' \in 0..MaxFlaws /\ run' \in RunStates
    BY <1>5, BoundsAssumption DEF TypeOK
  <2>. QED
    BY <1>1, <1>5, <2>1, <2>2, <2>3 DEF Touch, Advance
<1>. QED
  BY <1>3, <1>4, <1>5 DEF CheckDirectory

LEMMA ReadSteps ==
  ASSUME IInv, Read \/ BuildFails
  PROVE  Advance \/ Failing \/ ReadFindsNothing
<1>1. CASE ReadFinalStat
  BY <1>1, ReadAdvances, ReadStops
<1>2. CASE ReadCpuSystem
  BY <1>2, ReadAdvances, ReadStops
<1>. QED
  BY <1>1, <1>2, ReadAdvances, ReadStops, DirectoryTells DEF Read

-----------------------------------------------------------------------------
(* The steps up to the build keep the invariant.                           *)

LEMMA InitInv == Init => IInv
<1>. SUFFICES ASSUME Init PROVE IInv
  OBVIOUS
<1>1. NothingParsed \in Parsed
  <2>1. << >> \in [1..0 -> Confidences \union {"error"}] /\ 0 \in 0..MaxFrames
    BY BoundsAssumption
  <2>2. << >> \in SymbolLists
    BY <2>1 DEF SymbolLists
  <2>. QED
    BY <2>2 DEF NothingParsed, Parsed
<1>2. TypeOK
  <2>1. quality \in [Texts -> {"unread", "clean", "lossy", "absent"}]
    BY DEF Init
  <2>2. parsed \in Parsed
    BY <1>1 DEF Init
  <2>3. fields \in Seq(LowFields)
    BY EmptySeq DEF Init
  <2>. QED
    BY <2>1, <2>2, <2>3, Reading, BoundsAssumption DEF Init, TypeOK, RunStates, Parsed, SymbolLists
<1>3. VacancySeen
  BY Zenon DEF Init, VacancySeen
<1>4. Position /\ ReadFromOne /\ Outcome /\ WorkerKnown /\ Merging
  BY DEF Init, Position, ReadFromOne, Outcome, WorkerKnown, Merging
<1>. QED
  BY <1>2, <1>3, <1>4 DEF IInv

(* What the entries and the worker are is as before a step of the process  *)
(* or of a read.                                                           *)
LEMMA EnvKeeps ==
  ASSUME IInv, Exits \/ PidReused
  PROVE  IInv'
<1>. /\ TypeOK /\ Position /\ VacancySeen /\ ReadFromOne
     /\ Outcome /\ WorkerKnown /\ Merging
  BY DEF IInv
<1>0. /\ pc \in {"read", "absent"}
      /\ UNCHANGED <<readVars, pc, flaws, resultVars, worker, result>>
  BY DEF Exits, PidReused
<1>1. /\ generation \in Nat /\ generation' \in 0..MaxGeneration
      /\ generation <= generation' /\ present' \in BOOLEAN /\ vanished' \in BOOLEAN
      /\ (vanished => vanished')
  <2>1. CASE Exits
    <3>1. generation' = generation /\ generation \in 0..MaxGeneration
      BY <2>1 DEF Exits, TypeOK
    <3>2. generation \in Nat /\ generation <= generation'
      BY <3>1, BoundsAssumption
    <3>3. present' = FALSE /\ vanished' = TRUE
      BY <2>1 DEF Exits
    <3>. QED
      BY <3>1, <3>2, <3>3
  <2>2. CASE PidReused
    <3>1. generation' \in 0..MaxGeneration /\ generation <= generation'
      BY <2>2, BoundsAssumption DEF PidReused, TypeOK
    <3>. QED
      BY <2>2, <3>1 DEF PidReused, TypeOK
  <2>. QED
    BY <2>1, <2>2
<1>2. TypeOK'
  BY <1>0, <1>1 DEF TypeOK, readVars, resultVars
<1>3. VacancySeen'
  <2>1. CASE Exits
    BY <2>1 DEF Exits, VacancySeen
  <2>2. CASE PidReused
    BY <2>2 DEF PidReused, VacancySeen
  <2>. QED
    BY <2>1, <2>2
<1>4. ReadFromOne'
  <2>1. \A g \in touched : g \in Nat
    BY DEF TypeOK
  <2>. QED
    BY <1>0, <1>1, <2>1 DEF ReadFromOne, readVars
<1>5. Position' /\ Outcome' /\ WorkerKnown'
  BY <1>0, <1>1 DEF Position, Outcome, WorkerKnown, readVars, resultVars
<1>6. Merging'
  BY <1>0 DEF Merging, Outcome, resultVars
<1>. QED
  BY <1>2, <1>3, <1>4, <1>5, <1>6 DEF IInv

LEMMA SpawnKeeps ==
  ASSUME IInv, RefusePid \/ WorkerStarts \/ WorkerInitFails
  PROVE  IInv'
<1>. /\ TypeOK /\ Position /\ VacancySeen /\ ReadFromOne
     /\ Outcome /\ WorkerKnown /\ Merging
  BY DEF IInv
<1>0. /\ pc = "spawn" /\ result = "none" /\ worker = "none" /\ merged = 0
      /\ UNCHANGED <<envVars, readVars, resultVars>>
  BY DEF RefusePid, WorkerStarts, WorkerInitFails, Outcome, WorkerKnown, Merging
<1>1. \/ pc' = "returned" /\ result' = "invalid_pid" /\ worker' = "none"
      \/ pc' = "read" /\ result' = "none" /\ worker' \in {"up", "init_failed"}
  BY <1>0 DEF RefusePid, WorkerStarts, WorkerInitFails
<1>2. flaws' \in 0..MaxFlaws
  BY BoundsAssumption DEF RefusePid, WorkerStarts, WorkerInitFails, TypeOK
<1>3. TypeOK'
  BY <1>0, <1>1, <1>2 DEF TypeOK, envVars, readVars, resultVars, Errors
<1>4. VacancySeen' /\ ReadFromOne'
  BY <1>0 DEF VacancySeen, ReadFromOne, envVars, readVars
<1>5. Position' /\ Outcome' /\ WorkerKnown'
  BY <1>0, <1>1 DEF Position, Outcome, WorkerKnown, envVars, readVars, resultVars
<1>6. Merging'
  BY <1>0, <1>1 DEF Merging, resultVars
<1>. QED
  BY <1>3, <1>4, <1>5, <1>6 DEF IInv

LEMMA AdvanceKeeps ==
  ASSUME IInv, Advance
  PROVE  IInv'
<1>. /\ TypeOK /\ Position /\ VacancySeen /\ ReadFromOne
     /\ Outcome /\ WorkerKnown /\ Merging
  BY DEF IInv
<1>0. /\ pc \in {"read", "absent"} /\ at \in 0..13 /\ result = "none" /\ merged = 0
      /\ pc' \in {"read", "build"}
      /\ UNCHANGED <<envVars, resultVars, worker, result>>
  BY DEF Advance, Outcome, Merging
<1>1. at' \in 1..14 /\ (at' = 14 <=> at = 13) /\ (pc' = "build" <=> at = 13) /\ (at' = 13 <=> at = 12)
      /\ (at' = 12 <=> at = 11)
  BY <1>0 DEF Advance
<1>2. /\ generation \in 0..MaxGeneration /\ initial \in 0..MaxGeneration
      /\ latest \in 0..MaxGeneration /\ touched \subseteq 0..MaxGeneration /\ MaxGeneration \in Nat
  BY BoundsAssumption DEF TypeOK
<1>3. TypeOK'
  <2>1. /\ initial' \in 0..MaxGeneration /\ latest' \in 0..MaxGeneration
        /\ touched' \subseteq 0..MaxGeneration
    BY <1>2 DEF Advance
  <2>2. /\ quality' \in [Texts -> {"unread", "clean", "lossy", "absent"}]
        /\ flaws' \in 0..MaxFlaws /\ run' \in RunStates
    BY DEF Advance
  <2>3. at' \in 0..Len(ReadOrder)
    BY <1>1, Reading
  <2>. QED
    BY <1>0, <2>1, <2>2, <2>3 DEF TypeOK, envVars, resultVars
<1>4. VacancySeen'
  BY <1>0 DEF VacancySeen, envVars
<1>5. ReadFromOne'
  <2>0. generation' = generation /\ at' # 0
    BY <1>0, <1>1 DEF envVars
  <2>1. initial' \in touched'
    BY <1>0 DEF Advance, ReadFromOne
  <2>2. \A g \in touched' : g <= generation'
    BY <1>2, <2>0 DEF Advance, ReadFromOne
  <2>3. ASSUME at' \in 1..11 PROVE \A g \in touched' : initial' <= g
    <3>1. at \in 0..10
      BY <1>0, <1>1, <2>3
    <3>2. CASE at = 0
      BY <1>2, <3>2 DEF Advance, ReadFromOne
    <3>3. CASE at \in 1..10
      <4>1. initial <= generation
        BY <3>3 DEF ReadFromOne
      <4>. QED
        BY <3>3, <4>1 DEF Advance, ReadFromOne
    <3>. QED
      BY <3>1, <3>2, <3>3
  <2>4. ASSUME at' = 12 PROVE touched' = {initial'}
    <3>1. at = 11
      BY <1>1, <2>4
    <3>2. \A g \in touched : g = initial
      BY <1>2, <3>1 DEF Advance, ReadFromOne
    <3>. QED
      BY <3>1, <3>2 DEF Advance, ReadFromOne
  <2>5. ASSUME at' = 13 PROVE touched' = {initial', latest'}
    <3>1. at = 12
      BY <1>1, <2>5
    <3>. QED
      BY <3>1 DEF Advance, ReadFromOne
  <2>6. ASSUME at' = 14 PROVE touched' = {initial'}
    <3>1. at = 13
      BY <1>1, <2>6
    <3>. QED
      BY <3>1 DEF Advance, ReadFromOne
  <2>. QED
    BY <2>0, <2>1, <2>2, <2>3, <2>4, <2>5, <2>6 DEF ReadFromOne
<1>6. Position' /\ Outcome'
  BY <1>0, <1>1 DEF Position, Outcome, envVars
<1>7. WorkerKnown'
  BY <1>0 DEF WorkerKnown
<1>8. Merging'
  BY <1>0 DEF Merging, resultVars
<1>. QED
  BY <1>3, <1>4, <1>5, <1>6, <1>7, <1>8 DEF IInv

LEMMA FailingKeeps ==
  ASSUME IInv, Failing
  PROVE  IInv'
<1>. /\ TypeOK /\ Position /\ VacancySeen /\ ReadFromOne
     /\ Outcome /\ WorkerKnown /\ Merging
  BY DEF IInv
<1>1. PICK e \in Errors : Fail(e) /\ (e = "proc_not_found" => vanished) /\ pc \in {"read", "absent", "build"}
  BY DEF Failing
<1>2. /\ UNCHANGED <<envVars, readVars, flaws, resultVars, worker>>
      /\ result' = e /\ e # "ok"
      /\ pc' = IF worker = "up" THEN "stop" ELSE "returned"
      /\ worker \in {"up", "init_failed"}
  BY <1>1 DEF Fail, Errors, WorkerKnown
<1>3. TypeOK'
  BY <1>1, <1>2 DEF TypeOK, envVars, readVars, resultVars
<1>4. VacancySeen' /\ ReadFromOne'
  BY <1>2 DEF VacancySeen, ReadFromOne, envVars, readVars
<1>5. Position' /\ Outcome'
  BY <1>1, <1>2 DEF Position, Outcome, envVars
<1>6. WorkerKnown' /\ Merging'
  BY <1>2 DEF WorkerKnown, Merging
<1>. QED
  BY <1>3, <1>4, <1>5, <1>6 DEF IInv

LEMMA NothingKeeps ==
  ASSUME IInv, ReadFindsNothing
  PROVE  IInv'
<1>. /\ TypeOK /\ Position /\ VacancySeen /\ ReadFromOne
     /\ Outcome /\ WorkerKnown /\ Merging
  BY DEF IInv
<1>0. /\ pc = "read" /\ File \in Optional /\ pc' = "absent" /\ at' = at
      /\ touched' \in {touched, touched \union {generation}}
      /\ UNCHANGED <<envVars, initial, run, quality, latest, flaws, resultVars, worker, result>>
  BY DEF ReadFindsNothing
<1>1. at \in {4, 7, 8, 9}
  BY <1>0, Reading DEF Position, File
<1>2. /\ generation \in 0..MaxGeneration /\ initial \in Nat /\ touched \subseteq 0..MaxGeneration
      /\ MaxGeneration \in Nat
  BY BoundsAssumption DEF TypeOK
<1>3. TypeOK'
  BY <1>0, <1>2 DEF TypeOK, envVars, resultVars
<1>4. ReadFromOne'
  <2>1. initial <= generation
    BY <1>1 DEF ReadFromOne
  <2>. QED
    BY <1>0, <1>1, <1>2, <2>1 DEF ReadFromOne, envVars
<1>5. VacancySeen'
  BY <1>0 DEF VacancySeen, envVars
<1>6. Position' /\ Outcome'
  BY <1>0, <1>1 DEF Position, Outcome, envVars
<1>7. WorkerKnown' /\ Merging'
  BY <1>0 DEF WorkerKnown, Outcome, Merging, resultVars
<1>. QED
  BY <1>3, <1>4, <1>5, <1>6, <1>7 DEF IInv

-----------------------------------------------------------------------------
(* The steps from the build on keep the invariant.                         *)

LEMMA SameReports ==
  ASSUME UNCHANGED <<parsed, quality, run>>
  PROVE  /\ Reports' = Reports
         /\ HotspotReports(parsed.symbols)' = HotspotReports(parsed.symbols)
  BY DEF Reports, ConfidenceReports, SnapshotReports, MapsReports, MissingReports, Lossy,
         HotspotReports

Hotspot == HotspotReports(parsed.symbols)
HotspotSet == {Hotspot[i] : i \in 1..Len(Hotspot)}
MergedSet == {Reports[i] : i \in 1..merged}
WorkerSet ==
  {Report("hotspot.frames", "none", r) :
     r \in {x \in {"init_failed", "shutdown_failed"} :
              pc = "returned" /\ worker = IF x = "init_failed" THEN x ELSE "stop_failed"}}

LEMMA ReportsMadeParts == ReportsMade = HotspotSet \union MergedSet \union WorkerSet
  BY DEF ReportsMade, HotspotSet, MergedSet, WorkerSet, Hotspot

LEMMA ReportsMadeTyped ==
  ASSUME parsed \in Parsed, merged \in Nat, merged <= Len(Reports)
  PROVE  ReportsMade \in SUBSET ReportType
<1>1. HotspotSet \subseteq ReportType
  <2>1. Hotspot \in Seq(ReportType)
    BY HotspotSeq DEF Hotspot, Parsed
  <2>. QED
    BY <2>1, ElementOfSeq DEF HotspotSet
<1>2. MergedSet \subseteq ReportType
  <2>1. Reports \in Seq(ReportType) /\ Len(Reports) \in Nat
    BY ReportsSeq, LenProperties
  <2>2. \A i \in 1..merged : i \in 1..Len(Reports)
    BY <2>1
  <2>. QED
    BY <2>1, <2>2, ElementOfSeq DEF MergedSet
<1>3. WorkerSet \subseteq ReportType
  <2>1. "hotspot.frames" \in Paths /\ "none" \in Confidences
        /\ \A x \in {"init_failed", "shutdown_failed"} : x \in Reasons
    BY DEF Paths, Confidences, Reasons
  <2>. QED
    BY <2>1, ReportFields DEF WorkerSet
<1>. QED
  BY <1>1, <1>2, <1>3, ReportsMadeParts

(* The entries build_hotspot pushes stand for its reports.                 *)
LEMMA PushedStand ==
  ASSUME NEW H \in Seq(ReportType),
         \A i, j \in 1..Len(H) : H[i].path = H[j].path => i = j
  PROVE  LET E == [i \in 1..Len(H) |-> Entry(H[i])]
         IN  E \in Seq(LowFields) /\ StandFor(E, {H[i] : i \in 1..Len(H)})
<1>. DEFINE E == [i \in 1..Len(H) |-> Entry(H[i])]
            R == {H[i] : i \in 1..Len(H)}
<1>1. Len(H) \in Nat /\ \A i \in 1..Len(H) : H[i] \in ReportType
  BY LenProperties, ElementOfSeq
<1>2. \A i \in 1..Len(H) : Entry(H[i]) \in LowFields /\ Entry(H[i]).path = H[i].path
  BY <1>1, EntryFields
<1>3. E \in [1..Len(H) -> LowFields]
  BY <1>2
<1>4. E \in Seq(LowFields) /\ Len(E) = Len(H) /\ \A i \in 1..Len(H) : E[i] = Entry(H[i])
  BY <1>1, <1>3, SeqOfFunction
<1>. HIDE DEF E
<1>5. \A i \in 1..Len(H) : About(R, E[i].path) = {H[i]}
  BY <1>2, <1>4 DEF About
<1>6. \A i \in 1..Len(E) : Represents(E[i], About(R, E[i].path))
  BY <1>1, <1>4, <1>5, EntryRepresents
<1>7. \A x \in R : \E i \in 1..Len(E) : E[i].path = x.path
  BY <1>2, <1>4
<1>8. \A i, j \in 1..Len(E) : E[i].path = E[j].path => i = j
  BY <1>2, <1>4
<1>9. StandFor(E, R)
  BY <1>6, <1>7, <1>8, StandForAbout
<1>. QED
  BY <1>4, <1>9 DEF E

LEMMA ParseTyped ==
  ASSUME IInv, Parse
  PROVE  /\ parsed' \in Parsed
         /\ flaws' \in 0..MaxFlaws
         /\ parsed'.symbols # << >> => run = "D"
         /\ quality["wchan"] = "absent" => parsed'.wchan = "none"
<1>0. TypeOK
  BY DEF IInv
<1>1. PICK stack \in Stacks, maps \in SUBSET {"skipped", "truncated"}, switches \in BOOLEAN,
           wchan \in IF quality["wchan"] = "absent" THEN {"none"} ELSE {"none", "top", "other"},
           pd \in -1..1, sd \in -1..1, cpus \in 0..1 :
        /\ parsed' = [wchan |-> wchan, symbols |-> stack, maps |-> maps, switches |-> switches,
                      cpu |-> CpuUsable(pd, sd, cpus)]
        /\ flaws' = flaws + Cardinality({x \in 1..4 :
             \/ x = 1 /\ wchan = "other"
             \/ x = 2 /\ maps # {}
             \/ x = 3 /\ ~switches
             \/ x = 4 /\ ~CpuUsable(pd, sd, cpus)})
        /\ flaws' <= MaxFlaws
  BY DEF Parse
<1>2. flaws' \in 0..MaxFlaws
  <2>. DEFINE X == {x \in 1..4 :
             \/ x = 1 /\ wchan = "other"
             \/ x = 2 /\ maps # {}
             \/ x = 3 /\ ~switches
             \/ x = 4 /\ ~CpuUsable(pd, sd, cpus)}
  <2>1. X \subseteq 1..4
    OBVIOUS
  <2>2. flaws' = flaws + Cardinality(X)
    BY <1>1
  <2>. HIDE DEF X
  <2>3. IsFiniteSet(1..4)
    <3>1. 1 \in Int /\ 4 \in Int
      OBVIOUS
    <3>. QED
      BY <3>1, FS_Interval
  <2>4. Cardinality(X) \in Nat
    BY <2>1, <2>3, FS_Subset, FS_CardinalityType
  <2>. QED
    BY <1>0, <1>1, <2>2, <2>4, BoundsAssumption DEF TypeOK
<1>3. CpuUsable(pd, sd, cpus) \in BOOLEAN
  BY DEF CpuUsable
<1>4. stack \in SymbolLists /\ (stack # << >> => run = "D")
  <2>1. CASE ~StackRead
    <3>1. stack = << >>
      BY <2>1 DEF Stacks
    <3>2. << >> \in [1..0 -> Confidences \union {"error"}] /\ 0 \in 0..MaxFrames
      BY BoundsAssumption
    <3>. QED
      BY <3>1, <3>2 DEF SymbolLists
  <2>2. CASE StackRead
    <3>1. PICK n \in 0..MaxFrames :
            stack \in [1..n -> IF worker = "up" THEN KernelSymbols ELSE FallbackSymbols]
      BY <2>2 DEF Stacks
    <3>2. KernelSymbols \subseteq Confidences \union {"error"}
          /\ FallbackSymbols \subseteq Confidences \union {"error"}
      BY DEF KernelSymbols, FallbackSymbols, KernelBlazeConfidence, Confidences
    <3>3. stack \in [1..n -> Confidences \union {"error"}]
      BY <3>1, <3>2
    <3>. QED
      BY <2>2, <3>3 DEF SymbolLists, StackRead
  <2>. QED
    BY <2>1, <2>2
<1>5. parsed'.symbols = stack /\ parsed'.wchan = wchan
  BY <1>1
<1>6. wchan \in {"none", "top", "other"}
  OBVIOUS
<1>7. parsed' \in Parsed
  BY <1>1, <1>3, <1>4, <1>6 DEF Parsed
<1>. QED
  BY <1>1, <1>2, <1>4, <1>5, <1>7

(* build_hotspot pushes the first entries.                                 *)
LEMMA BuildKeeps ==
  ASSUME IInv, BuildHotspot
  PROVE  IInv'
<1>. /\ TypeOK /\ Position /\ VacancySeen /\ ReadFromOne
     /\ Outcome /\ WorkerKnown /\ Merging
  BY DEF IInv
<1>. DEFINE H == HotspotReports(parsed'.symbols)
<1>0. /\ pc = "build" /\ pc' = "merge" /\ result = "none" /\ merged = 0 /\ at = 14 /\ Parse
      /\ fields' = [i \in 1..Len(H) |-> Entry(H[i])]
      /\ UNCHANGED <<envVars, readVars, merged, overall, token, worker, result>>
  BY DEF BuildHotspot, Outcome, Merging
<1>1. /\ parsed' \in Parsed /\ flaws' \in 0..MaxFlaws
      /\ parsed'.symbols # << >> => run = "D"
      /\ quality["wchan"] = "absent" => parsed'.wchan = "none"
  BY <1>0, ParseTyped
<1>2. H \in Seq(ReportType) /\ \A i, j \in 1..Len(H) : H[i].path = H[j].path => i = j
  BY <1>1, HotspotSeq DEF Parsed
<1>3. fields' \in Seq(LowFields) /\ StandFor(fields', {H[i] : i \in 1..Len(H)})
  <2>. HIDE DEF H
  <2>. QED
    BY <1>0, <1>2, PushedStand
<1>4. TypeOK'
  BY <1>0, <1>1, <1>3 DEF TypeOK, Parsed, SymbolLists, envVars, readVars
<1>5. StandFor(fields, ReportsMade)'
  <2>1. H = Hotspot'
    BY <1>0 DEF Hotspot, HotspotReports, readVars
  <2>2. MergedSet' = {}
    BY <1>0 DEF MergedSet
  <2>3. WorkerSet' = {}
    BY <1>0 DEF WorkerSet
  <2>4. HotspotSet' = {H[i] : i \in 1..Len(H)}
    <3>. HIDE DEF H
    <3>. QED
      BY <2>1 DEF HotspotSet
  <2>5. ReportsMade' = HotspotSet' \union MergedSet' \union WorkerSet'
    BY ReportsMadeParts DEF ReportsMade, HotspotSet, MergedSet, WorkerSet, Hotspot
  <2>6. ReportsMade' = {H[i] : i \in 1..Len(H)}
    BY <2>2, <2>3, <2>4, <2>5
  <2>. QED
    BY <1>3, <2>6
<1>6. Merging'
  <2>1. merged' = 0
    BY <1>0
  <2>. QED
    BY <1>0, <1>1, <1>5, <2>1 DEF Merging, readVars
<1>7. VacancySeen' /\ ReadFromOne' /\ Position' /\ Outcome' /\ WorkerKnown'
  BY <1>0 DEF VacancySeen, ReadFromOne, Position, Outcome, WorkerKnown, envVars, readVars
<1>. QED
  BY <1>4, <1>6, <1>7 DEF IInv

(* merge_low_confidence_field takes one report after the other in.         *)
LEMMA MergeKeeps ==
  ASSUME IInv, MergeReport
  PROVE  IInv'
<1>. /\ TypeOK /\ Position /\ VacancySeen /\ ReadFromOne
     /\ Outcome /\ WorkerKnown /\ Merging
  BY DEF IInv
<1>. DEFINE r == Reports[merged + 1]
<1>0. /\ pc = "merge" /\ result = "none" /\ merged \in Nat /\ merged < Len(Reports)
      /\ fields' = Merge(fields, r) /\ merged' = merged + 1
      /\ UNCHANGED <<envVars, readVars, pc, flaws, parsed, overall, token, worker, result>>
  BY DEF MergeReport, Outcome, TypeOK
<1>1. parsed \in Parsed
  BY DEF TypeOK, Parsed, SymbolLists
<1>2. Reports' = Reports /\ Hotspot' = Hotspot
  BY <1>0, SameReports DEF readVars, Hotspot
<1>3. Reports \in Seq(ReportType) /\ Len(Reports) \in Nat
  BY <1>1, ReportsSeq, LenProperties
<1>4. r \in ReportType
  BY <1>0, <1>3, ElementOfSeq
<1>5. ReportsMade \in SUBSET ReportType /\ StandFor(fields, ReportsMade) /\ fields \in Seq(LowFields)
  BY <1>0, <1>1, <1>3, ReportsMadeTyped DEF Merging, TypeOK
<1>6. fields' \in Seq(LowFields) /\ StandFor(fields', ReportsMade \union {r})
  <2>. HIDE DEF r
  <2>. QED
    BY <1>0, <1>4, <1>5, MergeStands
<1>7. ReportsMade' = ReportsMade \union {r}
  <2>1. HotspotSet' = HotspotSet
    BY <1>2 DEF HotspotSet
  <2>2. WorkerSet' = WorkerSet
    BY <1>0 DEF WorkerSet
  <2>3. 1..merged' = (1..merged) \union {merged + 1}
    BY <1>0
  <2>4. MergedSet' = MergedSet \union {r}
    BY <1>2, <2>3 DEF MergedSet
  <2>5. ReportsMade' = HotspotSet' \union MergedSet' \union WorkerSet'
    BY DEF ReportsMade, HotspotSet, MergedSet, WorkerSet, Hotspot
  <2>. QED
    BY <2>1, <2>2, <2>4, <2>5, ReportsMadeParts
<1>8. TypeOK'
  BY <1>0, <1>6 DEF TypeOK, envVars, readVars
<1>9. Merging'
  BY <1>0, <1>2, <1>3, <1>6, <1>7 DEF Merging, readVars
<1>10. VacancySeen' /\ ReadFromOne' /\ Position' /\ Outcome' /\ WorkerKnown'
  BY <1>0 DEF VacancySeen, ReadFromOne, Position, Outcome, WorkerKnown, envVars, readVars
<1>. QED
  BY <1>8, <1>9, <1>10 DEF IInv

LEMMA AssembleKeeps ==
  ASSUME IInv, Assemble
  PROVE  IInv'
<1>. /\ TypeOK /\ Position /\ VacancySeen /\ ReadFromOne
     /\ Outcome /\ WorkerKnown /\ Merging
  BY DEF IInv
<1>0. /\ pc = "merge" /\ pc' = "stop" /\ result' = "ok" /\ merged = Len(Reports)
      /\ UNCHANGED <<envVars, readVars, flaws, parsed, fields, merged, worker>>
  BY DEF Assemble
<1>1. Reports' = Reports /\ Hotspot' = Hotspot
  BY <1>0, SameReports DEF readVars, Hotspot
<1>2. ReportsMade' = ReportsMade
  <2>1. HotspotSet' = HotspotSet /\ MergedSet' = MergedSet
    BY <1>0, <1>1 DEF HotspotSet, MergedSet
  <2>2. WorkerSet' = WorkerSet
    BY <1>0 DEF WorkerSet
  <2>3. ReportsMade' = HotspotSet' \union MergedSet' \union WorkerSet'
    BY DEF ReportsMade, HotspotSet, MergedSet, WorkerSet, Hotspot
  <2>. QED
    BY <2>1, <2>2, <2>3, ReportsMadeParts
<1>3. TypeOK'
  BY <1>0 DEF TypeOK, envVars, readVars
<1>4. Merging'
  BY <1>0, <1>1, <1>2 DEF Merging, readVars
<1>5. VacancySeen' /\ ReadFromOne' /\ Position' /\ Outcome' /\ WorkerKnown'
  BY <1>0 DEF VacancySeen, ReadFromOne, Position, Outcome, WorkerKnown, envVars, readVars
<1>. QED
  BY <1>3, <1>4, <1>5 DEF IInv

(* The worker is stopped; a failure is one more report of a result.        *)
LEMMA StopKeeps ==
  ASSUME IInv, StopWorker
  PROVE  IInv'
<1>. /\ TypeOK /\ Position /\ VacancySeen /\ ReadFromOne
     /\ Outcome /\ WorkerKnown /\ Merging
  BY DEF IInv
<1>0. /\ pc = "stop" /\ pc' = "returned" /\ merged \in Nat
      /\ UNCHANGED <<envVars, readVars, parsed, merged, result>>
  BY DEF StopWorker, TypeOK
<1>1. parsed \in Parsed
  BY DEF TypeOK, Parsed, SymbolLists
<1>2. Reports' = Reports /\ Hotspot' = Hotspot
  BY <1>0, SameReports DEF readVars, Hotspot
<1>3. Reports \in Seq(ReportType) /\ Len(Reports) \in Nat
  BY <1>1, ReportsSeq, LenProperties
<1>. DEFINE w(x) == Report("hotspot.frames", "none", x)
            O == HotspotSet \union MergedSet
<1>4. w("init_failed") \in ReportType /\ w("shutdown_failed") \in ReportType
  <2>1. "hotspot.frames" \in Paths /\ "none" \in Confidences
        /\ "init_failed" \in Reasons /\ "shutdown_failed" \in Reasons
    BY DEF Paths, Confidences, Reasons
  <2>. QED
    BY <2>1, ReportFields
<1>5. ReportsMade = O
  <2>1. WorkerSet = {}
    BY <1>0 DEF WorkerSet
  <2>. QED
    BY <2>1, ReportsMadeParts
<1>6. ReportsMade' = O \union WorkerSet'
  <2>1. HotspotSet' = HotspotSet /\ MergedSet' = MergedSet
    BY <1>0, <1>2 DEF HotspotSet, MergedSet
  <2>2. ReportsMade' = HotspotSet' \union MergedSet' \union WorkerSet'
    BY DEF ReportsMade, HotspotSet, MergedSet, WorkerSet, Hotspot
  <2>. QED
    BY <2>1, <2>2
<1>7. /\ worker' = "stopped" => WorkerSet' = {}
      /\ worker' = "init_failed" => WorkerSet' = {w("init_failed")}
      /\ worker' = "stop_failed" => WorkerSet' = {w("shutdown_failed")}
  BY <1>0 DEF WorkerSet
<1>8. result = "ok" => O \in SUBSET ReportType /\ StandFor(fields, O)
  BY <1>1, <1>3, <1>5, <1>0, ReportsMadeTyped DEF Merging
<1>9. /\ fields \in Seq(LowFields) /\ flaws \in 0..MaxFlaws /\ MaxFlaws \in Nat
  BY BoundsAssumption DEF TypeOK
<1>. HIDE DEF w, O
<1>10. /\ fields' \in Seq(LowFields) /\ flaws' \in 0..MaxFlaws
       /\ worker' \in {"stopped", "stop_failed", "init_failed"}
       /\ result = "ok" => StandFor(fields', O \union WorkerSet')
  <2>1. CASE worker = "up" /\ worker' = "stopped" /\ UNCHANGED <<flaws, fields, overall, token>>
    <3>1. O \union WorkerSet' = O
      BY <1>7, <2>1
    <3>. QED
      BY <1>8, <1>9, <2>1, <3>1
  <2>2. CASE /\ worker = "up" /\ worker' = "stop_failed"
             /\ flaws < MaxFlaws /\ flaws' = flaws + 1
             /\ IF result = "ok" THEN RecordSymbolizerDegradation("shutdown_failed")
                                 ELSE UNCHANGED <<fields, overall, token>>
    <3>1. flaws' \in 0..MaxFlaws
      BY <1>9, <2>2
    <3>2. CASE result = "ok"
      <4>1. fields' = Merge(fields, w("shutdown_failed"))
        BY <2>2, <3>2 DEF RecordSymbolizerDegradation, w
      <4>2. fields' \in Seq(LowFields) /\ StandFor(fields', O \union {w("shutdown_failed")})
        BY <1>4, <1>8, <1>9, <3>2, <4>1, MergeStands
      <4>. QED
        BY <1>7, <2>2, <3>1, <4>2
    <3>3. CASE result # "ok"
      BY <1>9, <2>2, <3>1, <3>3
    <3>. QED
      BY <3>2, <3>3
  <2>3. CASE /\ worker = "init_failed" /\ UNCHANGED <<worker, flaws>>
             /\ RecordSymbolizerDegradation("init_failed")
    <3>1. result = "ok"
      BY <1>0, <2>3 DEF WorkerKnown
    <3>2. fields' = Merge(fields, w("init_failed"))
      BY <2>3 DEF RecordSymbolizerDegradation, w
    <3>3. fields' \in Seq(LowFields) /\ StandFor(fields', O \union {w("init_failed")})
      BY <1>4, <1>8, <1>9, <3>1, <3>2, MergeStands
    <3>. QED
      BY <1>7, <1>9, <2>3, <3>3
  <2>. QED
    BY <2>1, <2>2, <2>3 DEF StopWorker
<1>11. TypeOK'
  BY <1>0, <1>10 DEF TypeOK, envVars, readVars
<1>12. StandFor(fields, ReportsMade)' <=> StandFor(fields', O \union WorkerSet')
  BY <1>6
<1>13. Merging'
  BY <1>0, <1>2, <1>10, <1>12 DEF Merging, readVars
<1>14. VacancySeen' /\ ReadFromOne' /\ Position' /\ Outcome' /\ WorkerKnown'
  BY <1>0, <1>10 DEF VacancySeen, ReadFromOne, Position, Outcome, WorkerKnown, envVars, readVars
<1>. QED
  BY <1>11, <1>13, <1>14 DEF IInv

LEMMA StutterKeeps ==
  ASSUME IInv, UNCHANGED vars
  PROVE  IInv'
<1>. /\ TypeOK /\ Position /\ VacancySeen /\ ReadFromOne
     /\ Outcome /\ WorkerKnown /\ Merging
  BY DEF IInv
<1>1. Reports' = Reports /\ Hotspot' = Hotspot
  BY SameReports DEF vars, readVars, resultVars, Hotspot
<1>2. ReportsMade' = ReportsMade
  <2>1. HotspotSet' = HotspotSet /\ MergedSet' = MergedSet
    BY <1>1 DEF HotspotSet, MergedSet, vars, resultVars
  <2>2. WorkerSet' = WorkerSet
    BY DEF WorkerSet, vars
  <2>3. ReportsMade' = HotspotSet' \union MergedSet' \union WorkerSet'
    BY DEF ReportsMade, HotspotSet, MergedSet, WorkerSet, Hotspot
  <2>. QED
    BY <2>1, <2>2, <2>3, ReportsMadeParts
<1>3. Merging'
  BY <1>1, <1>2 DEF Merging, vars, readVars, resultVars
<1>4. TypeOK'
  BY DEF TypeOK, vars, envVars, readVars, resultVars
<1>5. VacancySeen' /\ ReadFromOne' /\ Position' /\ Outcome' /\ WorkerKnown'
  BY DEF VacancySeen, ReadFromOne, Position, Outcome, WorkerKnown, vars, envVars, readVars
<1>. QED
  BY <1>3, <1>4, <1>5 DEF IInv

-----------------------------------------------------------------------------
(* The theorems.                                                           *)

(* The inductive invariant of an introspection holds in every behaviour.   *)
THEOREM Invariance == Spec => []IInv
<1>1. IInv /\ [Next]_vars => IInv'
  <2>. SUFFICES ASSUME IInv, [Next]_vars PROVE IInv'
    OBVIOUS
  <2>1. CASE Read \/ BuildFails
    BY <2>1, ReadSteps, AdvanceKeeps, FailingKeeps, NothingKeeps
  <2>. QED
    BY <2>1, EnvKeeps, SpawnKeeps, BuildKeeps, MergeKeeps, AssembleKeeps, StopKeeps, StutterKeeps
       DEF Next
<1>. QED
  BY InitInv, <1>1, PTL DEF Spec

(* Type correctness of the whole call.                                     *)
THEOREM TypeCorrectness == Spec => []TypeOK
<1>1. IInv => TypeOK
  BY DEF IInv
<1>. QED
  BY Invariance, <1>1, PTL

(* with_stable_process_generation and sample_cpu: all that went into a     *)
(* result was read from one process, however many come to have the pid.    *)
THEOREM ResultsAreOfOne == Spec => []OneProcess
<1>1. IInv => OneProcess
  BY DEF IInv, Outcome, ReadFromOne, OneProcess
<1>. QED
  BY Invariance, <1>1, PTL

(* classify_proc_io and absent_or_gone: a process that is there throughout *)
(* is never reported missing.                                              *)
THEOREM NotFoundIsTrue == Spec => []NotFoundMeansGone
<1>1. IInv => NotFoundMeansGone
  BY DEF IInv, Outcome, NotFoundMeansGone
<1>. QED
  BY Invariance, <1>1, PTL

(* assemble_default_introspection: no way out leaves the worker running.   *)
THEOREM NoWorkerLeft == Spec => []WorkerNotLeft
<1>1. IInv => WorkerNotLeft
  BY DEF IInv, WorkerKnown, WorkerNotLeft
<1>. QED
  BY Invariance, <1>1, PTL

(* merge_low_confidence_field: the entries stand for exactly the reports.  *)
THEOREM EntriesStand == Spec => []FieldsStandForReports
<1>1. IInv => FieldsStandForReports
  BY DEF IInv, Merging, FieldsStandForReports
<1>. QED
  BY Invariance, <1>1, PTL

(* An entry that stands for a report without any confidence has none.      *)
LEMMA MarkedBy ==
  ASSUME fields \in Seq(LowFields), NEW R, StandFor(fields, R), NEW r \in R,
         r.confidence = "none"
  PROVE  Marked(r.path)
<1>1. PICK i \in 1..Len(fields) : fields[i].path = r.path
  BY StandForAbout
<1>2. Represents(fields[i], About(R, r.path))
  BY <1>1, StandForAbout
<1>3. Score[fields[i].confidence] <= Score["none"] /\ Score["none"] = 0
  BY <1>2 DEF Represents, About, Score
<1>4. fields[i].confidence \in Confidences
  <2>1. fields[i] \in LowFields
    BY ElementOfSeq
  <2>. QED
    BY <2>1 DEF LowFields
<1>5. fields[i].confidence = "none"
  BY <1>3, <1>4, NoScore
<1>. QED
  BY <1>1, <1>5 DEF Marked

(* It has the reasons of all reports it stands for.                        *)
LEMMA ToldBy ==
  ASSUME NEW R, StandFor(fields, R), NEW r \in R
  PROVE  Told(r.path, r.reason)
<1>1. PICK i \in 1..Len(fields) : fields[i].path = r.path
  BY StandForAbout
<1>2. Represents(fields[i], About(R, r.path))
  BY <1>1, StandForAbout
<1>3. r.reason \in fields[i].reasons
  BY <1>2 DEF Represents, About
<1>. QED
  BY <1>1, <1>3 DEF Told

LEMMA DoubtsKept == IInv => DoubtsReachResult
<1>. SUFFICES ASSUME IInv, result = "ok", pc = "returned"
              PROVE  DoubtsReachResult
  BY DEF DoubtsReachResult
<1>. TypeOK /\ WorkerKnown /\ Merging
  BY DEF IInv
<1>1. /\ parsed \in Parsed /\ parsed.symbols \in SymbolLists /\ fields \in Seq(LowFields)
      /\ merged = Len(Reports) /\ StandFor(fields, ReportsMade)
      /\ quality["wchan"] = "absent" => parsed.wchan = "none"
      /\ parsed.symbols # << >> => run = "D"
  BY DEF TypeOK, Merging, Parsed, SymbolLists
<1>2. \A x : In(x, Reports) \/ In(x, Hotspot) => x \in ReportsMade
  <2>1. \A x : In(x, Reports) => x \in MergedSet
    BY <1>1 DEF In, MergedSet
  <2>2. \A x : In(x, Hotspot) => x \in HotspotSet
    BY DEF In, HotspotSet
  <2>. QED
    BY <2>1, <2>2, ReportsMadeParts
<1>3. \A p \in Paths, x \in Reasons : Report(p, "none", x) \in ReportsMade => Marked(p)
  <2>1. SUFFICES ASSUME NEW p \in Paths, NEW x \in Reasons, Report(p, "none", x) \in ReportsMade
                 PROVE  Marked(p)
    OBVIOUS
  <2>2. Report(p, "none", x).path = p /\ Report(p, "none", x).confidence = "none"
    BY DEF Report
  <2>. QED
    BY <1>1, <2>1, <2>2, MarkedBy
<1>4. \A x : \/ In(x, ConfidenceReports) \/ In(x, SnapshotReports)
            \/ In(x, MapsReports) \/ In(x, MissingReports) => x \in ReportsMade
  BY <1>1, <1>2, ReportsSeq
<1>5. /\ "identity.exe" \in Paths /\ "identity.cgroup" \in Paths /\ "state.wchan" \in Paths
      /\ "hotspot.frames" \in Paths /\ "resource.pct_cpu" \in Paths /\ "mem_shape" \in Paths
      /\ "mem_shape.top_n[0].backing" \in Paths /\ "state.run_state" \in Paths
      /\ "resource.ctxt_switches" \in Paths
      /\ "missing" \in Reasons /\ "no_stack" \in Reasons /\ "unusable" \in Reasons
      /\ "skipped" \in Reasons /\ "truncated" \in Reasons /\ "unknown" \in Reasons
      /\ "no_symbol" \in Reasons /\ "init_failed" \in Reasons /\ "shutdown_failed" \in Reasons
  BY DEF Paths, Reasons
<1>6. ASSUME NEW t \in Texts, quality[t] = "lossy", NEW i \in 1..Len(LossyPaths[t])
      PROVE  Marked(LossyPaths[t][i])
  <2>1. LossyPaths[t][i] \in Paths /\ t \in Reasons
    BY LossySeq DEF Texts, Reasons
  <2>2. Report(LossyPaths[t][i], "none", t) \in ReportsMade
    BY <1>4, <1>6, SnapshotSeq
  <2>. QED
    BY <1>3, <2>1, <2>2
<1>7. /\ run = "unknown" => Marked("state.run_state")
      /\ run \in {"S", "D"} /\ parsed.wchan = "none" => Marked("state.wchan")
      /\ ~parsed.switches => Marked("resource.ctxt_switches")
      /\ quality["exe"] = "absent" => Marked("identity.exe")
      /\ quality["cgroup"] = "absent" => Marked("identity.cgroup")
      /\ ~parsed.cpu => Marked("resource.pct_cpu")
  BY <1>3, <1>4, <1>5, MissingSeq
<1>11. /\ "skipped" \in parsed.maps => Marked("mem_shape")
       /\ "truncated" \in parsed.maps => Marked("mem_shape.top_n[0].backing")
  BY <1>3, <1>4, <1>5, MapsSeq
<1>12. \A r \in ReportsMade : Told(r.path, r.reason)
  BY <1>1, ToldBy
<1>13. parsed.wchan = "other" /\ parsed.symbols # << >> =>
         Told("state.wchan", "mismatch") /\ Told(FramePaths[1], "mismatch")
  <2>1. SUFFICES ASSUME parsed.wchan = "other", parsed.symbols # << >>
                 PROVE  Told("state.wchan", "mismatch") /\ Told(FramePaths[1], "mismatch")
    OBVIOUS
  <2>2. WchanDiffers \in ReportsMade /\ TopDiffers \in ReportsMade
    BY <1>1, <1>4, <2>1, ConfidenceSeq
  <2>3. WchanDiffers.path = "state.wchan" /\ WchanDiffers.reason = "mismatch"
    BY DEF WchanDiffers, Report
  <2>4. TopDiffers.path = FramePaths[1] /\ TopDiffers.reason = "mismatch"
    BY DEF TopDiffers, Report
  <2>. QED
    BY <1>12, <2>2, <2>3, <2>4
<1>8. run = "D" /\ parsed.symbols = << >> => Marked("hotspot.frames")
  BY <1>1, <1>2, <1>3, <1>5, HotspotSeq DEF Hotspot
<1>9. worker \in {"init_failed", "stop_failed"} => Marked("hotspot.frames")
  <2>1. worker = "init_failed" => Report("hotspot.frames", "none", "init_failed") \in WorkerSet
    BY DEF WorkerSet
  <2>2. worker = "stop_failed" => Report("hotspot.frames", "none", "shutdown_failed") \in WorkerSet
    BY DEF WorkerSet
  <2>. QED
    BY <1>3, <1>5, <2>1, <2>2, ReportsMadeParts
<1>10. ASSUME NEW i \in 1..Len(parsed.symbols)
       PROVE  /\ parsed.symbols[i] = "none" => Marked(FramePaths[i])
              /\ parsed.symbols[i] = "error" => Told(FramePaths[i], "symbolizer_failed")
  <2>1. run = "D" /\ i \in 1..5
    BY <1>1, SymbolsSeq
  <2>2. ASSUME parsed.symbols[i] = "error" PROVE Told(FramePaths[i], "symbolizer_failed")
    <3>. DEFINE r == Report(FramePaths[i], "kallsyms", "symbolizer_failed")
    <3>1. r \in ReportsMade
      BY <1>1, <1>2, <2>1, <2>2, HotspotSeq DEF Hotspot
    <3>2. r.path = FramePaths[i] /\ r.reason = "symbolizer_failed"
      BY DEF Report
    <3>. QED
      BY <1>12, <3>1, <3>2
  <2>3. ASSUME parsed.symbols[i] = "none" PROVE Marked(FramePaths[i])
    <3>1. NoSymbol(i) \in ReportsMade
      BY <1>1, <1>4, <2>3, ConfidenceSeq
    <3>. QED
      BY <1>3, <1>5, <2>1, <3>1, PathOfFrame DEF NoSymbol
  <2>. QED
    BY <2>2, <2>3
<1>. QED
  BY <1>6, <1>7, <1>8, <1>9, <1>10, <1>11, <1>13 DEF DoubtsReachResult

(* All that was degraded on the way is told by the result: texts that are  *)
(* not UTF-8, rows of the maps that were skipped or cut, the optional      *)
(* files and the counters that were missing, an unknown run state, a wchan *)
(* that is not the top of the stack, frames without a symbol or with one   *)
(* that failed, a CPU sample of no use, and the failures of the worker.    *)
THEOREM DoubtsAreTold == Spec => []DoubtsReachResult
  BY Invariance, DoubtsKept, PTL


-----------------------------------------------------------------------------
(* calculate_overall_confidence.                                           *)

(* Induction, on a set of numbers.                                         *)
LEMMA Counting ==
  ASSUME NEW G \in SUBSET Nat, 0 \in G, \A n \in G : n + 1 \in G
  PROVE  G = Nat
<1>. SUFFICES ASSUME G # Nat PROVE FALSE
  OBVIOUS
<1>. DEFINE T == Nat \ G
<1>1. T \subseteq Nat /\ T # {}
  OBVIOUS
<1>2. PICK m \in T : \A k \in T : ~(<<k, m>> \in OpToRel(<, Nat))
  <2>. HIDE DEF T
  <2>. QED
    BY <1>1, NatLessThanWellFounded, WFMin
<1>3. m \in Nat /\ m # 0 /\ m - 1 \in Nat
  OBVIOUS
<1>4. m - 1 \in T
  BY <1>3
<1>5. <<m - 1, m>> \in OpToRel(<, Nat)
  BY <1>3 DEF OpToRel
<1>. QED
  BY <1>2, <1>4, <1>5

(* The element the folds of the community modules take out next.           *)
Some(s) == CHOOSE x \in s : TRUE

LEMMA SomeSubset ==
  ASSUME NEW S, IsFiniteSet(S)
  PROVE  \A s \in SUBSET S :
           /\ IsFiniteSet(s) /\ Cardinality(s) \in Nat /\ (Cardinality(s) = 0 <=> s = {})
           /\ Cardinality(s) <= Cardinality(S)
           /\ s # {} => /\ Some(s) \in s /\ s \ {Some(s)} \in SUBSET S
                        /\ Cardinality(s \ {Some(s)}) = Cardinality(s) - 1
<1>1. \A s \in SUBSET S : /\ IsFiniteSet(s) /\ Cardinality(s) <= Cardinality(S)
                          /\ Cardinality(s) \in Nat /\ (Cardinality(s) = 0 <=> s = {})
  BY FS_Subset, FS_CardinalityType, FS_EmptySet
<1>. QED
  BY <1>1, FS_RemoveElement DEF Some

(* The sum of scores is that of a function on the subsets, which exists.   *)
AddsUp(h, f, D) ==
  h = [s \in D |-> IF s = {} THEN 0 ELSE f[Some(s)] + h[s \ {Some(s)}]]

LEMMA SumExists ==
  ASSUME NEW S, IsFiniteSet(S), NEW f
  PROVE  \E h : AddsUp(h, f, SUBSET S)
<1>0. \A s \in SUBSET S :
        /\ IsFiniteSet(s) /\ Cardinality(s) \in Nat /\ (Cardinality(s) = 0 <=> s = {})
        /\ Cardinality(s) <= Cardinality(S)
        /\ s # {} => /\ Some(s) \in s /\ s \ {Some(s)} \in SUBSET S
                     /\ Cardinality(s \ {Some(s)}) = Cardinality(s) - 1
  BY SomeSubset
<1>. DEFINE Below(n) == {s \in SUBSET S : Cardinality(s) <= n}
            G == {n \in Nat : \E h : AddsUp(h, f, Below(n))}
<1>1. 0 \in G
  <2>1. Below(0) = {{}}
    <3>1. ASSUME NEW s \in Below(0) PROVE s = {}
      <4>1. s \in SUBSET S /\ Cardinality(s) <= 0
        OBVIOUS
      <4>2. Cardinality(s) \in Nat /\ (Cardinality(s) = 0 => s = {})
        BY <1>0, <4>1
      <4>. QED
        BY <4>1, <4>2
    <3>2. {} \in SUBSET S /\ Cardinality({}) <= 0
      BY FS_EmptySet
    <3>3. {} \in Below(0)
      BY <3>2
    <3>. QED
      BY <3>1, <3>3, Zenon
  <2>2. AddsUp([s \in Below(0) |-> 0], f, Below(0))
    BY <2>1 DEF AddsUp
  <2>. QED
    BY <2>2
<1>2. \A n \in G : n + 1 \in G
  <2>. SUFFICES ASSUME NEW n \in G PROVE n + 1 \in G
    OBVIOUS
  <2>1. PICK h : AddsUp(h, f, Below(n))
    OBVIOUS
  <2>. DEFINE g == [s \in Below(n + 1) |-> IF s = {} THEN 0 ELSE f[Some(s)] + h[s \ {Some(s)}]]
  <2>2. \A s \in Below(n + 1) : s # {} => s \ {Some(s)} \in Below(n)
    BY <1>0
  <2>3. \A s \in Below(n) : s \in Below(n + 1) /\ h[s] = g[s]
    <3>. SUFFICES ASSUME NEW s \in Below(n) PROVE s \in Below(n + 1) /\ h[s] = g[s]
      OBVIOUS
    <3>1. s \in Below(n + 1)
      <4>1. s \in SUBSET S /\ Cardinality(s) <= n /\ n \in Nat
        OBVIOUS
      <4>2. Cardinality(s) \in Nat
        BY <1>0, <4>1
      <4>3. Cardinality(s) <= n + 1
        BY <4>1, <4>2
      <4>. QED
        BY <4>1, <4>3
    <3>2. h[s] = IF s = {} THEN 0 ELSE f[Some(s)] + h[s \ {Some(s)}]
      BY <2>1, Zenon DEF AddsUp
    <3>. QED
      BY <3>1, <3>2
  <2>4. AddsUp(g, f, Below(n + 1))
    BY <2>2, <2>3 DEF AddsUp
  <2>5. n + 1 \in Nat
    OBVIOUS
  <2>. QED
    BY <2>4, <2>5, Zenon
<1>3. G = Nat
  <2>. HIDE DEF G
  <2>1. G \in SUBSET Nat
    BY DEF G
  <2>. QED
    BY <1>1, <1>2, <2>1, Counting
<1>4. Cardinality(S) \in G /\ Below(Cardinality(S)) = SUBSET S
  BY <1>0, <1>3
<1>. QED
  BY <1>4

(* n numbers up to 100 add up to 100 * n at most.                          *)
LEMMA SumBounded ==
  ASSUME NEW S, IsFiniteSet(S), NEW f, \A x \in S : f[x] \in 0..100
  PROVE  SumFunctionOnSet(f, S) \in 0..100 * Cardinality(S)
<1>0. \A s \in SUBSET S :
        /\ IsFiniteSet(s) /\ Cardinality(s) \in Nat /\ (Cardinality(s) = 0 <=> s = {})
        /\ Cardinality(s) <= Cardinality(S)
        /\ s # {} => /\ Some(s) \in s /\ s \ {Some(s)} \in SUBSET S
                     /\ Cardinality(s \ {Some(s)}) = Cardinality(s) - 1
  BY SomeSubset
<1>. DEFINE Fold(h) ==
              h = [s \in SUBSET S |-> IF s = {} THEN 0 ELSE f[Some(s)] + h[s \ {Some(s)}]]
            g == CHOOSE h : Fold(h)
<1>1. \E h : Fold(h)
  <2>1. \E h : AddsUp(h, f, SUBSET S)
    BY SumExists
  <2>. QED
    BY <2>1, Zenon DEF AddsUp
<1>2. SumFunctionOnSet(f, S) = g[S]
  BY Zenon DEF SumFunctionOnSet, FoldFunctionOnSet, MapThenFoldSet, Some
<1>3. Fold(g)
  BY <1>1, Zenon
<1>. HIDE DEF g
<1>4. \A s \in SUBSET S : g[s] = IF s = {} THEN 0 ELSE f[Some(s)] + g[s \ {Some(s)}]
  BY <1>3
<1>. DEFINE G == {n \in Nat : \A s \in SUBSET S : Cardinality(s) = n => g[s] \in 0..100 * n}
<1>5. 0 \in G
  <2>1. \A s \in SUBSET S : Cardinality(s) = 0 => s = {}
    BY <1>0
  <2>2. {} \in SUBSET S
    OBVIOUS
  <2>3. g[{}] = 0
    BY <1>4, <2>2
  <2>. QED
    BY <2>1, <2>3
<1>6. \A n \in G : n + 1 \in G
  <2>. SUFFICES ASSUME NEW n \in G PROVE n + 1 \in G
    OBVIOUS
  <2>1. ASSUME NEW s \in SUBSET S, Cardinality(s) = n + 1
        PROVE  g[s] \in 0..100 * (n + 1)
    <3>1. s # {} /\ Some(s) \in S /\ s \ {Some(s)} \in SUBSET S /\ Cardinality(s \ {Some(s)}) = n
      BY <2>1, <1>0
    <3>2. g[s \ {Some(s)}] \in 0..100 * n /\ f[Some(s)] \in 0..100
      BY <3>1
    <3>3. g[s] = f[Some(s)] + g[s \ {Some(s)}]
      BY <1>4, <3>1
    <3>. QED
      BY <3>2, <3>3
  <2>. QED
    BY <2>1
<1>7. G = Nat
  <2>. HIDE DEF G
  <2>1. G \in SUBSET Nat
    BY DEF G
  <2>. QED
    BY <1>5, <1>6, <2>1, Counting
<1>. QED
  <2>1. S \in SUBSET S /\ Cardinality(S) \in Nat
    BY <1>0
  <2>2. Cardinality(S) \in G
    BY <1>7, <2>1, Zenon
  <2>3. g[S] \in 0..100 * Cardinality(S)
    BY <2>1, <2>2
  <2>. QED
    BY <1>2, <2>3

(* A division by a product is one by each factor.                         *)
LEMMA Dividing ==
  ASSUME NEW t \in Nat, NEW c \in Nat, c > 0, NEW d \in Nat, d > 0, t <= 100 * c
  PROVE  (100 * t) \div (c * d) \in 0..(10000 \div d)
<1>. DEFINE m == c * d
            q == (100 * t) \div m
            p == 10000 \div d
<1>1. m \in Nat /\ m > 0
  OBVIOUS
<1>2. q \in Int /\ m * q <= 100 * t /\ 100 * t < m * q + m
  <2>. HIDE DEF m
  <2>. QED
    BY <1>1
<1>3. p \in Int /\ 10000 < d * p + d
  OBVIOUS
<1>. HIDE DEF q, p
<1>4. c * (d * q) <= c * 10000
  <2>1. m * q = c * (d * q)
    BY <1>2
  <2>. HIDE DEF m
  <2>. QED
    BY <1>2, <2>1
<1>5. d * q <= 10000
  <2>. DEFINE x == d * q
  <2>1. x \in Int
    BY <1>2
  <2>2. c * x <= c * 10000
    BY <1>4
  <2>. HIDE DEF x
  <2>3. x <= 10000
    BY <2>1, <2>2
  <2>. QED
    BY <2>3 DEF x
<1>6. q < p + 1
  <2>1. d * q < d * (p + 1)
    BY <1>2, <1>3, <1>5
  <2>. QED
    BY <1>2, <1>3, <2>1
<1>7. q >= 0
  <2>. SUFFICES ASSUME q <= -1 PROVE FALSE
    BY <1>2
  <2>1. m * q <= m * (-1)
    <3>. HIDE DEF m
    <3>. QED
      BY <1>1, <1>2
  <2>. HIDE DEF m
  <2>. QED
    BY <1>1, <1>2, <2>1
<1>. QED
  BY <1>2, <1>3, <1>6, <1>7 DEF q, p

LEMMA ScoreBounded == \A c \in Confidences : Score[c] \in 0..100
  BY DEF Confidences, Score

(* The mean of the scores, less a tenth for each entry, stays within the   *)
(* bound of a mean of 1.                                                   *)
LEMMA OverallBounded ==
  ASSUME NEW F \in Seq(Confidences), NEW E \in Seq(LowFields)
  PROVE  Overall(F, E) \in 0..(10000 \div (10 + Len(E)))
<1>. DEFINE scores == [i \in 1..Len(F) |-> Score[F[i]]]
            total  == IF F = << >> THEN 100 ELSE SumFunction(scores)
            count  == IF F = << >> THEN 1 ELSE Len(F)
            d      == 10 + Len(E)
<1>1. Len(F) \in Nat /\ (F # << >> => Len(F) # 0) /\ d \in Nat /\ d > 0
  BY LenProperties, EmptySeq
<1>2. count \in Nat /\ count > 0 /\ total \in 0..100 * count
  <2>1. CASE F = << >>
    BY <2>1
  <2>2. CASE F # << >>
    <3>1. \A i \in 1..Len(F) : scores[i] \in 0..100
      <4>1. \A i \in 1..Len(F) : F[i] \in Confidences
        BY ElementOfSeq
      <4>. QED
        BY <4>1, ScoreBounded
    <3>2. IsFiniteSet(1..Len(F)) /\ Cardinality(1..Len(F)) = Len(F) /\ DOMAIN scores = 1..Len(F)
      <4>1. 1 \in Int /\ Len(F) \in Int /\ Len(F) - 1 + 1 = Len(F) /\ ~(1 > Len(F))
        BY <1>1, <2>2
      <4>2. IsFiniteSet(1..Len(F)) /\ Cardinality(1..Len(F)) = Len(F) - 1 + 1
        BY <4>1, FS_Interval
      <4>3. DOMAIN scores = 1..Len(F)
        BY Zenon
      <4>. QED
        BY <4>1, <4>2, <4>3
    <3>3. SumFunction(scores) = SumFunctionOnSet(scores, 1..Len(F))
      BY <3>2 DEF SumFunction
    <3>4. SumFunction(scores) \in 0..100 * Len(F)
      <4>. HIDE DEF scores
      <4>. QED
        BY <3>1, <3>2, <3>3, SumBounded
    <3>. QED
      BY <1>1, <2>2, <3>4
  <2>. QED
    BY <2>1, <2>2
<1>3. Overall(F, E) = (100 * total) \div (count * d)
  BY Zenon DEF Overall
<1>. HIDE DEF total, count, d
<1>4. (100 * total) \div (count * d) \in 0..(10000 \div d)
  BY <1>1, <1>2, Dividing
<1>. QED
  BY <1>3, <1>4 DEF d

(* The derived numbers of a result are those of its entries.               *)
Derived ==
  result = "ok" => /\ overall = Overall(Frames(parsed.symbols), fields)
                   /\ token = EstimateTokens(fields)

LEMMA DerivedStep ==
  ASSUME IInv, Derived, [Next]_vars
  PROVE  Derived'
<1>. Outcome
  BY DEF IInv
<1>1. CASE UNCHANGED vars
  BY <1>1 DEF Derived, vars, resultVars
<1>2. CASE \/ Exits \/ PidReused \/ RefusePid \/ WorkerStarts \/ WorkerInitFails
           \/ BuildHotspot \/ BuildFails \/ MergeReport
  <2>1. result' # "ok"
    BY <1>2 DEF Exits, PidReused, RefusePid, WorkerStarts, WorkerInitFails, BuildHotspot, BuildFails,
                Fail, MergeReport, Outcome
  <2>. QED
    BY <2>1 DEF Derived
<1>3. CASE Read
  <2>1. Advance \/ Failing \/ ReadFindsNothing
    BY <1>3, ReadSteps
  <2>2. result' # "ok"
    BY <2>1 DEF Advance, Failing, ReadFindsNothing, Fail, Errors, Outcome
  <2>. QED
    BY <2>2 DEF Derived
<1>4. CASE Assemble
  <2>1. parsed' = parsed /\ fields' = fields
    BY <1>4 DEF Assemble
  <2>. QED
    BY <1>4, <2>1 DEF Assemble, Derived
<1>5. CASE StopWorker
  <2>1. parsed' = parsed /\ result' = result
    BY <1>5 DEF StopWorker
  <2>2. CASE UNCHANGED <<fields, overall, token>>
    BY <2>1, <2>2 DEF Derived
  <2>3. CASE \E r \in {"init_failed", "shutdown_failed"} : RecordSymbolizerDegradation(r)
    <3>1. overall' = Overall(Frames(parsed.symbols), fields') /\ token' = EstimateTokens(fields')
      BY <2>3 DEF RecordSymbolizerDegradation
    <3>. QED
      BY <2>1, <3>1 DEF Derived
  <2>. QED
    BY <1>5, <2>2, <2>3 DEF StopWorker
<1>. QED
  BY <1>1, <1>2, <1>3, <1>4, <1>5 DEF Next

(* record_symbolizer_degradation: whichever entry came last, from the      *)
(* parsers or from the worker, the overall confidence and the estimate     *)
(* are those of all the entries of the result.                             *)
THEOREM EntriesAreCounted == Spec => []OverallCountsFields
<1>1. Init => Derived
  BY DEF Init, Derived
<1>2. IInv /\ Derived => OverallCountsFields
  <2>. SUFFICES ASSUME IInv, Derived, result = "ok" PROVE OverallCountsFields
    BY DEF OverallCountsFields
  <2>1. parsed.symbols \in SymbolLists /\ fields \in Seq(LowFields)
    BY DEF IInv, TypeOK, SymbolLists
  <2>2. Overall(Frames(parsed.symbols), fields) \in 0..(10000 \div (10 + Len(fields)))
    BY <2>1, FramesSeq, OverallBounded
  <2>. QED
    BY <2>2 DEF Derived, OverallCountsFields
<1>. QED
  BY Invariance, <1>1, <1>2, DerivedStep, PTL DEF Spec
=============================================================================
