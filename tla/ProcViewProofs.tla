--------------------------- MODULE ProcViewProofs ---------------------------
(***************************************************************************)
(* What the parsers of proc_view.rs return, for every file, and how far    *)
(* the two windows of a CPU sample can be apart, for every pace of the     *)
(* clock.                                                                  *)
(*                                                                         *)
(* The argument is the same for each parser: its invariant (CgroupInv,     *)
(* MapsInv, StatInv, ScanInv) says what its variables are of the lines     *)
(* read so far, a round adds one line, and after the last line it says so  *)
(* of the file.  Sums and Collect are folds, which the first lemmas are    *)
(* about.                                                                  *)
(***************************************************************************)
EXTENDS ProcView, CpuSample, FiniteSetTheorems, SequenceTheorems, TLAPS

-----------------------------------------------------------------------------
(* Folds over finite sets, of which sums and Collect are made.             *)
(* Induction, on a set of numbers.                                         *)
LEMMA Counting ==
  ASSUME NEW G \in SUBSET Nat, 0 \in G, \A n \in G : n + 1 \in G
  PROVE  G = Nat
<1>. SUFFICES ASSUME G # Nat PROVE FALSE
  OBVIOUS
<1>. DEFINE T == Nat \ G
<1>1. T \subseteq Nat /\ T # {}
  OBVIOUS
<1>2. PICK m \in T : \A k \in T : ~(<<k, m>> \in OpToRel(<, Nat))
  <2>. HIDE DEF T
  <2>. QED
    BY <1>1, NatLessThanWellFounded, WFMin
<1>3. m \in Nat /\ m # 0 /\ m - 1 \in Nat
  OBVIOUS
<1>4. m - 1 \in T
  BY <1>3
<1>5. <<m - 1, m>> \in OpToRel(<, Nat)
  BY <1>3 DEF OpToRel
<1>. QED
  BY <1>2, <1>4, <1>5

(* A function defined by recursion on the subsets of a finite set, as the  *)
(* folds of the community modules are: pick chooses the next element, take *)
(* takes it in.                                                            *)
Picks(pick, S) == \A s \in SUBSET S : s # {} => pick[s] \in s

StaysIn(take, S, V) == \A s \in SUBSET S, v \in V : s # {} => take[<<s, v>>] \in V

Recurs(h, S, base, pick, take) ==
  h = [s \in SUBSET S |-> IF s = {} THEN base ELSE take[<<s, h[s \ {pick[s]}]>>]]

LEMMA FoldExists ==
  ASSUME NEW S, IsFiniteSet(S), NEW V, NEW base \in V,
         NEW pick, Picks(pick, S), NEW take, StaysIn(take, S, V)
  PROVE  \E h \in [SUBSET S -> V] : Recurs(h, S, base, pick, take)
<1>. DEFINE Below(n) == {s \in SUBSET S : Cardinality(s) <= n}
            Good(h, n) ==
              h = [s \in Below(n) |-> IF s = {} THEN base ELSE take[<<s, h[s \ {pick[s]}]>>]]
            G == {n \in Nat : \E h \in [Below(n) -> V] : Good(h, n)}
<1>1. \A s \in SUBSET S : IsFiniteSet(s) /\ Cardinality(s) \in Nat
                          /\ Cardinality(s) <= Cardinality(S)
  BY FS_Subset, FS_CardinalityType
<1>2. \A s \in SUBSET S : s # {} => Cardinality(s \ {pick[s]}) = Cardinality(s) - 1
  BY <1>1, FS_RemoveElement DEF Picks
<1>3. 0 \in G
  <2>1. Below(0) = {{}}
    BY <1>1, FS_EmptySet
  <2>2. Good([s \in Below(0) |-> base], 0)
    BY <2>1
  <2>. QED
    BY <2>2
<1>4. \A n \in G : n + 1 \in G
  <2>. SUFFICES ASSUME NEW n \in G PROVE n + 1 \in G
    OBVIOUS
  <2>1. PICK h \in [Below(n) -> V] : Good(h, n)
    OBVIOUS
  <2>. DEFINE g == [s \in Below(n + 1) |->
                      IF s = {} THEN base ELSE take[<<s, h[s \ {pick[s]}]>>]]
  <2>2. \A s \in Below(n + 1) : s # {} => s \ {pick[s]} \in Below(n)
    BY <1>1, <1>2
  <2>3. g \in [Below(n + 1) -> V]
    BY <2>2 DEF StaysIn
  <2>4. \A s \in Below(n) : s \in Below(n + 1) /\ h[s] = g[s]
    <3>. SUFFICES ASSUME NEW s \in Below(n) PROVE s \in Below(n + 1) /\ h[s] = g[s]
      OBVIOUS
    <3>1. s \in Below(n + 1)
      BY <1>1
    <3>2. h[s] = IF s = {} THEN base ELSE take[<<s, h[s \ {pick[s]}]>>]
      BY <2>1, Zenon
    <3>. QED
      BY <3>1, <3>2
  <2>5. Good(g, n + 1)
    BY <2>2, <2>4
  <2>6. n + 1 \in Nat
    OBVIOUS
  <2>. QED
    BY <2>3, <2>5, <2>6, Zenon
<1>5. G = Nat
  <2>. HIDE DEF G
  <2>1. G \in SUBSET Nat
    BY DEF G
  <2>. QED
    BY <1>3, <1>4, <2>1, Counting
<1>6. Cardinality(S) \in G
  BY <1>1, <1>5
<1>7. Below(Cardinality(S)) = SUBSET S
  BY <1>1
<1>. QED
  BY <1>6, <1>7 DEF Recurs

(* Such a function has its values where they belong.                       *)
Follows(k, S, V, base, pick, take) ==
  /\ k = [s \in SUBSET S |-> k[s]]
  /\ k[{}] = base
  /\ \A s \in SUBSET S :
       s # {} /\ k[s \ {pick[s]}] \in V => k[s] = take[<<s, k[s \ {pick[s]}]>>]

LEMMA FoldTyped ==
  ASSUME NEW S, IsFiniteSet(S), NEW V, NEW base \in V,
         NEW pick, Picks(pick, S), NEW take, StaysIn(take, S, V),
         NEW k, Follows(k, S, V, base, pick, take)
  PROVE  k \in [SUBSET S -> V]
<1>. DEFINE G == {n \in Nat : \A s \in SUBSET S : Cardinality(s) = n => k[s] \in V}
<1>1. \A s \in SUBSET S : IsFiniteSet(s) /\ Cardinality(s) \in Nat
                          /\ (Cardinality(s) = 0 <=> s = {})
  BY FS_Subset, FS_CardinalityType, FS_EmptySet
<1>2. \A s \in SUBSET S : s # {} => Cardinality(s \ {pick[s]}) = Cardinality(s) - 1
  BY <1>1, FS_RemoveElement DEF Picks
<1>3. 0 \in G
  BY <1>1 DEF Follows
<1>4. \A n \in G : n + 1 \in G
  <2>. SUFFICES ASSUME NEW n \in G PROVE n + 1 \in G
    OBVIOUS
  <2>1. ASSUME NEW s \in SUBSET S, Cardinality(s) = n + 1
        PROVE  k[s] \in V
    <3>1. s # {}
      BY <1>1, <2>1
    <3>2. Cardinality(s \ {pick[s]}) = n
      BY <1>2, <2>1, <3>1
    <3>3. k[s \ {pick[s]}] \in V
      BY <3>2
    <3>. QED
      BY <3>1, <3>3 DEF Follows, StaysIn
  <2>. QED
    BY <2>1
<1>5. G = Nat
  <2>. HIDE DEF G
  <2>1. G \in SUBSET Nat
    BY DEF G
  <2>. QED
    BY <1>3, <1>4, <2>1, Counting
<1>6. \A s \in SUBSET S : k[s] \in V
  BY <1>1, <1>5
<1>. QED
  BY <1>6 DEF Follows

-----------------------------------------------------------------------------
(* Sums over finite sets.                                                  *)

Some(s) == CHOOSE x \in s : TRUE

Sums(f, S, h) ==
  /\ h \in [SUBSET S -> Int]
  /\ \A s \in SUBSET S : h[s] = IF s = {} THEN 0 ELSE f[Some(s)] + h[s \ {Some(s)}]

LEMMA SumFold ==
  ASSUME NEW S, IsFiniteSet(S), NEW f, \A x \in S : f[x] \in Int
  PROVE  \E h : Sums(f, S, h) /\ SumFunctionOnSet(f, S) = h[S]
<1>. DEFINE pick == [s \in SUBSET S |-> Some(s)]
            take == [p \in (SUBSET S) \X Int |-> f[Some(p[1])] + p[2]]
            Fold(h) == h = [s \in SUBSET S |->
                              IF s = {} THEN 0 ELSE f[Some(s)] + h[s \ {Some(s)}]]
<1>1. \A s \in SUBSET S : s # {} => Some(s) \in s
  BY DEF Some
<1>2. Picks(pick, S) /\ StaysIn(take, S, Int) /\ 0 \in Int
  BY <1>1 DEF Picks, StaysIn
<1>3. PICK h \in [SUBSET S -> Int] : Recurs(h, S, 0, pick, take)
  <2>. HIDE DEF pick, take
  <2>. QED
    BY <1>2, FoldExists, Zenon
<1>4. \A s \in SUBSET S : h[s] = IF s = {} THEN 0 ELSE f[Some(s)] + h[s \ {Some(s)}]
  BY <1>1, <1>3 DEF Recurs
<1>5. Fold(h)
  BY <1>4
<1>6. Fold(CHOOSE g : Fold(g))
  BY <1>5
<1>. DEFINE g == CHOOSE g : Fold(g)
<1>7. SumFunctionOnSet(f, S) = g[S]
  BY Zenon DEF SumFunctionOnSet, FoldFunctionOnSet, MapThenFoldSet, Some
<1>. HIDE DEF g
<1>8. \A s \in SUBSET S : g[s] = IF s = {} THEN 0 ELSE f[Some(s)] + g[s \ {Some(s)}]
  BY <1>6 DEF g
<1>9. Follows(g, S, Int, 0, pick, take)
  <2>1. g = [s \in SUBSET S |-> g[s]]
    BY <1>6 DEF g
  <2>. QED
    BY <1>8, <2>1 DEF Follows
<1>10. g \in [SUBSET S -> Int]
  <2>. HIDE DEF pick, take
  <2>. QED
    BY <1>2, <1>9, FoldTyped, Zenon
<1>. QED
  BY <1>7, <1>8, <1>10 DEF Sums

(* Whichever element is taken out first.                                   *)
LEMMA SumTake ==
  ASSUME NEW S, IsFiniteSet(S), NEW f, \A x \in S : f[x] \in Int, NEW h, Sums(f, S, h),
         NEW s \in SUBSET S, NEW x \in s
  PROVE  h[s] = f[x] + h[s \ {x}]
<1>. DEFINE Takes(t, y) == h[t] = f[y] + h[t \ {y}]
            G == {n \in Nat : \A t \in SUBSET S : Cardinality(t) = n => \A y \in t : Takes(t, y)}
<1>1. \A t \in SUBSET S : IsFiniteSet(t) /\ Cardinality(t) \in Nat
                          /\ (Cardinality(t) = 0 <=> t = {})
  BY FS_Subset, FS_CardinalityType, FS_EmptySet
<1>2. \A t \in SUBSET S : \A y \in t : Cardinality(t \ {y}) = Cardinality(t) - 1
  BY <1>1, FS_RemoveElement
<1>3. 0 \in G
  BY <1>1
<1>4. \A n \in G : n + 1 \in G
  <2>. SUFFICES ASSUME NEW n \in G PROVE n + 1 \in G
    OBVIOUS
  <2>1. ASSUME NEW t \in SUBSET S, Cardinality(t) = n + 1, NEW y \in t
        PROVE  Takes(t, y)
    <3>. DEFINE z == Some(t)
                u == t \ {y}
                w == t \ {z}
    <3>1. z \in t /\ h[t] = f[z] + h[w]
      BY DEF Some, Sums
    <3>2. CASE z = y
      BY <3>1, <3>2
    <3>3. CASE z # y
      <4>1. Cardinality(u) = n /\ Cardinality(w) = n /\ z \in u /\ y \in w
        BY <1>2, <2>1, <3>1, <3>3
      <4>2. h[u] = f[z] + h[u \ {z}] /\ h[w] = f[y] + h[w \ {y}]
        BY <4>1
      <4>3. u \ {z} = w \ {y} /\ u \ {z} \in SUBSET S
        OBVIOUS
      <4>4. f[y] \in Int /\ f[z] \in Int /\ h[u \ {z}] \in Int
        BY <3>1, <4>3 DEF Sums
      <4>. DEFINE rest == h[u \ {z}]
      <4>5. h[u] = f[z] + rest /\ h[w] = f[y] + rest
        BY <4>2, <4>3
      <4>. HIDE DEF z, u, w, rest
      <4>6. h[t] = f[y] + h[u]
        BY <3>1, <4>4, <4>5 DEF rest
      <4>. QED
        BY <4>6 DEF u
    <3>. QED
      BY <3>2, <3>3
  <2>. QED
    BY <2>1
<1>5. G = Nat
  <2>. HIDE DEF G
  <2>1. G \in SUBSET Nat
    BY DEF G
  <2>. QED
    BY <1>3, <1>4, <2>1, Counting
<1>. QED
  BY <1>1, <1>5

(* A sum goes by the values in the set alone.                              *)
LEMMA SumSame ==
  ASSUME NEW S, IsFiniteSet(S), NEW f, \A x \in S : f[x] \in Int, NEW h, Sums(f, S, h),
         NEW T, IsFiniteSet(T), NEW g, \A x \in T : g[x] \in Int, NEW k, Sums(g, T, k),
         \A x \in S \intersect T : f[x] = g[x]
  PROVE  \A s \in SUBSET (S \intersect T) : h[s] = k[s]
<1>. DEFINE G == {n \in Nat : \A s \in SUBSET (S \intersect T) : Cardinality(s) = n => h[s] = k[s]}
<1>1. \A s \in SUBSET (S \intersect T) :
        IsFiniteSet(s) /\ Cardinality(s) \in Nat /\ (Cardinality(s) = 0 <=> s = {})
  BY FS_Subset, FS_CardinalityType, FS_EmptySet
<1>2. \A s \in SUBSET (S \intersect T) : s # {} =>
        Some(s) \in s /\ Cardinality(s \ {Some(s)}) = Cardinality(s) - 1
  BY <1>1, FS_RemoveElement DEF Some
<1>3. 0 \in G
  BY <1>1 DEF Sums
<1>4. \A n \in G : n + 1 \in G
  <2>. SUFFICES ASSUME NEW n \in G PROVE n + 1 \in G
    OBVIOUS
  <2>1. ASSUME NEW s \in SUBSET (S \intersect T), Cardinality(s) = n + 1
        PROVE  h[s] = k[s]
    <3>1. s # {} /\ s \in SUBSET S /\ s \in SUBSET T
      BY <1>1, <2>1
    <3>2. Some(s) \in s /\ Cardinality(s \ {Some(s)}) = n
      BY <1>2, <2>1, <3>1
    <3>3. h[s \ {Some(s)}] = k[s \ {Some(s)}] /\ f[Some(s)] = g[Some(s)]
      BY <3>1, <3>2
    <3>4. h[s] = f[Some(s)] + h[s \ {Some(s)}] /\ k[s] = g[Some(s)] + k[s \ {Some(s)}]
      BY <3>1 DEF Sums
    <3>. QED
      BY <3>3, <3>4
  <2>. QED
    BY <2>1
<1>5. G = Nat
  <2>. HIDE DEF G
  <2>1. G \in SUBSET Nat
    BY DEF G
  <2>. QED
    BY <1>3, <1>4, <2>1, Counting
<1>. QED
  BY <1>1, <1>5

(* The three facts about a sum that are used.                              *)
LEMMA SumEmpty == \A f : SumFunctionOnSet(f, {}) = 0
<1>. TAKE f
<1>1. IsFiniteSet({}) /\ \A x \in {} : f[x] \in Int
  BY FS_EmptySet
<1>2. PICK h : Sums(f, {}, h) /\ SumFunctionOnSet(f, {}) = h[{}]
  BY <1>1, SumFold
<1>. QED
  BY <1>2 DEF Sums

LEMMA SumEqual ==
  ASSUME NEW S, IsFiniteSet(S), NEW f, NEW g, \A x \in S : f[x] \in Int /\ g[x] = f[x]
  PROVE  /\ SumFunctionOnSet(f, S) \in Int
         /\ SumFunctionOnSet(f, S) = SumFunctionOnSet(g, S)
<1>1. PICK h : Sums(f, S, h) /\ SumFunctionOnSet(f, S) = h[S]
  BY SumFold
<1>2. PICK k : Sums(g, S, k) /\ SumFunctionOnSet(g, S) = k[S]
  BY SumFold
<1>3. h[S] = k[S]
  BY <1>1, <1>2, SumSame
<1>. QED
  BY <1>1, <1>2, <1>3 DEF Sums

LEMMA SumAdd ==
  ASSUME NEW S, IsFiniteSet(S), NEW y, y \notin S,
         NEW f, NEW g, \A x \in S : f[x] \in Int /\ g[x] = f[x], g[y] \in Int
  PROVE  SumFunctionOnSet(g, S \union {y}) = SumFunctionOnSet(f, S) + g[y]
<1>. DEFINE T == S \union {y}
<1>1. IsFiniteSet(T) /\ \A x \in T : g[x] \in Int
  BY FS_AddElement
<1>2. PICK h : Sums(f, S, h) /\ SumFunctionOnSet(f, S) = h[S]
  BY SumFold
<1>3. PICK k : Sums(g, T, k) /\ SumFunctionOnSet(g, T) = k[T]
  BY <1>1, SumFold
<1>4. k[T] = g[y] + k[S]
  <2>1. T \ {y} = S /\ y \in T
    OBVIOUS
  <2>2. k[T] = g[y] + k[T \ {y}]
    <3>. HIDE DEF T
    <3>. QED
      BY <1>1, <1>3, <2>1, SumTake
  <2>. QED
    BY <2>1, <2>2
<1>5. h[S] = k[S] /\ h[S] \in Int
  <2>1. S \in SUBSET (S \intersect T) /\ \A x \in S \intersect T : f[x] = g[x]
    OBVIOUS
  <2>2. \A s \in SUBSET (S \intersect T) : h[s] = k[s]
    <3>. HIDE DEF T
    <3>. QED
      BY <1>1, <1>2, <1>3, <2>1, SumSame
  <2>. QED
    BY <1>2, <2>1, <2>2 DEF Sums
<1>. QED
  BY <1>2, <1>3, <1>4, <1>5

-----------------------------------------------------------------------------
(* Collect.                                                                *)

LEMMA HasGreatest ==
  ASSUME NEW n \in Nat, NEW T \in SUBSET (0..n), T # {}
  PROVE  /\ Max(T) \in T
         /\ \A x \in T : x <= Max(T)
<1>. DEFINE G == {m \in Nat : \A U \in SUBSET (0..m) : U # {} => \E y \in U : \A x \in U : x <= y}
<1>1. 0 \in G
  <2>1. \A x \in 0..0 : x = 0
    OBVIOUS
  <2>2. ASSUME NEW U \in SUBSET (0..0), U # {}
        PROVE  \E y \in U : \A x \in U : x <= y
    <3>1. PICK y \in U : TRUE
      BY <2>2
    <3>2. y = 0 /\ \A x \in U : x = 0
      BY <2>1
    <3>3. \A x \in U : x <= y
      BY <3>2
    <3>. QED
      BY <3>3
  <2>. QED
    BY <2>2
<1>2. \A m \in G : m + 1 \in G
  <2>. SUFFICES ASSUME NEW m \in G PROVE m + 1 \in G
    OBVIOUS
  <2>1. ASSUME NEW U \in SUBSET (0..m + 1), U # {}
        PROVE  \E y \in U : \A x \in U : x <= y
    <3>1. CASE m + 1 \in U
      BY <2>1, <3>1
    <3>2. CASE m + 1 \notin U
      <4>1. U \in SUBSET (0..m)
        BY <2>1, <3>2
      <4>. QED
        BY <2>1, <4>1
    <3>. QED
      BY <3>1, <3>2
  <2>. QED
    BY <2>1
<1>3. G = Nat
  <2>. HIDE DEF G
  <2>1. G \in SUBSET Nat
    BY DEF G
  <2>. QED
    BY <1>1, <1>2, <2>1, Counting
<1>4. \E y \in T : \A x \in T : y >= x
  BY <1>3
<1>5. Max(T) \in T /\ \A x \in T : Max(T) >= x
  BY <1>4 DEF Max
<1>. QED
  BY <1>5

(* Max, of a set whose greatest element is known.                          *)
LEMMA GreatestIsMax ==
  ASSUME NEW S \in SUBSET Int, NEW m \in S, \A x \in S : x <= m
  PROVE  Max(S) = m
<1>1. m \in S /\ \A y \in S : m >= y
  OBVIOUS
<1>2. \A x \in S : (\A y \in S : x >= y) => x = m
  <2>. SUFFICES ASSUME NEW x \in S, \A y \in S : x >= y PROVE x = m
    OBVIOUS
  <2>1. x <= m /\ m <= x /\ x \in Int /\ m \in Int
    OBVIOUS
  <2>. QED
    BY <2>1
<1>. QED
  BY <1>1, <1>2 DEF Max

(* What is collected of the first k elements.                              *)
Collects(s, places, V, c) ==
  /\ c \in [0..Len(s) -> Seq(V)]
  /\ c[0] = << >>
  /\ \A k \in 1..Len(s) : c[k] = IF k \in places THEN Append(c[k - 1], s[k]) ELSE c[k - 1]

LEMMA CollectFold ==
  ASSUME NEW V, NEW s \in Seq(V), NEW places
  PROVE  \E c : Collects(s, places, V, c) /\ Collect(s, places) = c[Len(s)]
<1>. DEFINE n == Len(s)
            S == 1..n
            W == Seq(V)
            idx == [i \in DOMAIN s |-> i]
            Takes(i, found) == IF i \in places THEN Append(found, s[i]) ELSE found
            pick == [t \in SUBSET S |-> Max(t)]
            take == [p \in (SUBSET S) \X W |-> Takes(Max(p[1]), p[2])]
            Fold(h) == h = [t \in SUBSET DOMAIN idx |->
                              IF t = {} THEN << >> ELSE Takes(idx[Max(t)], h[t \ {Max(t)}])]
<1>1. n \in Nat /\ DOMAIN s = S /\ \A i \in S : s[i] \in V
  BY LenProperties, ElementOfSeq
<1>2. IsFiniteSet(S) /\ DOMAIN idx = S /\ \A i \in S : idx[i] = i
  BY <1>1, FS_Interval
<1>3. \A t \in SUBSET S : t # {} => Max(t) \in t
  <2>1. \A t \in SUBSET S : t \in SUBSET (0..n)
    BY <1>1
  <2>. HIDE DEF S
  <2>. QED
    BY <1>1, <2>1, HasGreatest
<1>4. \A i \in S, w \in W : Takes(i, w) \in W
  BY <1>1
<1>5. Picks(pick, S) /\ StaysIn(take, S, W) /\ << >> \in W
  <2>1. Picks(pick, S)
    BY <1>3 DEF Picks
  <2>2. StaysIn(take, S, W)
    <3>. HIDE DEF Takes, S, W
    <3>. QED
      BY <1>3, <1>4 DEF StaysIn
  <2>. QED
    BY <2>1, <2>2
<1>6. PICK h \in [SUBSET S -> W] : Recurs(h, S, << >>, pick, take)
  <2>. HIDE DEF pick, take, S, W
  <2>. QED
    BY <1>2, <1>5, FoldExists, Zenon
<1>7. Fold(h)
  <2>1. \A t \in SUBSET S : h[t] = IF t = {} THEN << >> ELSE Takes(idx[Max(t)], h[t \ {Max(t)}])
    <3>. HIDE DEF Takes, S, W, idx
    <3>. QED
      BY <1>2, <1>3, <1>6 DEF Recurs
  <2>. HIDE DEF Takes, S, W, idx
  <2>. QED
    BY <1>2, <2>1
<1>8. Fold(CHOOSE g : Fold(g))
  BY <1>7, Zenon
<1>. DEFINE g == CHOOSE g : Fold(g)
<1>9. Collect(s, places) = g[DOMAIN idx]
  BY Zenon DEF Collect, FoldLeftDomain, FoldLeft, MapThenFoldSet
<1>. HIDE DEF g
<1>10. Fold(g)
  BY <1>8 DEF g
<1>11. \A t \in SUBSET S : g[t] = IF t = {} THEN << >> ELSE Takes(Max(t), g[t \ {Max(t)}])
  <2>. HIDE DEF Takes, S, idx
  <2>. QED
    BY <1>2, <1>3, <1>10
<1>12. g \in [SUBSET S -> W]
  <2>1. Follows(g, S, W, << >>, pick, take)
    <3>1. g = [t \in SUBSET S |-> g[t]]
      <4>. HIDE DEF Takes, S, idx
      <4>. QED
        BY <1>2, <1>10
    <3>2. \A t \in SUBSET S : t # {} /\ g[t \ {pick[t]}] \in W => g[t] = take[<<t, g[t \ {pick[t]}]>>]
      <4>. HIDE DEF Takes, S, W, idx
      <4>. QED
        BY <1>11
    <3>. QED
      BY <1>11, <3>1, <3>2 DEF Follows
  <2>. HIDE DEF pick, take, S, W
  <2>. QED
    BY <1>2, <1>5, <2>1, FoldTyped, Zenon
<1>. DEFINE c == [k \in 0..n |-> g[1..k]]
<1>13. Collects(s, places, V, c)
  <2>1. \A k \in 0..n : 1..k \in SUBSET S
    BY <1>1
  <2>2. c \in [0..n -> W] /\ c[0] = << >>
    <3>1. 1..0 = {} /\ 0 \in 0..n
      BY <1>1
    <3>2. \A k \in 0..n : g[1..k] \in W
      BY <1>12, <2>1
    <3>3. g[1..0] = << >>
      BY <1>11, <3>1
    <3>. QED
      BY <3>1, <3>2, <3>3
  <2>3. ASSUME NEW k \in 1..n PROVE c[k] = Takes(k, c[k - 1])
    <3>1. Max(1..k) = k
      <4>1. (1..k) \in SUBSET Int /\ k \in 1..k /\ \A x \in 1..k : x <= k
        BY <1>1
      <4>. QED
        BY <4>1, GreatestIsMax
    <3>2. (1..k) \ {k} = 1..(k - 1) /\ (1..k) # {} /\ k \in 0..n /\ k - 1 \in 0..n
      <4>1. k \in Nat /\ 1 <= k /\ k <= n
        BY <1>1
      <4>2. \A x : x \in (1..k) \ {k} <=> x \in 1..(k - 1)
        BY <4>1
      <4>. QED
        BY <1>1, <4>1, <4>2
    <3>3. g[1..k] = Takes(k, g[1..k - 1])
      BY <1>11, <2>1, <3>1, <3>2
    <3>. QED
      BY <3>2, <3>3
  <2>. QED
    BY <2>2, <2>3 DEF Collects
<1>14. c[n] = g[DOMAIN idx]
  BY <1>1, <1>2
<1>. QED
  BY <1>9, <1>13, <1>14

(* Everything that is collected stands at one of the places, and whatever  *)
(* stands there is collected.                                              *)
LEMMA Collected ==
  ASSUME NEW V, NEW s \in Seq(V), NEW places \in SUBSET (1..Len(s))
  PROVE  /\ Collect(s, places) \in Seq(V)
         /\ \A j \in 1..Len(Collect(s, places)) : \E i \in places : Collect(s, places)[j] = s[i]
         /\ \A i \in places : \E j \in 1..Len(Collect(s, places)) : Collect(s, places)[j] = s[i]
<1>1. PICK c : Collects(s, places, V, c) /\ Collect(s, places) = c[Len(s)]
  BY CollectFold
<1>2. Len(s) \in Nat /\ \A i \in 1..Len(s) : s[i] \in V
  BY LenProperties, ElementOfSeq
<1>. DEFINE Sound(k)    == \A j \in 1..Len(c[k]) : \E i \in places : c[k][j] = s[i]
            Complete(k) == \A i \in places : i <= k => \E j \in 1..Len(c[k]) : c[k][j] = s[i]
            G == {k \in Nat : k <= Len(s) => Sound(k) /\ Complete(k)}
<1>3. 0 \in G
  <2>1. c[0] = << >> /\ Len(<< >>) = 0
    BY <1>1, EmptySeq DEF Collects
  <2>. QED
    BY <1>2, <2>1
<1>4. \A k \in G : k + 1 \in G
  <2>. SUFFICES ASSUME NEW k \in Nat, k + 1 <= Len(s), Sound(k), Complete(k)
                PROVE  Sound(k + 1) /\ Complete(k + 1)
    <3>. HIDE DEF Sound, Complete
    <3>1. \A k \in Nat : k + 1 \in Nat /\ (k + 1 <= Len(s) => k <= Len(s))
      BY <1>2
    <3>. QED
      BY <3>1
  <2>1. k \in 0..Len(s) /\ k + 1 \in 1..Len(s) /\ (k + 1) - 1 = k
    BY <1>2
  <2>2. /\ c[k] \in Seq(V) /\ s[k + 1] \in V
        /\ c[k + 1] = IF k + 1 \in places THEN Append(c[k], s[k + 1]) ELSE c[k]
    BY <1>1, <1>2, <2>1 DEF Collects
  <2>3. CASE k + 1 \in places
    <3>1. /\ Len(c[k + 1]) = Len(c[k]) + 1 /\ Len(c[k]) \in Nat
          /\ c[k + 1][Len(c[k]) + 1] = s[k + 1]
          /\ \A j \in 1..Len(c[k]) : c[k + 1][j] = c[k][j]
      BY <2>2, <2>3, AppendProperties, LenProperties
    <3>2. \A j \in 1..Len(c[k + 1]) : j \in 1..Len(c[k]) \/ j = Len(c[k]) + 1
      BY <3>1
    <3>3. Sound(k + 1)
      BY <2>3, <3>1, <3>2
    <3>4. Complete(k + 1)
      <4>. SUFFICES ASSUME NEW i \in places, i <= k + 1
                    PROVE  \E j \in 1..Len(c[k + 1]) : c[k + 1][j] = s[i]
        OBVIOUS
      <4>1. i <= k \/ i = k + 1
        BY <1>2
      <4>2. \A j \in 1..Len(c[k]) : j \in 1..Len(c[k + 1])
        BY <3>1
      <4>3. Len(c[k]) + 1 \in 1..Len(c[k + 1])
        BY <3>1
      <4>. QED
        BY <3>1, <4>1, <4>2, <4>3
    <3>. QED
      BY <3>3, <3>4
  <2>4. CASE k + 1 \notin places
    <3>1. c[k + 1] = c[k]
      BY <2>2, <2>4
    <3>2. \A i \in places : i <= k + 1 => i <= k
      BY <1>2, <2>4
    <3>. QED
      BY <3>1, <3>2
  <2>. QED
    BY <2>3, <2>4
<1>5. G = Nat
  <2>. HIDE DEF G
  <2>1. G \in SUBSET Nat
    BY DEF G
  <2>. QED
    BY <1>3, <1>4, <2>1, Counting
<1>6. Sound(Len(s)) /\ Complete(Len(s)) /\ \A i \in places : i <= Len(s)
  <2>1. Len(s) \in G /\ Len(s) <= Len(s)
    BY <1>2, <1>5
  <2>. QED
    BY <1>2, <2>1
<1>7. c[Len(s)] \in Seq(V)
  BY <1>1, <1>2 DEF Collects
<1>. QED
  BY <1>1, <1>6, <1>7

-----------------------------------------------------------------------------
(* The first n places of a set.                                            *)

Upto(A, n) == {i \in A : i <= n}

LEMMA Segment == \A n \in Nat : IsFiniteSet(1..n) /\ Cardinality(1..n) = n
<1>. TAKE n \in Nat
<1>1. IsFiniteSet(1..n) /\ Cardinality(1..n) = IF 1 > n THEN 0 ELSE n - 1 + 1
  BY FS_Interval
<1>2. (IF 1 > n THEN 0 ELSE n - 1 + 1) = n
  OBVIOUS
<1>. QED
  BY <1>1, <1>2

LEMMA UptoEnds ==
  ASSUME NEW N \in Nat, NEW A \in SUBSET (1..N)
  PROVE  Upto(A, 0) = {} /\ Upto(A, N) = A
<1>1. \A i \in A : ~(i <= 0) /\ i <= N
  OBVIOUS
<1>. QED
  BY <1>1 DEF Upto

LEMMA UptoGrows ==
  ASSUME NEW N \in Nat, NEW A \in SUBSET (1..N), NEW n \in Nat, NEW y, y = n + 1
  PROVE  /\ IsFiniteSet(Upto(A, n)) /\ Cardinality(Upto(A, n)) \in Nat
         /\ y \notin Upto(A, n)
         /\ y \notin A => Upto(A, y) = Upto(A, n)
         /\ y \in A => /\ Upto(A, y) = Upto(A, n) \union {y}
                       /\ Cardinality(Upto(A, y)) = Cardinality(Upto(A, n)) + 1
<1>1. IsFiniteSet(Upto(A, n)) /\ Cardinality(Upto(A, n)) \in Nat
  <2>1. IsFiniteSet(1..N) /\ Upto(A, n) \in SUBSET (1..N)
    BY Segment DEF Upto
  <2>. QED
    BY <2>1, FS_Subset, FS_CardinalityType
<1>2. y \notin Upto(A, n) /\ \A i \in A : i <= y <=> i <= n \/ i = y
  BY DEF Upto
<1>3. y \notin A => Upto(A, y) = Upto(A, n)
  BY <1>2 DEF Upto
<1>4. y \in A => Upto(A, y) = Upto(A, n) \union {y}
  BY <1>2 DEF Upto
<1>5. Cardinality(Upto(A, n) \union {y}) = Cardinality(Upto(A, n)) + 1
  BY <1>1, <1>2, FS_AddElement
<1>. QED
  BY <1>1, <1>2, <1>3, <1>4, <1>5

-----------------------------------------------------------------------------
(* parse_cgroup.                                                           *)

(* What is kept of the lines read so far: none was unified; v1 is the path *)
(* of the first legacy one and error the first malformed one.              *)
Skimmed ==
  file = "cgroup" /\ result = "none" =>
    /\ \A i \in 1..at : ~Unified(text[i])
    /\ cgroup.v1 = NoPath => \A i \in 1..at : ~Legacy(text[i])
    /\ cgroup.v1 # NoPath =>
         \E i \in 1..at : /\ Legacy(text[i]) /\ cgroup.v1 = text[i].path
                          /\ \A j \in 1..i - 1 : ~Legacy(text[j])
    /\ cgroup.error = 0 <=> \A i \in 1..at : Legacy(text[i])
    /\ cgroup.path = NoPath

CgroupTypeOK ==
  file = "cgroup" =>
    /\ text \in Content["cgroup"]
    /\ at \in 0..Len(text)
    /\ cgroup = [v1 |-> cgroup.v1, error |-> cgroup.error, path |-> cgroup.path]

CgroupInv == CgroupTypeOK /\ Skimmed /\ CgroupChoice

LEMMA CgroupLines ==
  file = "cgroup" /\ CgroupTypeOK =>
    /\ Len(text) \in Nat /\ DOMAIN text = 1..Len(text)
    /\ \A i \in 1..Len(text) : text[i].path # NoPath
  BY LinesAssumption, PathAssumption DEF CgroupTypeOK

(* Min, of a set whose least element is known. *)
LEMMA LeastIsMin ==
  ASSUME NEW S \in SUBSET Int, NEW m \in S, \A x \in S : m <= x
  PROVE  Min(S) = m
<1>1. m \in S /\ \A y \in S : m <= y
  OBVIOUS
<1>2. \A x \in S : (\A y \in S : x <= y) => x = m
  <2>. SUFFICES ASSUME NEW x \in S, \A y \in S : x <= y PROVE x = m
    OBVIOUS
  <2>1. x <= m /\ m <= x /\ x \in Int /\ m \in Int
    OBVIOUS
  <2>. QED
    BY <2>1
<1>. QED
  BY <1>1, <1>2 DEF Min

LEMMA CgroupInit == Init => CgroupInv
<1>. SUFFICES ASSUME Init PROVE CgroupInv
  OBVIOUS
<1>1. CgroupTypeOK
  <2>. SUFFICES ASSUME file = "cgroup" PROVE CgroupTypeOK
    BY DEF CgroupTypeOK
  <2>1. text \in Content["cgroup"] /\ at = 0
    BY DEF Init
  <2>2. Len(text) \in Nat
    BY <2>1, LinesAssumption
  <2>3. cgroup = [v1 |-> NoPath, error |-> 0, path |-> NoPath]
    BY DEF Init
  <2>4. cgroup = [v1 |-> cgroup.v1, error |-> cgroup.error, path |-> cgroup.path]
    BY <2>3
  <2>. QED
    BY <2>1, <2>2, <2>4 DEF CgroupTypeOK
<1>2. Skimmed
  BY DEF Init, Skimmed
<1>3. CgroupChoice
  BY DEF Init, CgroupChoice
<1>. QED
  BY <1>1, <1>2, <1>3 DEF CgroupInv

(* A step of another parser, and none at all.                              *)
LEMMA OthersKeep ==
  ASSUME CgroupInv, UNCHANGED <<file, text>>,
         file # "cgroup" \/ UNCHANGED <<at, result, cgroup>>
  PROVE  CgroupInv'
<1>1. CASE file # "cgroup"
  BY <1>1 DEF CgroupInv, CgroupTypeOK, Skimmed, CgroupChoice
<1>2. CASE UNCHANGED <<at, result, cgroup>>
  <2>1. CgroupTypeOK' /\ Skimmed'
    BY <1>2 DEF CgroupInv, CgroupTypeOK, Skimmed
  <2>2. CgroupChoice'
    BY <1>2 DEF CgroupInv, CgroupChoice, FirstOf
  <2>. QED
    BY <2>1, <2>2 DEF CgroupInv
<1>. QED
  BY <1>1, <1>2

(* A line that is not the unified one is passed.                           *)
LEMMA LinePassed ==
  ASSUME CgroupInv, CgroupLegacy \/ CgroupMalformed
  PROVE  CgroupInv'
<1>. CgroupTypeOK /\ Skimmed /\ CgroupChoice
  BY DEF CgroupInv
<1>1. /\ file = "cgroup" /\ result = "none" /\ at < Len(text) /\ at' = at + 1
      /\ file' = file /\ text' = text /\ result' = result
  BY DEF CgroupLegacy, CgroupMalformed, Round, Goes
<1>2. /\ at \in Nat /\ Len(text) \in Nat
      /\ cgroup = [v1 |-> cgroup.v1, error |-> cgroup.error, path |-> cgroup.path]
      /\ text[at + 1].path # NoPath
  BY <1>1, CgroupLines DEF CgroupTypeOK
<1>3. ~Unified(text[at + 1])
  BY DEF CgroupLegacy, CgroupMalformed, Line, Unified, Legacy
<1>4. \A i \in 1..at' : i \in 1..at \/ i = at + 1
  BY <1>1, <1>2
<1>5. \A i \in 1..at' : ~Unified(text'[i])
  BY <1>1, <1>3, <1>4 DEF Skimmed
<1>6. CASE CgroupLegacy
  <2>1. Legacy(text[at + 1])
    BY <1>6 DEF CgroupLegacy, Line
  <2>2. cgroup' = IF cgroup.v1 = NoPath THEN [cgroup EXCEPT !.v1 = text[at + 1].path] ELSE cgroup
    BY <1>6 DEF CgroupLegacy, Line
  <2>3. /\ cgroup'.error = cgroup.error /\ cgroup'.path = cgroup.path
        /\ cgroup'.v1 = IF cgroup.v1 = NoPath THEN text[at + 1].path ELSE cgroup.v1
        /\ cgroup' = [v1 |-> cgroup'.v1, error |-> cgroup'.error, path |-> cgroup'.path]
    BY <1>2, <2>2
  <2>4. CgroupTypeOK'
    BY <1>1, <1>2, <2>3 DEF CgroupTypeOK
  <2>5. cgroup'.v1 # NoPath
    BY <1>2, <2>3
  <2>6. \E i \in 1..at' : /\ Legacy(text[i]) /\ cgroup'.v1 = text[i].path
                          /\ \A j \in 1..i - 1 : ~Legacy(text[j])
    <3>1. CASE cgroup.v1 = NoPath
      <4>1. \A j \in 1..(at + 1) - 1 : ~Legacy(text[j])
        BY <1>1, <1>2, <3>1 DEF Skimmed
      <4>2. at + 1 \in 1..at'
        BY <1>1, <1>2
      <4>. QED
        BY <2>1, <2>3, <3>1, <4>1, <4>2
    <3>2. CASE cgroup.v1 # NoPath
      <4>1. PICK i \in 1..at : /\ Legacy(text[i]) /\ cgroup.v1 = text[i].path
                               /\ \A j \in 1..i - 1 : ~Legacy(text[j])
        BY <1>1, <3>2 DEF Skimmed
      <4>2. i \in 1..at'
        BY <1>1, <1>2
      <4>. QED
        BY <2>3, <3>2, <4>1, <4>2
    <3>. QED
      BY <3>1, <3>2
  <2>7. cgroup'.error = 0 <=> \A i \in 1..at' : Legacy(text[i])
    <3>1. cgroup.error = 0 <=> \A i \in 1..at : Legacy(text[i])
      BY <1>1 DEF Skimmed
    <3>2. \A i \in 1..at : i \in 1..at'
      BY <1>1, <1>2
    <3>. QED
      BY <1>4, <2>1, <2>3, <3>1, <3>2
  <2>8. Skimmed'
    BY <1>1, <1>5, <2>3, <2>5, <2>6, <2>7 DEF Skimmed
  <2>9. CgroupChoice'
    BY <1>1 DEF CgroupChoice
  <2>. QED
    BY <2>4, <2>8, <2>9 DEF CgroupInv
<1>7. CASE CgroupMalformed
  <2>1. ~Legacy(text[at + 1])
    BY <1>7 DEF CgroupMalformed, Line
  <2>2. cgroup' = IF cgroup.error = 0 THEN [cgroup EXCEPT !.error = at + 1] ELSE cgroup
    BY <1>7 DEF CgroupMalformed
  <2>3. /\ cgroup'.v1 = cgroup.v1 /\ cgroup'.path = cgroup.path
        /\ cgroup'.error = IF cgroup.error = 0 THEN at + 1 ELSE cgroup.error
        /\ cgroup' = [v1 |-> cgroup'.v1, error |-> cgroup'.error, path |-> cgroup'.path]
    BY <1>2, <2>2
  <2>4. CgroupTypeOK'
    BY <1>1, <1>2, <2>3 DEF CgroupTypeOK
  <2>5. cgroup'.v1 = NoPath => \A i \in 1..at' : ~Legacy(text[i])
    BY <1>1, <1>4, <2>1, <2>3 DEF Skimmed
  <2>6. ASSUME cgroup'.v1 # NoPath
        PROVE  \E i \in 1..at' : /\ Legacy(text[i]) /\ cgroup'.v1 = text[i].path
                                 /\ \A j \in 1..i - 1 : ~Legacy(text[j])
    <3>1. PICK i \in 1..at : /\ Legacy(text[i]) /\ cgroup.v1 = text[i].path
                             /\ \A j \in 1..i - 1 : ~Legacy(text[j])
      BY <1>1, <2>3, <2>6 DEF Skimmed
    <3>2. i \in 1..at'
      BY <1>1, <1>2
    <3>. QED
      BY <2>3, <3>1, <3>2
  <2>7. cgroup'.error # 0 /\ at + 1 \in 1..at'
    BY <1>1, <1>2, <2>3
  <2>8. Skimmed'
    BY <1>1, <1>5, <2>1, <2>3, <2>5, <2>6, <2>7 DEF Skimmed
  <2>9. CgroupChoice'
    BY <1>1 DEF CgroupChoice
  <2>. QED
    BY <2>4, <2>8, <2>9 DEF CgroupInv
<1>. QED
  BY <1>6, <1>7

(* The unified line comes: it is the first of them.                        *)
LEMMA UnifiedTaken ==
  ASSUME CgroupInv, CgroupUnified
  PROVE  CgroupInv'
<1>. CgroupTypeOK /\ Skimmed /\ CgroupChoice
  BY DEF CgroupInv
<1>1. /\ file = "cgroup" /\ result = "none" /\ at < Len(text) /\ at' = at + 1
      /\ file' = file /\ text' = text /\ result' = "ok"
      /\ Unified(text[at + 1]) /\ cgroup' = [cgroup EXCEPT !.path = text[at + 1].path]
  BY DEF CgroupUnified, Round, Returns, Line
<1>2. /\ at \in Nat /\ Len(text) \in Nat /\ DOMAIN text = 1..Len(text)
      /\ cgroup = [v1 |-> cgroup.v1, error |-> cgroup.error, path |-> cgroup.path]
  BY <1>1, CgroupLines DEF CgroupTypeOK
<1>3. /\ cgroup' = [v1 |-> cgroup'.v1, error |-> cgroup'.error, path |-> cgroup'.path]
      /\ cgroup'.path = text[at + 1].path
  BY <1>1, <1>2
<1>4. CgroupTypeOK'
  BY <1>1, <1>2, <1>3 DEF CgroupTypeOK
<1>5. Skimmed'
  BY <1>1 DEF Skimmed
<1>. DEFINE U == {i \in DOMAIN text : Unified(text[i])}
<1>6. U \in SUBSET Int /\ at + 1 \in U
  BY <1>1, <1>2
<1>7. \A i \in U : at + 1 <= i
  <2>. SUFFICES ASSUME NEW i \in U PROVE at + 1 <= i
    OBVIOUS
  <2>1. i \notin 1..at /\ i \in 1..Len(text)
    BY <1>1, <1>2 DEF Skimmed
  <2>. QED
    BY <1>2, <2>1
<1>8. FirstOf(U)' = text[at + 1].path
  <2>. HIDE DEF U
  <2>1. Min(U) = at + 1
    BY <1>6, <1>7, LeastIsMin
  <2>2. U' = U
    BY <1>1 DEF U
  <2>. QED
    BY <1>1, <2>1, <2>2 DEF FirstOf
<1>9. CgroupChoice'
  BY <1>1, <1>3, <1>6, <1>8 DEF CgroupChoice
<1>. QED
  BY <1>4, <1>5, <1>9 DEF CgroupInv

(* No unified line has come: the first legacy one, or the error, or none.  *)
LEMMA EndReached ==
  ASSUME CgroupInv, CgroupEnd
  PROVE  CgroupInv'
<1>. CgroupTypeOK /\ Skimmed /\ CgroupChoice
  BY DEF CgroupInv
<1>1. /\ file = "cgroup" /\ result = "none" /\ at = Len(text)
      /\ file' = file /\ text' = text /\ at' = at /\ result' \in {"ok", "error"}
  BY DEF CgroupEnd, Done, Returns
<1>2. /\ Len(text) \in Nat /\ DOMAIN text = 1..Len(text)
      /\ cgroup = [v1 |-> cgroup.v1, error |-> cgroup.error, path |-> cgroup.path]
  BY <1>1, CgroupLines DEF CgroupTypeOK
<1>3. /\ cgroup' = [v1 |-> cgroup'.v1, error |-> cgroup'.error, path |-> cgroup'.path]
      /\ cgroup'.path = IF cgroup.v1 # NoPath THEN cgroup.v1 ELSE cgroup.path
      /\ result' = IF cgroup.v1 # NoPath \/ cgroup.error = 0 THEN "ok" ELSE "error"
  BY <1>2 DEF CgroupEnd, Returns
<1>4. CgroupTypeOK'
  BY <1>1, <1>3 DEF CgroupTypeOK
<1>5. Skimmed'
  BY <1>1 DEF Skimmed
<1>6. /\ \A i \in DOMAIN text : ~Unified(text[i])
      /\ cgroup.path = NoPath
      /\ cgroup.error = 0 <=> \A i \in DOMAIN text : Legacy(text[i])
      /\ cgroup.v1 = NoPath => \A i \in DOMAIN text : ~Legacy(text[i])
  BY <1>1, <1>2 DEF Skimmed
<1>. DEFINE G == {i \in DOMAIN text : Legacy(text[i])}
<1>7. G # {} => result' = "ok" /\ cgroup'.path = FirstOf(G)
  <2>. SUFFICES ASSUME G # {} PROVE result' = "ok" /\ cgroup'.path = FirstOf(G)
    OBVIOUS
  <2>1. cgroup.v1 # NoPath
    BY <1>6
  <2>2. PICK i \in 1..at : /\ Legacy(text[i]) /\ cgroup.v1 = text[i].path
                           /\ \A j \in 1..i - 1 : ~Legacy(text[j])
    BY <1>1, <2>1 DEF Skimmed
  <2>3. G \in SUBSET Int /\ i \in G
    BY <1>1, <1>2, <2>2
  <2>4. \A k \in G : i <= k
    <3>. SUFFICES ASSUME NEW k \in G PROVE i <= k
      OBVIOUS
    <3>1. k \in 1..Len(text) /\ k \notin 1..i - 1
      BY <1>2, <2>2
    <3>. QED
      BY <3>1
  <2>. HIDE DEF G
  <2>5. Min(G) = i
    BY <2>3, <2>4, LeastIsMin
  <2>. QED
    BY <1>3, <2>1, <2>2, <2>5 DEF FirstOf
<1>8. G = {} => /\ cgroup'.path = NoPath
                /\ result' = IF text = << >> THEN "ok" ELSE "error"
  <2>. SUFFICES ASSUME G = {}
                PROVE  /\ cgroup'.path = NoPath
                       /\ result' = IF text = << >> THEN "ok" ELSE "error"
    OBVIOUS
  <2>1. \A i \in DOMAIN text : ~Legacy(text[i])
    OBVIOUS
  <2>2. cgroup.v1 = NoPath
    <3>. SUFFICES ASSUME cgroup.v1 # NoPath PROVE FALSE
      OBVIOUS
    <3>1. PICK i \in 1..at : Legacy(text[i])
      BY <1>1 DEF Skimmed
    <3>. QED
      BY <1>1, <1>2, <2>1, <3>1
  <2>3. cgroup.error = 0 <=> DOMAIN text = {}
    BY <1>6, <2>1
  <2>4. text = << >> <=> DOMAIN text = {}
    BY <1>2
  <2>. QED
    BY <1>3, <1>6, <2>2, <2>3, <2>4
<1>9. CgroupChoice'
  <2>1. {i \in DOMAIN text : Unified(text[i])} = {}
    BY <1>6
  <2>2. FirstOf(G)' = FirstOf(G)
    BY <1>1 DEF FirstOf
  <2>. QED
    BY <1>1, <1>7, <1>8, <2>1, <2>2 DEF CgroupChoice
<1>. QED
  BY <1>4, <1>5, <1>9 DEF CgroupInv

LEMMA CgroupStays == CgroupInv /\ [Next]_vars => CgroupInv'
<1>. SUFFICES ASSUME CgroupInv, [Next]_vars PROVE CgroupInv'
  OBVIOUS
<1>1. CASE CgroupLegacy \/ CgroupMalformed
  BY <1>1, LinePassed
<1>2. CASE CgroupUnified
  BY <1>2, UnifiedTaken
<1>3. CASE CgroupEnd
  BY <1>3, EndReached
<1>4. CASE ParseStat \/ ReadFlat
  BY <1>4, OthersKeep DEF ParseStat, ReadFlat
<1>5. CASE SystemCpuLine \/ StatusLine \/ StackLine \/ MapsLine
  BY <1>5, OthersKeep DEF SystemCpuLine, StatusLine, StackLine, MapsLine, Round
<1>6. CASE SystemCpuEnd \/ StatusEnd \/ StackEnd \/ MapsEnd
  BY <1>6, OthersKeep DEF SystemCpuEnd, StatusEnd, StackEnd, MapsEnd, Done
<1>7. CASE UNCHANGED vars
  BY <1>7, OthersKeep DEF vars
<1>. QED
  BY <1>1, <1>2, <1>3, <1>4, <1>5, <1>6, <1>7 DEF Next

(* parse_cgroup: the unified line wherever it stands, else the first       *)
(* legacy one, else the error unless there is no line.                     *)
THEOREM CgroupIsChosen == Spec => []CgroupChoice
<1>1. CgroupInv => CgroupChoice
  BY DEF CgroupInv
<1>. QED
  BY CgroupInit, CgroupStays, <1>1, PTL DEF Spec

-----------------------------------------------------------------------------
(* The CPU sample.  The clock gives the CPUs as many ticks as the process  *)
(* and the rest have used; the windows are apart by what passes between    *)
(* two adjacent reads.                                                     *)

Skew == Cpus * MaxSkew

(* Ticks that have passed since the last step, of all CPUs. *)
Since == Cpus * since

(* How far what the process has gained, p, and what the system has, s, are *)
(* apart.                                                                  *)
Close(p, s, lead, lag) == p <= s + lead /\ s <= p + idle + lag

Windows ==
  ~regressed =>
    /\ system = process + idle
    /\ step = 2 => start.process <= process /\ process - start.process <= Since
    /\ step \in {3, 4, 5} =>
         Close(process - start.process, system - start.system, Skew, 0)
    /\ step = 6 =>
         Close(end.process - start.process, system - start.system, Skew, Since)
    /\ step = 7 =>
         Close(end.process - start.process, end.system - start.system, Skew, Skew)
    /\ sample.usable => Close(sample.process, sample.system, Skew, Skew)

SinceSmall == since <= ticks /\ (step \notin {3, 4} => since <= MaxSkew)

SampleInv == SampleTypeOK /\ SinceSmall /\ Windows

LEMMA Products ==
  ASSUME NEW n \in Nat
  PROVE  /\ Cpus * n \in Nat /\ Cpus * (n + 1) = Cpus * n + Cpus /\ Cpus * 0 = 0
         /\ \A m \in Nat : n <= m => Cpus * n <= Cpus * m
<1>1. Cpus \in Nat
  BY CpusAssumption
<1>2. Cpus * n \in Nat /\ Cpus * (n + 1) = Cpus * n + Cpus /\ Cpus * 0 = 0
  BY <1>1
<1>3. \A m \in Nat : n <= m => Cpus * n <= Cpus * m
  <2>. SUFFICES ASSUME NEW m \in Nat, n <= m PROVE Cpus * n <= Cpus * m
    OBVIOUS
  <2>1. PICK k \in Nat : m = n + k
    <3>1. m - n \in Nat /\ m = n + (m - n)
      OBVIOUS
    <3>. QED
      BY <3>1
  <2>2. Cpus * m = Cpus * n + Cpus * k /\ Cpus * k \in Nat
    BY <1>1, <2>1
  <2>. QED
    BY <1>2, <2>2
<1>. QED
  BY <1>2, <1>3

LEMMA SampleInitHolds == SampleInit => SampleInv
<1>. SUFFICES ASSUME SampleInit PROVE SampleInv
  OBVIOUS
<1>1. SampleTypeOK
  <2>1. start \in [process : Nat, system : Nat] /\ end \in [process : Nat, system : Nat]
    BY DEF SampleInit, NoCounters
  <2>2. sample \in [usable : BOOLEAN, process : Nat, system : Nat]
    BY DEF SampleInit, Unavailable
  <2>3. /\ step \in 1..8 /\ ticks \in 0..MaxTicks /\ since \in 0..MaxTicks
        /\ process \in Nat /\ system \in Nat /\ idle \in Nat
    BY TicksAssumption DEF SampleInit
  <2>4. regressed \in BOOLEAN
    BY DEF SampleInit
  <2>. QED
    BY <2>1, <2>2, <2>3, <2>4 DEF SampleTypeOK
<1>2. SinceSmall
  BY TicksAssumption DEF SampleInit, SinceSmall
<1>3. Windows
  BY DEF SampleInit, Windows, Unavailable
<1>. QED
  BY <1>1, <1>2, <1>3 DEF SampleInv

(* The variables of the sample are numbers. *)
LEMMA SampleNumbers ==
  ASSUME SampleInv
  PROVE  /\ step \in 1..8 /\ ticks \in Nat /\ since \in Nat /\ since <= ticks
         /\ process \in Nat /\ system \in Nat /\ idle \in Nat
         /\ start.process \in Nat /\ start.system \in Nat
         /\ end.process \in Nat /\ end.system \in Nat
         /\ sample.process \in Nat /\ sample.system \in Nat
         /\ MaxSkew \in Nat /\ Cpus \in Nat /\ Skew \in Nat /\ Since \in Nat
<1>1. /\ step \in 1..8 /\ ticks \in Nat /\ since \in Nat
      /\ process \in Nat /\ system \in Nat /\ idle \in Nat
  BY TicksAssumption DEF SampleInv, SampleTypeOK
<1>2. /\ start \in [process : Nat, system : Nat] /\ end \in [process : Nat, system : Nat]
      /\ sample \in [usable : BOOLEAN, process : Nat, system : Nat]
  BY DEF SampleInv, SampleTypeOK
<1>3. MaxSkew \in Nat /\ Cpus \in Nat
  BY TicksAssumption, CpusAssumption
<1>4. Skew \in Nat /\ Since \in Nat
  BY <1>1, <1>3, Products DEF Skew, Since
<1>5. since <= ticks
  BY DEF SampleInv, SinceSmall
<1>. QED
  BY <1>1, <1>2, <1>3, <1>4, <1>5

LEMMA TickKeeps == SampleInv /\ Tick => SampleInv'
<1>. SUFFICES ASSUME SampleInv, Tick PROVE SampleInv'
  OBVIOUS
<1>. SampleTypeOK /\ SinceSmall /\ Windows
  BY DEF SampleInv
<1>1. PICK busy \in 0..Cpus : process' = process + busy /\ idle' = idle + (Cpus - busy)
  BY DEF Tick
<1>2. /\ ticks < MaxTicks /\ ticks' = ticks + 1 /\ since' = since + 1 /\ system' = system + Cpus
      /\ step' = step /\ start' = start /\ end' = end /\ sample' = sample
      /\ regressed' = regressed
  BY DEF Tick, callVars
<1>3. step \notin {3, 4} => since < MaxSkew
  BY SampleNumbers DEF Tick, Due, Steps
<1>4. /\ process \in Nat /\ system \in Nat /\ idle \in Nat /\ since \in Nat /\ since <= ticks
      /\ ticks \in Nat /\ Cpus \in Nat /\ busy \in Nat /\ Cpus - busy \in Nat /\ MaxSkew \in Nat
      /\ Since \in Nat /\ Skew \in Nat
  BY SampleNumbers
<1>5. SampleTypeOK'
  BY <1>1, <1>2, <1>4, TicksAssumption DEF SampleTypeOK
<1>6. SinceSmall'
  BY <1>2, <1>3, <1>4 DEF SinceSmall
<1>7. Since' = Since + Cpus /\ Skew' = Skew
  BY <1>2, <1>4, Products DEF Since, Skew
<1>8. Windows'
  <2>. SUFFICES ASSUME ~regressed PROVE Windows'
    BY <1>2 DEF Windows
  <2>1. system = process + idle
    BY DEF Windows
  <2>2. system' = process' + idle'
    BY <1>1, <1>2, <1>4, <2>1
  <2>3. step = 2 => start'.process <= process' /\ process' - start'.process <= Since'
    BY <1>1, <1>2, <1>4, <1>7, SampleNumbers DEF Windows
  <2>4. step \in {3, 4, 5} =>
          Close(process - start.process, system - start.system, Skew, 0)'
    BY <1>1, <1>2, <1>4, SampleNumbers DEF Windows, Close
  <2>5. step = 6 =>
          Close(end.process - start.process, system - start.system, Skew, Since)'
    BY <1>1, <1>2, <1>4, <1>7, SampleNumbers DEF Windows, Close
  <2>6. step = 7 =>
          Close(end.process - start.process, end.system - start.system, Skew, Skew)'
    BY <1>1, <1>2, <1>4, <1>7, SampleNumbers DEF Windows, Close
  <2>7. sample.usable => Close(sample.process, sample.system, Skew, Skew)'
    BY <1>1, <1>2, <1>4, <1>7, SampleNumbers DEF Windows, Close
  <2>. QED
    BY <1>2, <2>2, <2>3, <2>4, <2>5, <2>6, <2>7 DEF Windows
<1>. QED
  BY <1>5, <1>6, <1>8 DEF SampleInv

LEMMA StepBackKeeps == SampleInv /\ StepBack => SampleInv'
<1>. SUFFICES ASSUME SampleInv, StepBack PROVE SampleInv'
  OBVIOUS
<1>1. PICK s \in 0..system - 1 : system' = s
  BY DEF StepBack
<1>2. regressed' = TRUE /\ UNCHANGED <<step, start, end, sample, since, ticks, process, idle>>
  BY DEF StepBack, callVars
<1>3. SampleTypeOK'
  BY <1>1, <1>2, SampleNumbers DEF SampleInv, SampleTypeOK
<1>4. SinceSmall' /\ Windows'
  BY <1>2 DEF SampleInv, SinceSmall, Windows
<1>. QED
  BY <1>3, <1>4 DEF SampleInv

(* A step of the call. *)
LEMMA CallKeeps ==
  SampleInv /\ (ReadProcess \/ ReadSystem \/ Pass \/ CalculateCpuPercent) => SampleInv'
<1>. SUFFICES ASSUME SampleInv, ReadProcess \/ ReadSystem \/ Pass \/ CalculateCpuPercent
              PROVE  SampleInv'
  OBVIOUS
<1>. SampleTypeOK /\ SinceSmall /\ Windows
  BY DEF SampleInv
<1>1. /\ step \in 1..7 /\ step' = step + 1 /\ since' = 0
      /\ ticks' = ticks /\ process' = process /\ system' = system /\ idle' = idle
      /\ regressed' = regressed
  BY DEF ReadProcess, ReadSystem, Pass, CalculateCpuPercent, Does, Due, Steps, clockVars
<1>2. /\ process \in Nat /\ system \in Nat /\ idle \in Nat /\ since \in Nat /\ ticks \in Nat
      /\ MaxSkew \in Nat /\ Skew \in Nat /\ Since \in Nat
  BY SampleNumbers
<1>3. Since' = 0 /\ Skew' = Skew
  BY <1>1, Products DEF Since, Skew
<1>4. start \in [process : Nat, system : Nat] /\ end \in [process : Nat, system : Nat]
  BY DEF SampleTypeOK
<1>5. step \in {1, 2, 5, 6, 7} => Since <= Skew
  BY <1>2, Products DEF SinceSmall, Since, Skew
<1>6. SinceSmall'
  BY <1>1, <1>2 DEF SinceSmall
<1>. DEFINE Typed == /\ start' \in [process : Nat, system : Nat]
                     /\ end' \in [process : Nat, system : Nat]
                     /\ sample' \in [usable : BOOLEAN, process : Nat, system : Nat]
<1>7. Typed => SampleTypeOK'
  <2>1. /\ step' \in 1..8 /\ ticks' \in 0..MaxTicks /\ since' \in 0..MaxTicks
        /\ process' \in Nat /\ system' \in Nat /\ idle' \in Nat
    BY <1>1, <1>2, TicksAssumption DEF SampleTypeOK
  <2>2. regressed' \in BOOLEAN
    BY <1>1 DEF SampleTypeOK
  <2>. QED
    BY <2>1, <2>2 DEF SampleTypeOK
<1>8. ~regressed => system = process + idle
  BY DEF Windows
<1>9. ~regressed /\ sample.usable => Close(sample.process, sample.system, Skew, Skew)
  BY DEF Windows
<1>10. CASE step = 1
  <2>1. start' = [start EXCEPT !.process = process] /\ end' = end /\ sample' = sample
    BY <1>10 DEF ReadProcess, ReadSystem, Pass, CalculateCpuPercent, Does, Due, Steps
  <2>2. Typed /\ start'.process = process
    BY <1>2, <1>4, <2>1 DEF SampleTypeOK
  <2>3. Windows'
    BY <1>1, <1>2, <1>3, <1>8, <1>9, <1>10, <2>1, <2>2 DEF Windows, Close
  <2>. QED
    BY <1>6, <1>7, <2>2, <2>3 DEF SampleInv
<1>11. CASE step = 2
  <2>1. start' = [start EXCEPT !.system = system] /\ end' = end /\ sample' = sample
    BY <1>11 DEF ReadProcess, ReadSystem, Pass, CalculateCpuPercent, Does, Due, Steps
  <2>2. Typed /\ start'.process = start.process /\ start'.system = system
    BY <1>2, <1>4, <2>1 DEF SampleTypeOK
  <2>3. ~regressed => Close(process - start.process, system - system, Skew, 0)
    BY <1>2, <1>5, <1>11, SampleNumbers DEF Windows, Close
  <2>4. Windows'
    BY <1>1, <1>2, <1>3, <1>8, <1>9, <1>11, <2>1, <2>2, <2>3 DEF Windows, Close
  <2>. QED
    BY <1>6, <1>7, <2>2, <2>4 DEF SampleInv
<1>12. CASE step \in {3, 4}
  <2>1. start' = start /\ end' = end /\ sample' = sample
    BY <1>12 DEF ReadProcess, ReadSystem, Pass, CalculateCpuPercent, Does, Due, Steps
  <2>2. Typed
    BY <1>4, <2>1 DEF SampleTypeOK
  <2>3. Windows'
    BY <1>1, <1>2, <1>3, <1>8, <1>9, <1>12, <2>1 DEF Windows, Close
  <2>. QED
    BY <1>6, <1>7, <2>2, <2>3 DEF SampleInv
<1>13. CASE step = 5
  <2>1. end' = [end EXCEPT !.process = process] /\ start' = start /\ sample' = sample
    BY <1>13 DEF ReadProcess, ReadSystem, Pass, CalculateCpuPercent, Does, Due, Steps
  <2>2. Typed /\ end'.process = process
    BY <1>2, <1>4, <2>1 DEF SampleTypeOK
  <2>3. Windows'
    BY <1>1, <1>2, <1>3, <1>8, <1>9, <1>13, <2>1, <2>2 DEF Windows, Close
  <2>. QED
    BY <1>6, <1>7, <2>2, <2>3 DEF SampleInv
<1>14. CASE step = 6
  <2>1. end' = [end EXCEPT !.system = system] /\ start' = start /\ sample' = sample
    BY <1>14 DEF ReadProcess, ReadSystem, Pass, CalculateCpuPercent, Does, Due, Steps
  <2>2. Typed /\ end'.process = end.process /\ end'.system = system
    BY <1>2, <1>4, <2>1 DEF SampleTypeOK
  <2>3. ~regressed => Close(end.process - start.process, system - start.system, Skew, Skew)
    BY <1>2, <1>5, <1>14, SampleNumbers DEF Windows, Close
  <2>4. Windows'
    BY <1>1, <1>2, <1>3, <1>8, <1>9, <1>14, <2>1, <2>2, <2>3 DEF Windows, Close
  <2>. QED
    BY <1>6, <1>7, <2>2, <2>4 DEF SampleInv
<1>15. CASE step = 7
  <2>. DEFINE p == end.process - start.process
              s == end.system - start.system
  <2>1. /\ start' = start /\ end' = end
        /\ IF p >= 0 /\ s > 0 THEN sample' = [usable |-> TRUE, process |-> p, system |-> s]
                              ELSE sample' = Unavailable
    BY <1>15 DEF ReadProcess, ReadSystem, Pass, CalculateCpuPercent, Does, Due, Steps
  <2>2. p \in Int /\ s \in Int
    BY <1>4
  <2>3. ~regressed => Close(p, s, Skew, Skew)
    BY <1>15 DEF Windows
  <2>. HIDE DEF p, s
  <2>4. CASE p >= 0 /\ s > 0
    <3>1. sample' = [usable |-> TRUE, process |-> p, system |-> s]
      BY <2>1, <2>4
    <3>2. p \in Nat /\ s \in Nat
      BY <2>2, <2>4
    <3>3. Typed
      BY <1>4, <2>1, <3>1, <3>2
    <3>4. sample'.process = p /\ sample'.system = s
      BY <3>1
    <3>5. ~regressed => Close(sample'.process, sample'.system, Skew, Skew)
      BY <2>3, <3>4
    <3>6. Windows'
      BY <1>1, <1>2, <1>3, <1>8, <1>15, <3>5 DEF Windows, Close
    <3>. QED
      BY <1>6, <1>7, <3>3, <3>6 DEF SampleInv
  <2>5. CASE ~(p >= 0 /\ s > 0)
    <3>1. sample' = Unavailable
      BY <2>1, <2>5
    <3>2. Typed /\ ~sample'.usable
      BY <1>4, <2>1, <3>1 DEF Unavailable
    <3>3. Windows'
      BY <1>1, <1>2, <1>3, <1>8, <1>15, <3>2 DEF Windows, Close
    <3>. QED
      BY <1>6, <1>7, <3>2, <3>3 DEF SampleInv
  <2>. QED
    BY <2>4, <2>5
<1>. QED
  BY <1>1, <1>10, <1>11, <1>12, <1>13, <1>14, <1>15

LEMMA SampleStays == SampleInv /\ [SampleNext]_sampleVars => SampleInv'
<1>. SUFFICES ASSUME SampleInv, [SampleNext]_sampleVars PROVE SampleInv'
  OBVIOUS
<1>1. CASE UNCHANGED sampleVars
  <2>1. UNCHANGED <<step, start, end, sample, since, ticks, process, system, idle, regressed>>
    BY <1>1 DEF sampleVars, callVars, clockVars
  <2>2. SampleTypeOK' /\ SinceSmall'
    BY <2>1 DEF SampleInv, SampleTypeOK, SinceSmall
  <2>3. Windows'
    BY <2>1 DEF SampleInv, Windows, Close, Skew, Since
  <2>. QED
    BY <2>2, <2>3 DEF SampleInv
<1>. QED
  BY <1>1, TickKeeps, StepBackKeeps, CallKeeps DEF SampleNext

(* read_adjacent_cpu_pair and calculate_cpu_percent: however long the rest *)
(* of the snapshot and the sleep take, the two increments differ by no     *)
(* more than what passes between two adjacent reads.                       *)
THEOREM WindowsAreClose == SampleSpec => []WindowsMatch
<1>1. SampleInv => WindowsMatch
  <2>. SUFFICES ASSUME SampleInv, sample.usable, ~regressed PROVE WindowsMatch
    BY DEF WindowsMatch
  <2>1. Close(sample.process, sample.system, Skew, Skew)
    BY DEF SampleInv, Windows
  <2>. QED
    BY <2>1 DEF Close, Skew, WindowsMatch
<1>. QED
  BY SampleInitHolds, SampleStays, <1>1, PTL DEF SampleSpec
-----------------------------------------------------------------------------
(* The pieces of parse_maps_with_diagnostics.                              *)

LEMMA BytesGrow ==
  ASSUME NEW full \in Seq(Nat), NEW n \in 0..Len(full)
  PROVE  /\ SubSeq(full, 1, n) \in Seq(Nat) /\ Len(SubSeq(full, 1, n)) = n
         /\ Bytes(SubSeq(full, 1, n)) \in Int
         /\ n = 0 => Bytes(SubSeq(full, 1, n)) = 0
         /\ n < Len(full) => Bytes(SubSeq(full, 1, n + 1)) = Bytes(SubSeq(full, 1, n)) + full[n + 1]
<1>. DEFINE p(m) == SubSeq(full, 1, m)
<1>1. Len(full) \in Nat /\ \A i \in 1..Len(full) : full[i] \in Nat
  BY LenProperties, ElementOfSeq
<1>2. ASSUME NEW m \in 0..Len(full)
      PROVE  p(m) \in Seq(Nat) /\ Len(p(m)) = m /\ DOMAIN p(m) = 1..m /\ \A i \in 1..m : p(m)[i] = full[i]
  <2>1. /\ p(m) \in Seq(Nat) /\ Len(p(m)) = IF 1 <= m THEN m - 1 + 1 ELSE 0
        /\ \A i \in 1..m - 1 + 1 : p(m)[i] = full[1 + i - 1]
    BY <1>1, SubSeqProperties
  <2>2. Len(p(m)) = m /\ DOMAIN p(m) = 1..Len(p(m))
    BY <1>1, <2>1, LenProperties
  <2>. QED
    BY <1>1, <2>1, <2>2
<1>3. IsFiniteSet(1..n) /\ \A i \in 1..n : p(n)[i] \in Int
  <2>1. n \in Nat /\ \A i \in 1..n : i \in 1..Len(full)
    BY <1>1
  <2>. HIDE DEF p
  <2>. QED
    <3>1. IsFiniteSet(1..n)
      BY <2>1, Segment
    <3>2. \A i \in 1..n : p(n)[i] = full[i]
      BY <1>2
    <3>. QED
      BY <1>1, <2>1, <3>1, <3>2
<1>4. Bytes(p(n)) = SumFunctionOnSet(p(n), 1..n)
  BY <1>2 DEF Bytes, SumFunction
<1>. HIDE DEF p
<1>5. Bytes(p(n)) \in Int
  BY <1>3, <1>4, SumEqual
<1>6. n = 0 => Bytes(p(n)) = 0
  <2>1. n = 0 => 1..n = {}
    OBVIOUS
  <2>. QED
    BY <1>4, <2>1, SumEmpty
<1>7. ASSUME n < Len(full)
      PROVE  Bytes(p(n + 1)) = Bytes(p(n)) + full[n + 1]
  <2>1. n + 1 \in 0..Len(full) /\ n + 1 \in 1..n + 1 /\ n + 1 \notin 1..n /\ n + 1 \in 1..Len(full)
    BY <1>1, <1>7
  <2>2. 1..n + 1 = (1..n) \union {n + 1}
    OBVIOUS
  <2>3. Bytes(p(n + 1)) = SumFunctionOnSet(p(n + 1), 1..n + 1) /\ p(n + 1)[n + 1] = full[n + 1]
    BY <1>2, <2>1 DEF Bytes, SumFunction
  <2>4. \A i \in 1..n : p(n + 1)[i] = p(n)[i]
    <3>1. \A i \in 1..n : i \in 1..n + 1
      OBVIOUS
    <3>. QED
      BY <1>2, <2>1, <3>1
  <2>5. SumFunctionOnSet(p(n + 1), (1..n) \union {n + 1})
          = SumFunctionOnSet(p(n), 1..n) + p(n + 1)[n + 1]
    <3>1. p(n + 1)[n + 1] \in Int
      BY <1>1, <2>1, <2>3
    <3>2. \A i \in 1..n : p(n)[i] \in Int /\ p(n + 1)[i] = p(n)[i]
      BY <1>3, <2>4
    <3>. DEFINE f == p(n)
                g == p(n + 1)
                y == n + 1
    <3>3. y \notin 1..n /\ IsFiniteSet(1..n)
      BY <1>3, <2>1
    <3>4. g[y] \in Int /\ \A i \in 1..n : f[i] \in Int /\ g[i] = f[i]
      BY <3>1, <3>2
    <3>. HIDE DEF f, g, y
    <3>5. SumFunctionOnSet(g, (1..n) \union {y}) = SumFunctionOnSet(f, 1..n) + g[y]
      BY <3>3, <3>4, SumAdd
    <3>. QED
      BY <3>5 DEF f, g, y
  <2>. QED
    BY <1>4, <2>2, <2>3, <2>5
<1>. QED
  BY <1>2, <1>5, <1>6, <1>7 DEF p

(* A backing is cut only if it is too long, and then not sooner than it    *)
(* has to be.                                                              *)
LEMMA Truncated ==
  ASSUME NEW full \in Seq(Nat), NEW rest, rest = TruncateUtf8(full)
  PROVE  /\ rest = SubSeq(full, 1, Len(rest))
         /\ Bytes(rest) <= BackingMax
         /\ rest # full <=> Bytes(full) > BackingMax
         /\ rest # full => Bytes(rest) + full[Len(rest) + 1] > BackingMax
<1>. DEFINE L == Len(full)
            Fits == {n \in 0..L : Bytes(SubSeq(full, 1, n)) <= BackingMax}
            m == Max(Fits)
<1>1. L \in Nat /\ BackingMax \in Nat
  BY LenProperties, WidthAssumption
<1>2. 0 \in Fits
  BY <1>1, BytesGrow
<1>3. m \in Fits /\ \A n \in Fits : n <= m
  <2>1. Fits \in SUBSET (0..L) /\ Fits # {}
    BY <1>2
  <2>. HIDE DEF Fits, L
  <2>. QED
    BY <1>1, <2>1, HasGreatest
<1>4. rest = SubSeq(full, 1, m)
  BY DEF TruncateUtf8
<1>. HIDE DEF m
<1>5. m \in 0..L /\ Len(rest) = m /\ Bytes(rest) <= BackingMax /\ Bytes(rest) \in Int
  BY <1>3, <1>4, BytesGrow
<1>6. SubSeq(full, 1, L) = full /\ L \in 0..L
  BY <1>1, SubSeqFull
<1>7. CASE m = L
  <2>1. rest = full
    BY <1>4, <1>6, <1>7
  <2>2. ~(Bytes(full) > BackingMax)
    BY <1>1, <1>5, <2>1
  <2>. QED
    BY <1>4, <1>5, <2>1, <2>2
<1>8. CASE m # L
  <2>1. m < L /\ m + 1 \in 0..L /\ ~(m + 1 <= m) /\ ~(L <= m)
    BY <1>1, <1>5, <1>8
  <2>2. /\ Bytes(SubSeq(full, 1, m + 1)) = Bytes(rest) + full[m + 1]
        /\ Bytes(SubSeq(full, 1, m + 1)) \in Int /\ Bytes(full) \in Int
    BY <1>4, <1>5, <1>6, <2>1, BytesGrow
  <2>3. m + 1 \notin Fits /\ L \notin Fits
    BY <1>3, <2>1
  <2>4. Bytes(rest) + full[m + 1] > BackingMax /\ Bytes(full) > BackingMax
    <3>1. /\ ~(Bytes(SubSeq(full, 1, m + 1)) <= BackingMax)
          /\ ~(Bytes(SubSeq(full, 1, L)) <= BackingMax)
      BY <1>6, <2>1, <2>3, Zenon
    <3>. HIDE DEF L
    <3>2. Bytes(SubSeq(full, 1, m + 1)) > BackingMax /\ Bytes(full) > BackingMax
      <4>1. ~(Bytes(full) <= BackingMax)
        BY <1>6, <3>1, Zenon
      <4>2. Bytes(full) > BackingMax
        BY <1>1, <2>2, <4>1
      <4>. QED
        BY <1>1, <2>2, <3>1, <4>2
    <3>. QED
      BY <2>2, <3>2
  <2>5. rest # full
    BY <1>5, <1>8
  <2>. QED
    BY <1>4, <1>5, <2>4, <2>5
<1>. QED
  BY <1>7, <1>8

(* What a candidate is.                                                    *)
Candidates == [line : Nat, size : Int, kind : Kinds, backing : Seq(Nat)]

Kept(C) == IF Len(C) < TopN THEN Len(C) ELSE TopN

(* The sort: e[r] is the place the candidate of rank r has in C.           *)
Sorts(e, C) ==
  /\ e \in [1..Kept(C) -> 1..Len(C)]
  /\ Largest(C) = [r \in 1..Kept(C) |-> C[e[r]]]
  /\ \A r \in 1..Kept(C) : Rank(C, e[r]) = r
  /\ \A i \in 1..Len(C) : /\ Rank(C, i) \in 1..Len(C)
                          /\ Rank(C, i) <= Kept(C) => e[Rank(C, i)] = i
  /\ \A r \in 1..Kept(C), i \in 1..Len(C) : r < Rank(C, i) => C[i].size <= C[e[r]].size

LEMMA Ranked ==
  ASSUME NEW C \in Seq(Candidates)
  PROVE  \E e : Sorts(e, C)
<1>. DEFINE n == Len(C)
            Ahead(i) == {j \in 1..n : \/ C[j].size > C[i].size
                                      \/ C[j].size = C[i].size /\ j < i}
            rank == [i \in 1..n |-> Rank(C, i)]
<1>1. n \in Nat /\ DOMAIN C = 1..n /\ \A i \in 1..n : C[i].size \in Int
  <2>1. \A i \in 1..n : C[i] \in Candidates
    BY ElementOfSeq
  <2>. QED
    BY <2>1, LenProperties DEF Candidates
<1>2. IsFiniteSet(1..n) /\ Cardinality(1..n) = n
  BY <1>1, Segment
<1>3. \A i \in 1..n : Rank(C, i) = 1 + Cardinality(Ahead(i))
  BY <1>1 DEF Rank
<1>4. ASSUME NEW i \in 1..n
      PROVE  IsFiniteSet(Ahead(i)) /\ Cardinality(Ahead(i)) \in Nat /\ Rank(C, i) \in 1..n
  <2>1. Ahead(i) \in SUBSET (1..n)
    OBVIOUS
  <2>2. i \notin Ahead(i)
    BY <1>1
  <2>. HIDE DEF Ahead
  <2>3. /\ IsFiniteSet(Ahead(i)) /\ Cardinality(Ahead(i)) \in Nat /\ Cardinality(Ahead(i)) <= n
        /\ Cardinality(Ahead(i)) = n => Ahead(i) = 1..n
    BY <1>2, <2>1, FS_Subset, FS_CardinalityType
  <2>4. Cardinality(Ahead(i)) # n
    BY <2>2, <2>3
  <2>. QED
    BY <1>1, <1>3, <2>3, <2>4
<1>5. ASSUME NEW i \in 1..n, NEW j \in 1..n, i \in Ahead(j)
      PROVE  Rank(C, i) < Rank(C, j)
  <2>1. Ahead(i) \in SUBSET Ahead(j)
    BY <1>1, <1>5
  <2>2. i \notin Ahead(i)
    BY <1>1
  <2>. HIDE DEF Ahead
  <2>3. /\ Cardinality(Ahead(i)) <= Cardinality(Ahead(j))
        /\ Cardinality(Ahead(i)) # Cardinality(Ahead(j))
    BY <1>4, <1>5, <2>1, <2>2, FS_Subset
  <2>. QED
    BY <1>3, <1>4, <2>3
<1>6. \A i, j \in 1..n : i = j \/ i \in Ahead(j) \/ j \in Ahead(i)
  BY <1>1
<1>7. \A i, j \in 1..n : Rank(C, i) = Rank(C, j) => i = j
  <2>. HIDE DEF Ahead
  <2>1. \A i \in 1..n : Rank(C, i) \in Int
    BY <1>4
  <2>. QED
    BY <1>5, <1>6, <2>1
<1>8. \A r \in 1..n : \E i \in 1..n : Rank(C, i) = r
  <2>1. rank \in [1..n -> 1..n]
    BY <1>4
  <2>2. rank \in Injection(1..n, 1..n)
    BY <1>7, <2>1 DEF Injection, IsInjective
  <2>3. rank \in Surjection(1..n, 1..n)
    <3>. HIDE DEF rank, n
    <3>. QED
      BY <1>2, <2>2, FS_Injection
  <2>4. \A r \in 1..n : \E i \in 1..n : rank[i] = r
    <3>. HIDE DEF rank
    <3>. QED
      BY <2>3 DEF Surjection
  <2>. QED
    BY <2>4
<1>. HIDE DEF n
<1>. DEFINE m == Kept(C)
            e == [r \in 1..m |-> CHOOSE i \in DOMAIN C : Rank(C, i) = r]
<1>9. m \in Nat /\ m <= n
  BY <1>1, TopAssumption DEF Kept, n
<1>10. \A r \in 1..m : e[r] \in 1..n /\ Rank(C, e[r]) = r
  <2>1. \A r \in 1..m : r \in 1..n
    BY <1>1, <1>9
  <2>. QED
    BY <1>1, <1>8, <2>1
<1>11. Largest(C) = [r \in 1..m |-> C[e[r]]]
  BY DEF Largest, Kept
<1>. HIDE DEF e, m
<1>12. \A i \in 1..n : Rank(C, i) <= m => e[Rank(C, i)] = i
  <2>1. \A i \in 1..n : Rank(C, i) <= m => Rank(C, i) \in 1..m
    <3>. HIDE DEF Ahead
    <3>1. \A i \in 1..n : Rank(C, i) \in Nat /\ 1 <= Rank(C, i)
      BY <1>1, <1>4
    <3>. QED
      BY <1>9, <3>1
  <2>. QED
    BY <1>7, <1>10, <2>1
<1>13. ASSUME NEW r \in 1..m, NEW i \in 1..n, r < Rank(C, i)
       PROVE  C[i].size <= C[e[r]].size
  <2>1. e[r] \in 1..n /\ Rank(C, e[r]) = r /\ Rank(C, i) \in Int
    <3>. HIDE DEF Ahead
    <3>. QED
      BY <1>1, <1>4, <1>10
  <2>2. i \notin Ahead(e[r])
    <3>. HIDE DEF Ahead
    <3>. QED
      BY <1>5, <1>13, <2>1
  <2>3. C[i].size \in Int /\ C[e[r]].size \in Int
    BY <1>1, <2>1
  <2>. QED
    BY <2>2, <2>3
<1>14. e \in [1..m -> 1..n]
  BY <1>10 DEF e
<1>. QED
  BY <1>4, <1>10, <1>11, <1>12, <1>13, <1>14 DEF Sorts, m, n

-----------------------------------------------------------------------------
(* parse_maps_with_diagnostics.                                            *)

Good == {i \in DOMAIN text : MapLineOk(text[i])}

OfKind(k) == {i \in Good : MapKind(text[i]) = k}

Candidate(i) == [line |-> i, size |-> Size(text[i]), kind |-> MapKind(text[i]),
                 backing |-> text[i].backing]

(* C are the candidates of the first n lines, skipped and the buckets what *)
(* has been counted in them.                                               *)
Lists(C, n) ==
  /\ C \in Seq(Candidates)
  /\ \A r \in 1..Len(C) : C[r].line \in Upto(Good, n) /\ C[r] = Candidate(C[r].line)
  /\ \A r, q \in 1..Len(C) : C[r].line = C[q].line => r = q
  /\ \A i \in Upto(Good, n) : \E r \in 1..Len(C) : C[r].line = i

Counts(n) ==
  /\ skipped = n - Cardinality(Upto(Good, n))
  /\ buckets = [k \in Kinds |-> [count |-> Cardinality(Upto(OfKind(k), n)),
                                 size  |-> Sizes(Upto(OfKind(k), n))]]

(* What MapsEnd has made of the candidates C.                              *)
Arranged(C) ==
  /\ Lists(C, Len(text))
  /\ tops = [r \in DOMAIN Largest(C) |-> [Largest(C)[r] EXCEPT !.backing = TruncateUtf8(@)]]
  /\ notes = SkippedNotes \o TruncationNotes(Largest(C))

MapsTypeOK ==
  file = "maps" =>
    /\ text \in Content["maps"]
    /\ at \in 0..Len(text)
    /\ result \in {"none", "ok"}

MapsInv ==
  /\ MapsTypeOK
  /\ file = "maps" /\ result = "none" => Lists(tops, at) /\ Counts(at)
  /\ file = "maps" /\ result = "ok" => Counts(Len(text)) /\ \E C : Arranged(C)

LEMMA MapsLines ==
  ASSUME file = "maps", MapsTypeOK
  PROVE  /\ Len(text) \in Nat /\ DOMAIN text = 1..Len(text)
         /\ \A i \in 1..Len(text) :
              /\ Size(text[i]) \in Int /\ MapKind(text[i]) \in Kinds
              /\ text[i].backing \in Seq(Nat) /\ text[i].perms \in Seq(STRING)
              /\ text[i].path \in {"none", "pseudo", "heap", "stack", "file"}
         /\ Good \in SUBSET (1..Len(text))
         /\ \A k : OfKind(k) \in SUBSET (1..Len(text))
<1>. DEFINE Records == [start : Int, end : Int, perms : Seq(STRING), rest : STRING,
                        path : {"none", "pseudo", "heap", "stack", "file"}, backing : Seq(Nat)]
<1>1. text \in Seq(Records)
  BY LinesAssumption DEF MapsTypeOK
<1>2. Len(text) \in Nat /\ DOMAIN text = 1..Len(text) /\ \A i \in 1..Len(text) : text[i] \in Records
  <2>. HIDE DEF Records
  <2>. QED
    BY <1>1, LenProperties, ElementOfSeq
<1>3. ASSUME NEW i \in 1..Len(text)
      PROVE  /\ Size(text[i]) \in Int /\ MapKind(text[i]) \in Kinds
             /\ text[i].backing \in Seq(Nat) /\ text[i].perms \in Seq(STRING)
             /\ text[i].path \in {"none", "pseudo", "heap", "stack", "file"}
  <2>1. text[i] \in Records
    BY <1>2
  <2>2. Size(text[i]) \in Int
    BY <2>1 DEF Size
  <2>3. MapKind(text[i]) \in Kinds
    BY DEF MapKind, Kinds
  <2>. QED
    BY <2>1, <2>2, <2>3
<1>. QED
  BY <1>2, <1>3 DEF Good, OfKind

LEMMA SizesGrow ==
  ASSUME NEW S, IsFiniteSet(S), \A i \in S : Size(text[i]) \in Int
  PROVE  /\ Sizes(S) \in Int
         /\ S = {} => Sizes(S) = 0
         /\ \A y : y \notin S /\ Size(text[y]) \in Int => Sizes(S \union {y}) = Sizes(S) + Size(text[y])
<1>. DEFINE f(T) == [i \in T |-> Size(text[i])]
<1>1. \A T : Sizes(T) = SumFunctionOnSet(f(T), T)
  BY DEF Sizes, SumFunction
<1>2. \A T : \A i \in T : f(T)[i] = Size(text[i])
  OBVIOUS
<1>. HIDE DEF f
<1>3. Sizes(S) \in Int
  <2>1. \A i \in S : f(S)[i] \in Int
    BY <1>2
  <2>. QED
    BY <1>1, <2>1, SumEqual
<1>4. S = {} => Sizes(S) = 0
  BY <1>1, SumEmpty
<1>5. ASSUME NEW y, y \notin S, Size(text[y]) \in Int
      PROVE  Sizes(S \union {y}) = Sizes(S) + Size(text[y])
  <2>. DEFINE g == f(S \union {y})
              h == f(S)
  <2>1. g[y] = Size(text[y]) /\ \A i \in S : h[i] = Size(text[i]) /\ g[i] = Size(text[i])
    BY <1>2
  <2>2. Sizes(S) = SumFunctionOnSet(h, S) /\ Sizes(S \union {y}) = SumFunctionOnSet(g, S \union {y})
    BY <1>1
  <2>. HIDE DEF g, h
  <2>3. g[y] \in Int /\ \A i \in S : h[i] \in Int /\ g[i] = h[i]
    BY <1>5, <2>1
  <2>4. SumFunctionOnSet(g, S \union {y}) = SumFunctionOnSet(h, S) + g[y]
    BY <1>5, <2>3, SumAdd
  <2>. QED
    BY <2>1, <2>2, <2>4
<1>. QED
  BY <1>3, <1>4, <1>5

LEMMA MapsInit == Init => MapsInv
<1>. SUFFICES ASSUME Init, file = "maps" PROVE MapsInv
  BY DEF MapsInv, MapsTypeOK
<1>1. /\ text \in Content["maps"] /\ at = 0 /\ result = "none" /\ tops = << >> /\ skipped = 0
      /\ buckets = [k \in Kinds |-> [count |-> 0, size |-> 0]]
  BY DEF Init
<1>2. MapsTypeOK
  <2>1. Len(text) \in Nat
    <3>1. \E V : text \in Seq(V)
      BY <1>1, LinesAssumption
    <3>. QED
      BY <3>1, LenProperties
  <2>. QED
    BY <1>1, <2>1 DEF MapsTypeOK
<1>3. /\ Len(text) \in Nat /\ 0 \in 0..Len(text)
      /\ Upto(Good, 0) = {} /\ \A k : Upto(OfKind(k), 0) = {}
  <2>1. Len(text) \in Nat /\ 0 \in 0..Len(text) /\ Good \in SUBSET (1..Len(text))
        /\ \A k : OfKind(k) \in SUBSET (1..Len(text))
    BY <1>2, MapsLines
  <2>. QED
    BY <2>1, UptoEnds
<1>4. Lists(tops, at)
  <2>1. tops \in Seq(Candidates) /\ Len(tops) = 0
    BY <1>1, EmptySeq
  <2>. QED
    BY <1>1, <1>3, <2>1 DEF Lists
<1>5. Counts(at)
  <2>1. Sizes({}) = 0 /\ Cardinality({}) = 0
    BY SizesGrow, FS_EmptySet
  <2>2. skipped = 0 - Cardinality(Upto(Good, 0))
    <3>1. Cardinality(Upto(Good, 0)) = 0
      BY <1>3, <2>1, Zenon
    <3>. QED
      BY <1>1, <3>1
  <2>3. \A k \in Kinds : /\ Cardinality(Upto(OfKind(k), 0)) = 0
                         /\ Sizes(Upto(OfKind(k), 0)) = 0
    BY <1>3, <2>1, Zenon
  <2>4. buckets = [k \in Kinds |-> [count |-> Cardinality(Upto(OfKind(k), 0)),
                                    size  |-> Sizes(Upto(OfKind(k), 0))]]
    BY <1>1, <2>3
  <2>. QED
    BY <1>1, <2>2, <2>4 DEF Counts
<1>. QED
  BY <1>1, <1>2, <1>4, <1>5 DEF MapsInv

(* A step that is not about the maps, or is none at all.                   *)
LEMMA MapsOthersKeep ==
  ASSUME MapsInv, UNCHANGED <<file, text>>,
         file # "maps" \/ UNCHANGED <<at, result, mapsVars>>
  PROVE  MapsInv'
<1>1. CASE file # "maps"
  BY <1>1 DEF MapsInv, MapsTypeOK
<1>2. CASE UNCHANGED <<at, result, mapsVars>>
  <2>1. UNCHANGED <<file, text, at, result, buckets, tops, skipped, notes>>
    BY <1>2 DEF mapsVars
  <2>2. /\ (\A C, n : Lists(C, n) <=> Lists(C, n)')
        /\ (\A n : Counts(n) <=> Counts(n)')
    BY <2>1 DEF Lists, Counts, Good, OfKind, Candidate, Sizes
  <2>3. \A C : Arranged(C) <=> Arranged(C)'
    BY <2>1, <2>2 DEF Arranged, SkippedNotes
  <2>. QED
    BY <2>1, <2>2, <2>3 DEF MapsInv, MapsTypeOK
<1>. QED
  BY <1>1, <1>2

(* A line is read: it is a candidate and in the bucket of its kind, or     *)
(* it is skipped.                                                          *)
LEMMA MapsLineKeeps ==
  ASSUME MapsInv, MapsLine
  PROVE  MapsInv'
<1>. MapsTypeOK
  BY DEF MapsInv
<1>0. PICK y : y = at + 1
  OBVIOUS
<1>1. /\ file = "maps" /\ result = "none" /\ at < Len(text) /\ at' = y
      /\ file' = file /\ text' = text /\ result' = result
  BY <1>0 DEF MapsLine, Round, Goes
<1>2. Lists(tops, at) /\ Counts(at)
  BY <1>1 DEF MapsInv
<1>3. /\ Len(text) \in Nat /\ at \in 0..Len(text) /\ y \in 1..Len(text)
      /\ DOMAIN text = 1..Len(text)
      /\ Good \in SUBSET (1..Len(text)) /\ \A k : OfKind(k) \in SUBSET (1..Len(text))
  BY <1>0, <1>1, MapsLines DEF MapsTypeOK
<1>4. /\ \A i \in 1..Len(text) : Size(text[i]) \in Int /\ MapKind(text[i]) \in Kinds
      /\ text[y].backing \in Seq(Nat)
  BY <1>1, <1>3, MapsLines
<1>5. MapsTypeOK'
  BY <1>1, <1>3 DEF MapsTypeOK
<1>6. ASSUME NEW A \in SUBSET (1..Len(text))
      PROVE  /\ IsFiniteSet(Upto(A, at)) /\ Cardinality(Upto(A, at)) \in Nat
             /\ y \notin Upto(A, at)
             /\ y \notin A => Upto(A, y) = Upto(A, at)
             /\ y \in A => /\ Upto(A, y) = Upto(A, at) \union {y}
                           /\ Cardinality(Upto(A, y)) = Cardinality(Upto(A, at)) + 1
  <2>1. PICK N, n : N = Len(text) /\ n = at
    OBVIOUS
  <2>2. N \in Nat /\ A \in SUBSET (1..N) /\ n \in Nat /\ y = n + 1
    BY <1>0, <1>3, <2>1
  <2>3. IsFiniteSet(Upto(A, n)) /\ Cardinality(Upto(A, n)) \in Nat
    BY <2>2, UptoGrows
  <2>4. y \notin A => Upto(A, y) = Upto(A, n)
    BY <2>2, UptoGrows
  <2>5. y \notin Upto(A, n)
    BY <2>2 DEF Upto
  <2>6. y \in A => Upto(A, y) = Upto(A, n) \union {y}
    <3>1. \A i \in A : i <= y <=> i <= n \/ i = y
      BY <2>2
    <3>. QED
      BY <3>1 DEF Upto
  <2>7. y \in A => Cardinality(Upto(A, y)) = Cardinality(Upto(A, n)) + 1
    BY <2>2, UptoGrows
  <2>. QED
    BY <2>1, <2>3, <2>4, <2>5, <2>6, <2>7
<1>7. /\ (\A C, n : Lists(C, n) <=> Lists(C, n)')
      /\ Counts(y)' <=>
           /\ skipped' = y - Cardinality(Upto(Good, y))
           /\ buckets' = [k \in Kinds |-> [count |-> Cardinality(Upto(OfKind(k), y)),
                                           size  |-> Sizes(Upto(OfKind(k), y))]]
  <2>1. \A C, n : Lists(C, n) <=> Lists(C, n)'
    BY <1>1 DEF Lists, Good, Candidate
  <2>2. Counts(y)' <=>
          /\ skipped' = y - Cardinality(Upto(Good, y))
          /\ buckets' = [k \in Kinds |-> [count |-> Cardinality(Upto(OfKind(k), y)),
                                          size  |-> Sizes(Upto(OfKind(k), y))]]
    BY <1>1 DEF Counts, Good, OfKind, Sizes
  <2>. QED
    BY <2>1, <2>2
<1>10. skipped = at - Cardinality(Upto(Good, at)) /\ Cardinality(Upto(Good, at)) \in Nat
  BY <1>2, <1>3, <1>6 DEF Counts
<1>8. CASE ~MapLineOk(text[y])
  <2>1. y \notin Good /\ \A k : y \notin OfKind(k)
    BY <1>8 DEF Good, OfKind
  <2>2. skipped' = skipped + 1 /\ buckets' = buckets /\ tops' = tops
    BY <1>0, <1>8 DEF MapsLine, Line
  <2>3. /\ Upto(Good, y) = Upto(Good, at)
        /\ \A k : Upto(OfKind(k), y) = Upto(OfKind(k), at)
    BY <1>3, <1>6, <2>1
  <2>4. Lists(tops', y)
    BY <1>2, <2>2, <2>3 DEF Lists
  <2>5. Counts(y)'
    <3>1. skipped' = y - Cardinality(Upto(Good, y))
      BY <1>0, <1>3, <1>10, <2>2, <2>3
    <3>2. buckets' = [k \in Kinds |-> [count |-> Cardinality(Upto(OfKind(k), y)),
                                       size  |-> Sizes(Upto(OfKind(k), y))]]
      BY <1>2, <2>2, <2>3 DEF Counts
    <3>. QED
      BY <1>7, <3>1, <3>2
  <2>. QED
    BY <1>1, <1>5, <1>7, <2>4, <2>5 DEF MapsInv
<1>9. CASE MapLineOk(text[y])
  <2>. DEFINE K == MapKind(text[y])
  <2>1. y \in Good /\ \A k : y \in OfKind(k) <=> k = K
    BY <1>3, <1>9 DEF Good, OfKind
  <2>2. /\ skipped' = skipped /\ tops' = Append(tops, Candidate(y))
        /\ buckets' = [buckets EXCEPT ![K] =
                         [count |-> @.count + 1, size |-> @.size + Size(text[y])]]
    BY <1>0, <1>9 DEF MapsLine, Line, Candidate
  <2>3. Upto(Good, y) = Upto(Good, at) \union {y} /\ y \notin Upto(Good, at)
    BY <1>3, <1>6, <2>1
  <2>4. Candidate(y) \in Candidates /\ Candidate(y).line = y
    BY <1>3, <1>4 DEF Candidate, Candidates
  <2>5. Lists(tops', y)
    <3>1. /\ tops' \in Seq(Candidates) /\ Len(tops) \in Nat /\ Len(tops') = Len(tops) + 1
          /\ \A r \in 1..Len(tops) : tops'[r] = tops[r]
          /\ tops'[Len(tops) + 1] = Candidate(y)
      BY <1>2, <2>2, <2>4, AppendProperties, LenProperties DEF Lists
    <3>2. \A r \in 1..Len(tops') : r \in 1..Len(tops) \/ r = Len(tops) + 1
      BY <3>1
    <3>3. \A r \in 1..Len(tops') : tops'[r].line \in Upto(Good, y) /\ tops'[r] = Candidate(tops'[r].line)
      BY <1>2, <2>3, <2>4, <3>1, <3>2 DEF Lists
    <3>4. \A r, q \in 1..Len(tops') : tops'[r].line = tops'[q].line => r = q
      BY <1>2, <2>3, <2>4, <3>1, <3>2 DEF Lists
    <3>5. ASSUME NEW i \in Upto(Good, y)
          PROVE  \E r \in 1..Len(tops') : tops'[r].line = i
      <4>1. CASE i = y
        <5>1. Len(tops) + 1 \in 1..Len(tops')
          BY <3>1
        <5>. QED
          BY <2>4, <3>1, <4>1, <5>1
      <4>2. CASE i # y
        <5>1. PICK r \in 1..Len(tops) : tops[r].line = i
          BY <1>2, <2>3, <4>2 DEF Lists
        <5>2. r \in 1..Len(tops')
          BY <3>1
        <5>. QED
          BY <3>1, <5>1, <5>2
      <4>. QED
        BY <4>1, <4>2
    <3>. QED
      BY <3>1, <3>3, <3>4, <3>5 DEF Lists
  <2>6. Counts(y)'
    <3>1. skipped' = y - Cardinality(Upto(Good, y))
      <4>1. Cardinality(Upto(Good, y)) = Cardinality(Upto(Good, at)) + 1
        BY <1>3, <1>6, <2>1
      <4>. QED
        BY <1>0, <1>3, <1>10, <2>2, <4>1
    <3>2. ASSUME NEW k \in Kinds
          PROVE  buckets'[k] = [count |-> Cardinality(Upto(OfKind(k), y)),
                                size  |-> Sizes(Upto(OfKind(k), y))]
      <4>1. buckets[k] = [count |-> Cardinality(Upto(OfKind(k), at)),
                          size  |-> Sizes(Upto(OfKind(k), at))]
        BY <1>2 DEF Counts
      <4>2. buckets'[k] = IF k = K THEN [count |-> buckets[k].count + 1,
                                         size  |-> buckets[k].size + Size(text[y])]
                                   ELSE buckets[k]
        BY <1>2, <2>2 DEF Counts
      <4>3. CASE k = K
        <5>1. /\ IsFiniteSet(Upto(OfKind(k), at)) /\ y \notin Upto(OfKind(k), at)
              /\ Upto(OfKind(k), y) = Upto(OfKind(k), at) \union {y}
              /\ Cardinality(Upto(OfKind(k), y)) = Cardinality(Upto(OfKind(k), at)) + 1
          BY <1>3, <1>6, <2>1, <4>3
        <5>2. \A i \in Upto(OfKind(k), at) : Size(text[i]) \in Int
          BY <1>3, <1>4 DEF Upto
        <5>3. Sizes(Upto(OfKind(k), y)) = Sizes(Upto(OfKind(k), at)) + Size(text[y])
          BY <1>3, <1>4, <5>1, <5>2, SizesGrow
        <5>. QED
          BY <4>1, <4>2, <4>3, <5>1, <5>3
      <4>4. CASE k # K
        <5>1. Upto(OfKind(k), y) = Upto(OfKind(k), at)
          BY <1>3, <1>6, <2>1, <4>4
        <5>. QED
          BY <4>1, <4>2, <4>4, <5>1
      <4>. QED
        BY <4>3, <4>4
    <3>3. DOMAIN buckets' = Kinds /\ buckets' = [k \in DOMAIN buckets' |-> buckets'[k]]
      BY <1>2, <2>2 DEF Counts
    <3>4. buckets' = [k \in Kinds |-> [count |-> Cardinality(Upto(OfKind(k), y)),
                                       size  |-> Sizes(Upto(OfKind(k), y))]]
      BY <3>2, <3>3
    <3>. QED
      BY <1>7, <3>1, <3>4
  <2>. QED
    BY <1>1, <1>5, <1>7, <2>5, <2>6 DEF MapsInv
<1>. QED
  BY <1>8, <1>9

(* The end: the candidates there are have been sorted and cut.             *)
LEMMA MapsEndKeeps ==
  ASSUME MapsInv, MapsEnd
  PROVE  MapsInv'
<1>1. /\ file = "maps" /\ result = "none" /\ at = Len(text) /\ result' = "ok"
      /\ UNCHANGED <<file, text, at, buckets, skipped>>
  BY DEF MapsEnd, Done, Returns
<1>2. MapsTypeOK'
  BY <1>1 DEF MapsInv, MapsTypeOK
<1>3. Lists(tops, Len(text)) /\ Counts(Len(text))
  BY <1>1 DEF MapsInv
<1>4. Counts(Len(text))'
  <2>1. PICK n : n = Len(text)
    OBVIOUS
  <2>2. Counts(n)'
    BY <1>1, <1>3, <2>1 DEF Counts, Good, OfKind, Sizes
  <2>. QED
    BY <1>1, <2>1, <2>2
<1>5. PICK C : C = tops
  OBVIOUS
<1>6. Arranged(C)'
  <2>1. Lists(C, Len(text))'
    <3>1. PICK n : n = Len(text)
      OBVIOUS
    <3>2. Lists(C, n)'
      BY <1>1, <1>3, <1>5, <3>1 DEF Lists, Good, Candidate
    <3>. QED
      BY <1>1, <3>1, <3>2
  <2>2. SkippedNotes' = SkippedNotes
    BY <1>1 DEF SkippedNotes
  <2>3. /\ tops' = [r \in DOMAIN Largest(C) |-> [Largest(C)[r] EXCEPT !.backing = TruncateUtf8(@)]]
        /\ notes' = SkippedNotes \o TruncationNotes(Largest(C))
    BY <1>5 DEF MapsEnd
  <2>. QED
    BY <2>1, <2>2, <2>3 DEF Arranged
<1>. QED
  BY <1>1, <1>2, <1>4, <1>6 DEF MapsInv

LEMMA MapsStays == MapsInv /\ [Next]_vars => MapsInv'
<1>. SUFFICES ASSUME MapsInv, [Next]_vars PROVE MapsInv'
  OBVIOUS
<1>1. CASE MapsLine
  BY <1>1, MapsLineKeeps
<1>2. CASE MapsEnd
  BY <1>2, MapsEndKeeps
<1>3. CASE ParseStat \/ ReadFlat
  BY <1>3, MapsOthersKeep DEF ParseStat, ReadFlat
<1>4. CASE SystemCpuLine \/ CgroupUnified \/ CgroupLegacy \/ CgroupMalformed \/ StatusLine \/ StackLine
  BY <1>4, MapsOthersKeep DEF SystemCpuLine, CgroupUnified, CgroupLegacy, CgroupMalformed,
                              StatusLine, StackLine, Round
<1>5. CASE SystemCpuEnd \/ CgroupEnd \/ StatusEnd \/ StackEnd
  BY <1>5, MapsOthersKeep DEF SystemCpuEnd, CgroupEnd, StatusEnd, StackEnd, Done
<1>6. CASE UNCHANGED vars
  BY <1>6, MapsOthersKeep DEF vars
<1>. QED
  BY <1>1, <1>2, <1>3, <1>4, <1>5, <1>6 DEF Next

(* The result: L[r] is the line of the entry of rank r, of m entries.      *)
Topped(L, m) ==
  /\ m \in Nat /\ L \in [1..m -> Good]
  /\ m = TopN \/ \A i \in Good : \E r \in 1..m : L[r] = i
  /\ \A r, q \in 1..m : L[r] = L[q] => r = q
  /\ \A r, q \in 1..m : r < q => Size(text[L[q]]) <= Size(text[L[r]])
  /\ \A i \in Good : (\A r \in 1..m : L[r] # i) => \A r \in 1..m : Size(text[i]) <= Size(text[L[r]])
  /\ DOMAIN tops = 1..m /\ Len(tops) = m
  /\ \A r \in 1..m : /\ tops[r].line = L[r] /\ tops[r].size = Size(text[L[r]])
                     /\ tops[r].backing = TruncateUtf8(text[L[r]].backing)
  /\ notes = SkippedNotes \o
               Collect([r \in 1..m |-> [field |-> "backing", index |-> r - 1]],
                       {r \in 1..m : Bytes(text[L[r]].backing) > BackingMax})

LEMMA TopsAre ==
  ASSUME MapsInv, file = "maps", result = "ok"
  PROVE  \E L, m : Topped(L, m)
<1>1. PICK C : Arranged(C)
  BY DEF MapsInv
<1>2. PICK e : Sorts(e, C)
  BY <1>1, Ranked DEF Arranged, Lists
<1>. DEFINE m == Kept(C)
            n == Len(C)
            top == Largest(C)
            L == [r \in 1..m |-> C[e[r]].line]
            cut(x) == [x EXCEPT !.backing = TruncateUtf8(@)]
<1>3. n \in Nat /\ m \in Nat /\ m <= n /\ (m = TopN \/ m = n)
  BY <1>1, TopAssumption, LenProperties DEF Arranged, Lists, Kept
<1>4. Upto(Good, Len(text)) = Good /\ \A i \in Good : text[i].backing \in Seq(Nat)
  BY MapsLines, UptoEnds DEF MapsInv
<1>5. \A q \in 1..n : /\ C[q].line \in Good /\ C[q] = Candidate(C[q].line)
                      /\ C[q].size = Size(text[C[q].line])
                      /\ C[q].backing = text[C[q].line].backing
  <2>. SUFFICES ASSUME NEW q \in 1..n
                PROVE  /\ C[q].line \in Good /\ C[q] = Candidate(C[q].line)
                       /\ C[q].size = Size(text[C[q].line])
                       /\ C[q].backing = text[C[q].line].backing
    OBVIOUS
  <2>1. C[q].line \in Good /\ C[q] = Candidate(C[q].line)
    BY <1>1, <1>4 DEF Arranged, Lists
  <2>2. \A i : Candidate(i).size = Size(text[i]) /\ Candidate(i).backing = text[i].backing
    BY DEF Candidate
  <2>. QED
    BY <2>1, <2>2, Zenon
<1>6. /\ DOMAIN top = 1..m
      /\ \A r \in 1..m : e[r] \in 1..n /\ top[r] = C[e[r]] /\ Rank(C, e[r]) = r
  BY <1>2 DEF Sorts
<1>7. L \in [1..m -> Good]
  BY <1>5, <1>6
<1>. HIDE DEF m, n, top
<1>8. \A r, q \in 1..m : L[r] = L[q] => r = q
  <2>. SUFFICES ASSUME NEW r \in 1..m, NEW q \in 1..m, L[r] = L[q] PROVE r = q
    OBVIOUS
  <2>1. e[r] = e[q]
    BY <1>1, <1>6 DEF Arranged, Lists, n
  <2>. QED
    BY <1>6, <2>1
<1>9. \A r \in 1..m, q \in 1..n : r < Rank(C, q) => Size(text[C[q].line]) <= Size(text[L[r]])
  <2>1. \A r \in 1..m, q \in 1..n : r < Rank(C, q) => C[q].size <= C[e[r]].size
    BY <1>2 DEF Sorts, m, n
  <2>. QED
    BY <1>5, <1>6, <2>1
<1>10. \A r, q \in 1..m : r < q => Size(text[L[q]]) <= Size(text[L[r]])
  BY <1>6, <1>9
<1>11. ASSUME NEW i \in Good
       PROVE  \E q \in 1..n : C[q].line = i /\ Rank(C, q) \in 1..n
                              /\ (Rank(C, q) <= m => e[Rank(C, q)] = q)
  <2>1. PICK q \in 1..n : C[q].line = i
    BY <1>1, <1>4 DEF Arranged, Lists, n
  <2>. QED
    BY <1>2, <2>1 DEF Sorts, m, n
<1>12. m = TopN \/ \A i \in Good : \E r \in 1..m : L[r] = i
  <2>. SUFFICES ASSUME m = n, NEW i \in Good PROVE \E r \in 1..m : L[r] = i
    BY <1>3
  <2>1. PICK q \in 1..n : C[q].line = i /\ Rank(C, q) \in 1..n /\ (Rank(C, q) <= m => e[Rank(C, q)] = q)
    BY <1>11
  <2>2. Rank(C, q) \in 1..m /\ e[Rank(C, q)] = q
    BY <1>3, <2>1
  <2>. QED
    BY <2>1, <2>2
<1>13. \A i \in Good : (\A r \in 1..m : L[r] # i) => \A r \in 1..m : Size(text[i]) <= Size(text[L[r]])
  <2>. SUFFICES ASSUME NEW i \in Good, \A r \in 1..m : L[r] # i, NEW r \in 1..m
                PROVE  Size(text[i]) <= Size(text[L[r]])
    OBVIOUS
  <2>1. PICK q \in 1..n : C[q].line = i /\ Rank(C, q) \in 1..n /\ (Rank(C, q) <= m => e[Rank(C, q)] = q)
    BY <1>11
  <2>2. Rank(C, q) > m
    <3>. SUFFICES ASSUME ~(Rank(C, q) > m) PROVE FALSE
      OBVIOUS
    <3>1. Rank(C, q) \in 1..m /\ e[Rank(C, q)] = q
      BY <1>3, <2>1
    <3>. QED
      BY <2>1, <3>1
  <2>3. r < Rank(C, q)
    BY <1>3, <2>1, <2>2
  <2>. QED
    BY <1>9, <2>1, <2>3
<1>14. tops = [r \in 1..m |-> cut(top[r])]
  BY <1>1, <1>6 DEF Arranged, top
<1>15. \A r \in 1..m : /\ tops[r].line = L[r] /\ tops[r].size = Size(text[L[r]])
                       /\ tops[r].backing = TruncateUtf8(text[L[r]].backing)
  <2>. SUFFICES ASSUME NEW r \in 1..m
                PROVE  /\ tops[r].line = L[r] /\ tops[r].size = Size(text[L[r]])
                       /\ tops[r].backing = TruncateUtf8(text[L[r]].backing)
    OBVIOUS
  <2>1. tops[r] = [Candidate(L[r]) EXCEPT !.backing = TruncateUtf8(@)]
    BY <1>5, <1>6, <1>14
  <2>. QED
    BY <2>1 DEF Candidate
<1>16. DOMAIN tops = 1..m /\ Len(tops) = m
  <2>1. DOMAIN tops = 1..m
    BY <1>14
  <2>. QED
    BY <1>3, <1>14, <2>1
<1>17. notes = SkippedNotes \o
                 Collect([r \in 1..m |-> [field |-> "backing", index |-> r - 1]],
                         {r \in 1..m : Bytes(text[L[r]].backing) > BackingMax})
  <2>1. \A r \in 1..m : TooLong(top[r]) <=> Bytes(text[L[r]].backing) > BackingMax
    BY <1>5, <1>6 DEF TooLong
  <2>2. {r \in 1..m : TooLong(top[r])} = {r \in 1..m : Bytes(text[L[r]].backing) > BackingMax}
    BY <2>1
  <2>3. TruncationNotes(top) = Collect([r \in 1..m |-> [field |-> "backing", index |-> r - 1]],
                                       {r \in 1..m : TooLong(top[r])})
    BY <1>6, Zenon DEF TruncationNotes
  <2>4. notes = SkippedNotes \o TruncationNotes(top)
    BY <1>1 DEF Arranged, top
  <2>. QED
    BY <2>2, <2>3, <2>4
<1>. QED
  <2>. HIDE DEF L
  <2>1. Topped(L, m)
    BY <1>3, <1>7, <1>8, <1>10, <1>12, <1>13, <1>15, <1>16, <1>17, Zenon DEF Topped
  <2>. QED
    BY <2>1, Zenon

(* What has been noted.                                                    *)
LEMMA NotesAre ==
  ASSUME MapsInv, file = "maps", result = "ok", NEW L, NEW m, Topped(L, m)
  PROVE  /\ skipped > 0 <=> \E n \in DOMAIN notes : notes[n].field = "mem_shape"
         /\ \A r \in 1..m :
              Bytes(text[L[r]].backing) > BackingMax
                <=> \E n \in DOMAIN notes : notes[n] = [field |-> "backing", index |-> r - 1]
<1>. DEFINE V == [field : {"mem_shape", "backing"}, index : Nat]
            note == [r \in 1..m |-> [field |-> "backing", index |-> r - 1]]
            long == {r \in 1..m : Bytes(text[L[r]].backing) > BackingMax}
            some == Collect(note, long)
<1>1. m \in Nat /\ notes = SkippedNotes \o some
  BY DEF Topped
<1>2. note \in Seq(V) /\ Len(note) = m /\ long \in SUBSET (1..m)
  <2>1. \A r \in 1..m : r - 1 \in Nat
    BY <1>1
  <2>2. note \in [1..m -> V]
    BY <2>1
  <2>. HIDE DEF V
  <2>. QED
    BY <1>1, <2>2
<1>3. SkippedNotes \in Seq(V)
  <2>1. [field |-> "mem_shape", index |-> 0] \in V
    OBVIOUS
  <2>. HIDE DEF V
  <2>. QED
    BY <2>1 DEF SkippedNotes
<1>4. /\ some \in Seq(V)
      /\ \A j \in 1..Len(some) : \E i \in long : some[j] = note[i]
      /\ \A i \in long : \E j \in 1..Len(some) : some[j] = note[i]
  <2>. HIDE DEF V, note, long
  <2>. QED
    BY <1>1, <1>2, Collected
<1>. HIDE DEF some
<1>5. DOMAIN some = 1..Len(some)
  BY <1>4, LenProperties
<1>6. Range(notes) = Range(SkippedNotes) \union Range(some)
  <2>. HIDE DEF V
  <2>. QED
    BY <1>1, <1>3, <1>4, RangeConcatenation
<1>7. Range(SkippedNotes) = IF skipped > 0 THEN {[field |-> "mem_shape", index |-> 0]} ELSE {}
  BY DEF SkippedNotes, Range
<1>8. \A x : x \in Range(some) <=> \E i \in long : x = note[i]
  <2>1. Range(some) = {some[j] : j \in 1..Len(some)}
    BY <1>5 DEF Range
  <2>. HIDE DEF note, long
  <2>. SUFFICES ASSUME NEW x PROVE x \in Range(some) <=> \E i \in long : x = note[i]
    OBVIOUS
  <2>2. ASSUME x \in Range(some) PROVE \E i \in long : x = note[i]
    <3>1. PICK j \in 1..Len(some) : x = some[j]
      BY <2>1, <2>2
    <3>. QED
      BY <1>4, <3>1, Zenon
  <2>3. ASSUME NEW i \in long, x = note[i] PROVE x \in Range(some)
    <3>1. PICK j \in 1..Len(some) : some[j] = note[i]
      BY <1>4, Zenon
    <3>. QED
      BY <2>1, <2>3, <3>1
  <2>. QED
    BY <2>2, <2>3, Zenon
<1>9. skipped > 0 <=> \E n \in DOMAIN notes : notes[n].field = "mem_shape"
  <2>1. (\E n \in DOMAIN notes : notes[n].field = "mem_shape")
          <=> \E x \in Range(notes) : x.field = "mem_shape"
    BY DEF Range
  <2>2. \A x \in Range(some) : x.field # "mem_shape"
    BY <1>8
  <2>3. [field |-> "mem_shape", index |-> 0].field = "mem_shape"
    OBVIOUS
  <2>4. (\E x \in Range(SkippedNotes) : x.field = "mem_shape") <=> skipped > 0
    BY <1>7, <2>3
  <2>. QED
    BY <1>6, <2>1, <2>2, <2>4, Zenon
<1>10. ASSUME NEW r \in 1..m
       PROVE  Bytes(text[L[r]].backing) > BackingMax
                <=> \E n \in DOMAIN notes : notes[n] = [field |-> "backing", index |-> r - 1]
  <2>. DEFINE x == [field |-> "backing", index |-> r - 1]
  <2>1. (\E n \in DOMAIN notes : notes[n] = x) <=> x \in Range(notes)
    BY DEF Range
  <2>2. x \notin Range(SkippedNotes)
    BY <1>7
  <2>3. \A i \in 1..m : note[i] = x => i = r
    <3>. SUFFICES ASSUME NEW i \in 1..m, note[i] = x PROVE i = r
      OBVIOUS
    <3>1. note[i].index = i - 1 /\ x.index = r - 1
      OBVIOUS
    <3>. QED
      BY <1>1, <3>1
  <2>4. x \in Range(some) <=> r \in long
    <3>1. note[r] = x
      OBVIOUS
    <3>. HIDE DEF note, x
    <3>. QED
      BY <1>8, <2>3, <3>1
  <2>. HIDE DEF x
  <2>5. r \in long <=> Bytes(text[L[r]].backing) > BackingMax
    OBVIOUS
  <2>. QED
    BY <1>6, <2>1, <2>2, <2>4, <2>5 DEF x
<1>. QED
  BY <1>9, <1>10

LEMMA CutsNamed == MapsInv => TruncationsNamed
<1>. SUFFICES ASSUME MapsInv, file = "maps", result = "ok", NEW r \in DOMAIN tops
              PROVE  LET full == text[tops[r].line].backing
                         rest == tops[r].backing
                         cut  == rest # full
                     IN  /\ cut <=> \E n \in DOMAIN notes : notes[n] = [field |-> "backing", index |-> r - 1]
                         /\ rest = SubSeq(full, 1, Len(rest))
                         /\ Bytes(rest) <= BackingMax
                         /\ cut => Bytes(rest) + full[Len(rest) + 1] > BackingMax
  BY DEF TruncationsNamed
<1>1. PICK L, m : Topped(L, m)
  BY TopsAre
<1>2. PICK full, rest : full = text[tops[r].line].backing /\ rest = tops[r].backing
  OBVIOUS
<1>3. /\ r \in 1..m /\ L[r] \in Good /\ rest = TruncateUtf8(full)
      /\ full = text[L[r]].backing
  BY <1>1, <1>2 DEF Topped
<1>4. full \in Seq(Nat)
  BY <1>3, MapsLines DEF MapsInv
<1>5. Bytes(full) > BackingMax
        <=> \E n \in DOMAIN notes : notes[n] = [field |-> "backing", index |-> r - 1]
  BY <1>1, <1>3, NotesAre
<1>6. /\ rest = SubSeq(full, 1, Len(rest))
      /\ Bytes(rest) <= BackingMax
      /\ rest # full <=> Bytes(full) > BackingMax
      /\ rest # full => Bytes(rest) + full[Len(rest) + 1] > BackingMax
  BY <1>3, <1>4, Truncated
<1>. QED
  BY <1>2, <1>5, <1>6, Zenon

(* The kind of a mapping, in the words of the maps file.                   *)
LEMMA KindsAgree ==
  ASSUME file = "maps", MapsTypeOK, NEW k \in Kinds
  PROVE  {i \in Good :
            \/ k = "x_lib" /\ text[i].path = "file" /\ text[i].perms[3] = "x"
            \/ k = "file" /\ text[i].path = "file" /\ text[i].perms[3] # "x"
            \/ k = "anon" /\ text[i].path \in {"none", "pseudo"}
            \/ k \in {"heap", "stack"} /\ text[i].path = k} = OfKind(k)
<1>1. ASSUME NEW i \in Good
      PROVE  MapKind(text[i]) = k <=>
               \/ k = "x_lib" /\ text[i].path = "file" /\ text[i].perms[3] = "x"
               \/ k = "file" /\ text[i].path = "file" /\ text[i].perms[3] # "x"
               \/ k = "anon" /\ text[i].path \in {"none", "pseudo"}
               \/ k \in {"heap", "stack"} /\ text[i].path = k
  <2>. DEFINE path == text[i].path
              perms == text[i].perms
  <2>1. path \in {"none", "pseudo", "heap", "stack", "file"} /\ perms \in Seq(STRING)
    BY MapsLines
  <2>2. PermsOk(perms)
    BY DEF Good, MapLineOk
  <2>. HIDE DEF path, perms
  <2>3. "x" \in ToSet(perms) <=> perms[3] = "x"
    <3>1. DOMAIN perms = 1..4
      BY <2>1, <2>2, LenProperties DEF PermsOk
    <3>2. \A j \in 1..4 : j = 1 \/ j = 2 \/ j = 3 \/ j = 4
      OBVIOUS
    <3>3. perms[1] # "x" /\ perms[2] # "x" /\ perms[4] # "x"
      BY <2>2 DEF PermsOk
    <3>4. "x" \in ToSet(perms) <=> \E j \in 1..4 : perms[j] = "x"
      BY <3>1 DEF ToSet
    <3>5. 3 \in 1..4
      OBVIOUS
    <3>. QED
      BY <3>2, <3>3, <3>4, <3>5
  <2>4. MapKind(text[i]) = IF path = "none" \/ path = "pseudo" THEN "anon"
                           ELSE IF path \in {"heap", "stack"} THEN path
                           ELSE IF perms[3] = "x" THEN "x_lib" ELSE "file"
    BY <2>3 DEF MapKind, path, perms
  <2>5. MapKind(text[i]) = k <=>
               \/ k = "x_lib" /\ path = "file" /\ perms[3] = "x"
               \/ k = "file" /\ path = "file" /\ perms[3] # "x"
               \/ k = "anon" /\ path \in {"none", "pseudo"}
               \/ k \in {"heap", "stack"} /\ path = k
    BY <2>1, <2>4 DEF Kinds
  <2>. QED
    BY <2>5 DEF path, perms
<1>. QED
  BY <1>1 DEF OfKind

(* The histogram has the count and the size of every kind there is.        *)
LEMMA HistogramIs ==
  ASSUME MapsInv, file = "maps", result = "ok"
  PROVE  /\ \A h \in DOMAIN Histogram :
              /\ Histogram[h].kind \in Kinds
              /\ Histogram[h].count = Cardinality(OfKind(Histogram[h].kind))
              /\ Histogram[h].size = Sizes(OfKind(Histogram[h].kind))
         /\ \A k \in Kinds : OfKind(k) # {} => \E h \in DOMAIN Histogram : Histogram[h].kind = k
<1>. DEFINE entry(k) == [kind |-> k, count |-> buckets[k].count, size |-> buckets[k].size]
            V == {entry(k) : k \in Kinds}
            bars == [i \in DOMAIN KindOrder |-> entry(KindOrder[i])]
            tall == {i \in DOMAIN KindOrder : buckets[KindOrder[i]].count > 0}
<1>1. /\ DOMAIN KindOrder = 1..5 /\ \A i \in 1..5 : KindOrder[i] \in Kinds
      /\ \A k \in Kinds : \E i \in 1..5 : KindOrder[i] = k
  <2>1. DOMAIN KindOrder = 1..5 /\ \A i \in 1..5 : KindOrder[i] \in Kinds
    BY DEF KindOrder, Kinds
  <2>2. /\ KindOrder[1] = "heap" /\ KindOrder[2] = "stack" /\ KindOrder[3] = "anon"
        /\ KindOrder[4] = "file" /\ KindOrder[5] = "x_lib"
    BY DEF KindOrder
  <2>3. \A k \in Kinds : \E i \in 1..5 : KindOrder[i] = k
    BY <2>2 DEF Kinds
  <2>. QED
    BY <2>1, <2>3
<1>2. ASSUME NEW k \in Kinds
      PROVE  /\ buckets[k].count = Cardinality(OfKind(k)) /\ buckets[k].size = Sizes(OfKind(k))
             /\ OfKind(k) # {} => buckets[k].count > 0
  <2>1. Counts(Len(text)) /\ MapsTypeOK
    BY DEF MapsInv
  <2>2. /\ Len(text) \in Nat /\ OfKind(k) \in SUBSET (1..Len(text))
        /\ Upto(OfKind(k), Len(text)) = OfKind(k)
    BY <2>1, MapsLines, UptoEnds
  <2>3. buckets[k].count = Cardinality(OfKind(k)) /\ buckets[k].size = Sizes(OfKind(k))
    BY <2>1, <2>2 DEF Counts
  <2>4. IsFiniteSet(OfKind(k))
    BY <2>2, Segment, FS_Subset
  <2>5. Cardinality(OfKind(k)) \in Nat /\ (Cardinality(OfKind(k)) = 0 <=> OfKind(k) = {})
    BY <2>4, FS_CardinalityType, FS_EmptySet
  <2>. QED
    BY <2>3, <2>5
<1>3. bars \in Seq(V) /\ tall \in SUBSET (1..Len(bars))
  <2>1. bars \in [1..5 -> V]
    BY <1>1
  <2>2. tall \in SUBSET (1..5)
    BY <1>1
  <2>. HIDE DEF V, bars, tall
  <2>3. PICK n \in Nat : n = 5
    OBVIOUS
  <2>4. bars \in Seq(V)
    <3>1. bars \in [1..n -> V]
      BY <2>1, <2>3
    <3>. QED
      BY <3>1, SeqDef
  <2>5. Len(bars) = n
    <3>1. Len(bars) \in Nat /\ 1..Len(bars) = 1..n
      BY <2>1, <2>3, <2>4, LenProperties
    <3>. QED
      BY <3>1
  <2>. QED
    BY <2>2, <2>3, <2>4, <2>5
<1>4. Histogram = Collect(bars, tall)
  BY DEF Histogram
<1>5. /\ Histogram \in Seq(V)
      /\ \A j \in 1..Len(Histogram) : \E i \in tall : Histogram[j] = bars[i]
      /\ \A i \in tall : \E j \in 1..Len(Histogram) : Histogram[j] = bars[i]
  <2>. HIDE DEF V, bars, tall
  <2>. QED
    BY <1>3, <1>4, Collected
<1>6. DOMAIN Histogram = 1..Len(Histogram)
  BY <1>5, LenProperties
<1>7. ASSUME NEW h \in DOMAIN Histogram
      PROVE  /\ Histogram[h].kind \in Kinds
             /\ Histogram[h].count = Cardinality(OfKind(Histogram[h].kind))
             /\ Histogram[h].size = Sizes(OfKind(Histogram[h].kind))
  <2>1. PICK i \in tall : Histogram[h] = bars[i]
    BY <1>5, <1>6
  <2>2. PICK k \in Kinds : Histogram[h] = entry(k)
    BY <1>1, <2>1
  <2>3. Histogram[h].kind = k /\ Histogram[h].count = buckets[k].count /\ Histogram[h].size = buckets[k].size
    BY <2>2
  <2>. QED
    BY <1>2, <2>3
<1>8. ASSUME NEW k \in Kinds, OfKind(k) # {}
      PROVE  \E h \in DOMAIN Histogram : Histogram[h].kind = k
  <2>1. PICK i \in 1..5 : KindOrder[i] = k
    BY <1>1
  <2>2. i \in tall
    BY <1>1, <1>2, <1>8, <2>1
  <2>3. bars[i].kind = k
    BY <1>1, <2>1
  <2>. QED
    BY <1>5, <1>6, <2>2, <2>3
<1>. QED
  BY <1>7, <1>8

LEMMA ShapeHolds == MapsInv => ShapeAccountsForMaps
<1>. SUFFICES ASSUME MapsInv, file = "maps", result = "ok" PROVE ShapeAccountsForMaps
  BY DEF ShapeAccountsForMaps
<1>. DEFINE valid == {i \in DOMAIN text : MapLineOk(text[i])}
            kept  == {tops[r].line : r \in DOMAIN tops}
            Of(k) == {i \in valid :
                       \/ k = "x_lib" /\ text[i].path = "file" /\ text[i].perms[3] = "x"
                       \/ k = "file" /\ text[i].path = "file" /\ text[i].perms[3] # "x"
                       \/ k = "anon" /\ text[i].path \in {"none", "pseudo"}
                       \/ k \in {"heap", "stack"} /\ text[i].path = k}
<1>1. PICK L, m : Topped(L, m)
  BY TopsAre
<1>2. MapsTypeOK /\ Counts(Len(text))
  BY DEF MapsInv
<1>3. valid = Good
  BY DEF Good
<1>4. \A k \in Kinds : Of(k) = OfKind(k)
  BY <1>2, <1>3, KindsAgree
<1>5. /\ \A h \in DOMAIN Histogram : /\ Histogram[h].count = Cardinality(Of(Histogram[h].kind))
                                     /\ Histogram[h].size = Sizes(Of(Histogram[h].kind))
      /\ \A k \in Kinds : Of(k) # {} => \E h \in DOMAIN Histogram : Histogram[h].kind = k
  <2>. HIDE DEF Of
  <2>. QED
    BY <1>4, HistogramIs
<1>6. skipped = Len(text) - Cardinality(valid)
  <2>1. Upto(Good, Len(text)) = Good
    BY <1>2, MapsLines, UptoEnds
  <2>. QED
    BY <1>2, <1>3, <2>1 DEF Counts
<1>7. skipped > 0 <=> \E n \in DOMAIN notes : notes[n].field = "mem_shape"
  BY <1>1, NotesAre
<1>8. /\ m \in Nat /\ DOMAIN tops = 1..m /\ Len(tops) = m
      /\ \A r \in 1..m : L[r] \in Good /\ tops[r].line = L[r] /\ tops[r].size = Size(text[L[r]])
      /\ \A r, q \in 1..m : L[r] = L[q] => r = q
      /\ \A r, q \in 1..m : r < q => Size(text[L[q]]) <= Size(text[L[r]])
      /\ \A i \in Good : (\A r \in 1..m : L[r] # i) => \A r \in 1..m : Size(text[i]) <= Size(text[L[r]])
      /\ m = TopN \/ \A i \in Good : \E r \in 1..m : L[r] = i
      /\ L \in [1..m -> Good]
  BY <1>1 DEF Topped
<1>9. kept = {L[r] : r \in 1..m}
  BY <1>8
<1>. HIDE DEF valid, kept, Of
<1>10. kept \subseteq valid
  BY <1>3, <1>8, <1>9
<1>11. Cardinality(kept) = Len(tops)
  <2>1. L \in [1..m -> kept]
    BY <1>8, <1>9
  <2>2. L \in Surjection(1..m, kept)
    BY <1>9, <2>1 DEF Surjection
  <2>3. L \in Injection(1..m, kept)
    BY <1>8, <2>1 DEF Injection, IsInjective
  <2>4. IsFiniteSet(1..m) /\ Cardinality(1..m) = m
    BY <1>8, Segment
  <2>5. Cardinality(kept) = Cardinality(1..m)
    BY <2>2, <2>3, <2>4, FS_Surjection
  <2>. QED
    BY <1>8, <2>4, <2>5
<1>12. Len(tops) = TopN \/ kept = valid
  BY <1>3, <1>8, <1>9, <1>10
<1>13. \A r \in DOMAIN tops : \A i \in valid \ kept : Size(text[i]) <= tops[r].size
  BY <1>3, <1>8, <1>9
<1>14. \A r, q \in DOMAIN tops : r < q => tops[r].size >= tops[q].size
  <2>1. \A r \in 1..m : Size(text[L[r]]) \in Int
    BY <1>2, <1>8, MapsLines
  <2>. QED
    BY <1>8, <2>1
<1>. QED
  BY <1>5, <1>6, <1>7, <1>10, <1>11, <1>12, <1>13, <1>14, Zenon
     DEF ShapeAccountsForMaps, valid, kept, Of

(* parse_maps_with_diagnostics: no line of the maps is lost without being  *)
(* counted, and what top_n leaves out is no larger than what it keeps, for *)
(* every file and every number of entries.                                 *)
THEOREM ShapeIsComplete == Spec => []ShapeAccountsForMaps
  BY MapsInit, MapsStays, ShapeHolds, PTL DEF Spec

(* A backing that was cut is reported at the place it has after the sort.  *)
THEOREM CutsAreNamed == Spec => []TruncationsNamed
  BY MapsInit, MapsStays, CutsNamed, PTL DEF Spec

-----------------------------------------------------------------------------
(* parse_stat.                                                             *)

LEMMA Slice ==
  ASSUME NEW V, NEW s \in Seq(V), NEW a \in Nat, NEW b \in Nat, 1 <= a, a <= b + 1, b <= Len(s)
  PROVE  /\ SubSeq(s, a, b) \in Seq(V)
         /\ Len(SubSeq(s, a, b)) = b - a + 1
         /\ DOMAIN SubSeq(s, a, b) = 1..b - a + 1
         /\ \A i \in 1..b - a + 1 : SubSeq(s, a, b)[i] = s[a + i - 1]
<1>1. Len(s) \in Nat /\ \A i \in a..b : s[i] \in V
  BY LenProperties, ElementOfSeq
<1>2. /\ SubSeq(s, a, b) \in Seq(V)
      /\ Len(SubSeq(s, a, b)) = IF a <= b THEN b - a + 1 ELSE 0
      /\ \A i \in 1..b - a + 1 : SubSeq(s, a, b)[i] = s[a + i - 1]
  BY <1>1, SubSeqProperties
<1>3. Len(SubSeq(s, a, b)) = b - a + 1
  BY <1>2
<1>. QED
  BY <1>2, <1>3, LenProperties

LEMMA Places ==
  ASSUME NEW m \in Nat, NEW i \in 1..m
  PROVE  i \in Int
OBVIOUS

(* Trim, of a text whose first and last elements that are not white are    *)
(* known.                                                                  *)
LEMMA Trimmed ==
  ASSUME NEW V, NEW s \in Seq(V), NEW a \in 1..Len(s), NEW b \in 1..Len(s),
         s[a] # " ", s[b] # " ", \A i \in 1..Len(s) : s[i] # " " => a <= i /\ i <= b
  PROVE  Trim(s) = SubSeq(s, a, b)
<1>. DEFINE ink == {i \in DOMAIN s : s[i] # " "}
<1>1. Len(s) \in Nat /\ DOMAIN s = 1..Len(s)
  BY LenProperties
<1>2. a \in ink /\ b \in ink /\ \A i \in ink : a <= i /\ i <= b
  BY <1>1
<1>3. ink \in SUBSET Int
  <2>1. ink \subseteq DOMAIN s
    OBVIOUS
  <2>2. PICK m \in Nat : DOMAIN s = 1..m
    BY <1>1
  <2>. HIDE DEF ink
  <2>. QED
    BY <2>1, <2>2, Places, Zenon
<1>. HIDE DEF ink
<1>4. Min(ink) = a /\ Max(ink) = b /\ ink # {}
  BY <1>2, <1>3, LeastIsMin, GreatestIsMax
<1>. QED
  BY <1>4 DEF Trim, ink

Processes == [pid : Range(Numerals), comm : Seq(STRING), columns : Seq(Printable)]

(* A text as the kernel prints it, without the white space at its end.     *)
Lay(s, p) ==
  LET k == Len(p.comm)
      n == Len(p.columns)
  IN  /\ k \in Nat /\ n \in Nat /\ Len(s) = 4 + k + 2 * n
      /\ s[1] = p.pid /\ s[2] = " " /\ s[3] = "(" /\ s[4 + k] = ")"
      /\ \A i \in 1..k : s[3 + i] = p.comm[i]
      /\ \A i \in 1..n : s[3 + k + 2 * i] = " " /\ s[4 + k + 2 * i] = p.columns[i]

Text == STRING \union {"(", ")", " "}

LEMMA ProcessParts ==
  ASSUME NEW p \in Processes
  PROVE  /\ p.comm \in Seq(Text) /\ p.columns \in Seq(Text)
         /\ Len(p.comm) \in Nat /\ Len(p.columns) \in Nat
         /\ p.pid \in Text \ {"(", ")", " "}
         /\ \A i \in 1..Len(p.columns) : p.columns[i] \in Text \ {"(", ")", " "}
<1>1. p.pid \in Range(Numerals) /\ p.comm \in Seq(STRING) /\ p.columns \in Seq(Printable)
  BY DEF Processes
<1>2. p.comm \in Seq(Text)
  BY <1>1, SeqMonotonic DEF Text
<1>3. Printable \subseteq Text \ {"(", ")", " "}
  BY DEF Printable, Text
<1>4. p.columns \in Seq(Text) /\ \A i \in 1..Len(p.columns) : p.columns[i] \in Printable
  BY <1>1, <1>3, SeqMonotonic, ElementOfSeq
<1>5. p.pid \in Printable
  <2>1. Numerals \in Seq(Printable)
    BY LinesAssumption
  <2>. QED
    BY <1>1, <2>1, RangeOfSeq
<1>. QED
  BY <1>2, <1>3, <1>4, <1>5, LenProperties

LEMMA Chained ==
  \A s, t \in Seq(Text) :
    \E u \in Seq(Text) : /\ u = s \o t
                         /\ Len(u) = Len(s) + Len(t)
                         /\ \A i \in 1..Len(s) : u[i] = s[i]
                         /\ \A i \in 1..Len(t) : u[Len(s) + i] = t[i]
<1>. SUFFICES ASSUME NEW s \in Seq(Text), NEW t \in Seq(Text)
              PROVE  \E u \in Seq(Text) :
                       /\ u = s \o t
                       /\ Len(u) = Len(s) + Len(t)
                       /\ \A i \in 1..Len(s) : u[i] = s[i]
                       /\ \A i \in 1..Len(t) : u[Len(s) + i] = t[i]
  OBVIOUS
<1>1. PICK u : u = s \o t
  OBVIOUS
<1>2. PICK m \in Nat, n \in Nat : m = Len(s) /\ n = Len(t)
  BY LenProperties
<1>3. Len(u) = m + n /\ u \in Seq(Text)
  BY <1>1, <1>2, ConcatProperties
<1>4. \A i \in 1..m + n : u[i] = IF i <= m THEN s[i] ELSE t[i - m]
  BY <1>1, <1>2, ConcatProperties
<1>5. \A i \in 1..m : i \in 1..m + n /\ i <= m
  OBVIOUS
<1>6. \A i \in 1..n : m + i \in 1..m + n /\ ~(m + i <= m) /\ (m + i) - m = i
  OBVIOUS
<1>7. (\A i \in 1..m : u[i] = s[i]) /\ \A i \in 1..n : u[m + i] = t[i]
  BY <1>4, <1>5, <1>6
<1>. QED
  BY <1>1, <1>2, <1>3, <1>7

(* The columns, with a space after each.                                   *)
Fields(c) == [i \in 1..2 * Len(c) |-> IF i % 2 = 1 THEN c[(i + 1) \div 2] ELSE " "]

LEMMA FieldsLay ==
  ASSUME NEW c \in Seq(Text), NEW n \in Nat, n = Len(c)
  PROVE  /\ Fields(c) \in Seq(Text)
         /\ Len(Fields(c)) = 2 * n
         /\ \A i \in 1..n : Fields(c)[2 * i - 1] = c[i] /\ Fields(c)[2 * i] = " "
<1>1. PICK m \in Nat : m = 2 * n
  OBVIOUS
<1>2. \A i \in 1..m : i % 2 = 1 => (i + 1) \div 2 \in 1..n
  BY <1>1
<1>3. \A i \in 1..n : c[i] \in Text
  BY ElementOfSeq
<1>4. " " \in Text
  BY DEF Text
<1>5. Fields(c) = [i \in 1..m |-> IF i % 2 = 1 THEN c[(i + 1) \div 2] ELSE " "]
  BY <1>1 DEF Fields
<1>6. Fields(c) \in [1..m -> Text]
  BY <1>2, <1>3, <1>4, <1>5
<1>7. Fields(c) \in Seq(Text) /\ Len(Fields(c)) = m
  BY <1>6
<1>8. \A i \in 1..n : /\ 2 * i - 1 \in 1..m /\ 2 * i \in 1..m /\ (2 * i - 1) % 2 = 1
                      /\ ((2 * i - 1) + 1) \div 2 = i /\ (2 * i) % 2 = 0
  BY <1>1
<1>9. \A j \in 1..m : Fields(c)[j] = IF j % 2 = 1 THEN c[(j + 1) \div 2] ELSE " "
  BY <1>5
<1>10. \A i \in 1..n : Fields(c)[2 * i - 1] = c[i] /\ Fields(c)[2 * i] = " "
  <2>. SUFFICES ASSUME NEW i \in 1..n
                PROVE  Fields(c)[2 * i - 1] = c[i] /\ Fields(c)[2 * i] = " "
    OBVIOUS
  <2>1. Fields(c)[2 * i - 1] = c[((2 * i - 1) + 1) \div 2]
    BY <1>8, <1>9
  <2>2. Fields(c)[2 * i] = " "
    <3>1. 2 * i \in 1..m /\ (2 * i) % 2 = 0
      BY <1>8
    <3>2. ~((2 * i) % 2 = 1)
      BY <3>1
    <3>. QED
      BY <1>9, <3>1, <3>2, Zenon
  <2>. QED
    BY <1>8, <2>1, <2>2
<1>. QED
  BY <1>1, <1>7, <1>10

LEMMA PrintedLay ==
  ASSUME NEW p \in Processes
  PROVE  /\ Trim(Printed(p)) \in Seq(Text)
         /\ Lay(Trim(Printed(p)), p)
<1>1. PICK k \in Nat, n \in Nat : k = Len(p.comm) /\ n = Len(p.columns)
  BY ProcessParts
<1>2. p.comm \in Seq(Text) /\ p.columns \in Seq(Text)
  BY ProcessParts
<1>3. p.pid \in Text /\ p.pid # " "
  BY ProcessParts
<1>4. \A i \in 1..n : p.columns[i] # " "
  BY <1>1, ProcessParts
<1>. DEFINE head == <<p.pid, " ", "(">>
            mid  == <<")", " ">>
            fields == Fields(p.columns)
<1>5. head \in Seq(Text) /\ mid \in Seq(Text)
  <2>1. " " \in Text /\ "(" \in Text /\ ")" \in Text
    BY DEF Text
  <2>2. \A x, y, z \in Text : <<x, y, z>> \in Seq(Text) /\ <<x, y>> \in Seq(Text)
    OBVIOUS
  <2>. QED
    BY <1>3, <2>1, <2>2, Zenon
<1>6. Len(head) = 3 /\ Len(mid) = 2
  OBVIOUS
<1>7. head[1] = p.pid /\ head[2] = " " /\ head[3] = "(" /\ mid[1] = ")" /\ mid[2] = " "
  OBVIOUS
<1>8. Printed(p) = ((head \o p.comm) \o mid) \o fields
  BY DEF Printed, Fields
<1>. HIDE DEF fields, head, mid
<1>9. /\ fields \in Seq(Text) /\ Len(fields) = 2 * n
      /\ \A i \in 1..n : fields[2 * i - 1] = p.columns[i] /\ fields[2 * i] = " "
  BY <1>1, <1>2, FieldsLay DEF fields
<1>10. PICK text1 \in Seq(Text) : /\ text1 = head \o p.comm
                                  /\ Len(text1) = 3 + k
                                  /\ \A i \in 1..3 : text1[i] = head[i]
                                  /\ \A i \in 1..k : text1[3 + i] = p.comm[i]
  <2>1. PICK u \in Seq(Text) : /\ u = head \o p.comm
                               /\ Len(u) = Len(head) + Len(p.comm)
                               /\ \A i \in 1..Len(head) : u[i] = head[i]
                               /\ \A i \in 1..Len(p.comm) : u[Len(head) + i] = p.comm[i]
    BY <1>2, <1>5, Chained, Zenon
  <2>. QED
    BY <1>1, <1>6, <2>1
<1>11. PICK text2 \in Seq(Text) : /\ text2 = text1 \o mid
                                  /\ Len(text2) = (3 + k) + 2
                                  /\ \A i \in 1..3 + k : text2[i] = text1[i]
                                  /\ \A i \in 1..2 : text2[(3 + k) + i] = mid[i]
  <2>1. PICK u \in Seq(Text) : /\ u = text1 \o mid
                               /\ Len(u) = Len(text1) + Len(mid)
                               /\ \A i \in 1..Len(text1) : u[i] = text1[i]
                               /\ \A i \in 1..Len(mid) : u[Len(text1) + i] = mid[i]
    BY <1>5, <1>10, Chained, Zenon
  <2>2. Len(text1) = 3 + k /\ Len(mid) = 2
    BY <1>6, <1>10
  <2>3. Len(u) = (3 + k) + 2
    BY <2>1, <2>2, Zenon
  <2>4. (\A i \in 1..3 + k : u[i] = text1[i]) /\ \A i \in 1..2 : u[(3 + k) + i] = mid[i]
    BY <2>1, <2>2, Zenon
  <2>. QED
    BY <2>1, <2>3, <2>4, Zenon
<1>12. PICK whole \in Seq(Text) : /\ whole = text2 \o fields
                                  /\ Len(whole) = ((3 + k) + 2) + 2 * n
                                  /\ \A i \in 1..(3 + k) + 2 : whole[i] = text2[i]
                                  /\ \A i \in 1..2 * n : whole[((3 + k) + 2) + i] = fields[i]
  <2>1. PICK u \in Seq(Text) : /\ u = text2 \o fields
                               /\ Len(u) = Len(text2) + Len(fields)
                               /\ \A i \in 1..Len(text2) : u[i] = text2[i]
                               /\ \A i \in 1..Len(fields) : u[Len(text2) + i] = fields[i]
    BY <1>9, <1>11, Chained, Zenon
  <2>2. Len(text2) = (3 + k) + 2 /\ Len(fields) = 2 * n
    BY <1>9, <1>11
  <2>3. Len(u) = ((3 + k) + 2) + 2 * n
    BY <2>1, <2>2, Zenon
  <2>4. /\ \A i \in 1..(3 + k) + 2 : u[i] = text2[i]
        /\ \A i \in 1..2 * n : u[((3 + k) + 2) + i] = fields[i]
    BY <2>1, <2>2, Zenon
  <2>. QED
    BY <2>1, <2>3, <2>4, Zenon
<1>13. Printed(p) = whole
  BY <1>8, <1>10, <1>11, <1>12
<1>14. \A i \in 1..3 + k : whole[i] = text1[i]
  <2>1. \A i \in 1..3 + k : i \in 1..(3 + k) + 2
    OBVIOUS
  <2>. QED
    BY <1>11, <1>12, <2>1
<1>15. whole[1] = p.pid /\ whole[2] = " " /\ whole[3] = "("
  <2>1. 1 \in 1..3 /\ 2 \in 1..3 /\ 3 \in 1..3 /\ \A i \in 1..3 : i \in 1..3 + k
    OBVIOUS
  <2>. QED
    BY <1>7, <1>10, <1>14, <2>1
<1>16. \A i \in 1..k : whole[3 + i] = p.comm[i]
  <2>1. \A i \in 1..k : 3 + i \in 1..3 + k
    OBVIOUS
  <2>. QED
    BY <1>10, <1>14, <2>1
<1>17. whole[4 + k] = ")" /\ whole[5 + k] = " "
  <2>1. (3 + k) + 1 = 4 + k /\ (3 + k) + 2 = 5 + k /\ 1 \in 1..2 /\ 2 \in 1..2
        /\ 4 + k \in 1..(3 + k) + 2 /\ 5 + k \in 1..(3 + k) + 2
    OBVIOUS
  <2>2. text2[(3 + k) + 1] = mid[1] /\ text2[(3 + k) + 2] = mid[2]
    BY <1>11, <2>1
  <2>. QED
    BY <1>7, <1>12, <2>1, <2>2
<1>18. \A i \in 1..n : whole[4 + k + 2 * i] = p.columns[i] /\ whole[5 + k + 2 * i] = " "
  <2>. SUFFICES ASSUME NEW i \in 1..n
                PROVE  whole[4 + k + 2 * i] = p.columns[i] /\ whole[5 + k + 2 * i] = " "
    OBVIOUS
  <2>1. /\ 2 * i - 1 \in 1..2 * n /\ 2 * i \in 1..2 * n
        /\ ((3 + k) + 2) + (2 * i - 1) = 4 + k + 2 * i
        /\ ((3 + k) + 2) + 2 * i = 5 + k + 2 * i
    OBVIOUS
  <2>2. whole[((3 + k) + 2) + (2 * i - 1)] = fields[2 * i - 1]
        /\ whole[((3 + k) + 2) + 2 * i] = fields[2 * i]
    BY <1>12, <2>1
  <2>. QED
    BY <1>9, <2>1, <2>2
<1>19. \A i \in 1..n : whole[3 + k + 2 * i] = " "
  <2>. SUFFICES ASSUME NEW i \in 1..n PROVE whole[3 + k + 2 * i] = " "
    OBVIOUS
  <2>1. CASE i = 1
    <3>1. 3 + k + 2 * i = 5 + k
      BY <2>1
    <3>. QED
      BY <1>17, <3>1
  <2>2. CASE i # 1
    <3>1. i - 1 \in 1..n /\ 5 + k + 2 * (i - 1) = 3 + k + 2 * i
      BY <2>2
    <3>. QED
      BY <1>18, <3>1
  <2>. QED
    BY <2>1, <2>2
<1>20. PICK b \in Nat : b = 4 + k + 2 * n
  OBVIOUS
<1>21. b \in 1..Len(whole) /\ 1 \in 1..Len(whole) /\ Len(whole) = b + 1 /\ b + 1 = 5 + k + 2 * n
  BY <1>12, <1>20
<1>22. whole[b] # " " /\ whole[b + 1] = " "
  <2>1. CASE n = 0
    <3>1. b = 4 + k /\ b + 1 = 5 + k
      BY <1>20, <2>1
    <3>. QED
      BY <1>17, <3>1
  <2>2. CASE n # 0
    <3>1. n \in 1..n
      BY <2>2
    <3>. QED
      BY <1>4, <1>18, <1>20, <1>21, <3>1
  <2>. QED
    BY <2>1, <2>2
<1>23. \A i \in 1..Len(whole) : whole[i] # " " => 1 <= i /\ i <= b
  <2>. SUFFICES ASSUME NEW i \in 1..b + 1, i # b + 1 PROVE 1 <= i /\ i <= b
    BY <1>21, <1>22
  <2>. QED
    OBVIOUS
<1>24. Trim(whole) = SubSeq(whole, 1, b)
  BY <1>3, <1>12, <1>15, <1>21, <1>22, <1>23, Trimmed
<1>25. PICK s : s = SubSeq(whole, 1, b)
  OBVIOUS
<1>26. s \in Seq(Text) /\ Len(s) = b /\ \A i \in 1..b : s[i] = whole[i]
  <2>1. b - 1 + 1 = b /\ \A i \in 1..b : 1 + i - 1 = i
    OBVIOUS
  <2>2. 1 \in Nat /\ 1 <= b + 1 /\ b <= Len(whole)
    BY <1>21
  <2>3. s \in Seq(Text)
    BY <1>12, <1>25, <2>2, Slice
  <2>4. Len(s) = b - 1 + 1
    BY <1>12, <1>25, <2>2, Slice
  <2>5. \A i \in 1..b - 1 + 1 : s[i] = whole[i + 1 - 1]
    BY <1>12, <1>25, <2>2, Slice
  <2>. QED
    BY <2>1, <2>3, <2>4, <2>5
<1>27. /\ 1 \in 1..b /\ 2 \in 1..b /\ 3 \in 1..b /\ 4 + k \in 1..b
       /\ \A i \in 1..k : 3 + i \in 1..b
       /\ \A i \in 1..n : 3 + k + 2 * i \in 1..b /\ 4 + k + 2 * i \in 1..b
  BY <1>20
<1>28. \A i \in 1..k : s[3 + i] = p.comm[i]
  BY <1>16, <1>26, <1>27
<1>29. \A i \in 1..n : s[3 + k + 2 * i] = " " /\ s[4 + k + 2 * i] = p.columns[i]
  BY <1>18, <1>19, <1>26, <1>27
<1>30. s[1] = p.pid /\ s[2] = " " /\ s[3] = "(" /\ s[4 + k] = ")"
  BY <1>15, <1>17, <1>26, <1>27
<1>31. Lay(s, p)
  BY <1>1, <1>20, <1>26, <1>28, <1>29, <1>30 DEF Lay
<1>. QED
  BY <1>13, <1>24, <1>25, <1>26, <1>31

(* Words between which there is white space.                               *)
Spaced(s, c) ==
  /\ c \in Seq(Text) /\ \A i \in 1..Len(c) : c[i] # " "
  /\ s \in Seq(Text) /\ Len(s) = 2 * Len(c)
  /\ \A i \in 1..Len(c) : s[2 * i - 1] = " " /\ s[2 * i] = c[i]

LEMMA Doubles ==
  ASSUME NEW n \in Nat, NEW N, N = 2 * n
  PROVE  /\ N \in Nat
         /\ \A i \in 1..n : 2 * i - 1 \in 1..N /\ 2 * i \in 1..N
         /\ \A k \in 1..n : /\ k - 1 \in Nat /\ k - 1 <= n
                            /\ (2 * k) - 1 = 2 * k - 1 /\ (2 * k - 1) - 1 = 2 * (k - 1)
                            /\ 2 * (k - 1) \in 0..N /\ (k - 1) + 1 = k
                            /\ \A i \in 1..k : i \in 1..k - 1 \/ i = k
         /\ \A j \in Nat : j + 1 <= n => j + 1 \in 1..n /\ (j + 1) - 1 = j /\ j <= n
         /\ 2 * 0 = 0
OBVIOUS

LEMMA Extended ==
  ASSUME NEW d \in Seq(Text), NEW x \in Text, NEW j \in Nat, Len(d) = j,
         NEW k, k = j + 1
  PROVE  /\ Append(d, x) \in Seq(Text) /\ Len(Append(d, x)) = k /\ Append(d, x)[k] = x
         /\ \A i \in 1..j : Append(d, x)[i] = d[i]
  BY AppendProperties

(* The words of a text in which they alternate with white space.           *)
LEMMA WordsAre ==
  ASSUME NEW s, NEW c, Spaced(s, c)
  PROVE  Words(s) = c
<1>. DEFINE places == {i \in DOMAIN s : s[i] # " "}
<1>1. s \in Seq(Text) /\ c \in Seq(Text)
  BY DEF Spaced
<1>2. PICK f : Collects(s, places, Text, f) /\ Collect(s, places) = f[Len(s)]
  <2>. HIDE DEF places
  <2>. QED
    BY <1>1, CollectFold
<1>3. PICK n \in Nat, N \in Nat : n = Len(c) /\ N = 2 * n /\ N = Len(s) /\ DOMAIN s = 1..N
  BY <1>1, LenProperties DEF Spaced
<1>4. \A i \in 1..n : 2 * i - 1 \notin places /\ 2 * i \in places /\ s[2 * i] = c[i]
  BY <1>3, Doubles, Zenon DEF Spaced
<1>. HIDE DEF places
<1>5. /\ f \in [0..N -> Seq(Text)] /\ f[0] = << >>
      /\ \A i \in 1..N : f[i] = IF i \in places THEN Append(f[i - 1], s[i]) ELSE f[i - 1]
  BY <1>2, <1>3 DEF Collects
<1>. DEFINE Read(j) == Len(f[2 * j]) = j /\ \A i \in 1..j : f[2 * j][i] = c[i]
            G == {j \in Nat : j <= n => Read(j)}
<1>6. 0 \in G
  <2>1. f[2 * 0] = << >> /\ Len(<< >>) = 0
    BY <1>5, Doubles, EmptySeq
  <2>2. Read(0)
    BY <2>1
  <2>. HIDE DEF Read
  <2>. QED
    BY <2>2
<1>7. \A j \in G : j + 1 \in G
  <2>1. \A k \in 1..n : Read(k - 1) => Read(k)
    <3>. SUFFICES ASSUME NEW k \in 1..n, Read(k - 1) PROVE Read(k)
      OBVIOUS
    <3>1. /\ 2 * k \in 1..N /\ 2 * k - 1 \in 1..N /\ k - 1 \in Nat
          /\ (2 * k - 1) - 1 = 2 * (k - 1) /\ 2 * (k - 1) \in 0..N /\ (k - 1) + 1 = k
          /\ \A i \in 1..k : i \in 1..k - 1 \/ i = k
      BY <1>3, Doubles
    <3>2. f[2 * k - 1] = f[2 * (k - 1)]
      BY <1>4, <1>5, <3>1, Zenon
    <3>3. f[2 * k] = Append(f[2 * (k - 1)], c[k])
      BY <1>4, <1>5, <3>1, <3>2, Zenon
    <3>4. f[2 * (k - 1)] \in Seq(Text)
      BY <1>5, <3>1
    <3>5. c[k] \in Text
      BY <1>1, <1>3, ElementOfSeq
    <3>6. PICK d \in Seq(Text), j \in Nat, x \in Text :
            d = f[2 * (k - 1)] /\ j = k - 1 /\ x = c[k] /\ k = j + 1
      BY <3>1, <3>4, <3>5, Zenon
    <3>7. Len(d) = j /\ \A i \in 1..j : d[i] = c[i]
      BY <3>6, Zenon
    <3>8. /\ Len(Append(d, x)) = k /\ Append(d, x)[k] = x
          /\ \A i \in 1..j : Append(d, x)[i] = d[i]
      BY <3>6, <3>7, Extended
    <3>9. f[2 * k] = Append(d, x)
      BY <3>3, <3>6, Zenon
    <3>10. \A i \in 1..k : f[2 * k][i] = c[i]
      BY <3>1, <3>6, <3>7, <3>8, <3>9, Zenon
    <3>. QED
      BY <3>8, <3>9, <3>10, Zenon
  <2>. HIDE DEF Read
  <2>2. \A j \in Nat : j + 1 <= n => j + 1 \in 1..n /\ (j + 1) - 1 = j /\ j <= n
    BY Doubles
  <2>3. \A j \in G : j \in Nat /\ j + 1 \in Nat
    OBVIOUS
  <2>. QED
    BY <2>1, <2>2, <2>3, Zenon
<1>8. n \in G
  <2>. HIDE DEF G
  <2>1. G \in SUBSET Nat
    BY DEF G
  <2>. QED
    BY <1>6, <1>7, <2>1, Counting
<1>9. Len(f[N]) = n /\ \A i \in 1..n : f[N][i] = c[i]
  <2>1. n <= n
    OBVIOUS
  <2>. QED
    BY <1>3, <1>8, <2>1, Zenon
<1>10. f[N] \in Seq(Text)
  BY <1>5
<1>11. f[N] = c
  BY <1>1, <1>3, <1>9, <1>10, SeqEqual
<1>. QED
  BY <1>2, <1>3, <1>11 DEF Words, places

(* The places after the comm.                                              *)
LEMMA ColumnPlaces ==
  ASSUME NEW k \in Nat, NEW n \in Nat, NEW N, N = 4 + k + 2 * n
  PROVE  /\ N \in Nat /\ 3 \in 1..N /\ 4 + k \in 1..N
         /\ \A i \in 1..N : i \in Int
         /\ \A i \in 1..N : i # 1 /\ i # 2 => 3 <= i
         /\ \A i \in 1..N : (\A j \in 1..n : i # 3 + k + 2 * j /\ i # 4 + k + 2 * j) => i <= 4 + k
<1>1. \A i \in 1..N : i > 4 + k => \E j \in 1..n : i = 3 + k + 2 * j \/ i = 4 + k + 2 * j
  <2>. SUFFICES ASSUME NEW i \in 1..N, i > 4 + k
                PROVE  \E j \in 1..n : i = 3 + k + 2 * j \/ i = 4 + k + 2 * j
    OBVIOUS
  <2>1. PICK j \in Int : j = (i - (3 + k)) \div 2
    OBVIOUS
  <2>2. j \in 1..n /\ (i = 3 + k + 2 * j \/ i = 4 + k + 2 * j)
    BY <2>1
  <2>. QED
    BY <2>2
<1>2. \A i \in 1..N : (\A j \in 1..n : i # 3 + k + 2 * j /\ i # 4 + k + 2 * j) => ~(i > 4 + k)
  BY <1>1, Zenon
<1>3. \A i \in 1..N : ~(i > 4 + k) => i <= 4 + k
  OBVIOUS
<1>4. /\ N \in Nat /\ 3 \in 1..N /\ 4 + k \in 1..N
      /\ \A i \in 1..N : i \in Int
      /\ \A i \in 1..N : i # 1 /\ i # 2 => 3 <= i
  OBVIOUS
<1>. QED
  BY <1>2, <1>3, <1>4, Zenon

(* What parse_stat makes of a line that is laid out as the kernel does.    *)
LEMMA ParensFound ==
  ASSUME NEW p \in Processes, NEW s \in Seq(Text), Lay(s, p),
         NEW k \in Nat, k = Len(p.comm)
  PROVE  LeftParen(s) = 3 /\ RightParen(s) = 4 + k
<1>1. PICK n \in Nat, N \in Nat : n = Len(p.columns) /\ N = 4 + k + 2 * n
                                  /\ N = Len(s) /\ DOMAIN s = 1..N
  BY LenProperties DEF Lay
<1>2. /\ s[1] = p.pid /\ s[2] = " " /\ s[3] = "(" /\ s[4 + k] = ")"
      /\ \A i \in 1..n : s[3 + k + 2 * i] = " " /\ s[4 + k + 2 * i] = p.columns[i]
  BY <1>1 DEF Lay
<1>3. p.pid # "(" /\ \A i \in 1..n : p.columns[i] # ")"
  BY <1>1, ProcessParts
<1>. DEFINE open  == {i \in DOMAIN s : s[i] = "("}
            close == {i \in DOMAIN s : s[i] = ")"}
<1>4. 3 \in open /\ \A i \in open : i \in 1..N /\ i # 1 /\ i # 2
  <2>1. s[1] # "(" /\ s[2] # "("
    BY <1>2, <1>3
  <2>2. 3 \in 1..N
    BY <1>1, ColumnPlaces
  <2>. QED
    BY <1>1, <1>2, <2>1, <2>2, Zenon
<1>5. 4 + k \in close /\ \A i \in close :
        i \in 1..N /\ \A j \in 1..n : i # 3 + k + 2 * j /\ i # 4 + k + 2 * j
  <2>1. \A j \in 1..n : s[3 + k + 2 * j] # ")" /\ s[4 + k + 2 * j] # ")"
    BY <1>2, <1>3
  <2>2. 4 + k \in 1..N
    BY <1>1, ColumnPlaces
  <2>. QED
    BY <1>1, <1>2, <2>1, <2>2, Zenon
<1>. HIDE DEF open, close
<1>6. \A i \in open : i \in Int /\ 3 <= i
  BY <1>1, <1>4, ColumnPlaces
<1>7. \A i \in close : i \in Int /\ i <= 4 + k
  BY <1>1, <1>5, ColumnPlaces
<1>8. Min(open) = 3 /\ open # {}
  BY <1>4, <1>6, LeastIsMin
<1>9. Max(close) = 4 + k /\ close # {}
  BY <1>5, <1>7, GreatestIsMax
<1>. QED
  BY <1>8, <1>9 DEF LeftParen, RightParen, open, close

LEMMA PidRead ==
  ASSUME NEW p \in Processes, NEW s \in Seq(Text), Lay(s, p)
  PROVE  Len(PidText(s)) = 1 /\ PidText(s)[1] = p.pid
<1>1. PICK k \in Nat, n \in Nat : k = Len(p.comm) /\ n = Len(p.columns)
                                  /\ Len(s) = 4 + k + 2 * n
                                  /\ s[1] = p.pid /\ s[2] = " "
  BY DEF Lay
<1>2. 1 \in Nat /\ 2 \in Nat /\ 1 <= 2 + 1 /\ 2 <= Len(s) /\ 2 - 1 + 1 = 2 /\ 3 - 1 = 2
      /\ 1 + 1 - 1 = 1 /\ 2 + 1 - 1 = 2 /\ 1 \in 1..2 /\ 2 \in 1..2
  <2>1. 2 <= 4 + k + 2 * n
    OBVIOUS
  <2>2. 2 <= Len(s)
    BY <1>1, <2>1, Zenon
  <2>. QED
    BY <2>2
<1>3. PICK u : u = SubSeq(s, 1, 2)
  OBVIOUS
<1>4. /\ u \in Seq(Text) /\ Len(u) = 2 - 1 + 1
      /\ \A i \in 1..2 - 1 + 1 : u[i] = s[i + 1 - 1]
  <2>1. SubSeq(s, 1, 2) \in Seq(Text)
    BY <1>2, Slice
  <2>2. Len(SubSeq(s, 1, 2)) = 2 - 1 + 1
    BY <1>2, Slice
  <2>3. \A i \in 1..2 - 1 + 1 : SubSeq(s, 1, 2)[i] = s[i + 1 - 1]
    BY <1>2, Slice
  <2>. QED
    BY <1>3, <2>1, <2>2, <2>3, Zenon
<1>5. Len(u) = 2 /\ u[1] = p.pid /\ u[2] = " "
  BY <1>1, <1>2, <1>4, Zenon
<1>6. p.pid # " "
  BY ProcessParts
<1>7. \A i \in 1..Len(u) : u[i] # " " => 1 <= i /\ i <= 1
  <2>1. \A i \in 1..2 : i = 2 \/ (1 <= i /\ i <= 1)
    OBVIOUS
  <2>. QED
    BY <1>5, <2>1, Zenon
<1>8. 1 \in 1..Len(u) /\ u[1] # " "
  BY <1>2, <1>5, <1>6, Zenon
<1>9. Trim(u) = SubSeq(u, 1, 1)
  BY <1>4, <1>7, <1>8, Trimmed
<1>10. 1 <= 1 + 1 /\ 1 <= Len(u) /\ 1 - 1 + 1 = 1 /\ 1 \in 1..1
  <2>1. Len(u) = 2
    BY <1>5
  <2>. QED
    BY <2>1
<1>11. Len(SubSeq(u, 1, 1)) = 1 - 1 + 1
  BY <1>2, <1>4, <1>10, Slice
<1>12. \A i \in 1..1 - 1 + 1 : SubSeq(u, 1, 1)[i] = u[i + 1 - 1]
  BY <1>2, <1>4, <1>10, Slice
<1>13. Len(Trim(u)) = 1 /\ Trim(u)[1] = p.pid
  BY <1>2, <1>5, <1>9, <1>10, <1>11, <1>12, Zenon
<1>14. LeftParen(s) = 3
  BY <1>1, ParensFound
<1>15. PidText(s) = Trim(u)
  BY <1>2, <1>3, <1>14 DEF PidText
<1>. QED
  BY <1>13, <1>15

LEMMA CommRead ==
  ASSUME NEW p \in Processes, NEW s \in Seq(Text), Lay(s, p)
  PROVE  CommText(s) = p.comm
<1>1. PICK k \in Nat, n \in Nat : k = Len(p.comm) /\ n = Len(p.columns)
                                  /\ Len(s) = 4 + k + 2 * n
                                  /\ \A i \in 1..k : s[3 + i] = p.comm[i]
  BY DEF Lay
<1>2. LeftParen(s) = 3 /\ RightParen(s) = 4 + k
  BY <1>1, ParensFound
<1>3. PICK a \in Nat, b \in Nat, N \in Nat :
        /\ a = 3 + 1 /\ b = (4 + k) - 1 /\ N = 4 + k + 2 * n
        /\ 1 <= a /\ a <= b + 1 /\ b <= N /\ b - a + 1 = k
        /\ \A i \in 1..k : i + a - 1 = 3 + i
  OBVIOUS
<1>4. PICK u : u = SubSeq(s, a, b)
  OBVIOUS
<1>5. u \in Seq(Text) /\ Len(u) = b - a + 1 /\ \A i \in 1..b - a + 1 : u[i] = s[i + a - 1]
  <2>0. 1 <= a /\ a <= b + 1 /\ b <= Len(s)
    BY <1>1, <1>3, Zenon
  <2>1. SubSeq(s, a, b) \in Seq(Text)
    BY <2>0, Slice
  <2>2. Len(SubSeq(s, a, b)) = b - a + 1
    BY <2>0, Slice
  <2>3. \A i \in 1..b - a + 1 : SubSeq(s, a, b)[i] = s[i + a - 1]
    BY <2>0, Slice
  <2>. QED
    BY <1>4, <2>1, <2>2, <2>3, Zenon
<1>6. Len(u) = k /\ \A i \in 1..k : u[i] = p.comm[i]
  BY <1>1, <1>3, <1>5, Zenon
<1>7. p.comm \in Seq(Text)
  BY ProcessParts
<1>8. u = p.comm
  BY <1>1, <1>5, <1>6, <1>7, SeqEqual
<1>. QED
  BY <1>2, <1>3, <1>4, <1>8 DEF CommText

LEMMA ColumnsRead ==
  ASSUME NEW p \in Processes, NEW s \in Seq(Text), Lay(s, p)
  PROVE  Spaced(AfterComm(s), p.columns)
<1>1. PICK k \in Nat, n \in Nat :
        /\ k = Len(p.comm) /\ n = Len(p.columns) /\ Len(s) = 4 + k + 2 * n
        /\ \A i \in 1..n : s[3 + k + 2 * i] = " " /\ s[4 + k + 2 * i] = p.columns[i]
  BY DEF Lay
<1>2. RightParen(s) = 4 + k
  BY <1>1, ParensFound
<1>3. PICK a \in Nat, b \in Nat, m \in Nat :
        /\ a = (4 + k) + 1 /\ b = 4 + k + 2 * n /\ m = 2 * n
        /\ 1 <= a /\ a <= b + 1 /\ b - a + 1 = m
        /\ \A i \in 1..n : /\ (2 * i - 1) + a - 1 = 3 + k + 2 * i /\ 2 * i - 1 \in 1..m
                           /\ (2 * i) + a - 1 = 4 + k + 2 * i /\ 2 * i \in 1..m
  OBVIOUS
<1>4. PICK u : u = SubSeq(s, a, b)
  OBVIOUS
<1>5. u \in Seq(Text) /\ Len(u) = b - a + 1 /\ \A i \in 1..b - a + 1 : u[i] = s[i + a - 1]
  <2>0. 1 <= a /\ a <= b + 1 /\ b <= Len(s)
    <3>1. b <= b
      OBVIOUS
    <3>. QED
      BY <1>1, <1>3, <3>1, Zenon
  <2>1. SubSeq(s, a, b) \in Seq(Text)
    BY <2>0, Slice
  <2>2. Len(SubSeq(s, a, b)) = b - a + 1
    BY <2>0, Slice
  <2>3. \A i \in 1..b - a + 1 : SubSeq(s, a, b)[i] = s[i + a - 1]
    BY <2>0, Slice
  <2>. QED
    BY <1>4, <2>1, <2>2, <2>3, Zenon
<1>6. Len(u) = 2 * n /\ \A i \in 1..n : u[2 * i - 1] = " " /\ u[2 * i] = p.columns[i]
  <2>1. Len(u) = 2 * n
    BY <1>3, <1>5, Zenon
  <2>2. \A i \in 1..m : u[i] = s[i + a - 1]
    BY <1>3, <1>5, Zenon
  <2>3. \A i \in 1..n : u[2 * i - 1] = s[3 + k + 2 * i] /\ u[2 * i] = s[4 + k + 2 * i]
    BY <1>3, <2>2, Zenon
  <2>. QED
    BY <1>1, <2>1, <2>3, Zenon
<1>7. p.columns \in Seq(Text) /\ \A i \in 1..n : p.columns[i] # " "
  BY <1>1, ProcessParts
<1>8. Spaced(u, p.columns)
  BY <1>1, <1>5, <1>6, <1>7, Zenon DEF Spaced
<1>. QED
  BY <1>1, <1>2, <1>3, <1>4, <1>8 DEF AfterComm

(* The line parses if and only if its columns do.                          *)
LEMMA StatRead ==
  ASSUME NEW p \in Processes
  PROVE  LET s == Trim(Printed(p))
         IN  /\ StatOk(Printed(p)) <=> \A c \in DOMAIN Column : ColumnOk(p.columns, c)
             /\ PidText(s)[1] = p.pid /\ CommText(s) = p.comm
             /\ Words(AfterComm(s)) = p.columns
<1>1. PICK s \in Seq(Text) : s = Trim(Printed(p)) /\ Lay(s, p)
  BY PrintedLay
<1>2. PICK k \in Nat, n \in Nat : k = Len(p.comm) /\ n = Len(p.columns)
  BY <1>1 DEF Lay
<1>3. LeftParen(s) = 3 /\ RightParen(s) = 4 + k
  BY <1>1, <1>2, ParensFound
<1>4. Len(PidText(s)) = 1 /\ PidText(s)[1] = p.pid
  BY <1>1, PidRead
<1>5. CommText(s) = p.comm
  BY <1>1, CommRead
<1>6. Spaced(AfterComm(s), p.columns)
  BY <1>1, ColumnsRead
<1>7. Words(AfterComm(s)) = p.columns
  BY <1>6, WordsAre
<1>8. LeftParen(s) > 0 /\ LeftParen(s) < RightParen(s)
  <2>1. 3 > 0 /\ 3 < 4 + k
    OBVIOUS
  <2>. QED
    BY <1>3, <2>1, Zenon
<1>9. IsNumber(p.pid)
  BY DEF Processes, IsNumber, Range
<1>10. (\A c \in DOMAIN Column : ColumnOk(p.columns, c)) =>
         /\ Len(AfterComm(s)) > 1 /\ AfterComm(s)[1] = " " /\ AfterComm(s)[2] # " "
  <2>. SUFFICES ASSUME \A c \in DOMAIN Column : ColumnOk(p.columns, c)
                PROVE  /\ Len(AfterComm(s)) > 1 /\ AfterComm(s)[1] = " " /\ AfterComm(s)[2] # " "
    OBVIOUS
  <2>1. 0 < n
    <3>1. "state" \in DOMAIN Column /\ Column["state"] = 0
      BY DEF Column
    <3>. QED
      BY <1>2, <3>1 DEF ColumnOk
  <2>2. 1 \in 1..n /\ 2 * 1 - 1 = 1 /\ 2 * 1 = 2 /\ 2 * n > 1
    BY <2>1
  <2>3. Len(AfterComm(s)) = 2 * n
    BY <1>2, <1>6 DEF Spaced
  <2>4. AfterComm(s)[1] = " " /\ AfterComm(s)[2] = p.columns[1] /\ p.columns[1] # " "
    BY <1>2, <1>6, <2>2, Zenon DEF Spaced
  <2>. QED
    BY <2>2, <2>3, <2>4, Zenon
<1>11. StatOk(Printed(p)) <=> \A c \in DOMAIN Column : ColumnOk(p.columns, c)
  BY <1>1, <1>4, <1>7, <1>8, <1>9, <1>10, Zenon DEF StatOk
<1>. QED
  BY <1>1, <1>4, <1>5, <1>7, <1>11, Zenon

LEMMA NumbersAreNatural ==
  ASSUME NEW word, IsNumber(word)
  PROVE  Value(word) \in Nat
<1>1. PICK i \in DOMAIN Numerals : Numerals[i] = word
  BY DEF IsNumber
<1>2. (CHOOSE j \in DOMAIN Numerals : Numerals[j] = word) \in DOMAIN Numerals
  BY <1>1
<1>3. Len(Numerals) \in Nat /\ DOMAIN Numerals = 1..Len(Numerals)
  BY LinesAssumption, LenProperties
<1>4. \A j \in 1..Len(Numerals) : j - 1 \in Nat
  BY <1>3
<1>. QED
  BY <1>2, <1>3, <1>4 DEF Value

StatInv ==
  file = "stat" =>
    /\ text \in Content["stat"]
    /\ \/ result = "none"
       \/ result = "ok" /\ StatOk(Printed(text)) /\ stat = Stat(Printed(text))
       \/ result = "error" /\ ~StatOk(Printed(text))

LEMMA StatInit == Init => StatInv
  BY DEF Init, StatInv

LEMMA StatStays == StatInv /\ [Next]_vars => StatInv'
<1>. SUFFICES ASSUME StatInv, [Next]_vars PROVE StatInv'
  OBVIOUS
<1>1. CASE ParseStat
  <2>1. file' = file /\ text' = text
    BY <1>1 DEF ParseStat
  <2>2. \/ StatOk(Printed(text)) /\ result' = "ok" /\ stat' = Stat(Printed(text))
        \/ ~StatOk(Printed(text)) /\ result' = "error"
    BY <1>1 DEF ParseStat, Returns
  <2>. QED
    BY <2>1, <2>2, Zenon DEF StatInv
<1>2. CASE /\ file' = file
           /\ file # "stat"
  BY <1>2 DEF StatInv
<1>3. CASE UNCHANGED vars
  BY <1>3 DEF StatInv, vars
<1>4. SystemCpuLine => file' = file /\ file # "stat"
  BY DEF SystemCpuLine, Round
<1>5. SystemCpuEnd => file' = file /\ file # "stat"
  BY DEF SystemCpuEnd, Done
<1>6. CgroupUnified \/ CgroupLegacy \/ CgroupMalformed => file' = file /\ file # "stat"
  BY DEF CgroupUnified, CgroupLegacy, CgroupMalformed, Round
<1>7. CgroupEnd => file' = file /\ file # "stat"
  BY DEF CgroupEnd, Done
<1>8. StatusLine => file' = file /\ file # "stat"
  BY DEF StatusLine, Round
<1>9. StatusEnd => file' = file /\ file # "stat"
  BY DEF StatusEnd, Done
<1>10. StackLine => file' = file /\ file # "stat"
  BY DEF StackLine, Round
<1>11. StackEnd => file' = file /\ file # "stat"
  BY DEF StackEnd, Done
<1>12. MapsLine => file' = file /\ file # "stat"
  BY DEF MapsLine, Round
<1>13. MapsEnd => file' = file /\ file # "stat"
  BY DEF MapsEnd, Done
<1>14. ReadFlat => file' = file /\ file # "stat"
  BY DEF ReadFlat
<1>. QED
  BY <1>1, <1>2, <1>3, <1>4, <1>5, <1>6, <1>7, <1>8, <1>9, <1>10, <1>11, <1>12, <1>13, <1>14,
     Zenon DEF Next

LEMMA StatHolds == StatInv => StatFieldsUnmoved
<1>. SUFFICES ASSUME StatInv, file = "stat", result # "none" PROVE StatFieldsUnmoved
  BY DEF StatFieldsUnmoved
<1>1. text \in Processes
  BY LinesAssumption DEF StatInv, Processes
<1>2. PICK s : s = Trim(Printed(text))
  OBVIOUS
<1>3. /\ StatOk(Printed(text)) <=> \A c \in DOMAIN Column : ColumnOk(text.columns, c)
      /\ PidText(s)[1] = text.pid /\ CommText(s) = text.comm
      /\ Words(AfterComm(s)) = text.columns
  BY <1>1, <1>2, StatRead
<1>. DEFINE In(c) == Value(text.columns[Column[c] + 1])
<1>4. result = "ok" <=> \A c \in DOMAIN Column : ColumnOk(text.columns, c)
  BY <1>3 DEF StatInv
<1>5. ASSUME result = "ok"
      PROVE  /\ stat.comm = text.comm
             /\ stat.pid = Value(text.pid)
             /\ stat.state.char = text.columns[1]
             /\ \A c \in {"ppid", "nr_threads", "vsize", "rss", "last_cpu"} : stat[c] = In(c)
             /\ stat.start_time = In("starttime")
             /\ stat.process_ticks \in {In("utime") + In("stime"), U64Max}
             /\ stat.process_ticks <= U64Max
  <2>1. stat = [pid           |-> Value(text.pid),
                comm          |-> text.comm,
                state         |-> FromChar(text.columns[Column["state"] + 1]),
                ppid          |-> In("ppid"),
                nr_threads    |-> In("nr_threads"),
                vsize         |-> In("vsize"),
                rss           |-> In("rss"),
                process_ticks |-> SaturatingAdd(In("utime"), In("stime")),
                start_time    |-> In("starttime"),
                last_cpu      |-> In("last_cpu")]
    <3>1. stat = Stat(Printed(text))
      BY <1>5 DEF StatInv
    <3>. QED
      BY <1>2, <1>3, <3>1 DEF Stat
  <2>2. In("utime") \in Nat /\ In("stime") \in Nat
    <3>1. \A c \in DOMAIN Column : ColumnOk(text.columns, c)
      BY <1>4, <1>5
    <3>2. "utime" \in DOMAIN Column /\ "stime" \in DOMAIN Column
      BY DEF Column
    <3>3. IsNumber(text.columns[Column["utime"] + 1]) /\ IsNumber(text.columns[Column["stime"] + 1])
      BY <3>1, <3>2 DEF ColumnOk
    <3>. QED
      BY <3>3, NumbersAreNatural
  <2>3. Column["state"] + 1 = 1
    BY DEF Column
  <2>. HIDE DEF In
  <2>4. stat.state = FromChar(text.columns[1])
    BY <2>1, <2>3
  <2>5. \A x : FromChar(x).char = x
    BY DEF FromChar
  <2>6. /\ stat.comm = text.comm /\ stat.pid = Value(text.pid)
        /\ stat.start_time = In("starttime")
        /\ stat.process_ticks = SaturatingAdd(In("utime"), In("stime"))
    BY <2>1
  <2>7. \A c \in {"ppid", "nr_threads", "vsize", "rss", "last_cpu"} : stat[c] = In(c)
    BY <2>1
  <2>8. \A a, b \in Nat : SaturatingAdd(a, b) \in {a + b, U64Max} /\ SaturatingAdd(a, b) <= U64Max
    BY WidthAssumption DEF SaturatingAdd
  <2>. QED
    BY <2>2, <2>4, <2>5, <2>6, <2>7, <2>8
<1>. QED
  BY <1>4, <1>5, Zenon DEF StatFieldsUnmoved

(* parse_stat: what a process calls itself moves no other column of its    *)
(* line, whatever parentheses, spaces and would-be columns the name holds, *)
(* and only a missing or malformed column makes the line fail.             *)
THEOREM CommIsHarmless == Spec => []StatFieldsUnmoved
  BY StatInit, StatStays, StatHolds, PTL DEF Spec

-----------------------------------------------------------------------------
(* parse_status, parse_system_cpu and read_kernel_stack_from_str: what     *)
(* they hold is what the lines read so far say.                            *)

KeyLines(k)  == {i \in 1..Len(text) : text[i].key = k}
NameLines(n) == {i \in 1..Len(text) : text[i].name = n}
FrameLines   == {i \in 1..Len(text) : FrameOk(text[i])}

ScanTypeOK ==
  /\ file \in {"cpu", "status", "stack"} => text \in Content[file] /\ at \in 0..Len(text)
  /\ file = "cmdline" => text \in Content[file]

LinesOf(k) == Upto(KeyLines(k), at)

SwitchesRead ==
  file = "status" /\ result # "error" =>
    /\ status \in [uid : Int, fd_size : Int, voluntary : Int, nonvoluntary : Int,
                   has : SUBSET Switches]
    /\ \A k \in Switches :
         /\ k \in status.has <=> LinesOf(k) # {}
         /\ status[k] = IF LinesOf(k) = {} THEN 0 ELSE text[Max(LinesOf(k))].value

Totals == Upto(NameLines("cpu"), at)

CpusRead ==
  file = "cpu" /\ result # "error" =>
    /\ cpu \in [ticks : Int, cpus : Nat]
    /\ cpu.cpus = Cardinality(Upto(NameLines("cpuN"), at))
    /\ cpu.ticks = IF Totals = {} THEN NoTicks ELSE Ticks(text[Max(Totals)].values)
    /\ result = "ok" => Totals # {} /\ cpu.cpus > 0

FramesRead ==
  file = "stack" /\ result # "error" =>
    /\ frames \in Seq(Nat \X STRING)
    /\ Len(frames) = Cardinality(Upto(FrameLines, at))
    /\ \A i \in Upto(FrameLines, at) :
         frames[Cardinality(Upto(FrameLines, i))] = <<text[i].addr, text[i].symbol>>

CmdlineRead ==
  file = "cmdline" /\ result = "ok" => flat = Cmdline(text)

ScanInv == ScanTypeOK /\ SwitchesRead /\ CpusRead /\ FramesRead /\ CmdlineRead

(* The lines of these files. *)
LEMMA ScannedLines ==
  ASSUME ScanTypeOK, file \in {"cpu", "status", "stack"}
  PROVE  /\ Len(text) \in Nat /\ DOMAIN text = 1..Len(text) /\ at \in 0..Len(text)
         /\ file = "cpu" => text \in Seq([name : STRING, values : Seq(Int)])
         /\ file = "status" => text \in Seq([key : STRING, value : Int])
         /\ file = "stack" => text \in Seq([bracketed : BOOLEAN, addr : Nat, symbol : STRING])
<1>1. text \in Content[file] /\ at \in 0..Len(text)
  BY DEF ScanTypeOK
<1>2. /\ file = "cpu" => text \in Seq([name : STRING, values : Seq(Int)])
      /\ file = "status" => text \in Seq([key : STRING, value : Int])
      /\ file = "stack" => text \in Seq([bracketed : BOOLEAN, addr : Nat, symbol : STRING])
  BY <1>1, LinesAssumption
<1>3. \E V : text \in Seq(V)
  BY <1>2
<1>4. Len(text) \in Nat /\ DOMAIN text = 1..Len(text)
  BY <1>3, LenProperties
<1>. QED
  BY <1>1, <1>2, <1>4

(* A round reads one line more. *)
LEMMA RoundReads ==
  ASSUME ScanTypeOK, NEW f \in {"cpu", "status", "stack"}, Round(f)
  PROVE  /\ file = f /\ file' = file /\ text' = text /\ result = "none"
         /\ at \in Nat /\ Len(text) \in Nat /\ at' = at + 1 /\ at' \in 1..Len(text)
         /\ ScanTypeOK'
<1>1. /\ file = f /\ file' = file /\ text' = text /\ result = "none"
      /\ at < Len(text) /\ at' = at + 1
  BY DEF Round
<1>2. Len(text) \in Nat /\ at \in 0..Len(text)
  BY <1>1, ScannedLines
<1>3. at \in Nat /\ at' \in 1..Len(text) /\ at' \in 0..Len(text)
  BY <1>1, <1>2
<1>4. ScanTypeOK'
  BY <1>1, <1>3 DEF ScanTypeOK
<1>. QED
  BY <1>1, <1>2, <1>3, <1>4

LEMMA UptoItself ==
  ASSUME NEW A \in SUBSET Int, NEW y \in A
  PROVE  Upto(A, y) # {} /\ Max(Upto(A, y)) = y
<1>1. y \in Int /\ y <= y
  OBVIOUS
<1>2. y \in Upto(A, y) /\ \A x \in Upto(A, y) : x <= y
  BY <1>1 DEF Upto
<1>3. Upto(A, y) \in SUBSET Int
  BY DEF Upto
<1>. QED
  BY <1>2, <1>3, GreatestIsMax

LEMMA UptoSteps ==
  ASSUME NEW N \in Nat, NEW A \in SUBSET (1..N), NEW n \in Nat, NEW y \in 1..N, y = n + 1
  PROVE  /\ y \notin A => Upto(A, y) = Upto(A, n)
         /\ y \in A => Upto(A, y) = Upto(A, n) \union {y}
<1>1. \A i \in A : i <= y <=> i <= n \/ i = y
  OBVIOUS
<1>. QED
  BY <1>1 DEF Upto

LEMMA SwitchKeys ==
  ASSUME NEW line, NEW k \in Switches
  PROVE  StatusKey(line) = k <=> line.key = k
<1>. DEFINE chain == <<"Uid", "FDSize", "voluntary", "nonvoluntary">>
            takes == {i \in DOMAIN chain : line.key = chain[i]}
<1>1. DOMAIN chain = 1..4 /\ \A i \in 1..4 : i = 1 \/ i = 2 \/ i = 3 \/ i = 4
  OBVIOUS
<1>2. /\ chain[1] = "Uid" /\ chain[2] = "FDSize"
      /\ chain[3] = "voluntary" /\ chain[4] = "nonvoluntary"
  OBVIOUS
<1>3. StatusKey(line) = IF takes = {} THEN "other" ELSE chain[Min(takes)]
  BY DEF StatusKey, HasKey
<1>4. \A i \in 1..4 : i \in takes <=> line.key = chain[i]
  BY <1>1
<1>5. \A i \in 1..4 : line.key = chain[i] => takes = {i}
  BY <1>1, <1>2, <1>4
<1>6. \A i \in 1..4 : Min({i}) = i
  <2>. SUFFICES ASSUME NEW i \in 1..4 PROVE Min({i}) = i
    OBVIOUS
  <2>1. {i} \in SUBSET Int /\ i \in {i} /\ \A x \in {i} : i <= x
    OBVIOUS
  <2>. QED
    BY <2>1, LeastIsMin
<1>7. ASSUME takes # {} PROVE StatusKey(line) = line.key
  <2>1. PICK i \in 1..4 : line.key = chain[i]
    BY <1>1, <1>7
  <2>2. takes = {i}
    BY <1>5, <2>1
  <2>. HIDE DEF chain, takes
  <2>. QED
    BY <1>3, <1>6, <1>7, <2>1, <2>2, Zenon
<1>8. ASSUME takes = {} PROVE StatusKey(line) = "other" /\ line.key \notin Switches
  BY <1>1, <1>2, <1>3, <1>4, <1>8 DEF Switches
<1>9. k # "other"
  BY DEF Switches
<1>. HIDE DEF takes
<1>. QED
  BY <1>7, <1>8, <1>9

LEMMA StatusLineKeeps ==
  ASSUME ScanInv, StatusLine
  PROVE  SwitchesRead'
<1>1. Round("status")
  BY DEF StatusLine
<1>2. /\ file = "status" /\ file' = file /\ text' = text /\ result = "none"
      /\ at \in Nat /\ Len(text) \in Nat /\ at' = at + 1 /\ at' \in 1..Len(text)
  BY <1>1, RoundReads DEF ScanInv
<1>3. CASE result' = "error"
  BY <1>3 DEF SwitchesRead
<1>4. CASE result' # "error"
  <2>1. PICK y : y = at'
    OBVIOUS
  <2>2. Line = text[y]
    BY <1>2, <2>1 DEF Line
  <2>3. text[y].value \in Int
    <3>1. text \in Seq([key : STRING, value : Int])
      BY <1>2, ScannedLines DEF ScanInv
    <3>2. text[y] \in [key : STRING, value : Int]
      BY <1>2, <2>1, <3>1, ElementOfSeq
    <3>. QED
      BY <3>2
  <2>4. /\ status \in [uid : Int, fd_size : Int, voluntary : Int, nonvoluntary : Int,
                       has : SUBSET Switches]
        /\ \A k \in Switches :
             /\ k \in status.has <=> LinesOf(k) # {}
             /\ status[k] = IF LinesOf(k) = {} THEN 0 ELSE text[Max(LinesOf(k))].value
    BY <1>2 DEF ScanInv, SwitchesRead
  <2>5. PICK key : key = StatusKey(Line)
    OBVIOUS
  <2>6. /\ status' \in [uid : Int, fd_size : Int, voluntary : Int, nonvoluntary : Int,
                        has : SUBSET Switches]
        /\ \A k \in Switches :
             /\ k \in status'.has <=> k \in status.has \/ key = k
             /\ status'[k] = IF key = k THEN text[y].value ELSE status[k]
    <3>1. \/ key = "Uid" /\ Uid(text[y].value) >= 0 /\ status' = [status EXCEPT !.uid = Uid(text[y].value)]
          \/ key = "FDSize" /\ status' = [status EXCEPT !.fd_size = text[y].value]
          \/ key \in Switches /\ status' = [status EXCEPT ![key] = text[y].value,
                                                         !.has = @ \union {key}]
          \/ key = "other" /\ status' = status
      BY <1>4, <2>2, <2>5 DEF StatusLine, Returns
    <3>2. Uid(text[y].value) \in Int
      BY <2>3 DEF Uid
    <3>3. \A k \in Switches : k = "voluntary" \/ k = "nonvoluntary"
      BY DEF Switches
    <3>4. CASE key = "Uid" /\ status' = [status EXCEPT !.uid = Uid(text[y].value)]
      BY <2>4, <3>2, <3>3, <3>4
    <3>5. CASE key = "FDSize" /\ status' = [status EXCEPT !.fd_size = text[y].value]
      BY <2>3, <2>4, <3>3, <3>5
    <3>6. CASE key = "other" /\ status' = status
      BY <2>4, <3>3, <3>6
    <3>7. CASE key = "voluntary" /\ status' = [status EXCEPT !["voluntary"] = text[y].value,
                                                             !.has = @ \union {"voluntary"}]
      BY <2>3, <2>4, <3>7 DEF Switches
    <3>8. CASE key = "nonvoluntary" /\ status' = [status EXCEPT !["nonvoluntary"] = text[y].value,
                                                                !.has = @ \union {"nonvoluntary"}]
      BY <2>3, <2>4, <3>8 DEF Switches
    <3>. QED
      BY <3>1, <3>3, <3>4, <3>5, <3>6, <3>7, <3>8
  <2>7. ASSUME NEW k \in Switches
        PROVE  /\ k \in status'.has <=> Upto(KeyLines(k), y) # {}
               /\ status'[k] = IF Upto(KeyLines(k), y) = {} THEN 0
                               ELSE text[Max(Upto(KeyLines(k), y))].value
    <3>1. key = k <=> y \in KeyLines(k)
      <4>1. key = k <=> text[y].key = k
        BY <2>2, <2>5, SwitchKeys
      <4>. QED
        BY <1>2, <2>1, <4>1 DEF KeyLines
    <3>2. KeyLines(k) \in SUBSET (1..Len(text)) /\ y \in 1..Len(text) /\ y = at + 1
      BY <1>2, <2>1 DEF KeyLines
    <3>3. /\ y \notin KeyLines(k) => Upto(KeyLines(k), y) = LinesOf(k)
          /\ y \in KeyLines(k) => Upto(KeyLines(k), y) # {} /\ Max(Upto(KeyLines(k), y)) = y
      <4>0. PICK N \in Nat, n \in Nat : N = Len(text) /\ n = at
        BY <1>2, Zenon
      <4>1. PICK A : A = KeyLines(k)
        OBVIOUS
      <4>2. A \in SUBSET (1..N) /\ y \in 1..N /\ y = n + 1
        BY <3>2, <4>0, <4>1
      <4>3. y \notin A => Upto(A, y) = Upto(A, n)
        BY <4>2, UptoSteps
      <4>4. A \in SUBSET Int
        BY <4>0, <4>2
      <4>5. y \in A => Upto(A, y) # {} /\ Max(Upto(A, y)) = y
        BY <4>4, UptoItself
      <4>. QED
        BY <4>0, <4>1, <4>3, <4>5, Zenon DEF LinesOf
    <3>. QED
      BY <2>4, <2>6, <3>1, <3>3
  <2>8. \A k : LinesOf(k)' = Upto(KeyLines(k), y)
    BY <1>2, <2>1 DEF LinesOf, Upto, KeyLines
  <2>. QED
    BY <1>2, <2>6, <2>7, <2>8 DEF SwitchesRead
<1>. QED
  BY <1>3, <1>4

LEMMA TicksAre ==
  ASSUME NEW values \in Seq(Int)
  PROVE  /\ Ticks(values) \in Int
         /\ Ticks(values) = SumFunctionOnSet(values, (1..8) \intersect DOMAIN values)
<1>1. PICK n \in Nat : n = Len(values) /\ DOMAIN values = 1..n /\ \A i \in 1..n : values[i] \in Int
  BY LenProperties, ElementOfSeq
<1>2. PICK m \in Nat : m = (IF n < 8 THEN n ELSE 8)
  OBVIOUS
<1>3. 1 <= 1 /\ 1 <= m + 1 /\ m <= n /\ m - 1 + 1 = m /\ (1..8) \intersect (1..n) = 1..m
  BY <1>2
<1>4. \A i \in 1..m : 1 + i - 1 = i /\ i \in 1..n
  BY <1>3
<1>5. Counters(values) = SubSeq(values, 1, m)
  BY <1>1, <1>2, Zenon DEF Counters
<1>6. PICK u : u = SubSeq(values, 1, m)
  OBVIOUS
<1>7. DOMAIN u = 1..m - 1 + 1 /\ \A i \in 1..m - 1 + 1 : u[i] = values[1 + i - 1]
  <2>1. DOMAIN SubSeq(values, 1, m) = 1..m - 1 + 1
    BY <1>1, <1>3, Slice
  <2>2. \A i \in 1..m - 1 + 1 : SubSeq(values, 1, m)[i] = values[1 + i - 1]
    BY <1>1, <1>3, Slice
  <2>. QED
    BY <1>6, <2>1, <2>2
<1>8. DOMAIN u = 1..m /\ \A i \in 1..m : u[i] = values[i]
  BY <1>3, <1>4, <1>7
<1>9. Ticks(values) = SumFunctionOnSet(u, 1..m)
  BY <1>5, <1>6, <1>8 DEF Ticks, SumFunction
<1>10. IsFiniteSet(1..m)
  BY Segment
<1>11. \A i \in 1..m : u[i] \in Int /\ values[i] = u[i]
  BY <1>1, <1>4, <1>8
<1>12. /\ SumFunctionOnSet(u, 1..m) \in Int
       /\ SumFunctionOnSet(u, 1..m) = SumFunctionOnSet(values, 1..m)
  BY <1>10, <1>11, SumEqual
<1>. QED
  BY <1>1, <1>3, <1>9, <1>12

LEMMA CpuLineKeeps ==
  ASSUME ScanInv, SystemCpuLine
  PROVE  CpusRead'
<1>1. Round("cpu")
  BY DEF SystemCpuLine
<1>2. /\ file = "cpu" /\ file' = file /\ text' = text /\ result = "none"
      /\ at \in Nat /\ Len(text) \in Nat /\ at' = at + 1 /\ at' \in 1..Len(text)
  BY <1>1, RoundReads DEF ScanInv
<1>3. CASE result' = "error"
  BY <1>3 DEF CpusRead
<1>4. CASE result' # "error"
  <2>1. PICK y \in 1..Len(text) : y = at'
    BY <1>2
  <2>2. Line = text[y]
    BY <1>2, <2>1 DEF Line
  <2>3. text[y].values \in Seq(Int)
    <3>1. text \in Seq([name : STRING, values : Seq(Int)])
      BY <1>2, ScannedLines DEF ScanInv
    <3>2. text[y] \in [name : STRING, values : Seq(Int)]
      BY <3>1, ElementOfSeq
    <3>. QED
      BY <3>2
  <2>4. /\ cpu \in [ticks : Int, cpus : Nat]
        /\ cpu.cpus = Cardinality(Upto(NameLines("cpuN"), at))
        /\ cpu.ticks = IF Totals = {} THEN NoTicks ELSE Ticks(text[Max(Totals)].values)
    BY <1>2 DEF ScanInv, CpusRead
  <2>5. result' = "none" /\ \/ text[y].name = "cpu" /\ cpu' = [cpu EXCEPT !.ticks = Ticks(text[y].values)]
                            \/ text[y].name = "cpuN" /\ cpu' = [cpu EXCEPT !.cpus = @ + 1]
                            \/ text[y].name \notin {"cpu", "cpuN"} /\ cpu' = cpu
    BY <1>2, <1>4, <2>2 DEF SystemCpuLine, Goes, Returns
  <2>6. PICK N \in Nat, n \in Nat : N = Len(text) /\ n = at
    BY <1>2, Zenon
  <2>7. y \in 1..N /\ y = n + 1
    BY <1>2, <2>1, <2>6
  <2>8. \A name : NameLines(name) \in SUBSET (1..N) /\ (y \in NameLines(name) <=> text[y].name = name)
    BY <2>6, <2>7 DEF NameLines
  <2>9. /\ cpu' \in [ticks : Int, cpus : Nat]
        /\ cpu'.ticks = IF text[y].name = "cpu" THEN Ticks(text[y].values) ELSE cpu.ticks
        /\ cpu'.cpus = IF text[y].name = "cpuN" THEN cpu.cpus + 1 ELSE cpu.cpus
    <3>1. Ticks(text[y].values) \in Int
      BY <2>3, TicksAre
    <3>. QED
      BY <2>4, <2>5, <3>1
  <2>10. cpu'.cpus = Cardinality(Upto(NameLines("cpuN"), y))
    <3>1. PICK A \in SUBSET (1..N) : A = NameLines("cpuN")
      BY <2>8, Zenon
    <3>2. y \notin A => Upto(A, y) = Upto(A, n)
      BY <2>7, UptoGrows
    <3>3. y \in A => Cardinality(Upto(A, y)) = Cardinality(Upto(A, n)) + 1
      BY <2>7, UptoGrows
    <3>4. cpu.cpus = Cardinality(Upto(A, n)) /\ (y \in A <=> text[y].name = "cpuN")
      BY <2>4, <2>6, <2>8, <3>1, Zenon
    <3>5. cpu'.cpus = Cardinality(Upto(A, y))
      BY <2>9, <3>2, <3>3, <3>4
    <3>. QED
      BY <3>1, <3>5, Zenon
  <2>11. cpu'.ticks = IF Upto(NameLines("cpu"), y) = {} THEN NoTicks
                      ELSE Ticks(text[Max(Upto(NameLines("cpu"), y))].values)
    <3>1. PICK A \in SUBSET (1..N) : A = NameLines("cpu")
      BY <2>8, Zenon
    <3>2. y \notin A => Upto(A, y) = Upto(A, n)
      BY <2>7, UptoSteps
    <3>3. y \in A => Upto(A, y) # {} /\ Max(Upto(A, y)) = y
      <4>1. A \in SUBSET Int
        OBVIOUS
      <4>. QED
        BY <4>1, UptoItself
    <3>4. /\ cpu.ticks = IF Upto(A, n) = {} THEN NoTicks ELSE Ticks(text[Max(Upto(A, n))].values)
          /\ y \in A <=> text[y].name = "cpu"
      BY <2>4, <2>6, <2>8, <3>1, Zenon DEF Totals
    <3>5. cpu'.ticks = IF Upto(A, y) = {} THEN NoTicks ELSE Ticks(text[Max(Upto(A, y))].values)
      BY <2>9, <3>2, <3>3, <3>4, Zenon
    <3>. QED
      BY <3>1, <3>5, Zenon
  <2>12. Totals' = Upto(NameLines("cpu"), y) /\ Upto(NameLines("cpuN"), at)' = Upto(NameLines("cpuN"), y)
    BY <1>2, <2>1 DEF Totals, Upto, NameLines
  <2>13. NoTicks' = NoTicks /\ \A x : Ticks(x)' = Ticks(x)
    BY DEF NoTicks
  <2>. QED
    BY <1>2, <2>5, <2>9, <2>10, <2>11, <2>12, <2>13, Zenon DEF CpusRead
<1>. QED
  BY <1>3, <1>4

LEMMA CpuEndKeeps ==
  ASSUME ScanInv, SystemCpuEnd
  PROVE  CpusRead'
<1>1. /\ file = "cpu" /\ result = "none" /\ file' = file /\ text' = text /\ at' = at /\ cpu' = cpu
      /\ result' = IF cpu.ticks = NoTicks \/ cpu.cpus = 0 THEN "error" ELSE "ok"
  BY DEF SystemCpuEnd, Done, Returns
<1>2. /\ cpu \in [ticks : Int, cpus : Nat]
      /\ cpu.cpus = Cardinality(Upto(NameLines("cpuN"), at))
      /\ cpu.ticks = IF Totals = {} THEN NoTicks ELSE Ticks(text[Max(Totals)].values)
  BY <1>1 DEF ScanInv, CpusRead
<1>3. result' = "ok" => Totals # {} /\ cpu.cpus > 0
  BY <1>1, <1>2
<1>4. Totals' = Totals /\ Upto(NameLines("cpuN"), at)' = Upto(NameLines("cpuN"), at)
  BY <1>1 DEF Totals, Upto, NameLines
<1>. QED
  BY <1>1, <1>2, <1>3, <1>4 DEF CpusRead

LEMMA StackLineKeeps ==
  ASSUME ScanInv, StackLine
  PROVE  FramesRead'
<1>1. Round("stack")
  BY DEF StackLine
<1>2. /\ file = "stack" /\ file' = file /\ text' = text /\ result = "none"
      /\ at \in Nat /\ Len(text) \in Nat /\ at' = at + 1 /\ at' \in 1..Len(text)
  BY <1>1, RoundReads DEF ScanInv
<1>3. PICK y \in 1..Len(text) : y = at'
  BY <1>2
<1>4. PICK N \in Nat, n \in Nat : N = Len(text) /\ n = at
  BY <1>2, Zenon
<1>5. PICK A \in SUBSET (1..N) : A = FrameLines
  BY <1>4 DEF FrameLines
<1>6. y \in 1..N /\ y = n + 1
  BY <1>2, <1>3, <1>4
<1>7. y \in A <=> FrameOk(text[y])
  BY <1>4, <1>5, <1>6 DEF FrameLines
<1>8. frames' = IF y \in A THEN Append(frames, <<text[y].addr, text[y].symbol>>) ELSE frames
  <2>1. Line = text[y]
    BY <1>2, <1>3 DEF Line
  <2>. QED
    BY <1>7, <2>1, Zenon DEF StackLine
<1>9. <<text[y].addr, text[y].symbol>> \in Nat \X STRING
  <2>1. text \in Seq([bracketed : BOOLEAN, addr : Nat, symbol : STRING])
    BY <1>2, ScannedLines DEF ScanInv
  <2>2. text[y] \in [bracketed : BOOLEAN, addr : Nat, symbol : STRING]
    BY <2>1, ElementOfSeq
  <2>. QED
    BY <2>2
<1>10. /\ frames \in Seq(Nat \X STRING)
      /\ Len(frames) = Cardinality(Upto(A, n))
      /\ \A i \in Upto(A, n) : frames[Cardinality(Upto(A, i))] = <<text[i].addr, text[i].symbol>>
  BY <1>2, <1>4, <1>5, Zenon DEF ScanInv, FramesRead
<1>11. /\ frames' \in Seq(Nat \X STRING)
      /\ Len(frames') = Cardinality(Upto(A, y))
      /\ \A i \in Upto(A, y) : frames'[Cardinality(Upto(A, i))] = <<text[i].addr, text[i].symbol>>
  <2>1. CASE y \notin A
    <3>1. Upto(A, y) = Upto(A, n)
      BY <1>6, <2>1, UptoSteps
    <3>. QED
      BY <1>8, <1>10, <2>1, <3>1
  <2>2. CASE y \in A
    <3>1. Cardinality(Upto(A, n)) \in Nat
      BY <1>6, UptoGrows
    <3>2. Upto(A, y) = Upto(A, n) \union {y}
      BY <1>6, <2>2, UptoSteps
    <3>3. Cardinality(Upto(A, y)) = Cardinality(Upto(A, n)) + 1
      <4>1. y \in A => Cardinality(Upto(A, y)) = Cardinality(Upto(A, n)) + 1
        BY <1>6, UptoGrows
      <4>. QED
        BY <2>2, <4>1
    <3>4. PICK frame, more : frame = <<text[y].addr, text[y].symbol>> /\ more = Append(frames, frame)
      OBVIOUS
    <3>5. /\ more \in Seq(Nat \X STRING) /\ Len(more) = Len(frames) + 1
          /\ more[Len(frames) + 1] = frame
          /\ \A j \in 1..Len(frames) : more[j] = frames[j]
      BY <1>9, <1>10, <3>4, AppendProperties
    <3>6. ASSUME NEW i \in Upto(A, n)
          PROVE  Cardinality(Upto(A, i)) \in 1..Len(frames)
      <4>1. i \in A /\ i \in Nat /\ i <= n
        BY DEF Upto
      <4>2. i \in Upto(A, i) /\ Upto(A, i) \in SUBSET Upto(A, n)
        <5>1. i <= i /\ \A j \in A : j <= i => j <= n
          BY <4>1
        <5>. QED
          BY <4>1, <5>1, Zenon DEF Upto
      <4>3. IsFiniteSet(Upto(A, n))
        BY <1>6, UptoGrows
      <4>4. IsFiniteSet(Upto(A, i)) /\ Cardinality(Upto(A, i)) <= Cardinality(Upto(A, n))
        BY <4>2, <4>3, FS_Subset
      <4>5. Cardinality(Upto(A, i)) \in Nat /\ Cardinality(Upto(A, i)) # 0
        BY <4>2, <4>4, FS_CardinalityType, FS_EmptySet
      <4>. QED
        BY <1>10, <3>1, <4>4, <4>5
    <3>7. frames' = more
      BY <1>8, <2>2, <3>4
    <3>. QED
      BY <1>10, <3>1, <3>2, <3>3, <3>4, <3>5, <3>6, <3>7, Zenon
  <2>. QED
    BY <2>1, <2>2
<1>12. FrameLines' = A /\ at' = y
  BY <1>2, <1>3, <1>4, <1>5 DEF FrameLines
<1>13. /\ Upto(FrameLines, at)' = Upto(A, y)
       /\ \A i : Upto(FrameLines, i)' = Upto(A, i)
  BY <1>12 DEF Upto
<1>. QED
  BY <1>2, <1>11, <1>13, Zenon DEF FramesRead

-----------------------------------------------------------------------------
(* build_cmdline. *)

LEMMA HasLeast ==
  ASSUME NEW S \in SUBSET Nat, S # {}
  PROVE  \E m \in S : \A x \in S : m <= x
<1>1. PICK m \in S : \A k \in S : ~(<<k, m>> \in OpToRel(<, Nat))
  BY NatLessThanWellFounded, WFMin
<1>2. \A k \in S : ~(k < m)
  BY <1>1 DEF OpToRel
<1>3. \A k \in S : m <= k
  BY <1>2
<1>. QED
  BY <1>3

(* A sum of threes and ones. *)
LEMMA Widths ==
  ASSUME NEW m \in Nat, NEW W \in SUBSET (1..m), NEW f,
         \A i \in 1..m : f[i] = IF i \in W THEN 3 ELSE 1
  PROVE  SumFunctionOnSet(f, 1..m) = m + 2 * Cardinality(W)
<1>. DEFINE G == {k \in Nat : k <= m => SumFunctionOnSet(f, 1..k) = k + 2 * Cardinality(Upto(W, k))}
<1>1. 0 \in G
  <2>1. Upto(W, 0) = {}
    BY UptoEnds
  <2>2. 1..0 = {}
    OBVIOUS
  <2>3. SumFunctionOnSet(f, 1..0) = 0 /\ Cardinality(Upto(W, 0)) = 0
    BY <2>1, <2>2, SumEmpty, FS_EmptySet
  <2>. QED
    BY <2>3
<1>2. \A k \in G : k + 1 \in G
  <2>. SUFFICES ASSUME NEW k \in Nat, k + 1 <= m,
                       SumFunctionOnSet(f, 1..k) = k + 2 * Cardinality(Upto(W, k))
                PROVE  SumFunctionOnSet(f, 1..k + 1) = (k + 1) + 2 * Cardinality(Upto(W, k + 1))
    OBVIOUS
  <2>1. PICK y \in 1..m : y = k + 1
    OBVIOUS
  <2>2. y \notin 1..k /\ 1..y = (1..k) \union {y} /\ \A i \in 1..k : i \in 1..m
    BY <2>1
  <2>3. IsFiniteSet(1..k)
    BY Segment
  <2>4. f[y] \in Int /\ \A i \in 1..k : f[i] \in Int
    BY <2>2
  <2>5. SumFunctionOnSet(f, (1..k) \union {y}) = SumFunctionOnSet(f, 1..k) + f[y]
    <3>. DEFINE S == 1..k
    <3>1. PICK g : g = f
      OBVIOUS
    <3>2. g[y] \in Int /\ \A i \in S : f[i] \in Int /\ g[i] = f[i]
      BY <2>4, <3>1
    <3>3. IsFiniteSet(S) /\ y \notin S
      BY <2>2, <2>3
    <3>. HIDE DEF S
    <3>4. SumFunctionOnSet(g, S \union {y}) = SumFunctionOnSet(f, S) + g[y]
      BY <3>2, <3>3, SumAdd
    <3>. QED
      BY <3>1, <3>4 DEF S
  <2>6. Cardinality(Upto(W, k)) \in Nat
    BY <2>1, UptoGrows
  <2>7. y \notin W => Upto(W, y) = Upto(W, k)
    BY <2>1, UptoGrows
  <2>8. y \in W => Cardinality(Upto(W, y)) = Cardinality(Upto(W, k)) + 1
    <3>1. IsFiniteSet(Upto(W, k)) /\ y \notin Upto(W, k)
      BY <2>1, UptoGrows
    <3>2. y \in W => Upto(W, y) = Upto(W, k) \union {y}
      BY <2>1, UptoSteps
    <3>. QED
      BY <3>1, <3>2, FS_AddElement
  <2>9. f[y] = IF y \in W THEN 3 ELSE 1
    OBVIOUS
  <2>10. SumFunctionOnSet(f, 1..y) = y + 2 * Cardinality(Upto(W, y))
    <3>1. PICK c, d, s : /\ c \in Nat /\ c = Cardinality(Upto(W, k))
                         /\ d = Cardinality(Upto(W, y)) /\ s = SumFunctionOnSet(f, 1..y)
      BY <2>6
    <3>2. s = k + 2 * c + f[y]
      BY <2>2, <2>5, <3>1, Zenon
    <3>3. d = IF y \in W THEN c + 1 ELSE c
      BY <2>7, <2>8, <3>1, Zenon
    <3>4. c \in Nat
      BY <3>1
    <3>5. s = y + 2 * d
      BY <2>1, <2>9, <3>2, <3>3, <3>4
    <3>. QED
      BY <3>1, <3>5, Zenon
  <2>. QED
    BY <2>1, <2>10
<1>3. m \in G
  <2>. HIDE DEF G
  <2>1. G \in SUBSET Nat
    BY DEF G
  <2>. QED
    BY <1>1, <1>2, <2>1, Counting
<1>4. Upto(W, m) = W
  BY UptoEnds
<1>5. m <= m
  OBVIOUS
<1>. QED
  BY <1>3, <1>4, <1>5, Zenon

Spoken(b) == IF b = "nul" THEN " " ELSE b

Unpadded(bytes) ==
  LET ink == {i \in DOMAIN bytes : bytes[i] \notin {"nul", " "}}
  IN  IF ink = {} THEN << >> ELSE SubSeq(bytes, Min(ink), Max(ink))

(* The arguments joined are the bytes without the padding, and a space for *)
(* each end of an argument.                                                *)
LEMMA JoinedAre ==
  ASSUME NEW bytes \in Seq(STRING), NEW whole, whole = Unpadded(bytes)
  PROVE  /\ whole \in Seq(Text) /\ Joined(bytes) \in Seq(Text)
         /\ Len(Joined(bytes)) = Len(whole)
         /\ \A i \in 1..Len(whole) : Joined(bytes)[i] = Spoken(whole[i])
<1>. DEFINE said == [i \in DOMAIN bytes |-> Spoken(bytes[i])]
            ink == {i \in DOMAIN bytes : bytes[i] \notin {"nul", " "}}
            inkSaid == {i \in DOMAIN said : said[i] # " "}
<1>1. PICK N \in Nat : N = Len(bytes) /\ DOMAIN bytes = 1..N /\ \A i \in 1..N : bytes[i] \in STRING
  BY LenProperties, ElementOfSeq
<1>2. /\ said \in Seq(Text) /\ Len(said) = N /\ DOMAIN said = 1..N
      /\ \A i \in 1..N : said[i] = Spoken(bytes[i])
  <2>1. \A i \in 1..N : Spoken(bytes[i]) \in Text
    BY <1>1 DEF Spoken, Text
  <2>2. said \in [1..N -> Text]
    BY <1>1, <2>1
  <2>3. said = [i \in 1..N |-> Spoken(bytes[i])]
    BY <1>1
  <2>. HIDE DEF said
  <2>. QED
    BY <2>2, <2>3
<1>3. bytes \in Seq(Text)
  BY SeqMonotonic DEF Text
<1>4. \A b : Spoken(b) # " " <=> b \notin {"nul", " "}
  BY DEF Spoken
<1>5. ink = inkSaid
  BY <1>1, <1>2, <1>4
<1>6. Joined(bytes) = IF inkSaid = {} THEN << >> ELSE SubSeq(said, Min(inkSaid), Max(inkSaid))
  BY DEF Joined, Trim, Spoken
<1>7. whole = IF ink = {} THEN << >> ELSE SubSeq(bytes, Min(ink), Max(ink))
  BY DEF Unpadded
<1>8. ink \in SUBSET (1..N)
  BY <1>1
<1>. HIDE DEF ink, inkSaid, said
<1>9. CASE ink = {}
  <2>1. whole = << >> /\ Joined(bytes) = << >>
    BY <1>5, <1>6, <1>7, <1>9
  <2>2. << >> \in Seq(Text) /\ Len(<< >>) = 0 /\ 1..0 = {}
    BY EmptySeq
  <2>. QED
    BY <2>1, <2>2
<1>10. CASE ink # {}
  <2>1. PICK a \in ink : \A x \in ink : a <= x
    <3>1. ink \in SUBSET Nat
      BY <1>8
    <3>. QED
      BY <1>10, <3>1, HasLeast
  <2>2. PICK b \in ink : \A x \in ink : x <= b
    <3>1. ink \in SUBSET (0..N)
      BY <1>8
    <3>. QED
      BY <1>10, <3>1, HasGreatest
  <2>3. ink \in SUBSET Int
    BY <1>8
  <2>4. Min(ink) = a
    BY <2>1, <2>3, LeastIsMin
  <2>5. Max(ink) = b
    BY <2>2, <2>3, GreatestIsMax
  <2>6. whole = SubSeq(bytes, a, b) /\ Joined(bytes) = SubSeq(said, a, b)
    BY <1>5, <1>6, <1>7, <1>10, <2>4, <2>5, Zenon
  <2>7. a \in 1..N /\ b \in 1..N /\ a <= b
    BY <1>8, <2>1
  <2>8. PICK m \in Nat : m = b - a + 1
    BY <2>7
  <2>9. a \in Nat /\ b \in Nat /\ 1 <= a /\ a <= b + 1 /\ b <= N /\ \A i \in 1..m : a + i - 1 \in 1..N
    BY <2>7, <2>8
  <2>10. /\ whole \in Seq(Text) /\ Len(whole) = m /\ \A i \in 1..m : whole[i] = bytes[a + i - 1]
    <3>1. SubSeq(bytes, a, b) \in Seq(Text)
      BY <1>1, <1>3, <2>9, Slice
    <3>2. Len(SubSeq(bytes, a, b)) = b - a + 1
      BY <1>1, <1>3, <2>9, Slice
    <3>3. \A i \in 1..b - a + 1 : SubSeq(bytes, a, b)[i] = bytes[a + i - 1]
      BY <1>1, <1>3, <2>9, Slice
    <3>. QED
      BY <2>6, <2>8, <3>1, <3>2, <3>3, Zenon
  <2>11. PICK j : j = Joined(bytes)
    OBVIOUS
  <2>12. /\ j \in Seq(Text) /\ Len(j) = m /\ \A i \in 1..m : j[i] = said[a + i - 1]
    <3>1. SubSeq(said, a, b) \in Seq(Text)
      BY <1>2, <2>9, Slice
    <3>2. Len(SubSeq(said, a, b)) = b - a + 1
      BY <1>2, <2>9, Slice
    <3>3. \A i \in 1..b - a + 1 : SubSeq(said, a, b)[i] = said[a + i - 1]
      BY <1>2, <2>9, Slice
    <3>. QED
      BY <2>6, <2>8, <2>11, <3>1, <3>2, <3>3, Zenon
  <2>13. \A i \in 1..m : j[i] = Spoken(whole[i])
    BY <1>2, <2>9, <2>10, <2>12, Zenon
  <2>. QED
    BY <2>10, <2>11, <2>12, <2>13, Zenon
<1>. QED
  BY <1>9, <1>10

(* What build_cmdline keeps of a command line. *)
Shows(kept, whole) ==
  /\ \A i \in DOMAIN whole : i <= CmdlineMax =>
       kept.short[i] = IF whole[i] = "nul" THEN " " ELSE whole[i]
  /\ Len(whole) <= CmdlineMax => Len(kept.short) = Len(whole)
  /\ Len(whole) > CmdlineMax => kept.short[CmdlineMax + 1] = "..."
  /\ kept.full_len = Len(whole) + 2 * Cardinality({i \in DOMAIN whole : whole[i] = "wide"})

LEMMA CmdlineIs ==
  ASSUME NEW bytes \in Seq(STRING)
  PROVE  Shows(Cmdline(bytes), Unpadded(bytes))
<1>1. PICK whole, kept : whole = Unpadded(bytes) /\ kept = Cmdline(bytes)
  OBVIOUS
<1>2. PICK j \in Seq(Text) : j = Joined(bytes) /\ Len(j) = Len(whole)
                             /\ \A i \in 1..Len(whole) : j[i] = Spoken(whole[i])
  BY <1>1, JoinedAre, Zenon
<1>3. whole \in Seq(Text)
  BY <1>1, JoinedAre
<1>4. PICK m \in Nat : m = Len(whole) /\ DOMAIN whole = 1..m
  BY <1>3, LenProperties
<1>5. DOMAIN j = 1..m
  BY <1>2, <1>4, LenProperties
<1>6. /\ kept.short = IF m > CmdlineMax THEN SubSeq(j, 1, CmdlineMax) \o <<"...">> ELSE j
      /\ kept.full_len = ByteLen(j)
  BY <1>1, <1>2, <1>4 DEF Cmdline
<1>7. ByteLen(j) = m + 2 * Cardinality({i \in DOMAIN whole : whole[i] = "wide"})
  <2>. DEFINE W == {i \in DOMAIN whole : whole[i] = "wide"}
              f == [i \in DOMAIN j |-> IF j[i] = "wide" THEN 3 ELSE 1]
  <2>1. W \in SUBSET (1..m)
    BY <1>4
  <2>2. \A b : Spoken(b) = "wide" <=> b = "wide"
    BY DEF Spoken
  <2>3. DOMAIN f = 1..m /\ \A i \in 1..m : f[i] = IF i \in W THEN 3 ELSE 1
    BY <1>2, <1>4, <1>5, <2>2
  <2>4. ByteLen(j) = SumFunctionOnSet(f, 1..m)
    BY <2>3 DEF ByteLen, SumFunction
  <2>. HIDE DEF W, f
  <2>5. SumFunctionOnSet(f, 1..m) = m + 2 * Cardinality(W)
    BY <2>1, <2>3, Widths
  <2>. QED
    BY <2>4, <2>5 DEF W
<1>8. CASE ~(m > CmdlineMax)
  BY <1>1, <1>2, <1>4, <1>6, <1>7, <1>8, Zenon DEF Spoken, Shows
<1>9. CASE m > CmdlineMax
  <2>1. CmdlineMax \in Nat /\ 1 \in Nat /\ 1 <= CmdlineMax + 1 /\ CmdlineMax <= m /\ 1 <= 1
        /\ CmdlineMax - 1 + 1 = CmdlineMax /\ \A i \in 1..CmdlineMax : 1 + i - 1 = i
    BY <1>9, WidthAssumption
  <2>2. PICK u : u = SubSeq(j, 1, CmdlineMax)
    OBVIOUS
  <2>3. u \in Seq(Text) /\ Len(u) = CmdlineMax /\ \A i \in 1..CmdlineMax : u[i] = j[i]
    <3>0. CmdlineMax <= Len(j)
      BY <1>2, <1>4, <2>1
    <3>1. SubSeq(j, 1, CmdlineMax) \in Seq(Text)
      BY <2>1, <3>0, Slice
    <3>2. Len(SubSeq(j, 1, CmdlineMax)) = CmdlineMax - 1 + 1
      BY <2>1, <3>0, Slice
    <3>3. \A i \in 1..CmdlineMax - 1 + 1 : SubSeq(j, 1, CmdlineMax)[i] = j[1 + i - 1]
      BY <2>1, <3>0, Slice
    <3>. QED
      BY <2>1, <2>2, <3>1, <3>2, <3>3, Zenon
  <2>4. PICK w : w = u \o <<"...">>
    OBVIOUS
  <2>5. (\A i \in 1..CmdlineMax : w[i] = u[i]) /\ w[CmdlineMax + 1] = "..."
    <3>. DEFINE More == Text \union {"..."}
    <3>1. u \in Seq(More)
      BY <2>3, SeqMonotonic
    <3>2. <<"...">> \in Seq(More) /\ Len(<<"...">>) = 1 /\ <<"...">>[1] = "..."
      OBVIOUS
    <3>3. \A i \in 1..CmdlineMax + 1 :
            w[i] = IF i <= CmdlineMax THEN u[i] ELSE <<"...">>[i - CmdlineMax]
      <4>. HIDE DEF More
      <4>1. \A i \in 1..Len(u) + Len(<<"...">>) :
              w[i] = IF i <= Len(u) THEN u[i] ELSE <<"...">>[i - Len(u)]
        BY <2>4, <3>1, <3>2, ConcatProperties
      <4>. QED
        BY <2>3, <3>2, <4>1, Zenon
    <3>4. /\ \A i \in 1..CmdlineMax : i \in 1..CmdlineMax + 1 /\ i <= CmdlineMax
          /\ CmdlineMax + 1 \in 1..CmdlineMax + 1 /\ ~(CmdlineMax + 1 <= CmdlineMax)
          /\ (CmdlineMax + 1) - CmdlineMax = 1
      BY <2>1
    <3>. QED
      BY <3>2, <3>3, <3>4, Zenon
  <2>6. kept.short = w
    BY <1>6, <1>9, <2>2, <2>4
  <2>7. \A i \in 1..m : i <= CmdlineMax => i \in 1..CmdlineMax
    BY <2>1
  <2>8. \A i \in DOMAIN whole : i <= CmdlineMax =>
          kept.short[i] = IF whole[i] = "nul" THEN " " ELSE whole[i]
    BY <1>2, <1>4, <2>3, <2>5, <2>6, <2>7, Zenon DEF Spoken
  <2>9. ~(m <= CmdlineMax)
    BY <1>9, <2>1
  <2>. QED
    BY <1>1, <1>4, <1>6, <1>7, <2>5, <2>6, <2>8, <2>9, Zenon DEF Shows
<1>. QED
  BY <1>8, <1>9

Scanned == {"cpu", "status", "stack", "cmdline"}

LEMMA ScanInit == Init => ScanInv
<1>. SUFFICES ASSUME Init PROVE ScanInv
  OBVIOUS
<1>1. file \in Files /\ text \in Content[file] /\ at = 0 /\ result = "none"
  BY DEF Init
<1>2. file \in {"cpu", "status", "stack"} => Len(text) \in Nat
  <2>1. file \in {"cpu", "status", "stack"} => \E V : text \in Seq(V)
    BY <1>1, LinesAssumption
  <2>. QED
    BY <2>1, LenProperties
<1>3. ScanTypeOK
  BY <1>1, <1>2 DEF ScanTypeOK
<1>4. ASSUME file \in {"cpu", "status", "stack"}, NEW A \in SUBSET (1..Len(text))
      PROVE  Upto(A, at) = {}
  BY <1>1, <1>2, <1>4, UptoEnds
<1>5. SwitchesRead
  <2>. SUFFICES ASSUME file = "status" PROVE SwitchesRead
    BY DEF SwitchesRead
  <2>1. status = [uid |-> 0, fd_size |-> -1, voluntary |-> 0, nonvoluntary |-> 0, has |-> {}]
    BY DEF Init
  <2>2. \A k : LinesOf(k) = {}
    BY <1>4 DEF LinesOf, KeyLines
  <2>3. \A k \in Switches : k = "voluntary" \/ k = "nonvoluntary"
    BY DEF Switches
  <2>. QED
    BY <2>1, <2>2, <2>3 DEF SwitchesRead
<1>6. CpusRead
  <2>. SUFFICES ASSUME file = "cpu" PROVE CpusRead
    BY DEF CpusRead
  <2>1. cpu = [ticks |-> NoTicks, cpus |-> 0] /\ NoTicks \in Int
    BY DEF Init, NoTicks
  <2>2. Totals = {} /\ Upto(NameLines("cpuN"), at) = {}
    BY <1>4 DEF Totals, NameLines
  <2>. QED
    BY <1>1, <2>1, <2>2, FS_EmptySet DEF CpusRead
<1>7. FramesRead
  <2>. SUFFICES ASSUME file = "stack" PROVE FramesRead
    BY DEF FramesRead
  <2>1. frames = << >>
    BY DEF Init
  <2>2. Upto(FrameLines, at) = {}
    BY <1>4 DEF FrameLines
  <2>. QED
    BY <2>1, <2>2, FS_EmptySet, EmptySeq DEF FramesRead
<1>8. CmdlineRead
  BY <1>1 DEF CmdlineRead
<1>. QED
  BY <1>3, <1>5, <1>6, <1>7, <1>8 DEF ScanInv

(* What a step does not touch. *)
LEMMA ScanOthersKeep ==
  ASSUME ScanInv, file' = file,
         file \notin Scanned \/ UNCHANGED <<text, at, result, cpu, status, frames, flat>>
  PROVE  ScanInv'
<1>1. CASE file \notin Scanned
  BY <1>1 DEF ScanInv, ScanTypeOK, SwitchesRead, CpusRead, FramesRead, CmdlineRead, Scanned
<1>2. CASE UNCHANGED <<text, at, result, cpu, status, frames, flat>>
  <2>1. ScanTypeOK'
    BY <1>2 DEF ScanInv, ScanTypeOK
  <2>2. SwitchesRead'
    <3>1. \A k : LinesOf(k)' = LinesOf(k)
      BY <1>2 DEF LinesOf, Upto, KeyLines
    <3>. QED
      BY <1>2, <3>1 DEF ScanInv, SwitchesRead
  <2>3. CpusRead'
    <3>1. Totals' = Totals /\ Upto(NameLines("cpuN"), at)' = Upto(NameLines("cpuN"), at)
      BY <1>2 DEF Totals, Upto, NameLines
    <3>. QED
      BY <1>2, <3>1 DEF ScanInv, CpusRead
  <2>4. FramesRead'
    <3>1. /\ Upto(FrameLines, at)' = Upto(FrameLines, at)
          /\ \A i : Upto(FrameLines, i)' = Upto(FrameLines, i)
      BY <1>2 DEF Upto, FrameLines
    <3>. QED
      BY <1>2, <3>1 DEF ScanInv, FramesRead
  <2>5. CmdlineRead'
    BY <1>2 DEF ScanInv, CmdlineRead
  <2>. QED
    BY <2>1, <2>2, <2>3, <2>4, <2>5 DEF ScanInv
<1>. QED
  BY <1>1, <1>2

LEMMA ScanStays == ScanInv /\ [Next]_vars => ScanInv'
<1>. SUFFICES ASSUME ScanInv, [Next]_vars PROVE ScanInv'
  OBVIOUS
<1>1. CASE StatusLine
  <2>1. file = "status" /\ file' = file /\ ScanTypeOK'
    BY <1>1, RoundReads DEF StatusLine, ScanInv
  <2>2. SwitchesRead'
    BY <1>1, StatusLineKeeps
  <2>. QED
    BY <2>1, <2>2 DEF ScanInv, CpusRead, FramesRead, CmdlineRead
<1>2. CASE StatusEnd
  <2>1. /\ file = "status" /\ file' = file /\ text' = text /\ at' = at
        /\ result = "none" /\ status' = status
    BY <1>2 DEF StatusEnd, Done
  <2>2. ScanTypeOK'
    BY <2>1 DEF ScanInv, ScanTypeOK
  <2>3. SwitchesRead'
    <3>1. \A k : LinesOf(k)' = LinesOf(k)
      BY <2>1 DEF LinesOf, Upto, KeyLines
    <3>. QED
      BY <2>1, <3>1 DEF ScanInv, SwitchesRead
  <2>. QED
    BY <2>1, <2>2, <2>3 DEF ScanInv, CpusRead, FramesRead, CmdlineRead
<1>3. CASE SystemCpuLine
  <2>1. file = "cpu" /\ file' = file /\ ScanTypeOK'
    BY <1>3, RoundReads DEF SystemCpuLine, ScanInv
  <2>2. CpusRead'
    BY <1>3, CpuLineKeeps
  <2>. QED
    BY <2>1, <2>2 DEF ScanInv, SwitchesRead, FramesRead, CmdlineRead
<1>4. CASE SystemCpuEnd
  <2>1. file = "cpu" /\ file' = file /\ text' = text /\ at' = at
    BY <1>4 DEF SystemCpuEnd, Done
  <2>2. ScanTypeOK'
    BY <2>1 DEF ScanInv, ScanTypeOK
  <2>3. CpusRead'
    BY <1>4, CpuEndKeeps
  <2>. QED
    BY <2>1, <2>2, <2>3 DEF ScanInv, SwitchesRead, FramesRead, CmdlineRead
<1>5. CASE StackLine
  <2>1. file = "stack" /\ file' = file /\ ScanTypeOK'
    BY <1>5, RoundReads DEF StackLine, ScanInv
  <2>2. FramesRead'
    BY <1>5, StackLineKeeps
  <2>. QED
    BY <2>1, <2>2 DEF ScanInv, SwitchesRead, CpusRead, CmdlineRead
<1>6. CASE StackEnd
  <2>1. /\ file = "stack" /\ file' = file /\ text' = text /\ at' = at
        /\ result = "none" /\ frames' = frames
    BY <1>6 DEF StackEnd, Done
  <2>2. ScanTypeOK'
    BY <2>1 DEF ScanInv, ScanTypeOK
  <2>3. FramesRead'
    <3>1. /\ Upto(FrameLines, at)' = Upto(FrameLines, at)
          /\ \A i : Upto(FrameLines, i)' = Upto(FrameLines, i)
      BY <2>1 DEF Upto, FrameLines
    <3>. QED
      BY <2>1, <3>1 DEF ScanInv, FramesRead
  <2>. QED
    BY <2>1, <2>2, <2>3 DEF ScanInv, SwitchesRead, CpusRead, CmdlineRead
<1>7. CASE ReadFlat
  <2>1. /\ file' = file /\ text' = text /\ file \in {"wchan", "fd", "cmdline"}
        /\ file = "cmdline" => flat' = Cmdline(text)
    BY <1>7 DEF ReadFlat
  <2>2. ScanTypeOK' /\ CmdlineRead'
    BY <2>1 DEF ScanInv, ScanTypeOK, CmdlineRead
  <2>. QED
    BY <2>1, <2>2 DEF ScanInv, SwitchesRead, CpusRead, FramesRead
<1>8. CASE UNCHANGED vars
  BY <1>8, ScanOthersKeep DEF vars
<1>9. ASSUME ParseStat \/ CgroupUnified \/ CgroupLegacy \/ CgroupMalformed \/ CgroupEnd
             \/ MapsLine \/ MapsEnd
      PROVE  ScanInv'
  <2>1. file' = file /\ file \notin Scanned
    BY <1>9 DEF ParseStat, CgroupUnified, CgroupLegacy, CgroupMalformed, CgroupEnd,
                MapsLine, MapsEnd, Round, Done, Scanned
  <2>. QED
    BY <2>1, ScanOthersKeep
<1>. QED
  BY <1>1, <1>2, <1>3, <1>4, <1>5, <1>6, <1>7, <1>8, <1>9 DEF Next

LEMMA ScansHold == ScanInv => ScansAgree
<1>. SUFFICES ASSUME ScanInv, result # "error" PROVE ScansAgree
  BY DEF ScansAgree
<1>1. ASSUME file \in {"cpu", "status", "stack"}
      PROVE  /\ Len(text) \in Nat /\ at \in 0..Len(text)
             /\ \A k : {i \in 1..at : text[i].key = k} = LinesOf(k)
             /\ \A n : {i \in 1..at : text[i].name = n} = Upto(NameLines(n), at)
             /\ {i \in 1..at : FrameOk(text[i])} = Upto(FrameLines, at)
  <2>1. Len(text) \in Nat /\ at \in 0..Len(text)
    BY <1>1, ScannedLines DEF ScanInv
  <2>2. \A i : i \in 1..at <=> i \in 1..Len(text) /\ i <= at
    BY <2>1
  <2>. QED
    BY <2>1, <2>2, Zenon DEF LinesOf, Upto, KeyLines, NameLines, FrameLines
<1>2. ASSUME file = "status", NEW k \in Switches
      PROVE  LET lines == Before(LAMBDA l : l.key = k)
             IN  /\ k \in status.has <=> lines # {}
                 /\ status[k] = IF lines = {} THEN 0 ELSE text[Max(lines)].value
  <2>1. {i \in 1..at : text[i].key = k} = LinesOf(k)
    BY <1>1, <1>2
  <2>2. /\ k \in status.has <=> LinesOf(k) # {}
        /\ status[k] = IF LinesOf(k) = {} THEN 0 ELSE text[Max(LinesOf(k))].value
    BY <1>2 DEF ScanInv, SwitchesRead
  <2>. QED
    BY <2>1, <2>2, Zenon DEF Before
<1>3. ASSUME file = "cpu"
      PROVE  LET total == Before(LAMBDA l : l.name = "cpu")
             IN  /\ cpu.cpus = Cardinality(Before(LAMBDA l : l.name = "cpuN"))
                 /\ total # {} =>
                      LET values == text[Max(total)].values
                      IN  cpu.ticks = SumFunctionOnSet(values, (1..8) \intersect DOMAIN values)
                 /\ result = "ok" => total # {} /\ cpu.cpus > 0
  <2>1. {i \in 1..at : text[i].name = "cpu"} = Totals
    BY <1>1, <1>3 DEF Totals
  <2>2. {i \in 1..at : text[i].name = "cpuN"} = Upto(NameLines("cpuN"), at)
    BY <1>1, <1>3
  <2>3. /\ cpu.cpus = Cardinality(Upto(NameLines("cpuN"), at))
        /\ cpu.ticks = IF Totals = {} THEN NoTicks ELSE Ticks(text[Max(Totals)].values)
        /\ result = "ok" => Totals # {} /\ cpu.cpus > 0
    BY <1>3 DEF ScanInv, CpusRead
  <2>4. ASSUME Totals # {}
        PROVE  LET values == text[Max(Totals)].values
               IN  cpu.ticks = SumFunctionOnSet(values, (1..8) \intersect DOMAIN values)
    <3>1. PICK m \in Totals : \A x \in Totals : x <= m
      <4>1. PICK N \in Nat : N = Len(text)
        BY <1>1, <1>3
      <4>2. Totals \in SUBSET (0..N)
        BY <4>1 DEF Totals, Upto, NameLines
      <4>. QED
        BY <2>4, <4>2, HasGreatest
    <3>2. Totals \in SUBSET Int
      BY DEF Totals, Upto, NameLines
    <3>3. Max(Totals) = m
      BY <3>1, <3>2, GreatestIsMax
    <3>4. text[m].values \in Seq(Int)
      <4>1. text \in Seq([name : STRING, values : Seq(Int)])
        BY <1>3, ScannedLines DEF ScanInv
      <4>2. m \in 1..Len(text)
        BY DEF Totals, Upto, NameLines
      <4>3. text[m] \in [name : STRING, values : Seq(Int)]
        BY <4>1, <4>2, ElementOfSeq
      <4>. QED
        BY <4>3
    <3>5. cpu.ticks = Ticks(text[m].values)
      BY <2>3, <2>4, <3>3
    <3>. QED
      BY <3>3, <3>4, <3>5, TicksAre
  <2>. QED
    BY <2>1, <2>2, <2>3, <2>4, Zenon DEF Before
<1>4. ASSUME file = "stack"
      PROVE  LET good == Before(FrameOk)
             IN  /\ Len(frames) = Cardinality(good)
                 /\ \A i \in good : frames[Cardinality({j \in good : j <= i})]
                                      = <<text[i].addr, text[i].symbol>>
  <2>1. {i \in 1..at : FrameOk(text[i])} = Upto(FrameLines, at)
    BY <1>1, <1>4
  <2>2. /\ Len(frames) = Cardinality(Upto(FrameLines, at))
        /\ \A i \in Upto(FrameLines, at) :
             frames[Cardinality(Upto(FrameLines, i))] = <<text[i].addr, text[i].symbol>>
    BY <1>4 DEF ScanInv, FramesRead
  <2>3. \A i \in Upto(FrameLines, at) : {j \in Upto(FrameLines, at) : j <= i} = Upto(FrameLines, i)
    <3>1. at \in Int /\ FrameLines \in SUBSET Int
      BY <1>1, <1>4 DEF FrameLines
    <3>2. \A i, j \in FrameLines : i <= at /\ j <= i => j <= at
      BY <3>1
    <3>. QED
      BY <3>2, Zenon DEF Upto
  <2>. QED
    BY <2>1, <2>2, <2>3, Zenon DEF Before
<1>5. ASSUME file = "cmdline", result = "ok"
      PROVE  LET ink   == {i \in DOMAIN text : text[i] \notin {"nul", " "}}
                 whole == IF ink = {} THEN << >> ELSE SubSeq(text, Min(ink), Max(ink))
             IN  /\ \A i \in DOMAIN whole : i <= CmdlineMax =>
                      flat.short[i] = IF whole[i] = "nul" THEN " " ELSE whole[i]
                 /\ Len(whole) <= CmdlineMax => Len(flat.short) = Len(whole)
                 /\ Len(whole) > CmdlineMax => flat.short[CmdlineMax + 1] = "..."
                 /\ flat.full_len =
                      Len(whole) + 2 * Cardinality({i \in DOMAIN whole : whole[i] = "wide"})
  <2>1. text \in Seq(STRING) /\ flat = Cmdline(text)
    BY <1>5, LinesAssumption DEF ScanInv, ScanTypeOK, CmdlineRead
  <2>2. Shows(flat, Unpadded(text))
    BY <2>1, CmdlineIs, Zenon
  <2>. QED
    BY <2>2, Zenon DEF Unpadded, Shows
<1>. QED
  BY <1>2, <1>3, <1>4, <1>5, Zenon DEF ScansAgree

(* parse_status, parse_system_cpu, read_kernel_stack_from_str and          *)
(* build_cmdline hold, after every line of every file, what the lines read *)
(* so far say.                                                             *)
THEOREM ScansAreFaithful == Spec => []ScansAgree
  BY ScanInit, ScanStays, ScansHold, PTL DEF Spec
=============================================================================
