--------------------------- MODULE AngleBin_proofs ---------------------------
(***************************************************************************)
(* What the choice of one sample promises, for bins of any size and any    *)
(* distances and RSSIs.                                                    *)
(*                                                                         *)
(* The invariant says no more than that the samples are a finite set       *)
(* numbered in their order; the work is in the operators: the median that  *)
(* UpperMedian chooses exists, so that what it was chosen for holds, and   *)
(* the function that min_element computes exists, so that it obeys its     *)
(* equation.  Both are shown with a minimal subset of the samples.         *)
(***************************************************************************)
EXTENDS AngleBin, Operators_proofs

-----------------------------------------------------------------------------
(* The median.                                                             *)

\* At most half of the values are below v, and more than half up to it.
InTheMiddle(D, f, v) ==
  /\ Cardinality({s \in D : f[s] < v}) <= Cardinality(D) \div 2
  /\ Cardinality({s \in D : f[s] <= v}) > Cardinality(D) \div 2

\* Some value is in the middle: the smallest one with more than half of the
\* values up to it, because those below it are the ones up to the next.
LEMMA MedianExists ==
  ASSUME NEW D, IsFiniteSet(D), D # {}, NEW f, f = [x \in D |-> f[x]], \A x \in D : f[x] \in Int
  PROVE  \E v \in {f[s] : s \in D} : InTheMiddle(D, f, v)
<1> DEFINE n == Cardinality(D)
           Image == {f[s] : s \in D}
           Below(v) == {s \in D : f[s] < v}
           UpTo(v) == {s \in D : f[s] <= v}
           V == {v \in Image : Cardinality(UpTo(v)) > n \div 2}
<1>1. n \in Nat /\ n >= 1
  BY FS_CardinalityType, FS_EmptySet
<1>2. /\ \A T \in SUBSET D : IsFiniteSet(T) /\ Cardinality(T) \in Nat
      /\ \A v : Below(v) \in SUBSET D /\ UpTo(v) \in SUBSET D
  BY FS_Subset, FS_CardinalityType
<1>3. IsFiniteSet(V) /\ V \subseteq Int
  <2>1. IsFiniteSet(Image)
    BY ImageFinite
  <2>2. V \subseteq Image /\ Image \subseteq Int
    OBVIOUS
  <2> QED BY <2>1, <2>2, FS_Subset
<1>4. V # {}
  <2>1. PICK x \in D : \A y \in D : f[y] <= f[x]
    BY LargestAt
  <2>2. UpTo(f[x]) = D
    BY <2>1
  <2>3. n > n \div 2
    BY <1>1
  <2> QED BY <2>2, <2>3
<1>5. PICK v \in V : \A w \in V : v <= w
  <2> HIDE DEF V
  <2> QED BY <1>3, <1>4, LargestOf
<1>6. Cardinality(Below(v)) <= n \div 2
  <2>1. CASE Below(v) = {}
    BY <1>1, <2>1, FS_EmptySet
  <2>2. CASE Below(v) # {}
    <3>1. PICK x \in Below(v) : \A y \in Below(v) : f[y] <= f[x]
      <4>1. IsFiniteSet(Below(v)) /\ \A y \in Below(v) : f[y] \in Int
        BY <1>2
      <4> HIDE DEF Below
      <4> QED BY <2>2, <4>1, LargestAt
    <3>2. f[x] \in Image /\ f[x] < v /\ f[x] \in Int /\ v \in Int
      BY <1>3
    <3>3. Below(v) = UpTo(f[x])
      BY <3>1, <3>2
    <3>4. f[x] \notin V
      BY <1>5, <3>2
    <3>5. ~(Cardinality(UpTo(f[x])) > n \div 2)
      BY <3>2, <3>4
    <3>6. Cardinality(UpTo(f[x])) \in Nat /\ n \div 2 \in Int
      BY <1>1, <1>2
    <3> HIDE DEF UpTo, Below
    <3> QED BY <3>3, <3>5, <3>6
  <2> QED BY <2>1, <2>2
<1> QED BY <1>5, <1>6 DEF InTheMiddle

\* What was chosen as the median is in the middle.
LEMMA MedianIs ==
  ASSUME NEW D, IsFiniteSet(D), D # {}, NEW f, f = [x \in D |-> f[x]], \A x \in D : f[x] \in Int
  PROVE  UpperMedian(f) \in Int /\ InTheMiddle(D, f, UpperMedian(f))
<1>1. DOMAIN f = D
  OBVIOUS
<1>2. UpperMedian(f) = CHOOSE v \in {f[s] : s \in D} : InTheMiddle(D, f, v)
  BY <1>1 DEF UpperMedian, InTheMiddle
<1>3. \E v \in {f[s] : s \in D} : InTheMiddle(D, f, v)
  BY MedianExists
<1>4. UpperMedian(f) \in {f[s] : s \in D} /\ InTheMiddle(D, f, UpperMedian(f))
  BY <1>2, <1>3
<1> QED BY <1>4

\* The median distance and the median RSSI of the samples of a bin.
LEMMA Medians ==
  ASSUME NEW S, IsFiniteSet(S), S # {}, \A s \in S : s.distance \in Int /\ s.rssi \in Int
  PROVE  /\ MedianDistance(S) \in Int
         /\ Cardinality({s \in S : s.distance < MedianDistance(S)}) <= Cardinality(S) \div 2
         /\ Cardinality({s \in S : s.distance <= MedianDistance(S)}) > Cardinality(S) \div 2
         /\ MedianRssi(S) \in Int
         /\ Cardinality({s \in S : s.rssi < MedianRssi(S)}) <= Cardinality(S) \div 2
<1> DEFINE d == [s \in S |-> s.distance]
           r == [s \in S |-> s.rssi]
<1>1. /\ d = [s \in S |-> d[s]] /\ \A s \in S : d[s] = s.distance
      /\ r = [s \in S |-> r[s]] /\ \A s \in S : r[s] = s.rssi
  OBVIOUS
<1>2. UpperMedian(d) = MedianDistance(S) /\ UpperMedian(r) = MedianRssi(S)
  BY DEF MedianDistance, MedianRssi
<1> HIDE DEF d, r
<1>3. UpperMedian(d) \in Int /\ InTheMiddle(S, d, UpperMedian(d))
  BY <1>1, MedianIs
<1>4. UpperMedian(r) \in Int /\ InTheMiddle(S, r, UpperMedian(r))
  BY <1>1, MedianIs
<1>5. ASSUME NEW v
      PROVE  /\ {s \in S : d[s] < v} = {s \in S : s.distance < v}
             /\ {s \in S : d[s] <= v} = {s \in S : s.distance <= v}
             /\ {s \in S : r[s] < v} = {s \in S : s.rssi < v}
  <2>1. /\ \A s \in S : d[s] = s.distance
        /\ \A s \in S : r[s] = s.rssi
    BY <1>1
  <2> QED BY <2>1
<1>6. /\ {s \in S : d[s] < UpperMedian(d)} = {s \in S : s.distance < MedianDistance(S)}
      /\ {s \in S : d[s] <= UpperMedian(d)} = {s \in S : s.distance <= MedianDistance(S)}
      /\ {s \in S : r[s] < UpperMedian(r)} = {s \in S : s.rssi < MedianRssi(S)}
  BY <1>2, <1>5
<1> QED BY <1>2, <1>3, <1>4, <1>6 DEF InTheMiddle

\* Half of the samples hold the median up: it is among the values that more
\* than half are up to, and those meet the half.  It takes more than half to
\* hold it down, for half may be below it.
LEMMA MedianOfMajority ==
  ASSUME NEW S, IsFiniteSet(S), S # {}, \A s \in S : s.distance \in Int /\ s.rssi \in Int,
         NEW d \in Int
  PROVE  /\ 2 * Cardinality({s \in S : s.distance >= d}) >= Cardinality(S) => d <= MedianDistance(S)
         /\ 2 * Cardinality({s \in S : s.distance <= d}) > Cardinality(S) => MedianDistance(S) <= d
<1> DEFINE m == MedianDistance(S)
           Far == {s \in S : s.distance >= d}
           Close == {s \in S : s.distance <= d}
           Below == {s \in S : s.distance < m}
           UpTo == {s \in S : s.distance <= m}
<1>1. m \in Int /\ Cardinality(Below) <= Cardinality(S) \div 2 /\ Cardinality(UpTo) > Cardinality(S) \div 2
  BY Medians
<1>2. \A T \in SUBSET S : IsFiniteSet(T) /\ Cardinality(T) \in Nat /\ Cardinality(T) <= Cardinality(S)
  BY FS_Subset, FS_CardinalityType
<1>3. /\ Far \in SUBSET S /\ Close \in SUBSET S /\ Below \in SUBSET S /\ UpTo \in SUBSET S /\ S \in SUBSET S
  OBVIOUS
<1>4. ASSUME 2 * Cardinality(Far) >= Cardinality(S) PROVE d <= m
  <2> SUFFICES ASSUME m < d PROVE FALSE
    BY <1>1
  <2>1. Far \cap UpTo = {}
    BY <1>1
  <2>2. Cardinality(Far) + Cardinality(UpTo) > Cardinality(S)
    <3>1. Cardinality(S) \in Nat /\ Cardinality(Far) \in Nat /\ Cardinality(UpTo) \in Nat
      BY <1>2, <1>3
    <3> HIDE DEF m, Far, UpTo
    <3> QED BY <1>1, <1>4, <3>1
  <2> HIDE DEF Far, UpTo
  <2> QED BY <1>3, <2>1, <2>2, FS_MajoritiesIntersect
<1>5. ASSUME 2 * Cardinality(Close) > Cardinality(S) PROVE m <= d
  <2> SUFFICES ASSUME d < m PROVE FALSE
    BY <1>1
  <2>1. Close \subseteq Below
    BY <1>1
  <2>2. Cardinality(Close) <= Cardinality(Below)
    BY <1>2, <1>3, <2>1, FS_Subset
  <2>3. Cardinality(S) \in Nat /\ Cardinality(Close) \in Nat /\ Cardinality(Below) \in Nat
    BY <1>2, <1>3
  <2> HIDE DEF Close, Below, m
  <2> QED BY <1>1, <1>5, <2>2, <2>3
<1> QED BY <1>4, <1>5

-----------------------------------------------------------------------------
(* The pass of min_element.                                                *)

\* The sample that arrived last.
Latest(S) == CHOOSE s \in S : \A t \in S : t.at <= s.at

\* What is best after the samples S, when g says what was best before the
\* latest of them.
BestOf(g, S, median) ==
  LET last   == Latest(S)
      before == S \ {last}
  IN  IF before = {} THEN last
      ELSE LET b == g[before] IN IF Better(last, b, median) THEN last ELSE b

\* The samples of a bin are told apart by when they arrived.
Numbered(S) ==
  /\ IsFiniteSet(S)
  /\ \A s \in S : s.at \in Int /\ s.distance \in Int /\ s.rssi \in Int
  /\ \A s, t \in S : s.at = t.at => s = t

\* The latest sample of a bin that has one.
LEMMA LatestIs ==
  ASSUME NEW S, Numbered(S), S # {}
  PROVE  Latest(S) \in S /\ \A t \in S : t.at <= Latest(S).at
<1> DEFINE f == [s \in S |-> s.at]
<1>1. \A s \in S : f[s] = s.at /\ f[s] \in Int
  BY DEF Numbered
<1>2. IsFiniteSet(S)
  BY DEF Numbered
<1>3. \E x \in S : \A y \in S : f[y] <= f[x]
  <2> HIDE DEF f
  <2> QED BY <1>1, <1>2, LargestAt
<1>4. \E x \in S : \A y \in S : y.at <= x.at
  <2>1. \A s \in S : f[s] = s.at
    BY <1>1
  <2> HIDE DEF f
  <2> QED BY <1>3, <2>1
<1> QED BY <1>4 DEF Latest

\* A subset of a bin's samples is told apart as well.
LEMMA NumberedSubset ==
  ASSUME NEW S, Numbered(S), NEW T \in SUBSET S
  PROVE  Numbered(T)
BY FS_Subset DEF Numbered

(***************************************************************************)
(* The recursive definition of min_element has a solution: a solution for  *)
(* the samples before the latest one extends to all of them, since a set   *)
(* with the latest sample refers only to one without it.                   *)
(***************************************************************************)
LEMMA BestExists ==
  ASSUME NEW S, Numbered(S), NEW median
  PROVE  \E g : g = [T \in SUBSET S |-> BestOf(g, T, median)]
<1> DEFINE Solved(A) == \E g : g = [T \in SUBSET A |-> BestOf(g, T, median)]
           F == {A \in SUBSET S : ~Solved(A)}
<1> SUFFICES ASSUME F # {} PROVE FALSE
  OBVIOUS
<1>1. PICK A \in F : \A U \in F : ~(U \subseteq A /\ U # A)
  <2>1. F \subseteq SUBSET S /\ IsFiniteSet(S)
    BY DEF Numbered
  <2> HIDE DEF F
  <2> QED BY <2>1, MinimalSubset
<1>2. A \in SUBSET S /\ ~Solved(A) /\ Numbered(A)
  BY NumberedSubset
<1>3. CASE A = {}
  <2> DEFINE h == [T \in SUBSET A |-> Latest({})]
  <2>1. \A g, T : T \in SUBSET A => BestOf(g, T, median) = Latest({})
    BY <1>3 DEF BestOf
  <2>2. h = [T \in SUBSET A |-> BestOf(h, T, median)]
    BY <2>1
  <2> QED BY <1>2, <2>2
<1>4. CASE A # {}
  <2> DEFINE x == Latest(A)
             B == A \ {x}
  <2>1. x \in A /\ \A t \in A : t.at <= x.at
    BY <1>2, <1>4, LatestIs
  <2>2. Solved(B)
    <3>1. B \in SUBSET S /\ B \subseteq A /\ B # A
      BY <1>2, <2>1
    <3> QED BY <1>1, <3>1
  <2>3. PICK g : g = [T \in SUBSET B |-> BestOf(g, T, median)]
    BY <2>2
  <2> DEFINE h == [T \in SUBSET A |-> IF x \in T THEN BestOf(g, T, median) ELSE g[T]]
  <2>4. ASSUME NEW T \in SUBSET A PROVE h[T] = BestOf(h, T, median)
    <3>1. CASE x \in T
      <4>1. Latest(T) = x
        <5>1. Numbered(T) /\ T # {}
          BY <1>2, <3>1, NumberedSubset
        <5>2. Latest(T) \in T /\ x.at <= Latest(T).at
          BY <3>1, <5>1, LatestIs
        <5>3. Latest(T) \in A /\ Latest(T).at <= x.at
          BY <2>1, <5>2
        <5>4. x.at \in Int /\ Latest(T).at \in Int
          BY <1>2, <2>1, <5>3 DEF Numbered
        <5> HIDE DEF x
        <5> QED BY <1>2, <2>1, <5>2, <5>3, <5>4 DEF Numbered
      <4>2. T \ {x} \in SUBSET A /\ x \notin T \ {x}
        OBVIOUS
      <4>3. h[T \ {x}] = g[T \ {x}]
        BY <4>2
      <4>4. BestOf(h, T, median) = BestOf(g, T, median)
        <5> HIDE DEF h, x
        <5> QED BY <4>1, <4>3 DEF BestOf
      <4> QED BY <3>1, <4>4
    <3>2. CASE x \notin T
      <4>1. T \in SUBSET B
        BY <3>2
      <4>2. h[T] = g[T] /\ g[T] = BestOf(g, T, median)
        BY <2>3, <3>2, <4>1
      <4>3. T \ {Latest(T)} \in SUBSET A /\ x \notin T \ {Latest(T)}
        BY <3>2
      <4>4. h[T \ {Latest(T)}] = g[T \ {Latest(T)}]
        BY <4>3
      <4>5. BestOf(h, T, median) = BestOf(g, T, median)
        <5> HIDE DEF h, x
        <5> QED BY <4>4 DEF BestOf
      <4> QED BY <4>2, <4>5
    <3> QED BY <3>1, <3>2
  <2>5. h = [T \in SUBSET A |-> h[T]]
    OBVIOUS
  <2>6. h = [T \in SUBSET A |-> BestOf(h, T, median)]
    <3> HIDE DEF h
    <3> QED BY <2>4, <2>5
  <2> HIDE DEF h
  <2> QED BY <1>2, <2>6
<1> QED BY <1>3, <1>4

\* What min_element returns obeys its equation.
LEMMA MinElementIs ==
  ASSUME NEW S, Numbered(S), NEW median
  PROVE  \E g : /\ MinElement(S, median) = g[S]
                /\ \A T \in SUBSET S : g[T] = BestOf(g, T, median)
<1> DEFINE g == CHOOSE g : g = [T \in SUBSET S |-> BestOf(g, T, median)]
<1>1. g = [T \in SUBSET S |-> BestOf(g, T, median)]
  BY BestExists
<1>2. MinElement(S, median) = g[S]
  BY DEF MinElement, BestOf, Latest
<1> HIDE DEF g
<1> QED BY <1>1, <1>2

\* How far a sample is from the median.
Off(s, median) == Abs(s.distance - median)

LEMMA OffIsNat ==
  ASSUME NEW S, Numbered(S), NEW s \in S, NEW median \in Int
  PROVE  Off(s, median) \in Nat
BY DEF Off, Abs, Numbered

\* One step of the pass: whichever of two samples it prefers is not 0.1 m or
\* more further from the median than the other.
LEMMA PreferredIsNear ==
  ASSUME NEW a, NEW b, NEW median \in Int, Off(a, median) \in Nat, Off(b, median) \in Nat
  PROVE  /\ Better(a, b, median) => Off(a, median) < Off(b, median) + 100
         /\ ~Better(a, b, median) => Off(b, median) < Off(a, median) + 100
<1> DEFINE da == Off(a, median)
           db == Off(b, median)
<1>1. da \in Int /\ db \in Int
  OBVIOUS
<1>2. Better(a, b, median) = IF Abs(da - db) < 100 THEN a.rssi > b.rssi ELSE da < db
  BY DEF Better, Off
<1> SUFFICES /\ Better(a, b, median) => da < db + 100
             /\ ~Better(a, b, median) => db < da + 100
  OBVIOUS
<1> HIDE DEF da, db
<1>3. CASE Abs(da - db) < 100
  BY <1>1, <1>3 DEF Abs
<1>4. CASE ~(Abs(da - db) < 100)
  <2>1. Better(a, b, median) <=> da < db
    BY <1>2, <1>4
  <2> QED BY <1>1, <2>1
<1> QED BY <1>3, <1>4

\* The pass is off by less than 0.1 m for every sample but the first.
NotFar(k, S, median) ==
  /\ k \in S
  /\ \A s \in S \ {k} : Off(k, median) < Off(s, median) + 100 * (Cardinality(S) - 1)

\* What the pass has kept after samples that are not empty is not far.
LEMMA BestNotFar ==
  ASSUME NEW S, Numbered(S), NEW median \in Int, NEW g,
         \A T \in SUBSET S : g[T] = BestOf(g, T, median),
         S # {}
  PROVE  NotFar(g[S], S, median)
<1> DEFINE F == {T \in SUBSET S : T # {} /\ ~NotFar(g[T], T, median)}
<1> SUFFICES ASSUME F # {} PROVE FALSE
  OBVIOUS
<1>1. PICK A \in F : \A U \in F : ~(U \subseteq A /\ U # A)
  <2>1. F \subseteq SUBSET S /\ IsFiniteSet(S)
    BY DEF Numbered
  <2> HIDE DEF F
  <2> QED BY <2>1, MinimalSubset
<1> DEFINE x == Latest(A)
           B == A \ {x}
<1>2. A \in SUBSET S /\ A # {} /\ ~NotFar(g[A], A, median) /\ Numbered(A)
  BY NumberedSubset
<1>3. x \in A
  BY <1>2, LatestIs
<1>4. g[A] = IF B = {} THEN x ELSE IF Better(x, g[B], median) THEN x ELSE g[B]
  <2>1. g[A] = BestOf(g, A, median)
    BY <1>2
  <2> QED BY <2>1 DEF BestOf
<1>5. CASE B = {}
  <2>1. A = {x} /\ g[A] = x
    BY <1>3, <1>4, <1>5
  <2>2. NotFar(x, A, median)
    BY <2>1 DEF NotFar
  <2> QED BY <1>2, <2>1, <2>2
<1>6. CASE B # {}
  <2>1. NotFar(g[B], B, median)
    <3>1. B \in SUBSET S /\ B \subseteq A /\ B # A
      BY <1>2, <1>3
    <3> QED BY <1>1, <1>6, <3>1
  <2> DEFINE b == g[B]
             n == Cardinality(B)
  <2>2. b \in B /\ b \in A /\ b # x
    BY <2>1 DEF NotFar
  <2>3. \A s \in A : Off(s, median) \in Nat
    BY <1>2, OffIsNat
  <2>4. n \in Nat /\ n >= 1 /\ Cardinality(A) = n + 1
    <3>1. IsFiniteSet(A)
      BY <1>2 DEF Numbered
    <3>2. IsFiniteSet(B) /\ n = Cardinality(A) - 1
      BY <1>3, <3>1, FS_RemoveElement
    <3>3. n \in Nat /\ n # 0 /\ Cardinality(A) \in Nat
      BY <1>6, <3>1, <3>2, FS_CardinalityType, FS_EmptySet
    <3> HIDE DEF n
    <3> QED BY <3>2, <3>3
  <2>5. \A s \in B \ {b} : Off(b, median) < Off(s, median) + 100 * (n - 1)
    BY <2>1 DEF NotFar
  <2>6. NotFar(g[A], A, median)
    <3>1. CASE Better(x, b, median)
      <4>1. g[A] = x
        BY <1>4, <1>6, <3>1
      <4>2. Off(x, median) < Off(b, median) + 100
        BY <1>3, <2>2, <2>3, <3>1, PreferredIsNear
      <4>3. ASSUME NEW s \in A \ {x} PROVE Off(x, median) < Off(s, median) + 100 * n
        <5>1. Off(x, median) \in Nat /\ Off(s, median) \in Nat /\ Off(b, median) \in Nat
          BY <1>3, <2>2, <2>3
        <5>2. s = b \/ Off(b, median) < Off(s, median) + 100 * (n - 1)
          BY <2>5
        <5> HIDE DEF x, b, n
        <5> QED BY <2>4, <4>2, <5>1, <5>2
      <4>4. Cardinality(A) - 1 = n
        <5> HIDE DEF n
        <5> QED BY <2>4
      <4> HIDE DEF x, n
      <4> QED BY <1>3, <4>1, <4>3, <4>4 DEF NotFar
    <3>2. CASE ~Better(x, b, median)
      <4>1. g[A] = b
        BY <1>4, <1>6, <3>2
      <4>2. Off(b, median) < Off(x, median) + 100
        BY <1>3, <2>2, <2>3, <3>2, PreferredIsNear
      <4>3. ASSUME NEW s \in A \ {b} PROVE Off(b, median) < Off(s, median) + 100 * n
        <5>1. Off(x, median) \in Nat /\ Off(s, median) \in Nat /\ Off(b, median) \in Nat
          BY <1>3, <2>2, <2>3
        <5>2. s = x \/ Off(b, median) < Off(s, median) + 100 * (n - 1)
          BY <2>5
        <5> HIDE DEF x, b, n
        <5> QED BY <2>4, <4>2, <5>1, <5>2
      <4>4. Cardinality(A) - 1 = n
        <5> HIDE DEF n
        <5> QED BY <2>4
      <4> HIDE DEF x, b, n
      <4> QED BY <2>2, <4>1, <4>3, <4>4 DEF NotFar
    <3> QED BY <3>1, <3>2
  <2> QED BY <1>2, <2>6
<1> QED BY <1>5, <1>6

-----------------------------------------------------------------------------
(* The life of a bin.                                                      *)

IInv ==
  /\ samples \in SUBSET Sample
  /\ Numbered(samples)
  /\ {s.at : s \in samples} = 1 .. Cardinality(samples)

\* Distances and RSSIs are integers.
LEMMA Integral == Distances \subseteq Int /\ Rssis \subseteq Int
BY DistancesAssumption, RssisAssumption

LEMMA InitIInv == Init => IInv
<1> SUFFICES ASSUME Init PROVE IInv
  OBVIOUS
<1>1. samples = {} /\ IsFiniteSet({}) /\ Cardinality({}) = 0
  BY FS_EmptySet DEF Init
<1> QED BY <1>1 DEF IInv, Numbered

LEMMA PushBackIInv ==
  ASSUME IInv, NEW d \in Distances, NEW r \in Rssis, PushBack(d, r)
  PROVE  IInv'
<1> DEFINE n == Cardinality(samples)
           new == [at |-> n + 1, distance |-> d, rssi |-> r]
<1>1. /\ samples' = samples \cup {new} /\ n < MaxSamples /\ n \in Nat /\ MaxSamples \in Nat
      /\ IsFiniteSet(samples)
  BY FS_CardinalityType, MaxSamplesAssumption DEF IInv, Numbered, PushBack
<1>2. new \in Sample /\ new.at = n + 1 /\ new.at \in Int /\ new.distance \in Int /\ new.rssi \in Int
  <2>1. n + 1 \in 1 .. MaxSamples
    <3> HIDE DEF n
    <3> QED BY <1>1
  <2> HIDE DEF n
  <2> QED BY <2>1, Integral DEF Sample
<1>3. \A s \in samples : s.at \in 1 .. n
  BY DEF IInv
<1>4. new \notin samples /\ \A s \in samples : s.at # new.at
  <2> HIDE DEF n, new
  <2> QED BY <1>1, <1>2, <1>3
<1>5. IsFiniteSet(samples') /\ Cardinality(samples') = n + 1
  <2> HIDE DEF new
  <2> QED BY <1>1, <1>4, FS_AddElement
<1>6. Numbered(samples')
  <2> HIDE DEF n, new
  <2> QED BY <1>1, <1>2, <1>4, <1>5 DEF IInv, Numbered
<1>7. {s.at : s \in samples'} = 1 .. n + 1
  <2>1. {s.at : s \in samples'} = {s.at : s \in samples} \cup {new.at}
    <3> HIDE DEF new
    <3> QED BY <1>1
  <2>2. {s.at : s \in samples} = 1 .. n
    BY DEF IInv
  <2>3. (1 .. n) \cup {n + 1} = 1 .. n + 1
    <3> HIDE DEF n
    <3> QED BY <1>1
  <2> HIDE DEF n, new
  <2> QED BY <1>2, <2>1, <2>2, <2>3
<1>8. samples' \in SUBSET Sample
  <2> HIDE DEF new
  <2> QED BY <1>1, <1>2 DEF IInv
<1> HIDE DEF n
<1> QED BY <1>5, <1>6, <1>7, <1>8 DEF IInv

\* The invariant holds in every state the bin reaches.
THEOREM Invariance == Spec => []IInv
<1>1. IInv /\ [Next]_samples => IInv'
  <2> SUFFICES ASSUME IInv, [Next]_samples PROVE IInv'
    OBVIOUS
  <2>1. CASE \E d \in Distances, r \in Rssis : PushBack(d, r)
    BY <2>1, PushBackIInv
  <2>2. CASE Full \/ UNCHANGED samples
    BY <2>2 DEF Full, IInv, Numbered
  <2> QED BY <2>1, <2>2 DEF Next
<1> QED BY <1>1, InitIInv, PTL DEF Spec

\* What the choice needs to know of the samples.
LEMMA SamplesFinite ==
  ASSUME IInv
  PROVE  /\ IsFiniteSet(samples) /\ Cardinality(samples) \in Nat
         /\ \A s \in samples : s.at \in Int /\ s.distance \in Int /\ s.rssi \in Int
         /\ Cardinality(samples) >= 1 => samples # {}
BY FS_CardinalityType, FS_EmptySet DEF IInv, Numbered

(***************************************************************************)
(* The samples are numbered in their order of arrival, and at most one of  *)
(* them is kept, whatever their number.                                    *)
(***************************************************************************)
THEOREM TypeCorrect == Spec => []TypeOK
<1>1. ASSUME IInv PROVE TypeOK
  <2>1. \A p, q \in Kept(samples) : p = q
    BY <1>1, SamplesFinite, AtMostOneKept
  <2>2. Kept(samples) = {} \/ \E p : Kept(samples) = {p}
    BY <2>1
  <2>3. Cardinality(Kept(samples)) <= 1
    <3>1. CASE Kept(samples) = {}
      <4>1. Cardinality({}) = 0
        BY FS_EmptySet
      <4> QED BY <3>1, <4>1
    <3>2. CASE \E p : Kept(samples) = {p}
      <4>1. PICK p : Kept(samples) = {p}
        BY <3>2
      <4>2. Cardinality({p}) = 1
        BY FS_Singleton
      <4> QED BY <4>1, <4>2
    <3> QED BY <2>2, <3>1, <3>2
  <2> QED BY <1>1, <2>3 DEF IInv, TypeOK
<1> QED BY <1>1, Invariance, PTL

(***************************************************************************)
(* Outliers cannot win: half of the samples hold the median up, more than  *)
(* half hold it down, and the kept sample is within 50% of the median.     *)
(***************************************************************************)
THEOREM MajorityCorrect == Spec => []MajorityRules
<1>1. ASSUME IInv PROVE MajorityRules
  <2> DEFINE n == Cardinality(samples)
             m == MedianDistance(samples)
             Far(d) == 2 * Cardinality({s \in samples : s.distance >= d}) >= n
             Close(d) == 2 * Cardinality({s \in samples : s.distance <= d}) > n
  <2> SUFFICES ASSUME NEW d \in Distances, n >= 3, NEW k \in Kept(samples)
               PROVE  /\ Far(d) => 2 * k.distance >= d
                      /\ Close(d) => 2 * k.distance <= 3 * d
    BY DEF MajorityRules
  <2>1. d \in Int
    BY Integral
  <2>2. samples # {}
    BY <1>1, SamplesFinite
  <2>3. m \in Int
    BY <1>1, <2>2, SamplesFinite, Medians
  <2>4. (Far(d) => d <= m) /\ (Close(d) => m <= d)
    BY <1>1, <2>1, <2>2, SamplesFinite, MedianOfMajority
  <2>5. k \in samples /\ k.distance \in Int
    BY <1>1, SamplesFinite, KeptAreSamples
  <2>6. k \in FilteredSamples(samples)
    BY DEF Kept, KeptOfMany
  <2>7. 2 * Abs(k.distance - m) <= m
    BY <2>6 DEF FilteredSamples
  <2> HIDE DEF m, Far, Close
  <2> QED BY <2>1, <2>3, <2>4, <2>5, <2>7 DEF Abs
<1> QED BY <1>1, Invariance, PTL

(***************************************************************************)
(* The kept sample is less than 0.1 m for each other accepted sample       *)
(* further from the median than the closest one.                           *)
(***************************************************************************)
THEOREM DriftCorrect == Spec => []DriftBounded
<1>1. ASSUME IInv PROVE DriftBounded
  <2> DEFINE m == MedianDistance(samples)
             A == FilteredSamples(samples)
  <2> SUFFICES ASSUME Cardinality(samples) >= 3,
                      NEW k \in Kept(samples), NEW s \in A \ Kept(samples)
               PROVE  Abs(k.distance - m) < Abs(s.distance - m) + 100 * (Cardinality(A) - 1)
    BY DEF DriftBounded
  <2>1. m \in Int
    <3>1. samples # {}
      BY <1>1, SamplesFinite
    <3> QED BY <1>1, <3>1, SamplesFinite, Medians
  <2>2. Numbered(A)
    <3>1. A \in SUBSET samples /\ Numbered(samples)
      BY <1>1 DEF IInv, FilteredSamples
    <3> HIDE DEF A
    <3> QED BY <3>1, NumberedSubset
  <2>3. k \in A /\ k = MinElement(A, m)
    BY DEF Kept, KeptOfMany
  <2>4. PICK g : MinElement(A, m) = g[A] /\ \A T \in SUBSET A : g[T] = BestOf(g, T, m)
    <3> HIDE DEF A, m
    <3> QED BY <2>2, MinElementIs
  <2>5. NotFar(k, A, m)
    <3> HIDE DEF A, m
    <3> QED BY <2>1, <2>2, <2>3, <2>4, BestNotFar
  <2>6. s \in A \ {k}
    OBVIOUS
  <2> HIDE DEF A, m
  <2> QED BY <2>5, <2>6 DEF NotFar, Off
<1> QED BY <1>1, Invariance, PTL

(***************************************************************************)
(* A bin is kept on strong evidence: a median RSSI above 20 is reached by  *)
(* half of the samples, and bins of one or two samples need them all.      *)
(***************************************************************************)
THEOREM StrongCorrect == Spec => []MostlyStrong
<1>1. ASSUME IInv PROVE MostlyStrong
  <2> DEFINE n == Cardinality(samples)
             Strong == {s \in samples : s.rssi > 20}
  <2> SUFFICES ASSUME NEW k \in Kept(samples) PROVE 2 * Cardinality(Strong) >= n
    BY DEF MostlyStrong
  <2>1. k \in samples /\ n \in Nat /\ IsFiniteSet(samples)
    BY <1>1, SamplesFinite, KeptAreSamples
  <2>2. IsFiniteSet(Strong) /\ Cardinality(Strong) \in Nat
    <3>1. Strong \in SUBSET samples
      OBVIOUS
    <3> HIDE DEF Strong
    <3> QED BY <2>1, <3>1, FS_Subset, FS_CardinalityType
  <2>3. CASE n >= 3
    <3> DEFINE r == MedianRssi(samples)
               Weak == {s \in samples : s.rssi < r}
    <3>1. r > 20
      BY <2>3 DEF Kept, KeptOfMany
    <3>2. r \in Int /\ Cardinality(Weak) <= n \div 2
      BY <1>1, <2>1, SamplesFinite, Medians
    <3>3. /\ IsFiniteSet(Weak) /\ Cardinality(Weak) \in Nat
          /\ IsFiniteSet(samples \ Weak) /\ Cardinality(samples \ Weak) = n - Cardinality(Weak)
      <4>1. Weak \in SUBSET samples /\ samples \cap Weak = Weak
        OBVIOUS
      <4> HIDE DEF Weak
      <4> QED BY <2>1, <4>1, FS_Subset, FS_CardinalityType, FS_Difference
    <3>4. samples \ Weak \subseteq Strong
      <4>1. \A s \in samples : s.rssi \in Int
        BY <1>1, SamplesFinite
      <4> HIDE DEF r
      <4> QED BY <3>1, <3>2, <4>1
    <3>5. Cardinality(samples \ Weak) <= Cardinality(Strong)
      <4> HIDE DEF Weak, Strong
      <4> QED BY <2>2, <3>4, FS_Subset
    <3> HIDE DEF n, Weak, Strong, r
    <3> QED BY <2>1, <2>2, <3>2, <3>3, <3>5
  <2>4. CASE n = 2
    <3>1. k \in KeptOfTwo(samples)
      BY <2>4 DEF Kept
    <3>2. PICK t \in samples \ {k} : k.rssi > 20 /\ t.rssi > 20
      BY <3>1 DEF KeptOfTwo
    <3>3. samples = {k, t}
      BY <2>1, <2>4, TwoElements
    <3>4. Strong = samples
      BY <3>2, <3>3
    <3> QED BY <2>4, <3>4
  <2>5. CASE n \in {0, 1}
    <3>1. k \in KeptOfOne(samples)
      BY <2>5 DEF Kept
    <3>2. k.rssi > 25 /\ k.rssi \in Int
      BY <1>1, <2>1, <3>1, SamplesFinite DEF KeptOfOne
    <3>3. k \in Strong
      BY <2>1, <3>2
    <3>4. Cardinality(Strong) # 0
      <4> HIDE DEF Strong
      <4> QED BY <2>2, <3>3, FS_EmptySet
    <3> HIDE DEF Strong, n
    <3> QED BY <2>2, <2>5, <3>4
  <2>6. n >= 3 \/ n = 2 \/ n \in {0, 1}
    <3> HIDE DEF n
    <3> QED BY <2>1
  <2> QED BY <2>3, <2>4, <2>5, <2>6
<1> QED BY <1>1, Invariance, PTL

=============================================================================
