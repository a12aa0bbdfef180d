-------------------------- MODULE IndexContentProofs --------------------------
(***************************************************************************)
(* What TLAPS proves of IndexContent.tla, for any bounds, terms and        *)
(* fields: its variables keep their types; a document is in the index      *)
(* once; a merger's doc maps lead to the same documents; and sessions,     *)
(* recycling and background merges together do what DocStore.tla says.     *)
(***************************************************************************)
EXTENDS IndexContent, FiniteSetTheorems, WellFoundedInduction, TLAPS

-----------------------------------------------------------------------------
(* Numbers.                                                                *)

\* A set of naturals that is not empty has a least element.
LEMMA LeastNumber ==
    ASSUME NEW T \in SUBSET Nat, T # {}
    PROVE  \E x \in T : \A y \in T : x <= y
<1> DEFINE R == OpToRel(<, Nat)
<1>1. IsWellFoundedOn(R, Nat)
  BY NatLessThanWellFounded
<1>2. \A x, y \in Nat : <<y, x>> \in R <=> y < x
  BY DEF OpToRel
<1> HIDE DEF R
<1>3. PICK x \in T : \A y \in T : ~ (<<y, x>> \in R)
  BY <1>1, WFMin
<1>4. ASSUME NEW y \in T
      PROVE  x <= y
  <2>1. x \in Nat /\ y \in Nat
    OBVIOUS
  <2>2. ~ (<<y, x>> \in R)
    BY <1>3
  <2>3. ~ (y < x)
    BY <1>2, <2>1, <2>2, Zenon
  <2> QED
    BY <2>1, <2>3
<1> QED
  BY <1>4

\* Highest is an upper bound, and one of the numbers or 0.
LEMMA HighestIsHighest ==
    ASSUME NEW N \in Nat, NEW S \in SUBSET (0..N)
    PROVE  /\ Highest(S) \in S \cup {0}
           /\ Highest(S) \in 0..N
           /\ \A m \in S : m <= Highest(S)
<1> DEFINE T == {k \in Nat : \A m \in S : m <= k}
<1>1. N \in T
  OBVIOUS
<1>2. PICK x \in T : \A y \in T : x <= y
  BY <1>1, LeastNumber
<1>3. x \in S \cup {0}
  <2> SUFFICES ASSUME x # 0, x \notin S PROVE FALSE
    OBVIOUS
  <2>1. x - 1 \in T
    OBVIOUS
  <2> QED
    BY <2>1, <1>2
<1>4. \A m \in S : m <= x
  OBVIOUS
<1> HIDE DEF T
<1>5. Highest(S) \in S \cup {0} /\ \A m \in S : m <= Highest(S)
  BY <1>3, <1>4 DEF Highest
<1>6. \A y \in S \cup {0} : y \in 0..N
  OBVIOUS
<1> QED
  BY <1>5, <1>6

\* The only one.
LEMMA HighestIs ==
    ASSUME NEW N \in Nat, NEW S \in SUBSET (0..N), NEW x \in S,
           \A m \in S : m <= x
    PROVE  Highest(S) = x
<1>1. /\ Highest(S) \in S \cup {0}
      /\ Highest(S) \in 0..N
      /\ \A m \in S : m <= Highest(S)
  BY HighestIsHighest
<1>2. x <= Highest(S) /\ x \in 0..N
  BY <1>1
<1>3. Highest(S) <= x
  BY <1>1, <1>2
<1> QED
  BY <1>1, <1>2, <1>3

-----------------------------------------------------------------------------
(* What is left of a segment when its gaps are closed.                     *)

\* The new number of i, if it is not gone.
Rank(gone, i) == Cardinality((1..i) \ gone)

\* Numbers go up by one at what is left, and by none at what is gone.
LEMMA RankStep ==
    ASSUME NEW gone, NEW i \in Nat
    PROVE  /\ Rank(gone, 0) = 0
           /\ Rank(gone, i) \in Nat
           /\ i + 1 \in gone => Rank(gone, i + 1) = Rank(gone, i)
           /\ i + 1 \notin gone => Rank(gone, i + 1) = Rank(gone, i) + 1
<1>1. (1..0) \ gone = {}
  OBVIOUS
<1>2. IsFiniteSet(1..i)
  BY FS_Interval
<1>3. IsFiniteSet((1..i) \ gone)
  BY <1>2, FS_Subset
<1>4. i + 1 \in gone => (1..(i + 1)) \ gone = (1..i) \ gone
  OBVIOUS
<1>5. i + 1 \notin gone =>
          (1..(i + 1)) \ gone = ((1..i) \ gone) \cup {i + 1}
  OBVIOUS
<1>6. i + 1 \notin (1..i) \ gone
  OBVIOUS
<1>7. Cardinality(((1..i) \ gone) \cup {i + 1})
        = Cardinality((1..i) \ gone) + 1
  BY <1>3, <1>6, FS_AddElement
<1> QED
  BY <1>1, <1>3, <1>4, <1>5, <1>7, FS_EmptySet, FS_CardinalityType DEF Rank

\* They keep the order.
LEMMA RankOrder ==
    ASSUME NEW gone, NEW j \in Nat, NEW i \in 0..j
    PROVE  /\ Rank(gone, i) <= Rank(gone, j)
           /\ i < j /\ j \notin gone => Rank(gone, i) < Rank(gone, j)
<1>1. ASSUME NEW n \in Nat, NEW m \in 0..n
      PROVE  Rank(gone, m) <= Rank(gone, n)
  <2>1. IsFiniteSet(1..n)
    BY FS_Interval
  <2>2. IsFiniteSet((1..n) \ gone)
    BY <2>1, FS_Subset
  <2>3. (1..m) \ gone \in SUBSET ((1..n) \ gone)
    OBVIOUS
  <2> QED
    BY <2>2, <2>3, FS_Subset DEF Rank
<1>2. ASSUME i < j, j \notin gone
      PROVE  Rank(gone, i) < Rank(gone, j)
  <2>1. j - 1 \in Nat /\ i \in 0..(j - 1) /\ (j - 1) + 1 = j
    BY <1>2
  <2>2. Rank(gone, i) <= Rank(gone, j - 1)
    BY <1>1, <2>1
  <2>3. Rank(gone, j) = Rank(gone, j - 1) + 1
    BY <1>2, <2>1, RankStep
  <2>4. Rank(gone, i) \in Nat /\ Rank(gone, j - 1) \in Nat
    BY <2>1, RankStep
  <2> QED
    BY <2>2, <2>3, <2>4
<1> QED
  BY <1>1, <1>2

\* There are no gaps.
LEMMA RankOnto ==
    ASSUME NEW gone, NEW n \in Nat, NEW k \in 1..Rank(gone, n)
    PROVE  \E i \in (1..n) \ gone : Rank(gone, i) = k
<1> DEFINE T == {i \in Nat : k <= Rank(gone, i)}
<1>1. n \in T
  BY RankStep
<1>2. PICK i \in T : \A y \in T : i <= y
  BY <1>1, LeastNumber
<1>3. k \in Nat /\ k >= 1
  BY RankStep
<1>4. i # 0
  BY <1>3, RankStep
<1>5. i - 1 \in Nat /\ (i - 1) + 1 = i
  BY <1>4
<1>6. i - 1 \notin T
  BY <1>2, <1>5
<1>7. /\ Rank(gone, i - 1) \in Nat
      /\ i \in gone => Rank(gone, i) = Rank(gone, i - 1)
      /\ i \notin gone => Rank(gone, i) = Rank(gone, i - 1) + 1
  BY <1>5, RankStep
<1>8. i \notin gone /\ Rank(gone, i) = k
  BY <1>3, <1>5, <1>6, <1>7
<1>9. i \in 1..n
  BY <1>1, <1>2, <1>4
<1> QED
  BY <1>8, <1>9

\* Kept has what is left, in order, each under its new number.
LEMMA KeptFacts ==
    ASSUME NEW S, NEW s \in Seq(S), NEW gone
    PROVE  /\ Kept(s, gone) \in Seq(S)
           /\ Len(Kept(s, gone)) = Rank(gone, Len(s))
           /\ \A i \in (1..Len(s)) \ gone :
                 /\ Rank(gone, i) \in 1..Rank(gone, Len(s))
                 /\ Kept(s, gone)[Rank(gone, i)] = s[i]
<1> DEFINE n == Len(s)
           ids == (1..n) \ gone
           pick(k) == CHOOSE i \in ids : Rank(gone, i) = k
<1>1. n \in Nat /\ DOMAIN s = 1..n /\ \A i \in 1..n : s[i] \in S
  OBVIOUS
<1>2. Rank(gone, n) \in Nat /\ Cardinality(ids) = Rank(gone, n)
  BY <1>1, RankStep DEF Rank
<1>3. Kept(s, gone) = [k \in 1..Rank(gone, n) |-> s[pick(k)]]
  BY <1>1, <1>2 DEF Kept, Rank
<1>4. ASSUME NEW k \in 1..Rank(gone, n)
      PROVE  pick(k) \in ids /\ Rank(gone, pick(k)) = k
  <2>1. \E i \in ids : Rank(gone, i) = k
    BY <1>1, RankOnto
  <2> QED
    BY <2>1
<1>5. ASSUME NEW i \in ids, NEW j \in ids, Rank(gone, i) = Rank(gone, j)
      PROVE  i = j
  <2>1. i \in Nat /\ j \in Nat /\ i \notin gone /\ j \notin gone
    BY <1>1
  <2>2. ~ (i < j)
    <3> SUFFICES ASSUME i < j PROVE FALSE
      OBVIOUS
    <3>1. i \in 0..j
      BY <2>1
    <3>2. Rank(gone, i) < Rank(gone, j) /\ Rank(gone, j) \in Nat
      BY <2>1, <3>1, RankOrder, RankStep
    <3> QED
      BY <3>2, <1>5
  <2>3. ~ (j < i)
    <3> SUFFICES ASSUME j < i PROVE FALSE
      OBVIOUS
    <3>1. j \in 0..i
      BY <2>1
    <3>2. Rank(gone, j) < Rank(gone, i) /\ Rank(gone, j) \in Nat
      BY <2>1, <3>1, RankOrder, RankStep
    <3> QED
      BY <3>2, <1>5
  <2> QED
    BY <2>1, <2>2, <2>3
<1>6. ASSUME NEW i \in ids
      PROVE  Rank(gone, i) \in 1..Rank(gone, n)
  <2>1. i \in 1..n /\ i \notin gone /\ i \in 0..n /\ 0 \in 0..i /\ 0 < i
    BY <1>1
  <2>2. Rank(gone, i) <= Rank(gone, n) /\ Rank(gone, 0) < Rank(gone, i)
    BY <1>1, <2>1, RankOrder
  <2> QED
    BY <1>1, <2>1, <2>2, RankStep
<1> HIDE DEF pick
<1>7. Kept(s, gone) \in Seq(S) /\ Len(Kept(s, gone)) = Rank(gone, n)
  <2>1. \A k \in 1..Rank(gone, n) : s[pick(k)] \in S
    BY <1>1, <1>4
  <2> QED
    BY <1>2, <1>3, <2>1
<1>8. ASSUME NEW i \in ids
      PROVE  Kept(s, gone)[Rank(gone, i)] = s[i]
  <2>1. pick(Rank(gone, i)) = i
    BY <1>4, <1>5, <1>6
  <2> QED
    BY <1>3, <1>6, <2>1
<1> QED
  BY <1>6, <1>7, <1>8

-----------------------------------------------------------------------------
(* The recursive functions of the model: their equations have a solution,  *)
(* so the functions satisfy them.                                          *)

\* What holds of 0, and of k when it holds of k - 1, holds up to N.
LEMMA CountingUp ==
    ASSUME NEW N \in Nat, NEW G, 0 \in G,
           \A k \in 1..N : k - 1 \in G => k \in G
    PROVE  \A k \in 0..N : k \in G
<1> DEFINE T == {k \in 0..N : k \notin G}
<1> SUFFICES ASSUME T # {} PROVE FALSE
  OBVIOUS
<1>1. T \in SUBSET Nat
  OBVIOUS
<1>2. PICK k \in T : \A y \in T : k <= y
  BY <1>1, LeastNumber
<1>3. k \in 1..N /\ k - 1 \in 0..N /\ k - 1 \notin T
  BY <1>2
<1> QED
  BY <1>2, <1>3

\* A function that starts from base and goes on by step.
StepsFrom(f, N, S, base, step) ==
    /\ f \in [0..N -> S]
    /\ f[0] = base
    /\ \A k \in 1..N : f[k] = step[k][f[k - 1]]

\* There is one.
LEMMA StepsExist ==
    ASSUME NEW N \in Nat, NEW S, NEW base \in S,
           NEW step \in [1..N -> [S -> S]]
    PROVE  \E f : StepsFrom(f, N, S, base, step)
<1> DEFINE Upto(n, f) == StepsFrom(f, n, S, base, step)
           G == {n \in 0..N : \E f : Upto(n, f)}
<1>1. \A n \in 0..N : n \in G
  <2>1. 0 \in G
    <3> DEFINE f == [k \in 0..0 |-> base]
    <3>1. Upto(0, f)
      BY DEF StepsFrom
    <3> HIDE DEF f, Upto
    <3> QED
      BY <3>1
  <2>2. ASSUME NEW n \in 1..N, n - 1 \in G
        PROVE  n \in G
    <3>1. PICK g : Upto(n - 1, g)
      BY <2>2
    <3> DEFINE last == step[n][g[n - 1]]
               f == [k \in 0..n |-> IF k = n THEN last ELSE g[k]]
    <3>2. last \in S
      BY <3>1 DEF StepsFrom
    <3> HIDE DEF last
    <3>3. f \in [0..n -> S] /\ f[0] = base
      BY <3>1, <3>2 DEF StepsFrom
    <3>4. ASSUME NEW k \in 1..n
          PROVE  f[k] = step[k][f[k - 1]]
      <4>1. f[k - 1] = g[k - 1]
        OBVIOUS
      <4>2. CASE k = n
        BY <4>1, <4>2 DEF last
      <4>3. CASE k # n
        <5>1. k \in 1..(n - 1)
          BY <4>3
        <5>2. f[k] = g[k] /\ g[k] = step[k][g[k - 1]]
          BY <3>1, <4>3, <5>1 DEF StepsFrom
        <5> QED
          BY <4>1, <5>2
      <4> QED
        BY <4>2, <4>3
    <3>5. Upto(n, f)
      BY <3>3, <3>4 DEF StepsFrom
    <3> HIDE DEF f, Upto
    <3> QED
      BY <3>5
  <2> HIDE DEF G
  <2> QED
    BY <2>1, <2>2, CountingUp
<1>2. N \in G
  BY <1>1
<1>3. PICK f : Upto(N, f)
  BY <1>2
<1> QED
  BY <1>3

\* DocsUpTo adds up the lengths.
LEMMA DocsUpToFacts ==
    ASSUME NEW list, \A n \in Segs : Len(docs[n]) \in Nat
    PROVE  /\ DocsUpTo(list, 0) = 0
           /\ \A n \in 0..MaxSeg : DocsUpTo(list, n) \in Nat
           /\ \A n \in 1..MaxSeg :
                 DocsUpTo(list, n) = DocsUpTo(list, n - 1) +
                                     IF n \in list THEN Len(docs[n]) ELSE 0
           /\ \A n \in 0..MaxSeg : \A m \in 0..n :
                 DocsUpTo(list, m) <= DocsUpTo(list, n)
<1> DEFINE size(k) == IF k \in list THEN Len(docs[k]) ELSE 0
           Is(f) == f = [k \in 0..MaxSeg |-> IF k = 0 THEN 0
                                             ELSE f[k - 1] + size(k)]
           sum == CHOOSE f : Is(f)
<1>1. MaxSeg \in Nat
  BY BoundsAssumption
<1>2. \A k \in 1..MaxSeg : size(k) \in Nat
  BY DEF Segs
<1> HIDE DEF size
<1>3. \E f : Is(f)
  <2> DEFINE step == [k \in 1..MaxSeg |-> [v \in Nat |-> v + size(k)]]
  <2>1. step \in [1..MaxSeg -> [Nat -> Nat]]
    BY <1>2
  <2>2. \A v \in Nat, k \in 1..MaxSeg : step[k][v] = v + size(k)
    OBVIOUS
  <2> HIDE DEF step
  <2>3. PICK f : StepsFrom(f, MaxSeg, Nat, 0, step)
    <3>1. 0 \in Nat
      OBVIOUS
    <3> QED
      BY <1>1, <2>1, <3>1, StepsExist
  <2>4. ASSUME NEW k \in 1..MaxSeg
        PROVE  f[k] = f[k - 1] + size(k)
    <3>1. k - 1 \in 0..MaxSeg
      BY <1>1
    <3>2. f[k - 1] \in Nat
      BY <2>3, <3>1 DEF StepsFrom
    <3> QED
      BY <2>2, <2>3, <3>2 DEF StepsFrom
  <2>5. Is(f)
    BY <1>1, <2>3, <2>4 DEF StepsFrom
  <2> QED
    BY <2>5
<1>4. Is(sum)
  BY <1>3
<1>5. \A n : DocsUpTo(list, n) = sum[n]
  BY DEF DocsUpTo, DocMax, size
<1> HIDE DEF sum
<1>6. sum[0] = 0 /\ \A n \in 1..MaxSeg : sum[n] = sum[n - 1] + size(n)
  BY <1>1, <1>4
<1> HIDE DEF Is
<1>7. \A n \in 0..MaxSeg : sum[n] \in Nat
  <2> DEFINE G == {k \in 0..MaxSeg : sum[k] \in Nat}
  <2>1. 0 \in G
    BY <1>1, <1>6
  <2>2. ASSUME NEW k \in 1..MaxSeg, k - 1 \in G
        PROVE  k \in G
    BY <1>1, <1>2, <1>6, <2>2
  <2>3. \A k \in 0..MaxSeg : k \in G
    <3> HIDE DEF G
    <3> QED
      BY <1>1, <2>1, <2>2, CountingUp
  <2> QED
    BY <2>3
<1>8. ASSUME NEW m \in 0..MaxSeg
      PROVE  \A n \in 0..MaxSeg : m <= n => sum[m] <= sum[n]
  <2> DEFINE G == {k \in 0..MaxSeg : m <= k => sum[m] <= sum[k]}
  <2>1. 0 \in G
    BY <1>1, <1>7
  <2>2. ASSUME NEW k \in 1..MaxSeg, k - 1 \in G
        PROVE  k \in G
    <3>1. sum[k] = sum[k - 1] + size(k) /\ size(k) \in Nat
      BY <1>2, <1>6
    <3>2. sum[k] \in Nat /\ sum[k - 1] \in Nat /\ sum[m] \in Nat
      BY <1>1, <1>7
    <3>3. CASE m = k
      BY <1>1, <3>2, <3>3
    <3>4. CASE m # k
      BY <1>1, <2>2, <3>1, <3>2, <3>4
    <3> QED
      BY <3>3, <3>4
  <2>3. \A k \in 0..MaxSeg : k \in G
    <3> HIDE DEF G
    <3> QED
      BY <1>1, <2>1, <2>2, CountingUp
  <2> QED
    BY <2>3
<1> QED
  BY <1>1, <1>5, <1>6, <1>7, <1>8 DEF size

\* What is left of one segment is appended after the other.
Grows(G, S, start, order, gone) ==
    /\ G[0] = start
    /\ \A k \in 0..Len(order) : G[k] \in Seq(S)
    /\ \A k \in 1..Len(order) :
          G[k] = G[k - 1] \o Kept(docs[order[k]], gone[order[k]])

\* Growing does that.
LEMMA GrowingFacts ==
    ASSUME NEW S, NEW start \in Seq(S), NEW order \in Seq(Segs), NEW gone,
           \A n \in Segs : docs[n] \in Seq(S)
    PROVE  Grows(Growing(start, order, gone), S, start, order, gone)
<1> DEFINE K == Len(order)
           rest(k) == Kept(docs[order[k]], gone[order[k]])
           plus(v, k) == v \o rest(k)
           Is(f) == f = [k \in 0..K |-> IF k = 0 THEN start
                                        ELSE plus(f[k - 1], k)]
<1>1. K \in Nat
  OBVIOUS
<1>2. \A k \in 1..K : rest(k) \in Seq(S)
  <2> SUFFICES ASSUME NEW k \in 1..K PROVE rest(k) \in Seq(S)
    OBVIOUS
  <2>1. order[k] \in Segs
    OBVIOUS
  <2>2. docs[order[k]] \in Seq(S)
    BY <2>1
  <2> QED
    BY <2>2, KeptFacts
<1>3. \A v \in Seq(S), k \in 1..K : plus(v, k) \in Seq(S)
  <2> HIDE DEF rest
  <2> QED
    BY <1>2
<1>4. Growing(start, order, gone) = CHOOSE f : Is(f)
  BY DEF Growing
<1> HIDE DEF K, plus
<1>5. \E f : Is(f)
  <2> DEFINE step == [k \in 1..K |-> [v \in Seq(S) |-> plus(v, k)]]
  <2>1. step \in [1..K -> [Seq(S) -> Seq(S)]]
    BY <1>3
  <2>2. \A v \in Seq(S), k \in 1..K : step[k][v] = plus(v, k)
    OBVIOUS
  <2> HIDE DEF step
  <2>3. PICK f : StepsFrom(f, K, Seq(S), start, step)
    BY <1>1, <2>1, StepsExist
  <2>4. ASSUME NEW k \in 1..K
        PROVE  f[k] = plus(f[k - 1], k)
    <3>1. k - 1 \in 0..K
      BY <1>1
    <3>2. f[k - 1] \in Seq(S)
      BY <2>3, <3>1 DEF StepsFrom
    <3> QED
      BY <2>2, <2>3, <3>2 DEF StepsFrom
  <2>5. Is(f)
    BY <1>1, <2>3, <2>4 DEF StepsFrom
  <2> QED
    BY <2>5
<1> DEFINE after == CHOOSE f : Is(f)
<1>6. Is(after)
  BY <1>5
<1> HIDE DEF after
<1>7. after[0] = start /\ \A k \in 1..K : after[k] = plus(after[k - 1], k)
  BY <1>1, <1>6 DEF K
<1> HIDE DEF Is
<1>8. \A k \in 0..K : after[k] \in Seq(S)
  <2> DEFINE H == {k \in 0..K : after[k] \in Seq(S)}
  <2>1. 0 \in H
    BY <1>1, <1>7
  <2>2. ASSUME NEW k \in 1..K, k - 1 \in H
        PROVE  k \in H
    <3>1. plus(after[k - 1], k) \in Seq(S)
      BY <1>3, <2>2
    <3> QED
      BY <1>1, <1>7, <3>1
  <2>3. \A k \in 0..K : k \in H
    <3> HIDE DEF H
    <3> QED
      BY <1>1, <2>1, <2>2, CountingUp
  <2> QED
    BY <2>3
<1>9. Growing(start, order, gone) = after
  BY <1>4 DEF after
<1> HIDE DEF rest
<1> QED
  BY <1>7, <1>8, <1>9 DEF rest, K, plus, Grows

\* Where document i of the k-th of the segments goes.
Place(start, order, gone, k, i) ==
    Len(Growing(start, order, gone)[k - 1]) + Rank(gone[order[k]], i)

\* A merged segment has what it started with and what is left of the others,
\* each where Place says, and nothing else.
Merges(C, S, start, order, gone) ==
    /\ C \in Seq(S)
    /\ Len(start) <= Len(C)
    /\ \A p \in 1..Len(start) : C[p] = start[p]
    /\ \A k \in 1..Len(order) :
          \A i \in (1..Len(docs[order[k]])) \ gone[order[k]] :
             /\ Place(start, order, gone, k, i) \in 1..Len(C)
             /\ Place(start, order, gone, k, i) > Len(start)
             /\ C[Place(start, order, gone, k, i)] = docs[order[k]][i]
    /\ \A p \in 1..Len(C) :
          \/ p <= Len(start)
          \/ \E k \in 1..Len(order) :
             \E i \in (1..Len(docs[order[k]])) \ gone[order[k]] :
                 p = Place(start, order, gone, k, i)

\* Consolidated does that.
LEMMA ConsolidatedFacts ==
    ASSUME NEW S, NEW start \in Seq(S), NEW order \in Seq(Segs), NEW gone,
           \A n \in Segs : docs[n] \in Seq(S)
    PROVE  Merges(Consolidated(start, order, gone), S, start, order, gone)
<1> DEFINE K == Len(order)
           G == Growing(start, order, gone)
           rest(k) == Kept(docs[order[k]], gone[order[k]])
           left(k) == (1..Len(docs[order[k]])) \ gone[order[k]]
           rank(k, i) == Rank(gone[order[k]], i)
           place(k, i) == Len(G[k - 1]) + rank(k, i)
<1>1. K \in Nat
  OBVIOUS
<1>2. /\ G[0] = start
      /\ \A k \in 0..K : G[k] \in Seq(S)
      /\ \A k \in 1..K : G[k] = G[k - 1] \o rest(k)
  <2>1. Grows(G, S, start, order, gone)
    BY GrowingFacts
  <2> QED
    BY <2>1 DEF Grows
<1>3. ASSUME NEW k \in 1..K
      PROVE  /\ rest(k) \in Seq(S)
             /\ \A i \in left(k) : /\ rank(k, i) \in 1..Len(rest(k))
                                   /\ rest(k)[rank(k, i)] = docs[order[k]][i]
             /\ \A p \in 1..Len(rest(k)) : \E i \in left(k) : p = rank(k, i)
  <2>1. order[k] \in Segs
    OBVIOUS
  <2>2. docs[order[k]] \in Seq(S) /\ Len(docs[order[k]]) \in Nat
    BY <2>1
  <2>3. Len(rest(k)) = Rank(gone[order[k]], Len(docs[order[k]]))
    BY <2>2, KeptFacts
  <2>4. \A p \in 1..Len(rest(k)) : \E i \in left(k) : p = rank(k, i)
    BY <2>2, <2>3, RankOnto
  <2> QED
    BY <2>2, <2>3, <2>4, KeptFacts
<1> HIDE DEF K, G, rest, left, rank
<1> DEFINE Good(k) ==
        /\ Len(start) <= Len(G[k])
        /\ \A p \in 1..Len(start) : G[k][p] = start[p]
        /\ \A j \in 1..k : \A i \in left(j) :
              /\ place(j, i) \in 1..Len(G[k])
              /\ place(j, i) > Len(start)
              /\ G[k][place(j, i)] = docs[order[j]][i]
        /\ \A p \in 1..Len(G[k]) :
              \/ p <= Len(start)
              \/ \E j \in 1..k : \E i \in left(j) : p = place(j, i)
    H == {k \in 0..K : Good(k)}
<1>4. 0 \in H
  <2>1. G[0] = start
    BY <1>2
  <2>2. Good(0)
    BY <2>1
  <2> QED
    BY <1>1, <2>2
<1>5. ASSUME NEW k \in 1..K, k - 1 \in H
      PROVE  k \in H
  <2> DEFINE g == G[k - 1]
             r == rest(k)
  <2>1. k - 1 \in 0..K /\ k \in 0..K
    BY <1>1
  <2>2. g \in Seq(S) /\ r \in Seq(S) /\ G[k] = g \o r
    BY <1>2, <1>3, <2>1
  <2>3. /\ Len(G[k]) = Len(g) + Len(r)
        /\ Len(g) \in Nat /\ Len(r) \in Nat
        /\ \A p \in 1..Len(g) : G[k][p] = g[p]
        /\ \A p \in 1..Len(r) : G[k][Len(g) + p] = r[p]
    BY <2>2
  <2>4. Good(k - 1)
    BY <1>5
  <2>5. Len(start) \in Nat
    OBVIOUS
  <2>6. Len(start) <= Len(G[k]) /\ \A p \in 1..Len(start) : G[k][p] = start[p]
    BY <2>3, <2>4, <2>5
  <2>7. ASSUME NEW j \in 1..k, NEW i \in left(j)
        PROVE  /\ place(j, i) \in 1..Len(G[k])
               /\ place(j, i) > Len(start)
               /\ G[k][place(j, i)] = docs[order[j]][i]
    <3>1. CASE j = k
      <4>1. rank(k, i) \in 1..Len(r) /\ r[rank(k, i)] = docs[order[k]][i]
        BY <1>3, <2>7, <3>1
      <4>2. place(j, i) = Len(g) + rank(k, i) /\ Len(start) <= Len(g)
        BY <2>4, <3>1
      <4> HIDE DEF place, g, r, Good
      <4>3. G[k][Len(g) + rank(k, i)] = r[rank(k, i)]
        BY <2>3, <4>1
      <4>4. rank(k, i) \in Nat /\ rank(k, i) >= 1 /\ rank(k, i) <= Len(r)
        BY <2>3, <4>1
      <4>5. place(j, i) \in 1..Len(G[k]) /\ place(j, i) > Len(start)
        BY <2>3, <2>5, <4>2, <4>4
      <4> QED
        BY <3>1, <4>1, <4>2, <4>3, <4>5
    <3>2. CASE j # k
      <4>1. j \in 1..(k - 1)
        BY <3>2
      <4>2. /\ place(j, i) \in 1..Len(g)
            /\ place(j, i) > Len(start)
            /\ g[place(j, i)] = docs[order[j]][i]
        BY <2>4, <2>7, <4>1
      <4> HIDE DEF place
      <4> QED
        BY SMTT(30), <2>3, <4>2
    <3> QED
      BY <3>1, <3>2
  <2>8. ASSUME NEW p \in 1..Len(G[k]), ~ (p <= Len(start))
        PROVE  \E j \in 1..k : \E i \in left(j) : p = place(j, i)
    <3>1. CASE p <= Len(g)
      <4>1. p \in 1..Len(g)
        BY <2>3, <3>1
      <4>2. PICK j \in 1..(k - 1) : \E i \in left(j) : p = place(j, i)
        BY <2>4, <2>8, <4>1
      <4>3. j \in 1..k
        BY <4>2
      <4> HIDE DEF place
      <4> QED
        BY <4>2, <4>3
    <3>2. CASE ~ (p <= Len(g))
      <4>1. p - Len(g) \in 1..Len(r)
        BY <2>3, <3>2
      <4>2. PICK i \in left(k) : p - Len(g) = rank(k, i)
        BY <1>3, <4>1
      <4>3. p = place(k, i)
        BY <2>3, <4>1, <4>2
      <4>4. k \in 1..k
        BY <2>1
      <4> HIDE DEF place
      <4> QED
        BY <4>2, <4>3, <4>4
    <3> QED
      BY <3>1, <3>2
  <2>9. Good(k)
    <3> HIDE DEF place
    <3> QED
      BY <2>6, <2>7, <2>8
  <2> QED
    BY <2>1, <2>9
<1>6. \A k \in 0..K : k \in H
  <2> HIDE DEF H
  <2> QED
    BY <1>1, <1>4, <1>5, CountingUp
<1>7. K \in 0..K
  BY <1>1
<1>8. Good(K)
  BY <1>6, <1>7
<1>9. G[K] \in Seq(S) /\ Consolidated(start, order, gone) = G[K]
  BY <1>2, <1>7 DEF Consolidated, G, K
<1> HIDE DEF Good
<1>10. \A k, i : place(k, i) = Place(start, order, gone, k, i)
  BY DEF Place, G, rank
<1> HIDE DEF place
<1> QED
  BY <1>8, <1>9, <1>10 DEF K, left, Good, Merges

\* PolyReader_sub_tick finds the segment whose stretch of doc ids has id.
LEMMA SubTickIs ==
    ASSUME NEW list \in SUBSET Segs, \A n \in Segs : Len(docs[n]) \in Nat,
           NEW n \in list, NEW id \in Nat,
           DocsUpTo(list, n - 1) < id, id <= DocsUpTo(list, n)
    PROVE  SubTick(list, id) = n
<1> DEFINE T == {m \in list : Start(list, m) < id}
<1>1. MaxSeg \in Nat /\ list \in SUBSET (1..MaxSeg) /\ n \in 1..MaxSeg
  BY BoundsAssumption DEF Segs
<1>2. T \in SUBSET (0..MaxSeg)
  <2>1. \A m \in T : m \in 1..MaxSeg
    BY <1>1
  <2> HIDE DEF T
  <2> QED
    BY <1>1, <2>1
<1>3. n \in T
  BY DEF Start
<1>4. ASSUME NEW m \in T
      PROVE  m <= n
  <2> SUFFICES ASSUME n < m PROVE FALSE
    BY <1>1
  <2>1. m \in 1..MaxSeg /\ DocsUpTo(list, m - 1) < id
    BY <1>1 DEF Start
  <2>2. m - 1 \in 0..MaxSeg /\ n \in 0..(m - 1)
    BY <1>1, <2>1
  <2>3. DocsUpTo(list, n) <= DocsUpTo(list, m - 1)
    BY <2>2, DocsUpToFacts
  <2>4. DocsUpTo(list, n) \in Nat /\ DocsUpTo(list, m - 1) \in Nat
    <3>1. n \in 0..MaxSeg
      BY <1>1
    <3> QED
      BY <2>2, <3>1, DocsUpToFacts
  <2> QED
    BY <2>1, <2>3, <2>4
<1> HIDE DEF T
<1>5. Highest(T) = n
  BY <1>1, <1>2, <1>3, <1>4, HighestIs
<1> QED
  BY <1>5 DEF SubTick, T

\* Each doc id of a reader is in one of its segments.
LEMMA SubTickFacts ==
    ASSUME NEW list \in SUBSET Segs, \A n \in Segs : Len(docs[n]) \in Nat,
           NEW id \in 1..DocsUpTo(list, MaxSeg)
    PROVE  /\ SubTick(list, id) \in list
           /\ id - Start(list, SubTick(list, id))
                \in 1..Len(docs[SubTick(list, id)])
<1> DEFINE U(n) == DocsUpTo(list, n)
           T == {n \in 0..MaxSeg : id <= U(n)}
<1>1. MaxSeg \in Nat /\ MaxSeg \in 0..MaxSeg
  BY BoundsAssumption
<1>2. /\ U(0) = 0
      /\ \A n \in 0..MaxSeg : U(n) \in Nat
      /\ \A n \in 1..MaxSeg :
            U(n) = U(n - 1) + IF n \in list THEN Len(docs[n]) ELSE 0
  BY DocsUpToFacts
<1> HIDE DEF U
<1>3. id \in Nat /\ id >= 1 /\ id <= U(MaxSeg)
  BY <1>1, <1>2 DEF U
<1>4. PICK n \in T : \A y \in T : n <= y
  <2>1. T \in SUBSET Nat /\ MaxSeg \in T
    BY <1>1, <1>3
  <2> QED
    BY <2>1, LeastNumber
<1>5. n \in 1..MaxSeg /\ n - 1 \in 0..MaxSeg
  BY <1>1, <1>2, <1>3, <1>4
<1>6. ~ (id <= U(n - 1))
  BY <1>4, <1>5
<1>7. U(n) \in Nat /\ U(n - 1) \in Nat /\ id <= U(n)
  BY <1>2, <1>4, <1>5
<1>8. n \in list /\ U(n) = U(n - 1) + Len(docs[n])
  BY <1>2, <1>3, <1>5, <1>6, <1>7
<1>9. SubTick(list, id) = n
  BY <1>3, <1>6, <1>7, <1>8, SubTickIs DEF U
<1>10. id - U(n - 1) \in 1..Len(docs[n])
  <2>1. Len(docs[n]) \in Nat
    BY <1>5 DEF Segs
  <2> QED
    BY <1>3, <1>6, <1>7, <1>8, <2>1
<1> QED
  BY <1>8, <1>9, <1>10 DEF U, Start

-----------------------------------------------------------------------------
(* The inductive invariant.  x stands for docs or docs', d for dels or     *)
(* dels', L for the segments of a snapshot, and V for a bit vector for     *)
(* each of them.                                                           *)

\* Deletions and Addressing, for deletions files d.
AddressingIn(d, L, t) == {n \in L : t \in DOMAIN d[n]}

GoneIn(d, L, t) == LET files == AddressingIn(d, L, t)
                   IN  IF files = {} THEN {} ELSE d[Highest(files)][t]

Vectors(d, L) == [n \in L |-> GoneIn(d, L, n)]

Found(x, L, V) == UNION {{x[n][i] : i \in (1..Len(x[n])) \ V[n]} : n \in L}

\* Only documents of the segment are deleted, and the others are in it and in
\* all others once.
Sound(x, L, V) ==
    /\ \A n \in L : V[n] \subseteq 1..Len(x[n])
    /\ \A n, m \in L :
           \A i \in (1..Len(x[n])) \ V[n], j \in (1..Len(x[m])) \ V[m] :
               x[n][i] = x[m][j] => n = m /\ i = j

SoundList(L) == Sound(docs, L, Vectors(dels, L))

\* No document has been handed in yet that is not one of these.
Known(L) == \A n \in L : \A i \in 1..Len(docs[n]) : docs[n][i] <= used

\* Deletions files are for earlier segments.
PointBack == \A m \in Segs : \A t \in DOMAIN dels[m] : t < m

LatestInv == SoundList(latest) /\ Known(latest)

SessionInv ==
    open =>
      /\ view \in {latest, {}}
      /\ mine \in Segs /\ mine > cutoff /\ \A n \in latest : n < mine
      /\ \A n \in view : /\ GoneIn(dels, latest, n) \subseteq bits[n]
                         /\ bits[n] \subseteq 1..Len(docs[n])
                         /\ n \notin updated =>
                                bits[n] = GoneIn(dels, latest, n)
      /\ \A i \in 1..Len(added) :
             /\ added[i] <= used
             /\ \A j \in 1..Len(added) : added[i] = added[j] => i = j
             /\ \A n \in latest : \A j \in 1..Len(docs[n]) :
                    added[i] # docs[n][j]

\* A merger's snapshot stays as it was; Indexers add segments beyond the
\* cutoff to it, with deletions files that have what was deleted before, or
\* else they have truncated the index.
MergerInv ==
    mpc # "idle" =>
      /\ cutoff \in Segs /\ cutoff \notin latest
      /\ \A n \in mview : n < cutoff
      /\ SoundList(mview) /\ Known(mview)
      /\ mcommits <= commits
      /\ commits = mcommits => latest = mview
      /\ {n \in latest : n < cutoff} \in {mview, {}}
      /\ \A m \in latest : m > cutoff =>
             /\ cutoff \notin DOMAIN dels[m]
             /\ \A n \in mview \cap DOMAIN dels[m] :
                    GoneIn(dels, mview, n) \subseteq dels[m][n]

\* The merged segment has what the segments had that were merged away, where
\* the doc maps say, and the rest of the snapshot is as it was.
MergedInv ==
    IF mpc # "merged" THEN Merged = {}
    ELSE /\ Merged # {}
         /\ \A n \in Merged :
               /\ Len(docMaps[n]) = Len(docs[n])
               /\ \A i \in 1..Len(docs[n]) :
                     /\ docMaps[n][i] = 0 <=> i \in GoneIn(dels, mview, n)
                     /\ docMaps[n][i] # 0 =>
                           /\ docMaps[n][i] \in 1..Len(docs[cutoff])
                           /\ docs[cutoff][docMaps[n][i]] = docs[n][i]
         /\ \A k \in 1..Len(docs[cutoff]) :
               \E n \in Merged : \E i \in 1..Len(docs[n]) : docMaps[n][i] = k
         /\ \A t \in mview \ Merged :
               GoneIn(dels, MList, t) = GoneIn(dels, mview, t)
         /\ GoneIn(dels, MList, cutoff) = {}

Inv == /\ TypeOK
       /\ PointBack
       /\ LatestInv
       /\ SessionInv
       /\ MergerInv
       /\ MergedInv
       /\ mpc = "idle" => cutoff = 0

-----------------------------------------------------------------------------
(* Which deletions file counts.                                            *)

LEMMA DeletionsAre ==
    ASSUME NEW L
    PROVE  /\ \A t : Deletions(L, t) = GoneIn(dels, L, t)
           /\ \A t : DelCount(L, t) = Cardinality(GoneIn(dels, L, t))
BY DEF Deletions, DelCount, Addressing, GoneIn, AddressingIn

\* That of the last segment that has one for t.
LEMMA GoneIs ==
    ASSUME NEW d, NEW L \in SUBSET Segs, NEW t, NEW h \in L, t \in DOMAIN d[h],
           \A m \in L : t \in DOMAIN d[m] => m <= h
    PROVE  GoneIn(d, L, t) = d[h][t]
<1> DEFINE A == AddressingIn(d, L, t)
<1>1. MaxSeg \in Nat /\ A \in SUBSET (0..MaxSeg) /\ h \in A
  <2>1. MaxSeg \in Nat /\ \A n \in Segs : n \in 0..MaxSeg
    BY BoundsAssumption DEF Segs
  <2>2. A \subseteq Segs /\ h \in A
    BY DEF AddressingIn
  <2> HIDE DEF A
  <2> QED
    BY <2>1, <2>2
<1>2. \A m \in A : m <= h
  BY DEF AddressingIn
<1> HIDE DEF A
<1>3. Highest(A) = h
  BY <1>1, <1>2, HighestIs
<1> QED
  BY <1>1, <1>3 DEF GoneIn, A

\* The file of h is the one that counts for t.
Newest(d, L, t, h) == /\ h \in L /\ t \in DOMAIN d[h]
                      /\ \A m \in L : t \in DOMAIN d[m] => m <= h

LEMMA NewestCounts ==
    ASSUME NEW d, NEW L \in SUBSET Segs, NEW t, NEW h, Newest(d, L, t, h)
    PROVE  GoneIn(d, L, t) = d[h][t]
<1>1. /\ h \in L /\ t \in DOMAIN d[h]
      /\ \A m \in L : t \in DOMAIN d[m] => m <= h
  BY DEF Newest
<1> QED
  BY <1>1, GoneIs

LEMMA GoneNone ==
    ASSUME NEW d, NEW L, NEW t, \A m \in L : t \notin DOMAIN d[m]
    PROVE  GoneIn(d, L, t) = {}
BY DEF GoneIn, AddressingIn

\* One of the two is the case.
LEMMA GoneFacts ==
    ASSUME NEW d, NEW L \in SUBSET Segs, NEW t
    PROVE  \/ \A m \in L : t \notin DOMAIN d[m]
           \/ \E h \in L : /\ t \in DOMAIN d[h]
                           /\ \A m \in L : t \in DOMAIN d[m] => m <= h
<1> DEFINE A == AddressingIn(d, L, t)
<1>1. /\ MaxSeg \in Nat /\ A \in SUBSET (0..MaxSeg) /\ 0 \notin A
      /\ \A n \in A : n \in 1..MaxSeg
  <2>1. MaxSeg \in Nat /\ \A n \in Segs : n \in 1..MaxSeg /\ n \in 0..MaxSeg
    BY BoundsAssumption DEF Segs
  <2>2. A \subseteq Segs
    BY DEF AddressingIn
  <2> HIDE DEF A
  <2> QED
    BY <2>1, <2>2
<1>2. CASE A = {}
  BY <1>2 DEF AddressingIn
<1>3. CASE A # {}
  <2>1. PICK n \in A : TRUE
    BY <1>3
  <2> HIDE DEF A
  <2>2. Highest(A) \in A \cup {0} /\ \A m \in A : m <= Highest(A)
    BY <1>1, HighestIsHighest
  <2>3. Highest(A) \in A
    <3>1. n \in 1..MaxSeg /\ n <= Highest(A)
      BY <1>1, <2>1, <2>2
    <3> QED
      BY <1>1, <2>2, <3>1
  <2> QED
    BY <2>2, <2>3 DEF A, AddressingIn
<1> QED
  BY <1>2, <1>3

\* The files for t are all that matters.
LEMMA GoneSame ==
    ASSUME NEW d, NEW L \in SUBSET Segs, NEW e, NEW M \in SUBSET Segs, NEW t,
           \A m \in Segs : (m \in L /\ t \in DOMAIN d[m]) <=>
                           (m \in M /\ t \in DOMAIN e[m]),
           \A m \in L \cap M : t \in DOMAIN d[m] => d[m][t] = e[m][t]
    PROVE  GoneIn(d, L, t) = GoneIn(e, M, t)
<1>1. CASE \A m \in L : t \notin DOMAIN d[m]
  <2>1. \A m \in M : t \notin DOMAIN e[m]
    BY <1>1
  <2> QED
    BY <1>1, <2>1, GoneNone
<1>2. ASSUME NEW h \in L, t \in DOMAIN d[h],
             \A m \in L : t \in DOMAIN d[m] => m <= h
      PROVE  GoneIn(d, L, t) = GoneIn(e, M, t)
  <2>1. GoneIn(d, L, t) = d[h][t]
    <3>1. Newest(d, L, t, h)
      BY <1>2 DEF Newest
    <3> QED
      BY <3>1, NewestCounts
  <2>2. h \in M /\ t \in DOMAIN e[h] /\ d[h][t] = e[h][t]
    BY <1>2
  <2>3. \A m \in M : t \in DOMAIN e[m] => m <= h
    BY <1>2
  <2>4. GoneIn(e, M, t) = e[h][t]
    <3>1. Newest(e, M, t, h)
      BY <2>2, <2>3 DEF Newest
    <3> QED
      BY <3>1, NewestCounts
  <2> QED
    BY <2>1, <2>2, <2>4
<1> QED
  BY <1>1, <1>2, GoneFacts

\* When M is merged away into k, the deletions of the other segments are as
\* they were or as V has them: Forced has those whose file is lost.
LEMMA RewriteFacts ==
    ASSUME PointBack,
           NEW L \in SUBSET Segs, NEW M \in SUBSET L, NEW k \in Segs,
           \A n \in L : n < k,
           NEW toWrite \in SUBSET L, Forced(L, M) \subseteq toWrite,
           NEW V, \A t \in L \ toWrite : V[t] = GoneIn(dels, L, t),
           NEW d, d[k] = Written(L, M, toWrite, V), \A n \in L : d[n] = dels[n]
    PROVE  /\ \A t \in L \ M : GoneIn(d, (L \ M) \cup {k}, t) = V[t]
           /\ GoneIn(d, (L \ M) \cup {k}, k) = {}
<1> DEFINE R == (L \ M) \cup {k}
<1>1. R \in SUBSET Segs /\ k \notin L /\ \A n \in Segs : n \in Nat
  BY DEF Segs
<1>2. DOMAIN d[k] \subseteq toWrite
  <2>1. CASE M = L
    BY <2>1 DEF Written
  <2>2. CASE M # L
    BY <2>2 DEF Written
  <2> QED
    BY <2>1, <2>2
<1>3. GoneIn(d, R, k) = {}
  <2>1. \A m \in R : k \notin DOMAIN d[m]
    BY <1>1, <1>2 DEF PointBack
  <2> QED
    BY <2>1, GoneNone
<1>4. ASSUME NEW t \in L \ M
      PROVE  GoneIn(d, R, t) = V[t]
  <2>1. M # L
    BY <1>4
  <2>2. d[k] = [u \in toWrite |-> V[u]]
    BY <2>1 DEF Written
  <2>3. CASE t \in toWrite
    <3>1. t \in DOMAIN d[k] /\ d[k][t] = V[t]
      BY <2>2, <2>3
    <3>2. \A m \in R : m <= k
      BY <1>1
    <3>3. k \in R
      OBVIOUS
    <3> HIDE DEF R
    <3>4. GoneIn(d, R, t) = d[k][t]
      <4>1. Newest(d, R, t, k)
        BY <3>1, <3>2, <3>3 DEF Newest
      <4> QED
        BY <1>1, <4>1, NewestCounts
    <3> QED
      BY <3>1, <3>4
  <2>4. CASE t \notin toWrite
    <3>1. V[t] = GoneIn(dels, L, t) /\ t \notin DOMAIN d[k]
      BY <1>2, <2>4
    <3>2. CASE \A m \in L : t \notin DOMAIN dels[m]
      <4>1. \A m \in R : t \notin DOMAIN d[m]
        BY <3>1, <3>2
      <4>2. GoneIn(d, R, t) = {} /\ GoneIn(dels, L, t) = {}
        BY <3>2, <4>1, GoneNone
      <4> QED
        BY <3>1, <4>2
    <3>3. ASSUME NEW h \in L, t \in DOMAIN dels[h],
                 \A m \in L : t \in DOMAIN dels[m] => m <= h
          PROVE  GoneIn(d, R, t) = V[t]
      <4>1. GoneIn(dels, L, t) = dels[h][t]
        BY <3>3, GoneIs
      <4>2. h \notin M
        <5>1. t \notin Forced(L, M)
          BY <2>4
        <5>2. Cardinality(dels[h][t]) = DelCount(L, t)
          BY <4>1, DeletionsAre
        <5> QED
          BY <3>3, <5>1, <5>2 DEF Forced
      <4>3. h \in R /\ t \in DOMAIN d[h] /\ d[h][t] = dels[h][t]
        BY <3>3, <4>2
      <4>4. \A m \in R : t \in DOMAIN d[m] => m <= h
        BY <3>1, <3>3
      <4>5. GoneIn(d, R, t) = d[h][t]
        <5> HIDE DEF R
        <5>1. R \in SUBSET Segs /\ Newest(d, R, t, h)
          BY <1>1, <4>3, <4>4 DEF Newest
        <5> QED
          BY <5>1, NewestCounts
      <4> QED
        BY <3>1, <4>1, <4>3, <4>5
    <3> QED
      BY <3>2, <3>3, GoneFacts
  <2> QED
    BY <2>3, <2>4
<1> QED
  BY <1>3, <1>4

-----------------------------------------------------------------------------
(* What a rewritten segment holds.                                         *)

LEMMA OrderFacts ==
    ASSUME NEW L \in SUBSET Segs, NEW order \in SetToAllKPermutations(L)
    PROVE  /\ order \in Seq(Segs)
           /\ ToSet(order) \in SUBSET L
           /\ \A k \in 1..Len(order) : order[k] \in ToSet(order)
           /\ \A n \in ToSet(order) : \E k \in 1..Len(order) : order[k] = n
           /\ \A j, k \in 1..Len(order) : order[j] = order[k] => j = k
<1>1. PICK T \in SUBSET L : order \in SetToSeqs(T)
  BY DEF SetToAllKPermutations
<1>2. IsFiniteSet(T)
  <2>1. IsFiniteSet(1..MaxSeg)
    BY BoundsAssumption, FS_Interval
  <2> QED
    BY <2>1, FS_Subset DEF Segs
<1>3. Cardinality(T) \in Nat
  BY <1>2, FS_CardinalityType
<1>4. /\ order \in [1..Cardinality(T) -> T]
      /\ \A i, j \in 1..Cardinality(T) : i # j => order[i] # order[j]
  BY <1>1, Zenon DEF SetToSeqs
<1>5. order \in Seq(Segs) /\ Len(order) = Cardinality(T)
  BY <1>3, <1>4
<1>6. DOMAIN order = 1..Len(order)
  BY <1>4, <1>5
<1>7. \A k \in 1..Len(order) : order[k] \in L
  BY <1>4, <1>5
<1> QED
  BY <1>4, <1>5, <1>6, <1>7 DEF ToSet

\* Segment k starts with documents of its own and has taken in those of M, of
\* the segments L with the deletions V.  W are the deletions afterwards.
Gathers(x, k, start, M, L, V, W) ==
    /\ x[k] \in Seq(Docs)
    /\ Sound(x, (L \ M) \cup {k}, W)
    /\ Found(x, (L \ M) \cup {k}, W) = ToSet(start) \cup Found(docs, L, V)
    /\ \A p \in 1..Len(x[k]) :
          \/ \E i \in 1..Len(start) : x[k][p] = start[i]
          \/ \E n \in L : \E i \in 1..Len(docs[n]) : x[k][p] = docs[n][i]

\* A segment that starts with documents of its own and takes in those that
\* are left of the segments in order, instead of them, has the same documents
\* and each of them once.
LEMMA ContentFacts ==
    ASSUME \A n \in Segs : docs[n] \in Seq(Docs),
           NEW L \in SUBSET Segs, NEW V, Sound(docs, L, V),
           NEW start \in Seq(Docs),
           \A i, j \in 1..Len(start) : start[i] = start[j] => i = j,
           \A i \in 1..Len(start) : \A n \in L : \A j \in 1..Len(docs[n]) :
               start[i] # docs[n][j],
           NEW order \in SetToAllKPermutations(L),
           NEW k \in Segs, k \notin L,
           NEW x, \A n \in L : x[n] = docs[n],
           x[k] = Consolidated(start, order, V),
           NEW W, W[k] = {}, \A t \in L \ ToSet(order) : W[t] = V[t]
    PROVE  Gathers(x, k, start, ToSet(order), L, V, W)
<1> DEFINE M == ToSet(order)
           R == (L \ M) \cup {k}
           C == x[k]
           left(n) == (1..Len(docs[n])) \ V[n]
           place(j, i) == Place(start, order, V, j, i)
<1>1. /\ order \in Seq(Segs)
      /\ M \in SUBSET L
      /\ \A j \in 1..Len(order) : order[j] \in M
      /\ \A n \in M : \E j \in 1..Len(order) : order[j] = n
      /\ \A i, j \in 1..Len(order) : order[i] = order[j] => i = j
  BY OrderFacts
<1>2. Merges(C, Docs, start, order, V)
  BY <1>1, ConsolidatedFacts
<1>3. /\ C \in Seq(Docs)
      /\ Len(start) \in Nat /\ Len(C) \in Nat /\ Len(start) <= Len(C)
      /\ \A p \in 1..Len(start) : p \in 1..Len(C) /\ C[p] = start[p]
  BY <1>2 DEF Merges
<1>4. \A j \in 1..Len(order) : \A i \in left(order[j]) :
         place(j, i) \in 1..Len(C) /\ C[place(j, i)] = docs[order[j]][i]
  BY <1>2 DEF Merges
<1>5. \A p \in 1..Len(C) :
         \/ p \in 1..Len(start)
         \/ \E j \in 1..Len(order) : \E i \in left(order[j]) : p = place(j, i)
  BY <1>2, <1>3 DEF Merges
<1> HIDE DEF M, C, left, place
\* Where a document of the new segment comes from.
<1>6. ASSUME NEW p \in 1..Len(C),
             ~ (p \in 1..Len(start) /\ C[p] = start[p])
      PROVE  \E j \in 1..Len(order) : \E i \in left(order[j]) :
                 p = place(j, i) /\ C[p] = docs[order[j]][i]
  <2>1. PICK j \in 1..Len(order) : \E i \in left(order[j]) : p = place(j, i)
    BY <1>3, <1>5, <1>6
  <2>2. PICK i \in left(order[j]) : p = place(j, i)
    BY <2>1
  <2>3. C[p] = docs[order[j]][i]
    BY <1>4, <2>2
  <2> QED
    BY <2>2, <2>3
<1>7. \A n \in L : left(n) \subseteq 1..Len(docs[n])
  BY DEF left
<1>8. \A n, m \in L : \A i \in left(n), j \in left(m) :
         docs[n][i] = docs[m][j] => n = m /\ i = j
  BY DEF Sound, left
<1>9. \A p \in 1..Len(C) :
         \/ \E i \in 1..Len(start) : C[p] = start[i]
         \/ \E n \in L : \E i \in 1..Len(docs[n]) : C[p] = docs[n][i]
  <2> SUFFICES ASSUME NEW p \in 1..Len(C),
                      ~ (\E i \in 1..Len(start) : C[p] = start[i])
               PROVE  \E n \in L : \E i \in 1..Len(docs[n]) : C[p] = docs[n][i]
    OBVIOUS
  <2>1. PICK j \in 1..Len(order) : \E i \in left(order[j]) :
                 C[p] = docs[order[j]][i]
    BY <1>6
  <2>2. order[j] \in L
    BY <1>1
  <2> QED
    BY <1>7, <2>1, <2>2
\* One document is in one place.
<1>10. ASSUME NEW p \in 1..Len(C), NEW q \in 1..Len(C), C[p] = C[q]
       PROVE  p = q
  <2>1. CASE p \in 1..Len(start) /\ C[p] = start[p]
    <3>1. q \in 1..Len(start) /\ C[q] = start[q]
      <4> SUFFICES ASSUME ~ (q \in 1..Len(start) /\ C[q] = start[q])
                   PROVE  FALSE
        OBVIOUS
      <4>1. PICK j \in 1..Len(order) : \E i \in left(order[j]) :
                     C[q] = docs[order[j]][i]
        BY <1>6
      <4>2. order[j] \in L
        BY <1>1
      <4>3. PICK i \in left(order[j]) : C[q] = docs[order[j]][i]
        BY <4>1
      <4>4. i \in 1..Len(docs[order[j]])
        BY <1>7, <4>2
      <4>5. start[p] = docs[order[j]][i]
        BY <1>10, <2>1, <4>3
      <4> QED
        BY <2>1, <4>2, <4>4, <4>5
    <3> QED
      BY ZenonT(60), <1>10, <2>1, <3>1
  <2>2. ASSUME NEW j \in 1..Len(order), NEW i \in left(order[j]),
               p = place(j, i), C[p] = docs[order[j]][i]
        PROVE  p = q
    <3>1. order[j] \in L /\ i \in 1..Len(docs[order[j]])
      BY <1>1, <1>7
    <3>2. PICK g \in 1..Len(order) : \E h \in left(order[g]) :
                 q = place(g, h) /\ C[q] = docs[order[g]][h]
      <4>1. ~ (q \in 1..Len(start) /\ C[q] = start[q])
        BY <1>10, <2>2, <3>1
      <4> QED
        BY <1>6, <4>1
    <3>3. PICK h \in left(order[g]) :
                 q = place(g, h) /\ C[q] = docs[order[g]][h]
      BY <3>2
    <3>4. order[g] \in L /\ order[g] = order[j] /\ h = i
      <4>1. order[g] \in L /\ h \in left(order[g])
        BY <1>1, <3>3
      <4>2. docs[order[j]][i] = docs[order[g]][h]
        BY <1>10, <2>2, <3>3
      <4> QED
        BY SMTT(30), <1>8, <2>2, <3>1, <4>1, <4>2
    <3>5. g = j
      BY <1>1, <3>4
    <3> QED
      BY <2>2, <3>3, <3>4, <3>5
  <2> QED
    BY <1>6, <2>1, <2>2
<1>11. ASSUME NEW p \in 1..Len(C), NEW n \in L \ M, NEW j \in left(n),
              C[p] = docs[n][j]
       PROVE  FALSE
  <2>1. n \in L /\ j \in 1..Len(docs[n])
    BY <1>7
  <2>2. PICK g \in 1..Len(order) : \E h \in left(order[g]) :
               C[p] = docs[order[g]][h]
    <3>1. ~ (p \in 1..Len(start) /\ C[p] = start[p])
      BY <1>11, <2>1
    <3> QED
      BY <1>6, <3>1
  <2>3. order[g] \in M /\ order[g] \in L
    BY <1>1
  <2>4. PICK h \in left(order[g]) : docs[n][j] = docs[order[g]][h]
    BY <1>11, <2>2
  <2>5. n = order[g]
    BY <1>8, <2>1, <2>3, <2>4
  <2> QED
    BY <2>3, <2>5
<1>12. (1..Len(x[k])) \ W[k] = 1..Len(C)
  BY DEF C
<1>13. ASSUME NEW n \in L \ M
       PROVE  n # k /\ x[n] = docs[n] /\ (1..Len(x[n])) \ W[n] = left(n)
  BY DEF left, M
<1>14. Sound(x, R, W)
  <2>1. \A n \in R : W[n] \subseteq 1..Len(x[n])
    <3>1. \A n \in L \ M : V[n] \subseteq 1..Len(docs[n])
      BY DEF Sound
    <3> QED
      BY <1>13, <3>1 DEF M
  <2>2. ASSUME NEW n \in R, NEW m \in R,
               NEW i \in (1..Len(x[n])) \ W[n], NEW j \in (1..Len(x[m])) \ W[m],
               x[n][i] = x[m][j]
        PROVE  n = m /\ i = j
    <3>1. CASE n = k /\ m = k
      <4>1. i \in 1..Len(C) /\ j \in 1..Len(C) /\ C[i] = C[j]
        BY <1>12, <2>2, <3>1 DEF C
      <4> QED
        BY <1>10, <3>1, <4>1
    <3>2. CASE n = k /\ m \in L \ M
      <4>1. i \in 1..Len(C) /\ j \in left(m) /\ C[i] = docs[m][j]
        BY <1>12, <1>13, <2>2, <3>2 DEF C
      <4> QED
        BY <1>11, <3>2, <4>1
    <3>3. CASE n \in L \ M /\ m = k
      <4>1. j \in 1..Len(C) /\ i \in left(n) /\ C[j] = docs[n][i]
        BY <1>12, <1>13, <2>2, <3>3 DEF C
      <4> QED
        BY <1>11, <3>3, <4>1
    <3>4. CASE n \in L \ M /\ m \in L \ M
      <4>1. i \in left(n) /\ j \in left(m) /\ docs[n][i] = docs[m][j]
        BY <1>13, <2>2, <3>4
      <4> QED
        BY <1>8, <3>4, <4>1
    <3> QED
      BY <3>1, <3>2, <3>3, <3>4
  <2> QED
    BY <2>1, <2>2 DEF Sound
<1>15. Found(x, R, W) = ToSet(start) \cup Found(docs, L, V)
  <2>1. ToSet(start) = {start[i] : i \in 1..Len(start)}
    BY DEF ToSet
  <2>2. \A y : y \in Found(docs, L, V) <=>
               \E n \in L : \E i \in left(n) : y = docs[n][i]
    BY DEF Found, left
  <2>3. \A y : y \in Found(x, R, W) <=>
               \E n \in R : \E i \in (1..Len(x[n])) \ W[n] : y = x[n][i]
    BY DEF Found
  <2>4. ASSUME NEW y \in Found(x, R, W)
        PROVE  y \in ToSet(start) \cup Found(docs, L, V)
    <3>1. PICK n \in R : \E i \in (1..Len(x[n])) \ W[n] : y = x[n][i]
      <4> HIDE DEF R
      <4> QED
        BY <2>3, <2>4
    <3>2. CASE n = k
      <4>1. PICK p \in 1..Len(C) : y = C[p]
        BY <1>12, <3>1, <3>2 DEF C
      <4>2. CASE p \in 1..Len(start) /\ C[p] = start[p]
        BY <2>1, <4>1, <4>2
      <4>3. ASSUME NEW j \in 1..Len(order), NEW i \in left(order[j]),
                   C[p] = docs[order[j]][i]
            PROVE  y \in Found(docs, L, V)
        BY <1>1, <2>2, <4>1, <4>3
      <4> QED
        BY <1>6, <4>2, <4>3
    <3>3. CASE n \in L \ M
      BY <1>13, <2>2, <3>1, <3>3
    <3> QED
      BY <3>2, <3>3
  <2>5. ASSUME NEW y \in ToSet(start)
        PROVE  y \in Found(x, R, W)
    <3>1. PICK i \in 1..Len(start) : y = start[i]
      BY <2>1
    <3>2. i \in (1..Len(x[k])) \ W[k] /\ y = x[k][i]
      BY <1>3, <1>12, <3>1 DEF C
    <3> QED
      BY <2>3, <3>2
  <2>6. ASSUME NEW y \in Found(docs, L, V)
        PROVE  y \in Found(x, R, W)
    <3>1. PICK n \in L : \E i \in left(n) : y = docs[n][i]
      BY <2>2
    <3>2. PICK i \in left(n) : y = docs[n][i]
      BY <3>1
    <3>3. CASE n \in M
      <4>1. PICK j \in 1..Len(order) : order[j] = n
        BY <1>1, <3>3
      <4>2. place(j, i) \in 1..Len(C) /\ C[place(j, i)] = y
        BY <1>4, <3>2, <4>1
      <4>3. \E p \in (1..Len(x[k])) \ W[k] : y = x[k][p]
        BY <1>12, <4>2 DEF C
      <4> QED
        BY <2>3, <4>3
    <3>4. CASE n \notin M
      <4>1. n \in R /\ i \in (1..Len(x[n])) \ W[n] /\ y = x[n][i]
        BY <1>13, <3>2, <3>4
      <4> QED
        BY <2>3, <4>1
    <3> QED
      BY <3>3, <3>4
  <2> QED
    BY <2>4, <2>5, <2>6
<1> QED
  BY <1>3, <1>9, <1>14, <1>15 DEF C, M, R, Gathers

-----------------------------------------------------------------------------
(* What a merger publishes.                                                *)

\* The index has not been truncated since the merger began.
Untruncated == Inv /\ mpc # "idle" /\ mview \subseteq latest

\* It has merged, and the segments that it merged are still there.
Publishes == Inv /\ mpc = "merged" /\ Merged \subseteq latest

\* The segments that Indexers have added since it began.
Fresh == {n \in latest : n > cutoff}

\* The latest segments are those it began with and these.
LEMMA LatestIsView ==
    ASSUME Untruncated
    PROVE  /\ \A n \in latest : n \in mview \/ n \in Fresh
           /\ mview \subseteq latest
           /\ cutoff \in Segs /\ cutoff \notin latest
           /\ \A n \in mview : n < cutoff
           /\ \A n \in Segs : n \in Nat
           /\ latest \subseteq Segs /\ mview \subseteq Segs
           /\ Merged \subseteq mview /\ MList \subseteq Segs
<1>1. \A n \in Segs : n \in Nat
  BY DEF Segs
<1>2. /\ cutoff \in Segs /\ cutoff \notin latest
      /\ \A n \in mview : n < cutoff
      /\ {n \in latest : n < cutoff} \in {mview, {}}
      /\ mview \subseteq latest
  BY DEF Untruncated, Inv, MergerInv
<1>3. Merged \subseteq mview /\ latest \subseteq Segs /\ mview \subseteq Segs
  BY DEF Untruncated, Inv, TypeOK, Merged
<1>4. {n \in latest : n < cutoff} = mview
  BY <1>2
<1>5. ASSUME NEW n \in latest, n \notin mview
      PROVE  n > cutoff
  <2>1. ~ (n < cutoff) /\ n # cutoff /\ n \in Nat /\ cutoff \in Nat
    BY <1>1, <1>2, <1>3, <1>4, <1>5
  <2> QED
    BY <2>1
<1> QED
  BY <1>1, <1>2, <1>3, <1>5 DEF Fresh, MList

\* A merger that publishes has the segments it began with.
LEMMA PublishesIs ==
    ASSUME Publishes
    PROVE  Untruncated
<1>1. /\ {n \in latest : n < cutoff} \in {mview, {}}
      /\ \A n \in mview : n < cutoff
  BY DEF Publishes, Inv, MergerInv
<1>2. Merged # {} /\ Merged \subseteq mview /\ Merged \subseteq latest
  BY DEF Publishes, Inv, MergedInv, TypeOK, Merged
<1>3. mview \subseteq latest
  BY <1>1, <1>2
<1> QED
  BY <1>3 DEF Publishes, Untruncated

\* Nothing that it has seen deleted is back, and where no new deletions file
\* says otherwise nothing has changed.
LEMMA DeletionsGrow ==
    ASSUME Untruncated, NEW n \in mview
    PROVE  /\ GoneIn(dels, mview, n) \subseteq GoneIn(dels, latest, n)
           /\ (\A m \in Fresh : n \notin DOMAIN dels[m])
                => GoneIn(dels, latest, n) = GoneIn(dels, mview, n)
<1>1. /\ \A m \in latest : m \in mview \/ m \in Fresh
      /\ mview \subseteq latest /\ Fresh \subseteq latest
      /\ latest \in SUBSET Segs /\ mview \in SUBSET Segs
      /\ \A m \in Segs : m \in Nat
      /\ cutoff \in Nat /\ \A m \in mview : m < cutoff
      /\ \A m \in Fresh : m > cutoff
  BY LatestIsView DEF Fresh
<1>2. ASSUME \A m \in Fresh : n \notin DOMAIN dels[m]
      PROVE  GoneIn(dels, latest, n) = GoneIn(dels, mview, n)
  BY <1>1, <1>2, GoneSame
<1>3. ASSUME NEW f \in Fresh, n \in DOMAIN dels[f]
      PROVE  GoneIn(dels, mview, n) \subseteq GoneIn(dels, latest, n)
  <2>1. f \in latest
    BY <1>1
  <2>2. PICK h \in latest :
                 /\ n \in DOMAIN dels[h]
                 /\ \A m \in latest : n \in DOMAIN dels[m] => m <= h
    BY <1>1, <1>3, <2>1, GoneFacts
  <2>3. GoneIn(dels, latest, n) = dels[h][n]
    BY <1>1, <2>2, GoneIs
  <2>4. f <= h
    BY <1>3, <2>1, <2>2
  <2>5. h > cutoff
    BY <1>1, <2>1, <2>4
  <2>6. GoneIn(dels, mview, n) \subseteq dels[h][n]
    BY <2>2, <2>5 DEF Untruncated, Inv, MergerInv
  <2> QED
    BY <2>3, <2>6
<1> QED
  BY <1>2, <1>3

\* A list with the merger's segments and the fresh ones has the deletions of
\* the latest one, if d is dels but for a new file that is only for cutoff.
LEMMA DeletionsKept ==
    ASSUME Publishes, NEW E \in SUBSET Segs,
           \A e \in E : \A n \in MList \cup Fresh : n < e,
           NEW d, \A n \in MList \cup Fresh : d[n] = dels[n],
           \A e \in E : DOMAIN d[e] \subseteq {cutoff}
    PROVE  /\ MList \cup Fresh \cup E \in SUBSET Segs
           /\ \A t \in latest \ Merged :
                 GoneIn(d, MList \cup Fresh \cup E, t) = GoneIn(dels, latest, t)
           /\ \A e \in E : GoneIn(d, MList \cup Fresh \cup E, e) = {}
           /\ (\A e \in E : cutoff \notin DOMAIN d[e])
                => GoneIn(d, MList \cup Fresh \cup E, cutoff) = {}
<1> DEFINE R == MList \cup Fresh \cup E
<1>1. /\ \A m \in latest : m \in mview \/ m \in Fresh
      /\ mview \subseteq latest /\ Fresh \subseteq latest
      /\ latest \in SUBSET Segs /\ mview \in SUBSET Segs
      /\ MList \in SUBSET Segs
      /\ \A m \in Segs : m \in Nat
      /\ cutoff \in Segs /\ cutoff \notin latest
      /\ \A m \in mview : m < cutoff
      /\ \A m \in Fresh : m > cutoff
      /\ MList = (mview \ Merged) \cup {cutoff} /\ Merged \subseteq mview
  BY LatestIsView, PublishesIs DEF Fresh, MList
<1>2. R \in SUBSET Segs
  BY <1>1
<1>3. \A m \in Segs : \A t \in DOMAIN dels[m] : t < m
  BY DEF Publishes, Inv, PointBack
<1>4. /\ \A t \in mview \ Merged :
            GoneIn(dels, MList, t) = GoneIn(dels, mview, t)
      /\ GoneIn(dels, MList, cutoff) = {}
      /\ \A m \in latest : m > cutoff => cutoff \notin DOMAIN dels[m]
  BY DEF Publishes, Inv, MergedInv, MergerInv
<1>5. \A m \in R : m \in MList \/ m \in Fresh \/ m \in E
  OBVIOUS
<1>6. \A t : t # cutoff => \A e \in E : t \notin DOMAIN d[e]
  OBVIOUS
<1>7. MList \subseteq R /\ Fresh \subseteq R /\ E \subseteq R
  OBVIOUS
<1>8. \A e \in E : e \notin MList /\ e \notin Fresh
  BY <1>1
<1>9. cutoff \in MList
  BY <1>1
<1> HIDE DEF R
\* What no fresh file is for is as in the merger's list.
<1>10. ASSUME NEW t, \A m \in Fresh : t \notin DOMAIN dels[m],
              \A e \in E : t \notin DOMAIN d[e]
       PROVE  GoneIn(d, R, t) = GoneIn(dels, MList, t)
  <2>1. ASSUME NEW m \in Segs
        PROVE  (m \in R /\ t \in DOMAIN d[m]) <=>
                   (m \in MList /\ t \in DOMAIN dels[m])
    <3>1. CASE m \in MList
      BY <1>7, <3>1
    <3>2. CASE m \in Fresh
      BY <1>8, <1>10, <3>2
    <3>3. CASE m \in E
      BY <1>8, <1>10, <3>3
    <3> QED
      BY <1>5, <3>1, <3>2, <3>3
  <2>2. \A m \in R \cap MList : t \in DOMAIN d[m] => d[m][t] = dels[m][t]
    OBVIOUS
  <2> QED
    BY <1>1, <1>2, <2>1, <2>2, GoneSame
<1>11. ASSUME NEW e \in E
       PROVE  GoneIn(d, R, e) = {}
  <2>1. \A m \in MList \cup Fresh : /\ m < e /\ m \in Segs
                                    /\ e \in Nat /\ m \in Nat
    BY <1>1
  <2>2. \A m \in R : e \notin DOMAIN d[m]
    <3> SUFFICES ASSUME NEW m \in R, e \in DOMAIN d[m] PROVE FALSE
      OBVIOUS
    <3>1. CASE m \in MList \cup Fresh
      <4>1. e < m
        BY <1>3, <2>1, <3>1
      <4> QED
        BY <2>1, <3>1, <4>1
    <3>2. CASE m \in E
      BY <1>8, <1>9, <3>2
    <3> QED
      BY <1>5, <3>1, <3>2
  <2> QED
    BY <2>2, GoneNone
<1>12. ASSUME \A e \in E : cutoff \notin DOMAIN d[e]
       PROVE  GoneIn(d, R, cutoff) = {}
  <2>1. \A m \in Fresh : cutoff \notin DOMAIN dels[m]
    BY <1>1, <1>4
  <2> QED
    BY <1>4, <1>10, <1>12, <2>1
<1>13. ASSUME NEW t \in latest \ Merged
       PROVE  GoneIn(d, R, t) = GoneIn(dels, latest, t)
  <2>1. t # cutoff /\ \A e \in E : t \notin DOMAIN d[e]
    BY <1>1, <1>6
  <2>2. ASSUME \A m \in Fresh : t \notin DOMAIN dels[m]
        PROVE  GoneIn(d, R, t) = GoneIn(dels, latest, t)
    <3>1. GoneIn(d, R, t) = GoneIn(dels, MList, t)
      BY <1>10, <2>1, <2>2
    <3>2. CASE t \in mview
      BY <1>4, <2>2, <3>1, <3>2, DeletionsGrow, PublishesIs
    <3>3. CASE t \in Fresh
      <4>1. \A m \in MList \cup mview : t \notin DOMAIN dels[m]
        <5> SUFFICES ASSUME NEW m \in MList \cup mview, t \in DOMAIN dels[m]
                     PROVE  FALSE
          OBVIOUS
        <5>1. m \in Segs /\ m <= cutoff /\ t < m /\ t > cutoff
          BY <1>1, <1>3, <3>3
        <5> QED
          BY <1>1, <5>1
      <4>2. \A m \in latest : t \notin DOMAIN dels[m]
        BY <1>1, <2>2, <4>1
      <4>3. GoneIn(dels, MList, t) = {} /\ GoneIn(dels, latest, t) = {}
        BY <4>1, <4>2, GoneNone
      <4> QED
        BY <3>1, <4>3
    <3> QED
      BY <1>1, <3>2, <3>3
  <2>3. ASSUME NEW f \in Fresh, t \in DOMAIN dels[f]
        PROVE  GoneIn(d, R, t) = GoneIn(dels, latest, t)
    <3>9. latest \in SUBSET Segs /\ f \in latest
      BY <1>1
    <3>1. PICK h \in latest :
                 /\ t \in DOMAIN dels[h]
                 /\ \A m \in latest : t \in DOMAIN dels[m] => m <= h
      BY <2>3, <3>9, GoneFacts
    <3>2. GoneIn(dels, latest, t) = dels[h][t]
      BY <3>9, <3>1, GoneIs
    <3>3. f \in latest /\ f <= h /\ f \in Nat /\ h \in Nat /\ f > cutoff
      BY <1>1, <2>3, <3>1
    <3>4. h \in Fresh /\ h > cutoff
      BY <1>1, <3>3 DEF Fresh
    <3>5. h \in R /\ t \in DOMAIN d[h] /\ d[h][t] = dels[h][t]
      BY <1>7, <3>1, <3>4
    <3>6. ASSUME NEW m \in R, t \in DOMAIN d[m]
          PROVE  m <= h
      <4>1. CASE m \in MList
        <5>1. m <= cutoff /\ m \in Nat
          BY <1>1, <4>1
        <5> QED
          BY <1>1, <3>3, <3>4, <5>1
      <4>2. CASE m \in Fresh
        BY <1>1, <3>1, <3>6, <4>2
      <4>3. CASE m \in E
        BY <2>1, <3>6, <4>3
      <4> QED
        BY <1>5, <4>1, <4>2, <4>3
    <3>7. GoneIn(d, R, t) = d[h][t]
      <4>1. Newest(d, R, t, h)
        BY <3>5, <3>6 DEF Newest
      <4> QED
        BY <1>2, <4>1, NewestCounts
    <3> QED
      BY <3>2, <3>5, <3>7
  <2> QED
    BY <2>2, <2>3
<1> QED
  BY <1>2, <1>11, <1>12, <1>13 DEF R

\* Where in the merged segment what has been deleted since is.
Hit == UNION {{docMaps[n][i] : i \in {j \in GoneIn(dels, latest, n) :
                                          docMaps[n][j] # 0}} : n \in Changed}

LEMMA HitFacts ==
    ASSUME Publishes
    PROVE  /\ \A k : k \in Hit <=>
                     /\ k # 0
                     /\ \E n \in Merged : \E i \in GoneIn(dels, latest, n) :
                            k = docMaps[n][i]
           /\ Hit \subseteq 1..Len(docs[cutoff])
<1>1. /\ Merged \subseteq latest /\ Merged \subseteq mview
      /\ \A n \in latest : n \in Segs
  BY LatestIsView, PublishesIs DEF Publishes
<1>2. ASSUME NEW n \in Merged
      PROVE  /\ GoneIn(dels, latest, n) \subseteq 1..Len(docs[n])
             /\ Len(docs[n]) \in Nat
  BY <1>1, <1>2
     DEF Publishes, Inv, LatestInv, SoundList, Sound, Vectors, TypeOK
<1>3. ASSUME NEW n \in Merged, n \notin Changed
      PROVE  GoneIn(dels, latest, n) = GoneIn(dels, mview, n)
  <2>1. Cardinality(GoneIn(dels, latest, n))
          = Cardinality(GoneIn(dels, mview, n))
    BY <1>3, DeletionsAre DEF Changed
  <2>2. GoneIn(dels, mview, n) \subseteq GoneIn(dels, latest, n)
    BY <1>1, DeletionsGrow, PublishesIs
  <2>3. IsFiniteSet(1..Len(docs[n]))
    BY <1>2, FS_Interval
  <2>4. IsFiniteSet(GoneIn(dels, latest, n))
    BY <1>2, <2>3, FS_Subset
  <2> QED
    BY <2>1, <2>2, <2>4, FS_Subset
<1>4. ASSUME NEW n \in Merged, NEW i \in 1..Len(docs[n])
      PROVE  /\ docMaps[n][i] = 0 <=> i \in GoneIn(dels, mview, n)
             /\ docMaps[n][i] # 0 => docMaps[n][i] \in 1..Len(docs[cutoff])
  BY DEF Publishes, Inv, MergedInv
<1>5. \A k : k \in Hit <=>
             \E n \in Changed : \E i \in GoneIn(dels, latest, n) :
                 docMaps[n][i] # 0 /\ k = docMaps[n][i]
  BY DEF Hit
<1>6. Changed \subseteq Merged
  BY DEF Changed
<1>7. ASSUME NEW n \in Merged, NEW i \in GoneIn(dels, latest, n),
             docMaps[n][i] # 0
      PROVE  docMaps[n][i] \in Hit /\ docMaps[n][i] \in 1..Len(docs[cutoff])
  <2>1. i \in 1..Len(docs[n])
    BY <1>2
  <2>2. i \notin GoneIn(dels, mview, n)
    BY <1>4, <1>7, <2>1
  <2>3. n \in Changed
    BY <1>3, <2>2
  <2> QED
    BY <1>4, <1>5, <1>7, <2>1, <2>3
<1>8. ASSUME NEW k \in Hit
      PROVE  /\ k # 0
             /\ \E n \in Merged : \E i \in GoneIn(dels, latest, n) :
                    k = docMaps[n][i]
             /\ k \in 1..Len(docs[cutoff])
  <2>1. PICK n \in Changed : \E i \in GoneIn(dels, latest, n) :
                 docMaps[n][i] # 0 /\ k = docMaps[n][i]
    BY <1>5
  <2>2. PICK i \in GoneIn(dels, latest, n) :
                 docMaps[n][i] # 0 /\ k = docMaps[n][i]
    BY <2>1
  <2>3. n \in Merged
    BY <1>6
  <2> QED
    BY <1>7, <2>2, <2>3
<1>9. ASSUME NEW k, k # 0, NEW n \in Merged,
             NEW i \in GoneIn(dels, latest, n), k = docMaps[n][i]
      PROVE  k \in Hit
  BY <1>7, <1>9
<1> HIDE DEF Hit
<1> QED
  BY <1>8, <1>9

\* That is what the deletions file of the extra segment lists.
LEMMA CarriedFacts ==
    ASSUME Publishes
    PROVE  /\ DOMAIN CarriedDels \subseteq {cutoff}
           /\ cutoff \in DOMAIN CarriedDels => CarriedDels[cutoff] = Hit
           /\ cutoff \notin DOMAIN CarriedDels => Hit = {}
<1> DEFINE U == Start(MList, cutoff)
           ids(t) == {g \in NewlyGone : SubTick(MList, g) = t}
           hit(t) == {id - Start(MList, t) : id \in ids(t)}
<1>1. /\ MList \in SUBSET Segs /\ cutoff \in MList /\ cutoff \in 1..MaxSeg
      /\ MaxSeg \in Nat /\ \A n \in Segs : Len(docs[n]) \in Nat
  <2>1. docs \in [Segs -> Seq(Docs)] /\ mview \in SUBSET Segs
    BY DEF Publishes, Inv, TypeOK
  <2>2. \A n \in Segs : Len(docs[n]) \in Nat
    BY <2>1
  <2>3. cutoff \in Segs
    BY DEF Publishes, Inv, MergerInv
  <2> QED
    BY <2>1, <2>2, <2>3, BoundsAssumption DEF MList, Segs
<1>2. /\ U \in Nat /\ U = DocsUpTo(MList, cutoff - 1)
      /\ DocsUpTo(MList, cutoff) = U + Len(docs[cutoff])
      /\ Len(docs[cutoff]) \in Nat
  <2>1. cutoff - 1 \in 0..MaxSeg /\ cutoff \in Segs
    BY <1>1 DEF Segs
  <2> QED
    BY <1>1, <2>1, DocsUpToFacts DEF Start
<1>3. \A k \in Hit : k \in 1..Len(docs[cutoff])
  BY HitFacts
<1>4. NewlyGone = {k + U : k \in Hit}
  <2>1. NewlyGone =
          UNION {{docMaps[n][i] + U : i \in {j \in GoneIn(dels, latest, n) :
                     docMaps[n][j] # 0}} : n \in Changed}
    BY DeletionsAre DEF NewlyGone
  <2> HIDE DEF U
  <2>2. \A g : g \in NewlyGone <=>
               \E n \in Changed : \E i \in GoneIn(dels, latest, n) :
                   docMaps[n][i] # 0 /\ g = docMaps[n][i] + U
    BY <2>1
  <2>3. \A k : k \in Hit <=>
               \E n \in Changed : \E i \in GoneIn(dels, latest, n) :
                   docMaps[n][i] # 0 /\ k = docMaps[n][i]
    BY DEF Hit
  <2> QED
    BY <2>2, <2>3
<1>5. ASSUME NEW k \in Hit
      PROVE  SubTick(MList, k + U) = cutoff
  <2>1. k \in 1..Len(docs[cutoff])
    BY <1>3
  <2>2. k + U \in Nat /\ DocsUpTo(MList, cutoff - 1) < k + U
    BY <1>2, <2>1
  <2>3. k + U <= DocsUpTo(MList, cutoff)
    BY <1>2, <2>1
  <2> QED
    BY <1>1, <2>2, <2>3, SubTickIs
<1> HIDE DEF U
<1>6. ids(cutoff) = {k + U : k \in Hit}
  BY <1>4, <1>5
<1>7. \A t : t # cutoff => ids(t) = {}
  BY <1>4, <1>5
<1>8. hit(cutoff) = Hit
  <2>1. hit(cutoff) = {id - U : id \in {k + U : k \in Hit}}
    BY <1>6 DEF U
  <2>2. \A k \in Hit : (k + U) - U = k
    BY <1>2, <1>3
  <2> QED
    BY <2>1, <2>2
<1>9. \A t : t # cutoff => hit(t) = {}
  BY <1>7
<1>10. GoneIn(dels, MList, cutoff) = {}
  BY DEF Publishes, Inv, MergedInv
<1> DEFINE targets == {t \in MList : ~ (hit(t) \subseteq Deletions(MList, t))}
<1>11. CarriedDels = [t \in targets |-> Deletions(MList, t) \cup hit(t)]
  BY DEF CarriedDels
<1> HIDE DEF ids, hit
<1>12. targets \subseteq {cutoff}
  BY <1>9
<1>13. cutoff \in targets <=> Hit # {}
  BY <1>1, <1>8, <1>10, DeletionsAre
<1>14. cutoff \in targets => CarriedDels[cutoff] = Hit
  BY <1>8, <1>10, <1>11, DeletionsAre
<1> HIDE DEF targets
<1> QED
  BY <1>11, <1>12, <1>13, <1>14

\* The merger's segments and the fresh ones have the documents of the latest
\* snapshot, each of them once, when W has its deletions and, for the merged
\* segment, those that have been carried over.
LEMMA PublishFacts ==
    ASSUME Publishes, NEW E, \A e \in E : e \notin MList \cup Fresh,
           NEW x, \A n \in MList \cup Fresh : x[n] = docs[n],
           \A e \in E : x[e] = <<>>,
           NEW W, W[cutoff] = Hit, \A e \in E : W[e] = {},
           \A t \in latest \ Merged : W[t] = GoneIn(dels, latest, t)
    PROVE  /\ Sound(x, MList \cup Fresh \cup E, W)
           /\ Found(x, MList \cup Fresh \cup E, W)
                = Found(docs, latest, Vectors(dels, latest))
<1> DEFINE R == MList \cup Fresh \cup E
           rest == latest \ Merged
           left(n) == (1..Len(docs[n])) \ GoneIn(dels, latest, n)
           C == docs[cutoff]
           new(n) == (1..Len(x[n])) \ W[n]
<1>1. /\ \A n \in latest : n \in mview \/ n \in Fresh
      /\ mview \subseteq latest /\ cutoff \notin latest
      /\ Merged \subseteq mview /\ Fresh \subseteq latest
      /\ MList = (mview \ Merged) \cup {cutoff}
      /\ \A n \in Fresh : n \notin mview
  <2>1. \A n \in Fresh : n \notin mview
    BY LatestIsView, PublishesIs DEF Fresh
  <2> QED
    BY <2>1, LatestIsView, PublishesIs DEF Fresh, MList
<1>2. /\ rest \subseteq R /\ E \subseteq R /\ cutoff \in R
      /\ \A n \in R : n = cutoff \/ n \in rest \/ n \in E
      /\ \A n \in rest : n # cutoff /\ n \notin E /\ n \in latest
      /\ cutoff \notin E
  BY <1>1
<1>3. \A n \in latest : /\ Vectors(dels, latest)[n] = GoneIn(dels, latest, n)
                        /\ GoneIn(dels, latest, n) \subseteq 1..Len(docs[n])
  BY DEF Publishes, Inv, LatestInv, SoundList, Sound, Vectors
<1>4. \A n, m \in latest : \A i \in left(n), j \in left(m) :
         docs[n][i] = docs[m][j] => n = m /\ i = j
  BY DEF Publishes, Inv, LatestInv, SoundList, Sound, Vectors
<1>5. /\ new(cutoff) = (1..Len(C)) \ Hit /\ x[cutoff] = C
      /\ W[cutoff] \subseteq 1..Len(x[cutoff])
  BY <1>1, HitFacts
<1>6. \A e \in E : new(e) = {} /\ W[e] \subseteq 1..Len(x[e])
  OBVIOUS
<1>7. \A n \in rest : /\ new(n) = left(n) /\ x[n] = docs[n]
                       /\ W[n] \subseteq 1..Len(x[n])
  BY <1>1, <1>3
<1>8. \A n \in Merged : \A i \in 1..Len(docs[n]) :
         /\ docMaps[n][i] = 0 <=> i \in GoneIn(dels, mview, n)
         /\ docMaps[n][i] # 0 => /\ docMaps[n][i] \in 1..Len(C)
                                 /\ C[docMaps[n][i]] = docs[n][i]
  BY DEF Publishes, Inv, MergedInv
<1>9. \A k \in 1..Len(C) :
         \E n \in Merged : \E i \in 1..Len(docs[n]) : docMaps[n][i] = k
  BY DEF Publishes, Inv, MergedInv
<1>10. \A k : k \in Hit <=>
              /\ k # 0
              /\ \E n \in Merged : \E i \in GoneIn(dels, latest, n) :
                     k = docMaps[n][i]
  BY HitFacts
<1> HIDE DEF R, rest, left, C, new
\* Of each merged document that is left there is an original that is, and
\* the other way around.
<1>11. ASSUME NEW k \in new(cutoff)
       PROVE  \E n \in Merged : \E i \in left(n) :
                  docMaps[n][i] = k /\ C[k] = docs[n][i]
  <2>1. k \in 1..Len(C) /\ k \notin Hit
    BY <1>5
  <2>2. PICK n \in Merged : \E i \in 1..Len(docs[n]) : docMaps[n][i] = k
    BY <1>9, <2>1
  <2>3. PICK i \in 1..Len(docs[n]) : docMaps[n][i] = k
    BY <2>2
  <2>4. k # 0
    BY <2>1
  <2>5. i \notin GoneIn(dels, latest, n)
    BY <1>10, <2>1, <2>3, <2>4
  <2>6. i \in left(n) /\ C[k] = docs[n][i]
    BY <1>8, <2>3, <2>4, <2>5 DEF left
  <2> QED
    BY <2>3, <2>6
<1>12. ASSUME NEW n \in Merged, NEW i \in left(n)
       PROVE  /\ docMaps[n][i] \in new(cutoff)
              /\ C[docMaps[n][i]] = docs[n][i]
  <2>1. i \in 1..Len(docs[n]) /\ i \notin GoneIn(dels, latest, n)
    BY DEF left
  <2>2. i \notin GoneIn(dels, mview, n)
    BY <1>1, <2>1, DeletionsGrow, PublishesIs
  <2>3. /\ docMaps[n][i] # 0 /\ docMaps[n][i] \in 1..Len(C)
        /\ C[docMaps[n][i]] = docs[n][i]
    BY <1>8, <2>1, <2>2
  <2>4. docMaps[n][i] \notin Hit
    <3> SUFFICES ASSUME docMaps[n][i] \in Hit PROVE FALSE
      OBVIOUS
    <3>1. PICK m \in Merged : \E j \in GoneIn(dels, latest, m) :
                   docMaps[n][i] = docMaps[m][j]
      BY <1>10
    <3>2. PICK j \in GoneIn(dels, latest, m) : docMaps[n][i] = docMaps[m][j]
      BY <3>1
    <3>3. m \in latest /\ m \in mview /\ n \in mview
      BY <1>1
    <3>4. j \in 1..Len(docs[m]) /\ docMaps[m][j] # 0
      BY <1>3, <2>3, <3>2, <3>3
    <3>5. j \notin GoneIn(dels, mview, m) /\ docs[m][j] = docs[n][i]
      BY <1>8, <2>3, <3>2, <3>4
    <3>6. n = m /\ i = j
      <4>1. Sound(docs, mview, Vectors(dels, mview))
        BY DEF Publishes, Inv, MergerInv, SoundList
      <4> QED
        BY <2>1, <2>2, <3>3, <3>4, <3>5, <4>1 DEF Sound, Vectors
    <3> QED
      BY <2>1, <3>2, <3>6
  <2> QED
    BY <1>5, <2>3, <2>4
<1>13. Sound(x, R, W)
  <2>1. \A n \in R : W[n] \subseteq 1..Len(x[n])
    BY <1>2, <1>5, <1>6, <1>7
  <2>2. ASSUME NEW n \in rest, NEW i \in new(n), NEW k \in new(cutoff),
               x[n][i] = C[k]
        PROVE  FALSE
    <3>1. PICK m \in Merged : \E j \in left(m) :
                   docMaps[m][j] = k /\ C[k] = docs[m][j]
      BY <1>11
    <3>2. PICK j \in left(m) : C[k] = docs[m][j]
      BY <3>1
    <3>3. /\ n \in latest /\ n \notin Merged /\ m \in latest
          /\ i \in left(n) /\ x[n] = docs[n]
      BY <1>1, <1>7 DEF rest
    <3> QED
      BY <1>4, <2>2, <3>2, <3>3
  <2>3. ASSUME NEW k \in new(cutoff), NEW l \in new(cutoff), C[k] = C[l]
        PROVE  k = l
    <3>1. PICK n \in Merged : \E i \in left(n) :
                   docMaps[n][i] = k /\ C[k] = docs[n][i]
      BY <1>11
    <3>2. PICK i \in left(n) : docMaps[n][i] = k /\ C[k] = docs[n][i]
      BY <3>1
    <3>3. PICK m \in Merged : \E j \in left(m) :
                   docMaps[m][j] = l /\ C[l] = docs[m][j]
      BY <1>11
    <3>4. PICK j \in left(m) : docMaps[m][j] = l /\ C[l] = docs[m][j]
      BY <3>3
    <3>5. n \in latest /\ m \in latest
      BY <1>1
    <3>6. docs[n][i] = docs[m][j]
      BY <2>3, <3>2, <3>4
    <3>7. n = m /\ i = j
      BY <1>4, <3>5, <3>6
    <3> QED
      BY <3>2, <3>4, <3>7
  <2>4. ASSUME NEW n \in R, NEW m \in R, NEW i \in new(n), NEW j \in new(m),
               x[n][i] = x[m][j]
        PROVE  n = m /\ i = j
    <3>1. n \notin E /\ m \notin E
      BY <1>6
    <3>2. CASE n = cutoff /\ m = cutoff
      BY <1>5, <2>3, <2>4, <3>2
    <3>3. CASE n = cutoff /\ m \in rest
      BY <1>5, <2>2, <2>4, <3>3
    <3>4. CASE n \in rest /\ m = cutoff
      BY <1>5, <2>2, <2>4, <3>4
    <3>5. CASE n \in rest /\ m \in rest
      <4>1. /\ i \in left(n) /\ j \in left(m) /\ docs[n][i] = docs[m][j]
            /\ n \in latest /\ m \in latest
        BY <1>2, <1>7, <2>4, <3>5
      <4> QED
        BY <1>4, <4>1
    <3> QED
      BY <1>2, <3>1, <3>2, <3>3, <3>4, <3>5
  <2> QED
    BY <2>1, <2>4 DEF Sound, new
<1>14. Found(x, R, W) = Found(docs, latest, Vectors(dels, latest))
  <2>1. \A y : y \in Found(x, R, W) <=>
               \E n \in R : \E i \in new(n) : y = x[n][i]
    BY DEF Found, new
  <2>2. \A y : y \in Found(docs, latest, Vectors(dels, latest)) <=>
               \E n \in latest : \E i \in left(n) : y = docs[n][i]
    <3>1. \A n \in latest :
             (1..Len(docs[n])) \ Vectors(dels, latest)[n] = left(n)
      BY <1>3 DEF left
    <3> QED
      BY <3>1 DEF Found
  <2>3. ASSUME NEW n \in R, NEW i \in new(n)
        PROVE  \E m \in latest : \E j \in left(m) : x[n][i] = docs[m][j]
    <3>1. CASE n = cutoff
      <4>1. PICK m \in Merged : \E j \in left(m) : C[i] = docs[m][j]
        BY <1>11, <3>1
      <4>2. m \in latest
        BY <1>1
      <4> QED
        BY <1>5, <3>1, <4>1, <4>2
    <3>2. CASE n \in rest
      <4>1. n \in latest /\ i \in left(n) /\ x[n] = docs[n]
        BY <1>2, <1>7, <3>2
      <4> QED
        BY <4>1
    <3>3. CASE n \in E
      BY <1>6, <3>3
    <3> QED
      BY <1>2, <3>1, <3>2, <3>3
  <2>4. ASSUME NEW m \in latest, NEW j \in left(m)
        PROVE  \E n \in R : \E i \in new(n) : docs[m][j] = x[n][i]
    <3>1. CASE m \in Merged
      <4>1. /\ docMaps[m][j] \in new(cutoff)
            /\ x[cutoff][docMaps[m][j]] = docs[m][j]
        BY <1>5, <1>12, <3>1
      <4>2. cutoff \in R
        BY <1>2
      <4> QED
        BY <4>1, <4>2
    <3>2. CASE m \notin Merged
      <4>1. m \in R /\ j \in new(m) /\ x[m] = docs[m]
        BY <1>2, <1>7, <3>2 DEF rest
      <4> QED
        BY <4>1
    <3> QED
      BY <3>1, <3>2
  <2>5. \A y : y \in Found(x, R, W) <=>
               y \in Found(docs, latest, Vectors(dels, latest))
    <3>1. ASSUME NEW y \in Found(x, R, W)
          PROVE  y \in Found(docs, latest, Vectors(dels, latest))
      <4>1. PICK n \in R : \E i \in new(n) : y = x[n][i]
        BY <2>1
      <4>2. PICK i \in new(n) : y = x[n][i]
        BY <4>1
      <4> QED
        BY <2>2, <2>3, <4>2
    <3>2. ASSUME NEW y \in Found(docs, latest, Vectors(dels, latest))
          PROVE  y \in Found(x, R, W)
      <4>1. PICK m \in latest : \E j \in left(m) : y = docs[m][j]
        BY <2>2
      <4>2. PICK j \in left(m) : y = docs[m][j]
        BY <4>1
      <4> QED
        BY <2>1, <2>4, <4>2
    <3> QED
      BY <3>1, <3>2
  <2> HIDE DEF Found
  <2> QED
    BY <2>5
<1> QED
  BY <1>13, <1>14 DEF R

-----------------------------------------------------------------------------
(* The invariant is inductive: the Indexer.                                *)

\* Segments that are not in a list do not matter to it.
LEMMA FrameFacts ==
    ASSUME NEW L \in SUBSET Segs, NEW x, NEW d,
           \A n \in L : x[n] = docs[n] /\ d[n] = dels[n]
    PROVE  /\ \A t : GoneIn(d, L, t) = GoneIn(dels, L, t)
           /\ Vectors(d, L) = Vectors(dels, L)
           /\ SoundList(L) => Sound(x, L, Vectors(d, L))
           /\ \A V : Found(x, L, V) = Found(docs, L, V)
<1>1. \A t : GoneIn(d, L, t) = GoneIn(dels, L, t)
  <2> SUFFICES ASSUME NEW t PROVE GoneIn(d, L, t) = GoneIn(dels, L, t)
    OBVIOUS
  <2>1. AddressingIn(d, L, t) = AddressingIn(dels, L, t)
    BY DEF AddressingIn
  <2>2. CASE AddressingIn(d, L, t) = {}
    BY <2>1, <2>2 DEF GoneIn
  <2>3. CASE AddressingIn(d, L, t) # {}
    <3>1. Highest(AddressingIn(d, L, t)) \in L
      <4>1. PICK h \in L : /\ t \in DOMAIN d[h]
                           /\ \A m \in L : t \in DOMAIN d[m] => m <= h
        BY <2>3, GoneFacts DEF AddressingIn
      <4>2. /\ MaxSeg \in Nat /\ h \in AddressingIn(d, L, t)
            /\ \A m \in Segs : m \in 0..MaxSeg
        BY <4>1, BoundsAssumption DEF Segs, AddressingIn
      <4>3. AddressingIn(d, L, t) \in SUBSET (0..MaxSeg)
        BY <4>2 DEF AddressingIn
      <4>4. \A m \in AddressingIn(d, L, t) : m <= h
        BY <4>1 DEF AddressingIn
      <4>5. Highest(AddressingIn(d, L, t)) = h
        BY <4>2, <4>3, <4>4, HighestIs
      <4> QED
        BY <4>5
    <3> QED
      BY <2>1, <2>3, <3>1 DEF GoneIn
  <2> QED
    BY <2>2, <2>3
<1>2. Vectors(d, L) = Vectors(dels, L)
  BY <1>1 DEF Vectors
<1>3. SoundList(L) => Sound(x, L, Vectors(d, L))
  BY <1>2 DEF SoundList, Sound
<1>4. ASSUME NEW V
      PROVE  Found(x, L, V) = Found(docs, L, V)
  BY DEF Found
<1> QED
  BY <1>1, <1>2, <1>3, <1>4

\* What a reader of the latest snapshot finds.
LEMMA LiveIs ==
    /\ Live(latest) = Found(docs, latest, Vectors(dels, latest))
    /\ Draft = IF open THEN ToSet(added) \cup Found(docs, view, bits) ELSE {}
<1>1. \A n \in latest : Vectors(dels, latest)[n] = Deletions(latest, n)
  BY DeletionsAre DEF Vectors
<1>2. Live(latest) = Found(docs, latest, Vectors(dels, latest))
  BY <1>1 DEF Live, Found, DocMax
<1> QED
  BY <1>2 DEF Draft, Found, DocMax

\* A session that does not commit leaves all but its own part as it is.
LEMMA SessionFrame ==
    ASSUME Inv, UNCHANGED <<store, merger>>, used <= used', used' \in Nat
    PROVE  /\ PointBack' /\ LatestInv' /\ MergerInv' /\ MergedInv'
           /\ (mpc = "idle" => cutoff = 0)'
<1>1. /\ docs' = docs /\ dels' = dels /\ latest' = latest
      /\ mpc' = mpc /\ mview' = mview /\ cutoff' = cutoff
      /\ mcommits' = mcommits /\ commits' = commits /\ docMaps' = docMaps
  BY DEF store, merger
<1>2. ASSUME NEW L \in SUBSET Segs, Known(L)
      PROVE  \A n \in L : \A i \in 1..Len(docs[n]) : docs[n][i] <= used'
  <2> SUFFICES ASSUME NEW n \in L, NEW i \in 1..Len(docs[n])
               PROVE  docs[n][i] <= used'
    OBVIOUS
  <2>1. docs[n][i] <= used
    BY <1>2 DEF Known
  <2>2. docs[n] \in Seq(Docs) /\ used \in Nat
    BY BoundsAssumption DEF Inv, TypeOK
  <2>3. docs[n][i] \in Docs
    BY <2>2
  <2>4. docs[n][i] \in Nat
    BY <2>3 DEF Docs
  <2> QED
    BY <2>1, <2>2, <2>4
<1>3. /\ PointBack /\ LatestInv /\ MergerInv /\ MergedInv
      /\ (mpc = "idle" => cutoff = 0)
      /\ latest \in SUBSET Segs /\ mview \in SUBSET Segs
  BY DEF Inv, TypeOK
<1>4. PointBack'
  BY <1>1, <1>3 DEF PointBack
<1>5. LatestInv'
  BY <1>1, <1>2, <1>3 DEF LatestInv, SoundList, Known
<1>6. MergerInv'
  BY <1>1, <1>2, <1>3 DEF MergerInv, SoundList, Known
<1>7. MergedInv'
  <2>1. Merged' = Merged /\ MList' = MList
    BY <1>1 DEF Merged, MList
  <2> QED
    BY <1>1, <1>3, <2>1 DEF MergedInv
<1> QED
  BY <1>1, <1>3, <1>4, <1>5, <1>6, <1>7

LEMMA BeginKeeps ==
    ASSUME Inv, NEW truncate \in BOOLEAN, IxBegin(truncate)
    PROVE  Inv' /\ Store!Begin(truncate)
<1> USE DEF Inv
<1>1. /\ docs' = docs /\ dels' = dels /\ latest' = latest /\ commits' = commits
      /\ schema' = schema /\ used' = used
      /\ mpc' = mpc /\ mview' = mview /\ cutoff' = cutoff
      /\ mcommits' = mcommits /\ mschema' = mschema /\ docMaps' = docMaps
      /\ ~open /\ open' /\ added' = <<>> /\ updated' = {}
      /\ view' = IF truncate THEN {} ELSE latest
      /\ fields' = IF truncate THEN {} ELSE schema
      /\ mine' = Highest(latest \cup {cutoff}) + 1
      /\ Highest(latest \cup {cutoff}) < MaxSeg
  BY DEF IxBegin, store, merger
<1>2. bits' = [n \in view' |-> GoneIn(dels, latest, n)]
  BY DeletionsAre DEF IxBegin
<1>3. /\ MaxSeg \in Nat /\ MaxDocs \in Nat /\ latest \subseteq Segs
      /\ cutoff \in Segs \cup {0}
      /\ \A n \in Segs \cup {0} : n \in 0..MaxSeg
  BY BoundsAssumption DEF TypeOK, Segs
<1>4. /\ mine' \in Segs /\ mine' > cutoff /\ \A n \in latest : n < mine'
      /\ mine' \in Segs \cup {0}
  <2> DEFINE T == latest \cup {cutoff}
  <2>1. T \in SUBSET (0..MaxSeg)
    BY <1>3
  <2> HIDE DEF T
  <2>2. /\ Highest(T) \in 0..MaxSeg /\ \A m \in T : m <= Highest(T)
    BY <1>3, <2>1, HighestIsHighest
  <2>3. mine' = Highest(T) + 1 /\ mine' <= MaxSeg /\ mine' \in Nat
    BY <1>1, <1>3, <2>2 DEF T
  <2>4. \A m \in T : m < mine'
    BY <1>3, <2>1, <2>2, <2>3
  <2> QED
    BY <1>3, <2>2, <2>3, <2>4 DEF T, Segs
<1>5. \A n \in latest : /\ GoneIn(dels, latest, n) \subseteq 1..Len(docs[n])
                        /\ GoneIn(dels, latest, n) \in SUBSET Nat
  BY DEF LatestInv, SoundList, Sound, Vectors
<1>6. view' \subseteq latest /\ view' \in {latest, {}}
  BY <1>1
<1>7. TypeOK'
  <2>1. bits' \in [view' -> SUBSET Nat]
    BY <1>2, <1>5, <1>6
  <2>2. fields' \subseteq Fields
    BY <1>1 DEF TypeOK
  <2>3. <<>> \in Seq(Docs)
    OBVIOUS
  <2> HIDE DEF Inv
  <2> QED
    BY <1>1, <1>3, <1>4, <1>6, <2>1, <2>2, <2>3 DEF TypeOK, Inv
<1>8. SessionInv'
  <2>1. 1..Len(added') = {}
    BY <1>1
  <2>2. ASSUME NEW n \in view'
        PROVE  /\ GoneIn(dels', latest', n) \subseteq bits'[n]
               /\ bits'[n] \subseteq 1..Len(docs'[n])
               /\ bits'[n] = GoneIn(dels', latest', n)
    BY <1>1, <1>2, <1>5, <1>6
  <2>3. /\ view' \in {latest', {}}
        /\ mine' \in Segs /\ mine' > cutoff' /\ \A n \in latest' : n < mine'
    BY <1>1, <1>4, <1>6
  <2> HIDE DEF Inv
  <2> QED
    BY <2>1, <2>2, <2>3 DEF SessionInv
<1>9. used <= used' /\ used' \in Nat
  BY <1>1, <1>3 DEF TypeOK
<1>10. Inv'
  <2>1. UNCHANGED <<store, merger>>
    BY <1>1 DEF store, merger
  <2> QED
    BY <1>7, <1>8, <1>9, <2>1, SessionFrame
<1>11. Store!Begin(truncate)
  <2>1. Live(latest)' = Live(latest)
    BY <1>1 DEF Live, Deletions, Addressing, DocMax
  <2>2. Draft' = IF truncate THEN {} ELSE Live(latest)
    <3>1. Draft' = ToSet(<<>>) \cup
                   UNION {{docs[n][i] : i \in (1..Len(docs[n])) \ bits'[n]} :
                             n \in view'}
      BY <1>1 DEF Draft, DocMax
    <3>2. ToSet(<<>>) = {}
      BY DEF ToSet
    <3>3. CASE truncate
      BY <1>1, <3>1, <3>2, <3>3
    <3>4. CASE ~truncate
      <4>1. \A n \in latest : bits'[n] = Deletions(latest, n)
        BY <1>1, <1>2, <3>4, DeletionsAre
      <4> QED
        BY <1>1, <3>1, <3>2, <3>4, <4>1 DEF Live, DocMax
    <3> QED
      BY <3>3, <3>4
  <2> QED
    BY <1>1, <2>1, <2>2 DEF Store!Begin
<1> QED
  BY <1>10, <1>11

\* The elements of a sequence.
LEMMA ToSetIs ==
    ASSUME NEW S, NEW s \in Seq(S)
    PROVE  \A y : y \in ToSet(s) <=> \E p \in 1..Len(s) : y = s[p]
<1>1. DOMAIN s = 1..Len(s)
  OBVIOUS
<1> QED
  BY <1>1 DEF ToSet

\* Documents that are new to the index join the session's segment.
LEMMA AddingKeeps ==
    ASSUME Inv, open, NEW new \in Seq(Docs),
           \A p \in 1..Len(new) : used < new[p] /\ new[p] <= used',
           \A p, q \in 1..Len(new) : new[p] = new[q] => p = q,
           used <= used', used' \in 0..MaxDocs, added' = added \o new,
           fields' \subseteq Fields,
           UNCHANGED <<store, open, view, mine, bits, updated, merger>>
    PROVE  Inv' /\ Store!Add(ToSet(new))
<1>1. /\ docs' = docs /\ dels' = dels /\ latest' = latest /\ commits' = commits
      /\ schema' = schema /\ mpc' = mpc /\ mview' = mview /\ cutoff' = cutoff
      /\ mcommits' = mcommits /\ mschema' = mschema /\ docMaps' = docMaps
      /\ open' = open /\ view' = view /\ mine' = mine /\ bits' = bits
      /\ updated' = updated
  BY DEF store, merger
<1>2. /\ added \in Seq(Docs) /\ Len(added) \in Nat /\ Len(new) \in Nat
      /\ used \in Nat /\ used' \in Nat /\ \A d \in Docs : d \in Nat
      /\ latest \subseteq Segs /\ \A n \in Segs : docs[n] \in Seq(Docs)
  BY BoundsAssumption DEF Inv, TypeOK, Docs
<1>3. /\ added' \in Seq(Docs) /\ Len(added') = Len(added) + Len(new)
      /\ \A p \in 1..Len(added) : added'[p] = added[p]
      /\ \A p \in 1..Len(new) : added'[Len(added) + p] = new[p]
  BY <1>2
<1>4. ASSUME NEW p \in 1..Len(added')
      PROVE  \/ p \in 1..Len(added) /\ added'[p] = added[p]
             \/ \E q \in 1..Len(new) : p = Len(added) + q /\ added'[p] = new[q]
  <2>1. CASE p <= Len(added)
    BY <1>2, <1>3, <2>1
  <2>2. CASE ~ (p <= Len(added))
    <3>1. p - Len(added) \in 1..Len(new) /\ p = Len(added) + (p - Len(added))
      BY <1>2, <1>3, <2>2
    <3> QED
      BY <1>3, <3>1
  <2> QED
    BY <2>1, <2>2
<1>5. SessionInv
  BY DEF Inv
<1>6. /\ \A p \in 1..Len(added) : added[p] <= used /\ added[p] \in Nat
      /\ \A p \in 1..Len(new) : new[p] \in Nat
  BY <1>2, <1>5 DEF SessionInv
<1>7. ASSUME NEW p \in 1..Len(added')
      PROVE  /\ added'[p] <= used'
             /\ \A q \in 1..Len(added') : added'[p] = added'[q] => p = q
             /\ \A n \in latest : \A j \in 1..Len(docs[n]) :
                    added'[p] # docs[n][j]
  <2>1. added'[p] <= used'
    <3>1. CASE p \in 1..Len(added) /\ added'[p] = added[p]
      BY <1>2, <1>6, <3>1
    <3>2. ASSUME NEW q \in 1..Len(new), added'[p] = new[q]
          PROVE  added'[p] <= used'
      BY <3>2
    <3> QED
      BY <1>4, <3>1, <3>2
  <2>2. ASSUME NEW q \in 1..Len(added'), added'[p] = added'[q]
        PROVE  p = q
    <3>1. CASE /\ p \in 1..Len(added) /\ added'[p] = added[p]
               /\ q \in 1..Len(added) /\ added'[q] = added[q]
      BY <1>1, <1>5, <2>2, <3>1 DEF SessionInv
    <3>2. ASSUME NEW g \in 1..Len(new), NEW h \in 1..Len(added),
                 new[g] = added[h]
          PROVE  FALSE
      <4>1. used < new[g] /\ added[h] <= used /\ new[g] \in Nat
        BY <1>6
      <4>2. used \in Nat
        BY <1>2
      <4> QED
        BY <3>2, <4>1, <4>2
    <3>3. ASSUME NEW g \in 1..Len(new), NEW h \in 1..Len(new),
                 p = Len(added) + g, added'[p] = new[g],
                 q = Len(added) + h, added'[q] = new[h]
          PROVE  p = q
      <4>1. g = h
        BY <2>2, <3>3
      <4> QED
        BY <3>3, <4>1
    <3>4. CASE p \in 1..Len(added) /\ added'[p] = added[p]
      <4>1. q \in 1..Len(added) /\ added'[q] = added[q]
        <5> SUFFICES ASSUME ~ (q \in 1..Len(added) /\ added'[q] = added[q])
                     PROVE  FALSE
          OBVIOUS
        <5>1. PICK h \in 1..Len(new) : added'[q] = new[h]
          BY <1>4
        <5> QED
          BY <2>2, <3>2, <3>4, <5>1
      <4> QED
        BY <3>1, <3>4, <4>1
    <3>5. ASSUME NEW g \in 1..Len(new), p = Len(added) + g, added'[p] = new[g]
          PROVE  p = q
      <4>1. ~ (q \in 1..Len(added) /\ added'[q] = added[q])
        BY <2>2, <3>2, <3>5
      <4>2. PICK h \in 1..Len(new) : q = Len(added) + h /\ added'[q] = new[h]
        BY <1>4, <4>1
      <4> QED
        BY <3>3, <3>5, <4>2
    <3> QED
      BY <1>4, <3>4, <3>5
  <2>3. ASSUME NEW n \in latest, NEW j \in 1..Len(docs[n])
        PROVE  added'[p] # docs[n][j]
    <3>1. docs[n][j] <= used /\ docs[n][j] \in Nat
      <4>1. Known(latest) /\ docs[n] \in Seq(Docs)
        BY <1>2 DEF Inv, LatestInv
      <4>2. docs[n][j] \in Docs
        BY <4>1
      <4> QED
        BY <1>2, <4>1, <4>2 DEF Known
    <3>2. CASE p \in 1..Len(added) /\ added'[p] = added[p]
      BY <1>5, <3>2 DEF SessionInv
    <3>3. ASSUME NEW q \in 1..Len(new), added'[p] = new[q]
          PROVE  added'[p] # docs[n][j]
      <4>1. used < new[q] /\ new[q] \in Nat
        BY <1>6
      <4>2. used \in Nat
        BY <1>2
      <4>3. new[q] # docs[n][j]
        BY <3>1, <4>1, <4>2
      <4> QED
        BY <3>3, <4>3
    <3> QED
      BY <1>4, <3>2, <3>3
  <2> QED
    BY <2>1, <2>2, <2>3
<1>8. SessionInv'
  BY <1>1, <1>5, <1>7 DEF SessionInv
<1>9. TypeOK'
  BY <1>1, <1>3 DEF Inv, TypeOK
<1>10. Inv'
  <2>1. used <= used' /\ used' \in Nat
    BY <1>2
  <2> QED
    BY <1>8, <1>9, <2>1, SessionFrame DEF Inv
<1>11. Store!Add(ToSet(new))
  <2>1. Live(latest)' = Live(latest)
    BY <1>1 DEF Live, Deletions, Addressing, DocMax
  <2>2. ToSet(added)' = ToSet(added) \cup ToSet(new)
    <3>1. /\ \A y : y \in ToSet(added') <=>
                     \E p \in 1..Len(added') : y = added'[p]
          /\ \A y : y \in ToSet(added) <=>
                     \E p \in 1..Len(added) : y = added[p]
          /\ \A y : y \in ToSet(new) <=> \E p \in 1..Len(new) : y = new[p]
      <4>1. \A y : y \in ToSet(added') <=>
                   \E p \in 1..Len(added') : y = added'[p]
        <5>1. \A s \in Seq(Docs) : \A y :
                  y \in ToSet(s) <=> \E p \in 1..Len(s) : y = s[p]
          BY ToSetIs
        <5>2. added' \in Seq(Docs)
          BY <1>3
        <5> QED
          BY <5>1, <5>2
      <4>2. \A y : y \in ToSet(added) <=>
                   \E p \in 1..Len(added) : y = added[p]
        BY <1>2, ToSetIs
      <4>3. \A y : y \in ToSet(new) <=> \E p \in 1..Len(new) : y = new[p]
        BY ToSetIs
      <4> QED
        BY <4>1, <4>2, <4>3
    <3>2. ASSUME NEW y \in ToSet(added')
          PROVE  y \in ToSet(added) \cup ToSet(new)
      <4>1. PICK p \in 1..Len(added') : y = added'[p]
        BY <3>1
      <4> QED
        BY <1>4, <3>1, <4>1
    <3>3. ASSUME NEW y \in ToSet(added)
          PROVE  y \in ToSet(added')
      <4>1. PICK p \in 1..Len(added) : y = added[p]
        BY <3>1
      <4>2. p \in 1..Len(added') /\ y = added'[p]
        BY <1>2, <1>3, <4>1
      <4> QED
        BY <3>1, <4>2
    <3>4. ASSUME NEW y \in ToSet(new)
          PROVE  y \in ToSet(added')
      <4>1. PICK p \in 1..Len(new) : y = new[p]
        BY <3>1
      <4>2. Len(added) + p \in 1..Len(added') /\ y = added'[Len(added) + p]
        BY <1>2, <1>3, <4>1
      <4> QED
        BY <3>1, <4>2
    <3> QED
      BY <3>2, <3>3, <3>4
  <2>3. Draft' = Draft \cup ToSet(new)
    BY <1>1, <2>2, LiveIs DEF Draft, DocMax
  <2> QED
    BY <1>1, <2>1, <2>3 DEF Store!Add
<1> QED
  BY <1>10, <1>11

LEMMA AddDocKeeps ==
    ASSUME Inv, AddDoc
    PROVE  Inv' /\ \E new \in SUBSET Docs : Store!Add(new)
<1> DEFINE new == <<used + 1>>
<1>1. used \in Nat /\ used < MaxDocs /\ MaxDocs \in Nat /\ used' = used + 1
  BY BoundsAssumption DEF Inv, TypeOK, AddDoc
<1>2. used + 1 \in Docs
  BY <1>1 DEF Docs
<1>3. /\ new \in Seq(Docs) /\ Len(new) = 1 /\ new[1] = used + 1
      /\ ToSet(new) \in SUBSET Docs
  BY <1>2 DEF ToSet
<1>4. added' = added \o new
  BY <1>2 DEF Inv, TypeOK, AddDoc
<1>5. fields' \subseteq Fields
  <2>1. Field(used + 1) \in Fields
    BY <1>2, FieldAssumption DEF Field
  <2> QED
    BY <2>1 DEF Inv, TypeOK, AddDoc
<1>6. /\ open
      /\ UNCHANGED <<store, open, view, mine, bits, updated, merger>>
  BY DEF AddDoc
<1>7. \A p \in 1..Len(new) : p = 1
  BY <1>3
<1>8. /\ \A p \in 1..Len(new) : used < new[p] /\ new[p] <= used'
      /\ \A p, q \in 1..Len(new) : new[p] = new[q] => p = q
  BY <1>1, <1>3, <1>7
<1>9. used <= used' /\ used' \in 0..MaxDocs
  BY <1>1
<1> HIDE DEF new
<1>10. Inv' /\ Store!Add(ToSet(new))
  BY <1>3, <1>4, <1>5, <1>6, <1>8, <1>9, AddingKeeps
<1> QED
  BY <1>3, <1>10

LEMMA AddIndexKeeps ==
    ASSUME Inv, NEW gone \in SUBSET {1, 2}, AddIndex(gone)
    PROVE  Inv' /\ \E new \in SUBSET Docs : Store!Add(new)
<1> DEFINE others == <<used + 1, used + 2>>
           new == Kept(others, gone)
<1>1. used \in Nat /\ used + 2 <= MaxDocs /\ MaxDocs \in Nat /\ used' = used + 2
  BY BoundsAssumption DEF Inv, TypeOK, AddIndex
<1>2. used + 1 \in Docs /\ used + 2 \in Docs
  BY <1>1 DEF Docs
<1>3. /\ others \in Seq(Docs) /\ Len(others) = 2
      /\ others[1] = used + 1 /\ others[2] = used + 2
  BY <1>2
<1>4. added' = added \o new
  BY DEF AddIndex
<1>5. fields' \subseteq Fields
  <2>1. \A d \in Docs : Field(d) \in Fields
    BY FieldAssumption DEF Field
  <2>2. ToSet(others) \subseteq Docs
    BY <1>2, <1>3 DEF ToSet
  <2>3. fields' = fields \cup {Field(d) : d \in ToSet(others)}
    BY DEF AddIndex
  <2> HIDE DEF others
  <2> QED
    BY <2>1, <2>2, <2>3 DEF Inv, TypeOK
<1>6. /\ open
      /\ UNCHANGED <<store, open, view, mine, bits, updated, merger>>
  BY DEF AddIndex
<1> HIDE DEF others
<1>7. /\ new \in Seq(Docs) /\ Len(new) = Rank(gone, 2)
      /\ \A i \in (1..2) \ gone : new[Rank(gone, i)] = others[i]
  <2>1. new \in Seq(Docs) /\ Len(new) = Rank(gone, Len(others))
    BY <1>3, KeptFacts
  <2>2. \A i \in (1..Len(others)) \ gone : new[Rank(gone, i)] = others[i]
    BY <1>3, KeptFacts
  <2> HIDE DEF new
  <2> QED
    BY <1>3, <2>1, <2>2
<1>8. \A p \in 1..Len(new) : \E i \in (1..2) \ gone : Rank(gone, i) = p
  <2>1. 2 \in Nat
    OBVIOUS
  <2> QED
    BY <1>7, <2>1, RankOnto
<1>9. \A i \in (1..2) \ gone : i = 1 \/ i = 2
  OBVIOUS
<1> HIDE DEF new
<1>10. ASSUME NEW p \in 1..Len(new)
       PROVE  /\ new[p] = used + 1 \/ new[p] = used + 2
              /\ new[p] = used + 1 => p = Rank(gone, 1)
              /\ new[p] = used + 2 => p = Rank(gone, 2)
  <2>1. PICK i \in (1..2) \ gone : Rank(gone, i) = p
    BY <1>8
  <2>2. new[p] = others[i]
    BY <1>7, <2>1
  <2> QED
    BY <1>1, <1>3, <1>9, <2>1, <2>2
<1>11. \A p \in 1..Len(new) : used < new[p] /\ new[p] <= used'
  BY <1>1, <1>10
<1>12. \A p, q \in 1..Len(new) : new[p] = new[q] => p = q
  BY <1>1, <1>10
<1>13. used <= used' /\ used' \in 0..MaxDocs
  BY <1>1
<1>14. ToSet(new) \in SUBSET Docs
  BY <1>7 DEF ToSet
<1>15. Inv' /\ Store!Add(ToSet(new))
  BY <1>4, <1>5, <1>6, <1>7, <1>11, <1>12, <1>13, AddingKeeps
<1> QED
  BY <1>14, <1>15

\* The session's own bit vectors are as good as those it has started from.
LEMMA SessionSound ==
    ASSUME Inv, open
    PROVE  /\ Sound(docs, view, bits)
           /\ view \subseteq latest /\ view \in SUBSET Segs
           /\ \A n \in view : /\ GoneIn(dels, latest, n) \subseteq bits[n]
                              /\ bits[n] \subseteq 1..Len(docs[n])
<1>1. SessionInv /\ LatestInv /\ latest \subseteq Segs
  BY DEF Inv, TypeOK
<1>2. view \subseteq latest
  BY <1>1 DEF SessionInv
<1>3. \A n \in view : /\ GoneIn(dels, latest, n) \subseteq bits[n]
                      /\ bits[n] \subseteq 1..Len(docs[n])
  BY <1>1 DEF SessionInv
<1>4. \A n, m \in latest :
         \A i \in (1..Len(docs[n])) \ GoneIn(dels, latest, n),
            j \in (1..Len(docs[m])) \ GoneIn(dels, latest, m) :
               docs[n][i] = docs[m][j] => n = m /\ i = j
  BY <1>1 DEF LatestInv, SoundList, Sound, Vectors
<1>5. ASSUME NEW n \in view, NEW m \in view,
             NEW i \in (1..Len(docs[n])) \ bits[n],
             NEW j \in (1..Len(docs[m])) \ bits[m],
             docs[n][i] = docs[m][j]
      PROVE  n = m /\ i = j
  <2>1. n \in latest /\ m \in latest
    BY <1>2
  <2>2. i \in (1..Len(docs[n])) \ GoneIn(dels, latest, n)
    BY <1>3
  <2>3. j \in (1..Len(docs[m])) \ GoneIn(dels, latest, m)
    BY <1>3
  <2> QED
    BY <1>4, <1>5, <2>1, <2>2, <2>3
<1> QED
  BY <1>1, <1>2, <1>3, <1>5 DEF Sound

\* Documents of the view are marked as deleted.
LEMMA DeletingKeeps ==
    ASSUME Inv, open, NEW hit, NEW matching \in SUBSET Docs,
           \A n \in view : hit[n] \subseteq 1..Len(docs[n]),
           \A n \in view : \A i \in (1..Len(docs[n])) \ bits[n] :
               i \in hit[n] <=> docs[n][i] \in matching,
           bits' = [n \in view |-> bits[n] \cup hit[n]],
           updated' \subseteq view, updated \subseteq updated',
           \A n \in view \ updated' : hit[n] \subseteq bits[n],
           UNCHANGED <<store, used, open, view, mine, added, fields, merger>>
    PROVE  Inv' /\ Store!Delete(matching)
<1>1. /\ docs' = docs /\ dels' = dels /\ latest' = latest /\ commits' = commits
      /\ schema' = schema /\ mpc' = mpc /\ mview' = mview /\ cutoff' = cutoff
      /\ mcommits' = mcommits /\ mschema' = mschema /\ docMaps' = docMaps
      /\ open' = open /\ view' = view /\ mine' = mine /\ added' = added
      /\ used' = used /\ fields' = fields
  BY DEF store, merger
<1>2. /\ view \subseteq latest /\ view \in SUBSET Segs
      /\ \A n \in view : /\ GoneIn(dels, latest, n) \subseteq bits[n]
                         /\ bits[n] \subseteq 1..Len(docs[n])
  BY SessionSound
<1>3. \A n \in view : /\ bits'[n] = bits[n] \cup hit[n]
                      /\ bits'[n] \subseteq 1..Len(docs[n])
                      /\ bits'[n] \in SUBSET Nat
  BY <1>2
<1>4. \A n \in view :
         n \notin updated' => bits'[n] = bits[n] /\ n \notin updated
  BY <1>3
<1>5. SessionInv /\ used \in Nat
  BY BoundsAssumption DEF Inv, TypeOK
<1>6. SessionInv'
  <2>1. ASSUME NEW n \in view
        PROVE  /\ GoneIn(dels, latest, n) \subseteq bits'[n]
               /\ bits'[n] \subseteq 1..Len(docs[n])
               /\ n \notin updated' => bits'[n] = GoneIn(dels, latest, n)
    <3>1. n \notin updated => bits[n] = GoneIn(dels, latest, n)
      BY <1>5 DEF SessionInv
    <3> QED
      BY <1>2, <1>3, <1>4, <3>1
  <2> QED
    BY <1>1, <1>5, <2>1 DEF SessionInv
<1>7. TypeOK'
  <2>1. bits' \in [view -> SUBSET Nat]
    BY <1>3
  <2> QED
    BY <1>1, <2>1 DEF Inv, TypeOK
<1>8. Inv'
  <2>1. used <= used' /\ used' \in Nat
    BY <1>1, <1>5
  <2> QED
    BY <1>6, <1>7, <2>1, SessionFrame DEF Inv
<1>9. Store!Delete(matching)
  <2>1. Live(latest)' = Live(latest)
    BY <1>1 DEF Live, Deletions, Addressing, DocMax
  <2>2. /\ Live(latest) = Found(docs, latest, Vectors(dels, latest))
        /\ Draft = ToSet(added) \cup Found(docs, view, bits)
        /\ Draft' = ToSet(added) \cup Found(docs, view, bits')
    <3>1. Draft' = ToSet(added) \cup Found(docs, view, bits')
      BY <1>1 DEF Draft, Found, DocMax
    <3> QED
      BY <3>1, LiveIs
  <2>3. \A y : y \in Live(latest) <=>
               \E n \in latest :
                  \E i \in (1..Len(docs[n])) \ GoneIn(dels, latest, n) :
                     y = docs[n][i]
    BY <2>2 DEF Found, Vectors
  <2>4. \A y : y \in Found(docs, view, bits) <=>
               \E n \in view : \E i \in (1..Len(docs[n])) \ bits[n] :
                   y = docs[n][i]
    BY DEF Found
  <2>5. \A y : y \in Found(docs, view, bits') <=>
               \E n \in view : \E i \in (1..Len(docs[n])) \ bits'[n] :
                   y = docs[n][i]
    BY DEF Found
  <2>6. ASSUME NEW y \in ToSet(added)
        PROVE  y \notin Live(latest)
    <3>1. PICK p \in 1..Len(added) : y = added[p]
      <4>1. added \in Seq(Docs)
        BY DEF Inv, TypeOK
      <4> QED
        BY <4>1, ToSetIs
    <3>2. \A n \in latest : \A j \in 1..Len(docs[n]) : y # docs[n][j]
      BY <1>5, <3>1 DEF SessionInv
    <3> QED
      BY <2>3, <3>2
  <2>7. ASSUME NEW y \in Found(docs, view, bits)
        PROVE  y \in Live(latest)
    <3>1. PICK n \in view :
                   \E i \in (1..Len(docs[n])) \ bits[n] : y = docs[n][i]
      BY <2>4
    <3>2. PICK i \in (1..Len(docs[n])) \ bits[n] : y = docs[n][i]
      BY <3>1
    <3>3. n \in latest /\ i \in (1..Len(docs[n])) \ GoneIn(dels, latest, n)
      BY <1>2
    <3> QED
      BY <2>3, <3>2, <3>3
  <2>8. \A n \in view : \A i :
           i \in (1..Len(docs[n])) \ bits'[n] <=>
               /\ i \in (1..Len(docs[n])) \ bits[n]
               /\ docs[n][i] \notin matching
    BY <1>3
  <2>9. Found(docs, view, bits') = Found(docs, view, bits) \ matching
    <3>1. ASSUME NEW y \in Found(docs, view, bits')
          PROVE  y \in Found(docs, view, bits) \ matching
      <4>1. PICK n \in view :
                     \E i \in (1..Len(docs[n])) \ bits'[n] : y = docs[n][i]
        BY <2>5
      <4>2. PICK i \in (1..Len(docs[n])) \ bits'[n] : y = docs[n][i]
        BY <4>1
      <4>3. i \in (1..Len(docs[n])) \ bits[n] /\ y \notin matching
        BY <2>8, <4>2
      <4> QED
        BY <2>4, <4>2, <4>3
    <3>2. ASSUME NEW y \in Found(docs, view, bits), y \notin matching
          PROVE  y \in Found(docs, view, bits')
      <4>1. PICK n \in view :
                     \E i \in (1..Len(docs[n])) \ bits[n] : y = docs[n][i]
        BY <2>4
      <4>2. PICK i \in (1..Len(docs[n])) \ bits[n] : y = docs[n][i]
        BY <4>1
      <4>3. i \in (1..Len(docs[n])) \ bits'[n]
        BY <2>8, <3>2, <4>2
      <4> QED
        BY <2>5, <4>2, <4>3
    <3> QED
      BY <3>1, <3>2
  <2>10. Draft' = Draft \ (matching \cap Live(latest))
    BY <2>2, <2>6, <2>7, <2>9
  <2> QED
    BY <1>1, <2>1, <2>10 DEF Store!Delete
<1> QED
  BY <1>8, <1>9

LEMMA DeleteMatchingKeeps ==
    ASSUME Inv, NEW t \in Terms, DeleteMatching(t)
    PROVE  Inv' /\ \E matching \in SUBSET Docs : Store!Delete(matching)
<1> DEFINE hit == [n \in view |-> {i \in 1..Len(docs[n]) : docs[n][i] \in t}]
<1>1. t \in SUBSET Docs
  BY TermAssumption
<1>2. /\ open
      /\ bits' = [n \in view |-> bits[n] \cup hit[n]]
      /\ updated' = updated \cup {n \in view : ~ (hit[n] \subseteq bits[n])}
      /\ UNCHANGED <<store, used, open, view, mine, added, fields, merger>>
  BY DEF DeleteMatching, DocMax
<1>3. \A n \in view : hit[n] = {i \in 1..Len(docs[n]) : docs[n][i] \in t}
  OBVIOUS
<1> HIDE DEF hit
<1>4. /\ \A n \in view : hit[n] \subseteq 1..Len(docs[n])
      /\ \A n \in view : \A i \in (1..Len(docs[n])) \ bits[n] :
             i \in hit[n] <=> docs[n][i] \in t
  BY <1>3
<1>5. /\ updated' \subseteq view /\ updated \subseteq updated'
      /\ \A n \in view \ updated' : hit[n] \subseteq bits[n]
  BY <1>2 DEF Inv, TypeOK
<1>6. Inv' /\ Store!Delete(t)
  BY <1>1, <1>2, <1>4, <1>5, DeletingKeeps
<1> QED
  BY <1>1, <1>6

LEMMA DeleteByDocIDKeeps ==
    ASSUME Inv, NEW id \in 1..DocsUpTo(view, MaxSeg), DeleteByDocID(id)
    PROVE  Inv' /\ \E matching \in SUBSET Docs : Store!Delete(matching)
<1> DEFINE n == SubTick(view, id)
           i == id - Start(view, n)
           hit == [m \in view |-> IF m = n THEN {i} ELSE {}]
           d == docs[n][i]
<1>1. /\ open /\ i \notin bits[n]
      /\ bits' = [bits EXCEPT ![n] = @ \cup {i}]
      /\ updated' = updated \cup {n}
      /\ UNCHANGED <<store, used, open, view, mine, added, fields, merger>>
  BY DEF DeleteByDocID
<1>2. /\ \A m \in Segs : docs[m] \in Seq(Docs)
      /\ bits \in [view -> SUBSET Nat] /\ updated \subseteq view
  BY DEF Inv, TypeOK
<1>3. /\ Sound(docs, view, bits) /\ view \in SUBSET Segs
  BY <1>1, SessionSound
<1>4. n \in view /\ i \in 1..Len(docs[n])
  <2>1. \A m \in Segs : Len(docs[m]) \in Nat
    BY <1>2
  <2> QED
    BY <1>3, <2>1, SubTickFacts
<1> HIDE DEF n, i
<1>5. d \in Docs
  <2>1. docs[n] \in Seq(Docs)
    BY <1>2, <1>3, <1>4
  <2> QED
    BY <1>4, <2>1
<1>6. /\ \A m \in view : hit[m] \subseteq 1..Len(docs[m])
      /\ bits' = [m \in view |-> bits[m] \cup hit[m]]
      /\ updated' \subseteq view /\ updated \subseteq updated'
      /\ \A m \in view \ updated' : hit[m] \subseteq bits[m]
  BY <1>1, <1>2, <1>4
<1>7. ASSUME NEW m \in view, NEW j \in (1..Len(docs[m])) \ bits[m]
      PROVE  j \in hit[m] <=> docs[m][j] \in {d}
  <2>1. docs[m][j] = docs[n][i] => m = n /\ j = i
    BY <1>1, <1>3, <1>4 DEF Sound
  <2> QED
    BY <2>1
<1> HIDE DEF hit, d
<1>8. {d} \in SUBSET Docs
  BY <1>5
<1>9. Inv' /\ Store!Delete({d})
  BY <1>1, <1>6, <1>7, <1>8, DeletingKeeps
<1> QED
  BY <1>8, <1>9

\* The session is over and has changed nothing.
LEMMA EndKeeps ==
    ASSUME Inv, open, EndSession, UNCHANGED <<store, used, merger>>
    PROVE  Inv' /\ Store!Abandon
<1>1. /\ docs' = docs /\ dels' = dels /\ latest' = latest /\ commits' = commits
      /\ schema' = schema /\ mpc' = mpc /\ mview' = mview /\ cutoff' = cutoff
      /\ mcommits' = mcommits /\ mschema' = mschema /\ docMaps' = docMaps
      /\ ~open' /\ open' = FALSE /\ view' = {} /\ mine' = 0 /\ added' = <<>>
      /\ bits' = <<>> /\ updated' = {} /\ fields' = {} /\ used' = used
  BY DEF store, merger, EndSession
<1>2. TypeOK'
  <2>1. bits' \in [view' -> SUBSET Nat] /\ added' \in Seq(Docs)
    BY <1>1
  <2> QED
    BY <1>1, <2>1 DEF Inv, TypeOK
<1>3. SessionInv'
  BY <1>1 DEF SessionInv
<1>4. used <= used' /\ used' \in Nat
  BY <1>1, BoundsAssumption DEF Inv, TypeOK
<1>5. Inv'
  BY <1>2, <1>3, <1>4, SessionFrame DEF Inv
<1>6. Live(latest)' = Live(latest)
  BY <1>1 DEF Live, Deletions, Addressing, DocMax
<1>7. Draft' = {}
  BY <1>1 DEF Draft
<1> QED
  BY <1>1, <1>5, <1>6, <1>7 DEF Store!Abandon

\* The session's segment takes the place of those that it recycles.
LEMMA CommitKeeps ==
    ASSUME Inv, NEW order \in SetToAllKPermutations(Recyclable), IxCommit(order)
    PROVE  Inv' /\ Store!Commit
<1> DEFINE M == ToSet(order)
           toWrite == updated \cup Forced(view, M)
           R == (view \ M) \cup {mine}
           x == docs'
           d == dels'
<1>1. /\ open /\ commits < MaxCommits
      /\ docs' = [docs EXCEPT ![mine] = Consolidated(added, order, bits)]
      /\ dels' = [dels EXCEPT ![mine] = Written(view, M, toWrite, bits)]
      /\ latest' = R /\ commits' = commits + 1 /\ schema' = fields
      /\ EndSession
      /\ used' = used /\ mpc' = mpc /\ mview' = mview /\ cutoff' = cutoff
      /\ mcommits' = mcommits /\ mschema' = mschema /\ docMaps' = docMaps
  BY DEF IxCommit, merger
<1>2. /\ docs \in [Segs -> Seq(Docs)] /\ dels = [n \in Segs |-> dels[n]]
      /\ \A n \in Segs : /\ DOMAIN dels[n] \subseteq Segs
                         /\ dels[n] \in [DOMAIN dels[n] -> SUBSET Nat]
      /\ latest \in SUBSET Segs /\ bits \in [view -> SUBSET Nat]
      /\ added \in Seq(Docs) /\ updated \subseteq view
      /\ mview \in SUBSET Segs /\ Merged \subseteq mview
      /\ PointBack /\ SessionInv /\ LatestInv /\ MergerInv /\ MergedInv
  BY DEF Inv, TypeOK, Merged
<1>3. /\ Sound(docs, view, bits)
      /\ view \in SUBSET Segs /\ view \subseteq latest
      /\ \A n \in view : /\ GoneIn(dels, latest, n) \subseteq bits[n]
                         /\ bits[n] \subseteq 1..Len(docs[n])
  BY <1>1, SessionSound
<1>4. /\ view \in {latest, {}}
      /\ mine \in Segs /\ mine > cutoff /\ \A n \in latest : n < mine
      /\ \A n \in view : n \notin updated => bits[n] = GoneIn(dels, latest, n)
      /\ \A i \in 1..Len(added) :
             /\ added[i] <= used
             /\ \A j \in 1..Len(added) : added[i] = added[j] => i = j
             /\ \A n \in latest : \A j \in 1..Len(docs[n]) :
                    added[i] # docs[n][j]
  BY <1>1, <1>2 DEF SessionInv
<1>5. /\ \A n \in Segs : n \in Nat
      /\ cutoff \in Segs \cup {0} /\ cutoff \in Nat
  BY DEF Segs, Inv, TypeOK
<1>6. mine \notin latest /\ mine \notin view /\ mine # cutoff
  BY <1>2, <1>3, <1>4, <1>5
<1>7. /\ order \in SetToAllKPermutations(view)
      /\ M \in SUBSET view /\ \A n \in M : mpc # "idle" => n > cutoff
  <2>1. Recyclable \in SUBSET view
    BY DEF Recyclable
  <2>2. Recyclable \in SUBSET Segs
    BY <1>3, <2>1
  <2>3. M \in SUBSET Recyclable
    BY <2>2, OrderFacts
  <2>4. order \in SetToAllKPermutations(view)
    BY <2>1 DEF SetToAllKPermutations
  <2>5. \A n \in Recyclable : mpc # "idle" => n > cutoff
    BY DEF Recyclable
  <2> QED
    BY <2>1, <2>3, <2>4, <2>5
<1>8. toWrite \in SUBSET view
  BY <1>2 DEF Forced
<1>9. /\ x[mine] = Consolidated(added, order, bits)
      /\ d[mine] = Written(view, M, toWrite, bits)
      /\ \A n \in Segs : n # mine => x[n] = docs[n] /\ d[n] = dels[n]
  BY <1>1, <1>2, <1>4
<1>10. /\ DOMAIN d[mine] \subseteq toWrite
       /\ d[mine] = [t \in DOMAIN d[mine] |-> bits[t]]
  BY <1>9 DEF Written
<1> HIDE DEF x, d, M, R, toWrite
\* What is deleted in the new snapshot, and what it holds.
<1>11. /\ \A t \in view \ M : GoneIn(d, R, t) = bits[t]
       /\ GoneIn(d, R, mine) = {}
  <2>1. \A n \in view : n < mine
    BY <1>3, <1>4
  <2>2. ASSUME NEW t \in view \ toWrite
        PROVE  bits[t] = GoneIn(dels, view, t)
    <3>1. view = latest /\ t \notin updated
      BY <1>4 DEF toWrite
    <3> QED
      BY <1>4, <3>1
  <2>3. Forced(view, M) \subseteq toWrite
    BY DEF toWrite
  <2>4. \A n \in view : d[n] = dels[n]
    BY <1>3, <1>6, <1>9
  <2>5. PointBack /\ view \in SUBSET Segs /\ mine \in Segs
    BY <1>2, <1>3, <1>4
  <2>6. /\ M \in SUBSET view /\ toWrite \in SUBSET view
        /\ d[mine] = Written(view, M, toWrite, bits)
    BY <1>7, <1>8, <1>9
  <2>7. /\ \A t \in view \ M : GoneIn(d, (view \ M) \cup {mine}, t) = bits[t]
        /\ GoneIn(d, (view \ M) \cup {mine}, mine) = {}
    BY <2>1, <2>2, <2>3, <2>4, <2>5, <2>6, RewriteFacts
  <2> QED
    BY <2>7 DEF R
<1> DEFINE W == Vectors(d, R)
<1>12. /\ W[mine] = {} /\ \A t \in view \ M : W[t] = bits[t]
       /\ \A n \in R : W[n] = GoneIn(d, R, n)
  BY <1>11 DEF R, Vectors
<1> HIDE DEF W
<1>13. /\ x[mine] \in Seq(Docs)
       /\ Sound(x, R, W)
       /\ Found(x, R, W) = ToSet(added) \cup Found(docs, view, bits)
       /\ \A p \in 1..Len(x[mine]) :
             \/ \E i \in 1..Len(added) : x[mine][p] = added[i]
             \/ \E n \in view : \E i \in 1..Len(docs[n]) :
                    x[mine][p] = docs[n][i]
  <2>1. /\ \A n \in Segs : docs[n] \in Seq(Docs)
        /\ \A i, j \in 1..Len(added) : added[i] = added[j] => i = j
        /\ \A i \in 1..Len(added) : \A n \in view : \A j \in 1..Len(docs[n]) :
               added[i] # docs[n][j]
        /\ \A n \in view : x[n] = docs[n]
    BY <1>2, <1>3, <1>4, <1>6, <1>9
  <2>2. \A t \in view \ ToSet(order) : W[t] = bits[t]
    BY <1>12 DEF M
  <2>3. /\ view \in SUBSET Segs /\ Sound(docs, view, bits)
        /\ added \in Seq(Docs) /\ mine \in Segs /\ mine \notin view
    BY <1>2, <1>3, <1>4, <1>6
  <2>4. /\ order \in SetToAllKPermutations(view)
        /\ x[mine] = Consolidated(added, order, bits) /\ W[mine] = {}
    BY <1>7, <1>9, <1>12
  <2>5. Gathers(x, mine, added, ToSet(order), view, bits, W)
    BY <2>1, <2>2, <2>3, <2>4, ContentFacts
  <2> QED
    BY <2>5 DEF M, R, Gathers
<1>14. R \in SUBSET Segs /\ \A n \in R : n = mine \/ (n \in latest /\ n \notin M
                                                      /\ n \in view)
  BY <1>3, <1>4 DEF R
<1>15. /\ open' = FALSE /\ view' = {} /\ mine' = 0 /\ added' = <<>>
       /\ bits' = <<>> /\ updated' = {} /\ fields' = {}
       /\ docs' = x /\ dels' = d
  BY <1>1 DEF EndSession, x, d
<1>16. TypeOK'
  <2>1. x \in [Segs -> Seq(Docs)]
    <3>1. x = [docs EXCEPT ![mine] = x[mine]]
      BY <1>1, <1>2, <1>9 DEF x
    <3> QED
      BY <1>2, <1>13, <3>1
  <2>2. d = [n \in Segs |-> d[n]]
    BY <1>1, <1>2 DEF d
  <2>3. \A n \in Segs : /\ DOMAIN d[n] \subseteq Segs
                        /\ d[n] \in [DOMAIN d[n] -> SUBSET Nat]
    <3>1. DOMAIN d[mine] \subseteq Segs
      BY <1>3, <1>8, <1>10
    <3>2. \A t \in DOMAIN d[mine] : bits[t] \in SUBSET Nat
      BY <1>2, <1>8, <1>10
    <3>3. d[mine] \in [DOMAIN d[mine] -> SUBSET Nat]
      BY <1>10, <3>2
    <3> QED
      BY <1>2, <1>9, <3>1, <3>3
  <2>4. commits' \in 0..MaxCommits /\ schema' \subseteq Fields
    BY <1>1, BoundsAssumption DEF Inv, TypeOK
  <2>5. bits' \in [view' -> SUBSET Nat] /\ added' \in Seq(Docs)
    BY <1>15
  <2> QED
    BY <1>1, <1>14, <1>15, <2>1, <2>2, <2>3, <2>4, <2>5 DEF Inv, TypeOK
<1>17. PointBack'
  <2>1. ASSUME NEW m \in Segs, NEW t \in DOMAIN d[m]
        PROVE  t < m
    <3>1. CASE m = mine
      BY <1>3, <1>4, <1>8, <1>10, <3>1
    <3>2. CASE m # mine
      BY <1>2, <1>9, <3>2 DEF PointBack
    <3> QED
      BY <3>1, <3>2
  <2> QED
    BY <1>15, <2>1 DEF PointBack
<1>18. LatestInv'
  <2>1. ASSUME NEW n \in R, NEW i \in 1..Len(x[n])
        PROVE  x[n][i] <= used
    <3>1. \A m \in latest : \A j \in 1..Len(docs[m]) : docs[m][j] <= used
      BY <1>2 DEF LatestInv, Known
    <3>2. CASE n = mine
      <4>1. ASSUME NEW m \in view, NEW j \in 1..Len(docs[m]),
                   x[n][i] = docs[m][j]
            PROVE  x[n][i] <= used
        BY <1>3, <3>1, <4>1
      <4> QED
        BY <1>4, <1>13, <3>2, <4>1
    <3>3. CASE n # mine
      BY <1>9, <1>14, <3>1, <3>3
    <3> QED
      BY <3>2, <3>3
  <2>2. Sound(x, R, Vectors(d, R))
    BY <1>13 DEF W
  <2> QED
    BY <1>1, <1>15, <2>1, <2>2 DEF LatestInv, SoundList, Known
<1>19. SessionInv'
  BY <1>15 DEF SessionInv
<1>20. ASSUME mpc # "idle"
       PROVE  /\ cutoff \in Segs /\ mine \notin mview /\ mine \notin MList
              /\ MList \in SUBSET Segs
  BY <1>2, <1>4, <1>5, <1>6, <1>20 DEF MergerInv, MList
\* What the merger has to do with is as it was.
<1>21. ASSUME NEW L \in SUBSET Segs, mine \notin L
       PROVE  /\ \A t : GoneIn(d, L, t) = GoneIn(dels, L, t)
              /\ SoundList(L) => Sound(x, L, Vectors(d, L))
  <2>1. \A n \in L : x[n] = docs[n] /\ d[n] = dels[n]
    BY <1>9, <1>21
  <2> QED
    BY <2>1, FrameFacts
<1>22. MergerInv'
  <2> SUFFICES ASSUME mpc # "idle"
               PROVE  /\ cutoff \in Segs /\ cutoff \notin R
                      /\ \A n \in mview : n < cutoff
                      /\ Sound(x, mview, Vectors(d, mview))
                      /\ \A n \in mview : \A i \in 1..Len(x[n]) :
                             x[n][i] <= used
                      /\ mcommits <= commits' /\ commits' # mcommits
                      /\ {n \in R : n < cutoff} \in {mview, {}}
                      /\ \A m \in R : m > cutoff =>
                            /\ cutoff \notin DOMAIN d[m]
                            /\ \A n \in mview \cap DOMAIN d[m] :
                                  GoneIn(d, mview, n) \subseteq d[m][n]
    BY <1>1, <1>15 DEF MergerInv, SoundList, Known
  <2>1. /\ cutoff \in Segs /\ cutoff \notin latest
        /\ \A n \in mview : n < cutoff
        /\ SoundList(mview) /\ Known(mview)
        /\ mcommits <= commits
        /\ {n \in latest : n < cutoff} \in {mview, {}}
        /\ \A m \in latest : m > cutoff =>
               /\ cutoff \notin DOMAIN dels[m]
               /\ \A n \in mview \cap DOMAIN dels[m] :
                      GoneIn(dels, mview, n) \subseteq dels[m][n]
    BY <1>2 DEF MergerInv
  <2>2. cutoff \notin R
    BY <1>6, <1>14, <2>1
  <2>3. Sound(x, mview, Vectors(d, mview))
    BY <1>2, <1>20, <1>21, <2>1
  <2>4. \A n \in mview : \A i \in 1..Len(x[n]) : x[n][i] <= used
    BY <1>2, <1>9, <1>20, <2>1 DEF Known
  <2>5. mcommits <= commits' /\ commits' # mcommits
    BY <1>1, <2>1 DEF Inv, TypeOK
  <2>6. {n \in R : n < cutoff} \in {mview, {}}
    <3>1. {n \in R : n < cutoff} = {n \in view : n < cutoff}
      <4>1. ASSUME NEW n \in M
            PROVE  ~ (n < cutoff)
        <5>1. n > cutoff /\ n \in Segs
          BY <1>3, <1>7
        <5>2. n \in Nat /\ cutoff \in Nat
          BY <1>5, <5>1
        <5> QED
          BY <5>1, <5>2
      <4>2. ~ (mine < cutoff)
        <5>1. mine > cutoff /\ mine \in Segs
          BY <1>4
        <5>2. mine \in Nat /\ cutoff \in Nat
          BY <1>5, <5>1
        <5> QED
          BY <5>1, <5>2
      <4> QED
        BY <4>1, <4>2 DEF R
    <3> QED
      BY <1>4, <2>1, <3>1
  <2>7. ASSUME NEW m \in R, m > cutoff
        PROVE  /\ cutoff \notin DOMAIN d[m]
               /\ \A n \in mview \cap DOMAIN d[m] :
                     GoneIn(d, mview, n) \subseteq d[m][n]
    <3>1. \A t : GoneIn(d, mview, t) = GoneIn(dels, mview, t)
      BY <1>2, <1>20, <1>21
    <3>2. CASE m # mine
      <4>1. m \in latest /\ d[m] = dels[m]
        BY <1>9, <1>14, <3>2
      <4> QED
        BY <2>1, <2>7, <3>1, <4>1
    <3>3. CASE m = mine
      <4>1. cutoff \notin DOMAIN d[mine]
        BY <1>3, <1>8, <1>10, <2>1
      <4>2. ASSUME NEW n \in mview, n \in DOMAIN d[mine]
            PROVE  GoneIn(dels, mview, n) \subseteq d[mine][n]
        <5>1. n \in view /\ n \in latest /\ d[mine][n] = bits[n]
          BY <1>3, <1>8, <1>10, <4>2
        <5>2. n \in {l \in latest : l < cutoff}
          BY <2>1, <5>1
        <5>3. mview \subseteq latest
          BY <2>1, <5>2
        <5>4. Untruncated
          BY <5>3 DEF Untruncated
        <5>5. GoneIn(dels, mview, n) \subseteq GoneIn(dels, latest, n)
          BY <5>4, DeletionsGrow
        <5> QED
          BY <1>3, <5>1, <5>5
      <4> QED
        BY <3>1, <3>3, <4>1, <4>2
    <3> QED
      BY <3>2, <3>3
  <2> QED
    BY <2>1, <2>2, <2>3, <2>4, <2>5, <2>6, <2>7
<1>23. MergedInv'
  <2>1. Merged' = Merged /\ MList' = MList
    BY <1>1 DEF Merged, MList
  <2>2. CASE mpc # "merged"
    BY <1>1, <1>2, <2>1, <2>2 DEF MergedInv
  <2>3. CASE mpc = "merged"
    <3>1. /\ mpc # "idle"
          /\ \A t : GoneIn(d, mview, t) = GoneIn(dels, mview, t)
          /\ \A t : GoneIn(d, MList, t) = GoneIn(dels, MList, t)
      BY <1>2, <1>20, <1>21, <2>3
    <3>2. /\ x[cutoff] = docs[cutoff]
          /\ \A n \in Merged : x[n] = docs[n]
      BY <1>2, <1>6, <1>9, <1>20, <3>1
    <3>3. MergedInv
      BY <1>2
    <3>4. /\ mpc' = mpc /\ docMaps' = docMaps /\ mview' = mview
          /\ cutoff' = cutoff /\ docs' = x /\ dels' = d
      BY <1>1, <1>15
    <3>5. /\ Merged # {}
          /\ \A n \in Merged :
                /\ Len(docMaps[n]) = Len(x[n])
                /\ \A i \in 1..Len(x[n]) :
                      /\ docMaps[n][i] = 0 <=> i \in GoneIn(d, mview, n)
                      /\ docMaps[n][i] # 0 =>
                            /\ docMaps[n][i] \in 1..Len(x[cutoff])
                            /\ x[cutoff][docMaps[n][i]] = x[n][i]
          /\ \A k \in 1..Len(x[cutoff]) :
                \E n \in Merged : \E i \in 1..Len(x[n]) : docMaps[n][i] = k
      BY <2>3, <3>1, <3>2, <3>3 DEF MergedInv
    <3>6. /\ \A t \in mview \ Merged :
                GoneIn(d, MList, t) = GoneIn(d, mview, t)
          /\ GoneIn(d, MList, cutoff) = {}
      BY <2>3, <3>1, <3>3 DEF MergedInv
    <3> HIDE DEF Merged, MList
    <3> QED
      BY <2>1, <2>3, <3>4, <3>5, <3>6 DEF MergedInv
  <2> QED
    BY <2>2, <2>3
<1>24. Inv'
  <2>1. (mpc = "idle" => cutoff = 0)'
    BY <1>1 DEF Inv
  <2> QED
    BY <1>16, <1>17, <1>18, <1>19, <1>22, <1>23, <2>1 DEF Inv
<1>25. Store!Commit
  <2>1. Live(latest)' = Found(x, R, W)
    <3>1. (Live(latest) = Found(docs, latest, Vectors(dels, latest)))'
      BY LiveIs, PTL
    <3> QED
      BY <1>1, <1>15, <3>1 DEF W
  <2>2. Draft = ToSet(added) \cup Found(docs, view, bits)
    BY <1>1, LiveIs
  <2>3. Draft' = {}
    BY <1>15 DEF Draft
  <2> QED
    BY <1>1, <1>13, <1>15, <2>1, <2>2, <2>3 DEF Store!Commit
<1> QED
  BY <1>24, <1>25

-----------------------------------------------------------------------------
(* The invariant is inductive: the BackgroundMerger.                       *)

\* What a merger does behind an index nobody sees, in a segment or a session
\* of its own that it may also give up.
LEMMA HiddenKeeps ==
    ASSUME Inv, UNCHANGED <<latest, commits, schema, used, session>>,
           \A n \in latest : docs'[n] = docs[n] /\ dels'[n] = dels[n],
           cutoff' \in Segs \cup {0}, open => cutoff' \in {cutoff, 0}
    PROVE  LatestInv' /\ SessionInv' /\ UNCHANGED Store!vars
<1> DEFINE x == docs'
           d == dels'
<1>1. /\ latest' = latest /\ commits' = commits /\ schema' = schema
      /\ used' = used /\ open' = open /\ view' = view /\ mine' = mine
      /\ added' = added /\ bits' = bits /\ updated' = updated
      /\ fields' = fields /\ docs' = x /\ dels' = d
  BY DEF session
<1>2. /\ latest \in SUBSET Segs /\ LatestInv /\ SessionInv
      /\ \A n \in latest : x[n] = docs[n] /\ d[n] = dels[n]
  BY DEF Inv, TypeOK
<1> HIDE DEF x, d
<1>3. /\ \A t : GoneIn(d, latest, t) = GoneIn(dels, latest, t)
      /\ Vectors(d, latest) = Vectors(dels, latest)
      /\ SoundList(latest) => Sound(x, latest, Vectors(d, latest))
      /\ \A V : Found(x, latest, V) = Found(docs, latest, V)
  BY <1>2, FrameFacts
<1>4. LatestInv'
  <2>1. \A n \in latest : \A i \in 1..Len(x[n]) : x[n][i] <= used
    BY <1>2 DEF LatestInv, Known
  <2>2. Sound(x, latest, Vectors(d, latest))
    BY <1>2, <1>3 DEF LatestInv
  <2> QED
    BY <1>1, <2>1, <2>2 DEF LatestInv, SoundList, Known
<1>5. SessionInv'
  <2> SUFFICES ASSUME open
               PROVE  SessionInv'
    BY <1>1 DEF SessionInv
  <2>1. /\ view \in {latest, {}}
        /\ mine \in Segs /\ mine > cutoff /\ \A n \in latest : n < mine
        /\ \A n \in view : /\ GoneIn(dels, latest, n) \subseteq bits[n]
                           /\ bits[n] \subseteq 1..Len(docs[n])
                           /\ n \notin updated =>
                                  bits[n] = GoneIn(dels, latest, n)
        /\ \A i \in 1..Len(added) :
               /\ added[i] <= used
               /\ \A j \in 1..Len(added) : added[i] = added[j] => i = j
               /\ \A n \in latest : \A j \in 1..Len(docs[n]) :
                      added[i] # docs[n][j]
    BY <1>2 DEF SessionInv
  <2>2. mine > cutoff'
    <3>1. mine > 0
      BY <2>1 DEF Segs
    <3> QED
      BY <2>1, <3>1
  <2>3. \A n \in view : /\ GoneIn(d, latest, n) \subseteq bits[n]
                        /\ bits[n] \subseteq 1..Len(x[n])
                        /\ n \notin updated => bits[n] = GoneIn(d, latest, n)
    BY <1>2, <1>3, <2>1
  <2>4. \A i \in 1..Len(added) : \A n \in latest : \A j \in 1..Len(x[n]) :
           added[i] # x[n][j]
    BY <1>2, <2>1
  <2> QED
    BY <1>1, <2>1, <2>2, <2>3, <2>4 DEF SessionInv
<1>6. Live(latest)' = Live(latest)
  <2>1. Live(latest)' = Found(x, latest, Vectors(d, latest))
    <3>1. (Live(latest) = Found(docs, latest, Vectors(dels, latest)))'
      BY LiveIs, PTL
    <3> QED
      BY <1>1, <3>1
  <2> QED
    BY <1>3, <2>1, LiveIs
<1>7. Draft' = Draft
  <2>1. Draft' = IF open THEN ToSet(added) \cup Found(x, view, bits) ELSE {}
    <3>1. (Draft = IF open THEN ToSet(added) \cup Found(docs, view, bits)
                   ELSE {})'
      BY LiveIs, PTL
    <3> QED
      BY <1>1, <3>1
  <2>2. open => Found(x, view, bits) = Found(docs, view, bits)
    <3>1. open => \A n \in view : x[n] = docs[n]
      BY <1>2, SessionSound
    <3> QED
      BY <3>1 DEF Found
  <2> QED
    BY <2>1, <2>2, LiveIs
<1> QED
  BY <1>1, <1>4, <1>5, <1>6, <1>7 DEF Store!vars

LEMMA MBeginKeeps ==
    ASSUME Inv, MBegin
    PROVE  Inv' /\ UNCHANGED Store!vars
<1>1. /\ ~open /\ mpc = "idle" /\ Highest(latest) < MaxSeg
      /\ mpc' = "begun" /\ mview' = latest /\ mcommits' = commits
      /\ mschema' = schema /\ cutoff' = Highest(latest) + 1
      /\ docs' = docs /\ dels' = dels /\ latest' = latest
      /\ commits' = commits /\ schema' = schema /\ docMaps' = docMaps
      /\ UNCHANGED <<used, session>>
  BY DEF MBegin, store
<1>2. /\ MaxSeg \in Nat /\ latest \in SUBSET (0..MaxSeg)
      /\ \A n \in Segs : n \in Nat /\ n <= MaxSeg
      /\ latest \in SUBSET Segs
  <2>1. MaxSeg \in Nat /\ \A n \in Segs : n \in 0..MaxSeg
    BY BoundsAssumption DEF Segs
  <2>2. latest \in SUBSET Segs
    BY DEF Inv, TypeOK
  <2> QED
    BY <2>1, <2>2
<1>3. Highest(latest) \in 0..MaxSeg /\ \A m \in latest : m <= Highest(latest)
  BY <1>2, HighestIsHighest
<1>4. cutoff' \in Segs /\ \A n \in latest : n < cutoff'
  BY <1>1, <1>2, <1>3 DEF Segs
<1>5. LatestInv' /\ SessionInv' /\ UNCHANGED Store!vars
  <2>1. UNCHANGED <<latest, commits, schema, used, session>>
    BY <1>1
  <2> QED
    BY <1>1, <1>4, <2>1, HiddenKeeps
<1>6. Merged = {} /\ PointBack /\ LatestInv
  BY <1>1 DEF Inv, MergedInv
<1>7. TypeOK'
  BY <1>1, <1>4, <1>6 DEF Inv, TypeOK, session, Merged
<1>8. PointBack'
  BY <1>1, <1>6 DEF PointBack
<1>9. MergerInv'
  <2>1. /\ cutoff' \in Segs /\ cutoff' \notin latest
        /\ \A m \in latest : ~ (m > cutoff')
        /\ {n \in latest : n < cutoff'} = latest
    <3>1. ASSUME NEW m \in latest
          PROVE  m < cutoff' /\ ~ (m > cutoff') /\ m # cutoff'
      <4>1. m \in Nat /\ cutoff' \in Nat /\ m < cutoff'
        BY <1>2, <1>4
      <4> QED
        BY <4>1
    <3> QED
      BY <1>4, <3>1
  <2>2. SoundList(latest) /\ Known(latest)
    BY <1>6 DEF LatestInv
  <2>3. Sound(docs', mview', Vectors(dels', mview')) /\ used' = used
    BY <1>1, <2>2 DEF SoundList
  <2>4. \A n \in mview' : \A i \in 1..Len(docs'[n]) : docs'[n][i] <= used'
    BY <1>1, <2>2, <2>3 DEF Known
  <2>5. mcommits' <= commits'
    BY <1>1, BoundsAssumption DEF Inv, TypeOK
  <2> QED
    BY <1>1, <1>4, <2>1, <2>3, <2>4, <2>5 DEF MergerInv, SoundList, Known
<1>10. MergedInv'
  BY <1>1, <1>6 DEF MergedInv, Merged
<1> QED
  BY <1>1, <1>5, <1>7, <1>8, <1>9, <1>10 DEF Inv

\* The merger is done, and what it has or has not published is sound.
LEMMA EndMergeFacts ==
    ASSUME EndMerge
    PROVE  /\ MergerInv' /\ MergedInv' /\ (mpc = "idle" => cutoff = 0)'
           /\ mpc' = "idle" /\ mview' = {} /\ mcommits' = 0 /\ mschema' = {}
           /\ cutoff' = 0 /\ docMaps' = <<>>
BY DEF EndMerge, MergerInv, MergedInv, Merged

LEMMA MGiveUpKeeps ==
    ASSUME Inv, MGiveUp
    PROVE  Inv' /\ UNCHANGED Store!vars
<1>1. /\ MergerInv' /\ MergedInv' /\ (mpc = "idle" => cutoff = 0)'
      /\ mpc' = "idle" /\ mview' = {} /\ mcommits' = 0 /\ mschema' = {}
      /\ cutoff' = 0 /\ docMaps' = <<>>
  BY EndMergeFacts DEF MGiveUp
<1>2. /\ docs' = docs /\ dels' = dels
      /\ UNCHANGED <<latest, commits, schema, used, session>>
  BY DEF MGiveUp, store
<1>3. LatestInv' /\ SessionInv' /\ UNCHANGED Store!vars
  BY <1>1, <1>2, HiddenKeeps
<1>4. TypeOK'
  BY <1>1, <1>2, BoundsAssumption DEF Inv, TypeOK, session
<1>5. PointBack'
  BY <1>2 DEF Inv, PointBack
<1> QED
  BY <1>1, <1>3, <1>4, <1>5 DEF Inv

\* A merge puts a segment where no snapshot has one yet.
LEMMA MMergeKeeps ==
    ASSUME Inv, NEW order \in SetToAllKPermutations(mview), MMerge(order)
    PROVE  Inv' /\ UNCHANGED Store!vars
<1> DEFINE M == ToSet(order)
           gone == [n \in mview |-> Deletions(mview, n)]
           R == (mview \ M) \cup {cutoff}
           x == docs'
           d == dels'
           G == Growing(<<>>, order, gone)
           place(n) == CHOOSE k \in DOMAIN order : order[k] = n
           before(n) == Len(G[place(n) - 1])
<1>1. /\ mpc = "begun" /\ order # <<>> /\ mpc' = "merged"
      /\ UNCHANGED <<latest, commits, schema, used, session>>
      /\ mview' = mview /\ mcommits' = mcommits /\ mschema' = mschema
      /\ cutoff' = cutoff
  BY DEF MMerge
<1>2. gone = Vectors(dels, mview)
  BY DeletionsAre DEF Vectors
<1>3. /\ docs' = [docs EXCEPT ![cutoff] = Consolidated(<<>>, order, gone)]
      /\ dels' = [dels EXCEPT ![cutoff] =
                     Written(mview, M, Forced(mview, M), gone)]
      /\ docMaps' = [n \in M |->
                       GenerateDocMap(DocMax(n), gone[n], before(n))]
  BY DEF MMerge
<1>4. /\ docs \in [Segs -> Seq(Docs)] /\ dels = [n \in Segs |-> dels[n]]
      /\ \A n \in Segs : /\ DOMAIN dels[n] \subseteq Segs
                         /\ dels[n] \in [DOMAIN dels[n] -> SUBSET Nat]
      /\ latest \in SUBSET Segs /\ mview \in SUBSET Segs
      /\ PointBack /\ SessionInv /\ LatestInv /\ MergerInv
  BY DEF Inv, TypeOK
<1>5. /\ cutoff \in Segs /\ cutoff \notin latest
      /\ \A n \in mview : n < cutoff
      /\ SoundList(mview) /\ Known(mview)
      /\ mcommits <= commits
      /\ commits = mcommits => latest = mview
      /\ {n \in latest : n < cutoff} \in {mview, {}}
      /\ \A m \in latest : m > cutoff =>
             /\ cutoff \notin DOMAIN dels[m]
             /\ \A n \in mview \cap DOMAIN dels[m] :
                    GoneIn(dels, mview, n) \subseteq dels[m][n]
  BY <1>1, <1>4 DEF MergerInv
<1>6. \A n \in Segs : n \in Nat
  BY DEF Segs
<1>7. cutoff \notin mview
  BY <1>4, <1>5, <1>6
<1>8. /\ order \in Seq(Segs)
      /\ M \in SUBSET mview
      /\ \A k \in 1..Len(order) : order[k] \in M
      /\ \A n \in M : \E k \in 1..Len(order) : order[k] = n
      /\ \A j, k \in 1..Len(order) : order[j] = order[k] => j = k
  BY <1>4, OrderFacts
<1>9. Forced(mview, M) \in SUBSET mview
  BY DEF Forced
<1>10. /\ x[cutoff] = Consolidated(<<>>, order, gone)
       /\ d[cutoff] = Written(mview, M, Forced(mview, M), gone)
       /\ \A n \in Segs : n # cutoff => x[n] = docs[n] /\ d[n] = dels[n]
       /\ docs' = x /\ dels' = d
  BY <1>3, <1>4, <1>5
<1>11. /\ DOMAIN d[cutoff] \subseteq mview
       /\ d[cutoff] = [t \in DOMAIN d[cutoff] |-> gone[t]]
  BY <1>9, <1>10 DEF Written
<1>12. \A n \in mview : /\ gone[n] = GoneIn(dels, mview, n)
                        /\ gone[n] \subseteq 1..Len(docs[n])
                        /\ gone[n] \in SUBSET Nat
                        /\ Len(docs[n]) \in Nat
  <2> HIDE DEF gone
  <2> QED
    BY <1>2, <1>4, <1>5 DEF SoundList, Sound, Vectors
<1>13. \A n \in mview : x[n] = docs[n] /\ d[n] = dels[n]
  BY <1>4, <1>7, <1>10
<1>14. \A n \in latest : x[n] = docs[n] /\ d[n] = dels[n]
  BY <1>4, <1>5, <1>10
\* Where the documents of n go.
<1>15. ASSUME NEW n \in M
       PROVE  /\ place(n) \in 1..Len(order) /\ order[place(n)] = n
              /\ Len(docMaps'[n]) = Len(docs[n])
              /\ docMaps'[n] = [i \in 1..Len(docs[n]) |-> docMaps'[n][i]]
              /\ \A i \in 1..Len(docs[n]) :
                    /\ i \in gone[n] => docMaps'[n][i] = 0
                    /\ i \notin gone[n] =>
                           docMaps'[n][i]
                             = Place(<<>>, order, gone, place(n), i)
  <2>1. DOMAIN order = 1..Len(order)
    BY <1>8
  <2>2. place(n) \in 1..Len(order) /\ order[place(n)] = n
    BY <1>8, <2>1
  <2>3. docMaps'[n] = GenerateDocMap(Len(docs[n]), gone[n], before(n))
    BY <1>3 DEF DocMax
  <2>4. Len(docs[n]) \in Nat
    BY <1>8, <1>12
  <2> HIDE DEF place, gone
  <2>5. docMaps'[n] = [i \in 1..Len(docs[n]) |->
                         IF i \in gone[n] THEN 0
                         ELSE Place(<<>>, order, gone, place(n), i)]
    BY <2>2, <2>3 DEF GenerateDocMap, Place, Rank
  <2>6. /\ Len(docMaps'[n]) = Len(docs[n])
        /\ docMaps'[n] = [i \in 1..Len(docs[n]) |-> docMaps'[n][i]]
    BY <2>4, <2>5
  <2>7. ASSUME NEW i \in 1..Len(docs[n])
        PROVE  /\ i \in gone[n] => docMaps'[n][i] = 0
               /\ i \notin gone[n] =>
                     docMaps'[n][i] = Place(<<>>, order, gone, place(n), i)
    BY <2>5
  <2> QED
    BY <2>2, <2>6, <2>7
<1>16. Merges(x[cutoff], Docs, <<>>, order, gone)
  <2>1. <<>> \in Seq(Docs) /\ \A n \in Segs : docs[n] \in Seq(Docs)
    BY <1>4
  <2>2. Merges(Consolidated(<<>>, order, gone), Docs, <<>>, order, gone)
    BY <1>8, <2>1, ConsolidatedFacts
  <2> QED
    BY <1>10, <2>2
<1> HIDE DEF gone, x, d, M, R, place, before, G
<1>17. /\ x[cutoff] \in Seq(Docs)
       /\ \A k \in 1..Len(order) :
             \A i \in (1..Len(docs[order[k]])) \ gone[order[k]] :
                /\ Place(<<>>, order, gone, k, i) \in 1..Len(x[cutoff])
                /\ Place(<<>>, order, gone, k, i) # 0
                /\ x[cutoff][Place(<<>>, order, gone, k, i)]
                     = docs[order[k]][i]
       /\ \A p \in 1..Len(x[cutoff]) :
             \E k \in 1..Len(order) :
                \E i \in (1..Len(docs[order[k]])) \ gone[order[k]] :
                    p = Place(<<>>, order, gone, k, i)
  <2>1. \A p \in 1..Len(x[cutoff]) : ~ (p <= Len(<<>>)) /\ p # 0
    OBVIOUS
  <2> QED
    BY <1>16, <2>1 DEF Merges
<1>18. LatestInv' /\ SessionInv' /\ UNCHANGED Store!vars
  BY <1>1, <1>5, <1>10, <1>14, HiddenKeeps
<1>19. ASSUME NEW n \in M, NEW i \in 1..Len(docs[n])
       PROVE  /\ docMaps'[n][i] \in Nat
              /\ docMaps'[n][i] = 0 <=> i \in gone[n]
              /\ docMaps'[n][i] # 0 =>
                    /\ docMaps'[n][i] \in 1..Len(x[cutoff])
                    /\ x[cutoff][docMaps'[n][i]] = docs[n][i]
  <2>1. CASE i \in gone[n]
    <3>1. docMaps'[n][i] = 0
      BY <1>15, <2>1
    <3> QED
      BY <2>1, <3>1
  <2>2. CASE i \notin gone[n]
    <3>1. docMaps'[n][i] = Place(<<>>, order, gone, place(n), i)
      BY <1>15, <2>2
    <3>2. place(n) \in 1..Len(order) /\ order[place(n)] = n
      BY <1>15
    <3>3. i \in (1..Len(docs[order[place(n)]])) \ gone[order[place(n)]]
      BY <2>2, <3>2
    <3>4. /\ Place(<<>>, order, gone, place(n), i) \in 1..Len(x[cutoff])
          /\ Place(<<>>, order, gone, place(n), i) # 0
          /\ x[cutoff][Place(<<>>, order, gone, place(n), i)] = docs[n][i]
      BY SMTT(30), <1>17, <3>2, <3>3
    <3> QED
      BY <2>2, <3>1, <3>4
  <2> QED
    BY <2>1, <2>2
<1>20. DOMAIN docMaps' = M
  BY <1>3
<1>21. TypeOK'
  <2>1. x \in [Segs -> Seq(Docs)]
    <3>1. x = [docs EXCEPT ![cutoff] = x[cutoff]]
      BY <1>3, <1>10 DEF x
    <3> QED
      BY <1>4, <1>17, <3>1
  <2>2. d = [n \in Segs |-> d[n]]
    BY <1>3, <1>4 DEF d
  <2>3. \A n \in Segs : /\ DOMAIN d[n] \subseteq Segs
                        /\ d[n] \in [DOMAIN d[n] -> SUBSET Nat]
    <3>1. DOMAIN d[cutoff] \subseteq Segs
      BY <1>4, <1>11
    <3>2. \A t \in DOMAIN d[cutoff] : gone[t] \in SUBSET Nat
      BY <1>11, <1>12
    <3>3. d[cutoff] \in [DOMAIN d[cutoff] -> SUBSET Nat]
      BY <1>11, <3>2
    <3> QED
      BY <1>4, <1>10, <3>1, <3>3
  <2>4. M \subseteq mview /\ docMaps' \in [M -> Seq(Nat)]
    <3>1. ASSUME NEW n \in M
          PROVE  docMaps'[n] \in Seq(Nat)
      <4>1. /\ docMaps'[n] = [i \in 1..Len(docs[n]) |-> docMaps'[n][i]]
            /\ Len(docs[n]) \in Nat
        BY <1>8, <1>12, <1>15
      <4>2. \A i \in 1..Len(docs[n]) : docMaps'[n][i] \in Nat
        BY <1>19
      <4>3. docMaps'[n] \in [1..Len(docs[n]) -> Nat]
        BY <4>1, <4>2
      <4> QED
        BY <4>1, <4>3
    <3>2. docMaps' = [n \in M |-> docMaps'[n]]
      BY <1>3
    <3> QED
      BY <1>8, <3>1, <3>2
  <2>5. /\ DOMAIN docMaps' \subseteq mview'
        /\ docMaps' \in [DOMAIN docMaps' -> Seq(Nat)]
    BY <1>1, <1>20, <2>4
  <2> QED
    BY <1>1, <1>10, <2>1, <2>2, <2>3, <2>5 DEF Inv, TypeOK, session
<1>22. PointBack'
  <2>1. ASSUME NEW m \in Segs, NEW t \in DOMAIN d[m]
        PROVE  t < m
    <3>1. CASE m = cutoff
      BY <1>5, <1>11, <3>1
    <3>2. CASE m # cutoff
      BY <1>4, <1>10, <3>2 DEF PointBack
    <3> QED
      BY <3>1, <3>2
  <2> QED
    BY <1>10, <2>1 DEF PointBack
<1>23. /\ \A t : GoneIn(d, mview, t) = GoneIn(dels, mview, t)
       /\ SoundList(mview) => Sound(x, mview, Vectors(d, mview))
  BY <1>4, <1>13, FrameFacts
<1>24. MergerInv'
  <2>1. Sound(x, mview, Vectors(d, mview))
    BY <1>5, <1>23
  <2>2. \A n \in mview : \A i \in 1..Len(x[n]) : x[n][i] <= used
    BY <1>5, <1>13 DEF Known
  <2>3. ASSUME NEW m \in latest, m > cutoff
        PROVE  /\ cutoff \notin DOMAIN d[m]
               /\ \A n \in mview \cap DOMAIN d[m] :
                     GoneIn(d, mview, n) \subseteq d[m][n]
    BY <1>5, <1>14, <1>23, <2>3
  <2> QED
    BY <1>1, <1>5, <1>10, <2>1, <2>2, <2>3 DEF MergerInv, SoundList, Known
<1>25. MergedInv'
  <2>1. Merged' = M /\ MList' = R
    BY <1>1, <1>20 DEF Merged, MList, R
  <2>2. M # {}
    <3>1. 1 \in 1..Len(order)
      BY <1>1, <1>8
    <3> QED
      BY <1>8, <3>1
  <2>3. \A n \in M : x[n] = docs[n] /\ n \in mview
    BY <1>8, <1>13
  <2>4. ASSUME NEW k \in 1..Len(x[cutoff])
        PROVE  \E n \in M : \E i \in 1..Len(docs[n]) : docMaps'[n][i] = k
    <3>1. PICK j \in 1..Len(order) :
                 \E i \in (1..Len(docs[order[j]])) \ gone[order[j]] :
                    k = Place(<<>>, order, gone, j, i)
      BY <1>17
    <3>2. PICK i \in (1..Len(docs[order[j]])) \ gone[order[j]] :
                 k = Place(<<>>, order, gone, j, i)
      BY <3>1
    <3>3. order[j] \in M
      BY <1>8
    <3>4. place(order[j]) = j
      BY ZenonT(60), <1>8, <1>15, <3>3
    <3>5. docMaps'[order[j]][i] = k
      BY <1>15, <3>2, <3>3, <3>4
    <3> QED
      BY <3>3, <3>5
  <2>5. /\ \A t \in mview \ M : GoneIn(d, R, t) = gone[t]
        /\ GoneIn(d, R, cutoff) = {}
    <3>1. /\ PointBack /\ mview \in SUBSET Segs /\ M \in SUBSET mview
          /\ cutoff \in Segs /\ \A n \in mview : n < cutoff
      BY <1>4, <1>5, <1>8
    <3>2. /\ Forced(mview, M) \in SUBSET mview
          /\ Forced(mview, M) \subseteq Forced(mview, M)
          /\ d[cutoff] = Written(mview, M, Forced(mview, M), gone)
      BY <1>9, <1>10
    <3>3. \A t \in mview \ Forced(mview, M) : gone[t] = GoneIn(dels, mview, t)
      BY <1>12
    <3>4. \A n \in mview : d[n] = dels[n]
      BY <1>13
    <3>5. /\ \A t \in mview \ M :
                GoneIn(d, (mview \ M) \cup {cutoff}, t) = gone[t]
          /\ GoneIn(d, (mview \ M) \cup {cutoff}, cutoff) = {}
      BY SMTT(30), <3>1, <3>2, <3>3, <3>4, RewriteFacts
    <3> QED
      BY <3>5 DEF R
  <2>6. \A n \in M : /\ Len(docMaps'[n]) = Len(x[n])
                     /\ \A i \in 1..Len(x[n]) :
                           /\ docMaps'[n][i] = 0 <=> i \in GoneIn(d, mview, n)
                           /\ docMaps'[n][i] # 0 =>
                                 /\ docMaps'[n][i] \in 1..Len(x[cutoff])
                                 /\ x[cutoff][docMaps'[n][i]] = x[n][i]
    <3> SUFFICES ASSUME NEW n \in M
                 PROVE  /\ Len(docMaps'[n]) = Len(x[n])
                        /\ \A i \in 1..Len(x[n]) :
                              /\ docMaps'[n][i] = 0
                                   <=> i \in GoneIn(d, mview, n)
                              /\ docMaps'[n][i] # 0 =>
                                    /\ docMaps'[n][i] \in 1..Len(x[cutoff])
                                    /\ x[cutoff][docMaps'[n][i]] = x[n][i]
      OBVIOUS
    <3>1. Len(docMaps'[n]) = Len(docs[n])
      BY <1>15
    <3>2. x[n] = docs[n] /\ gone[n] = GoneIn(d, mview, n)
      BY <1>12, <1>23, <2>3
    <3> QED
      BY <1>19, <3>1, <3>2
  <2>7. \A k \in 1..Len(x[cutoff]) :
           \E n \in M : \E i \in 1..Len(x[n]) : docMaps'[n][i] = k
    BY <2>3, <2>4
  <2>8. \A t \in mview \ M : GoneIn(d, R, t) = GoneIn(d, mview, t)
    BY <1>12, <1>23, <2>5
  <2> QED
    BY <1>1, <1>10, <2>1, <2>2, <2>5, <2>6, <2>7, <2>8 DEF MergedInv
<1> QED
  <2>1. (mpc = "idle" => cutoff = 0)'
    BY <1>1
  <2> QED
    BY <1>18, <1>21, <1>22, <1>24, <1>25, <2>1 DEF Inv

\* The merger's segments and the fresh ones become the latest snapshot, with
\* or without an extra segment, e, for new deletions.
LEMMA PublishingKeeps ==
    ASSUME Publishes, ~open, NEW E \in SUBSET Segs,
           \A e \in E : /\ E = {e}
                        /\ \A n \in MList \cup Fresh : n < e
                        /\ docs'[e] = <<>>
                        /\ dels'[e] = CarriedDels,
           E = {} => Hit = {},
           docs' \in [Segs -> Seq(Docs)], dels' = [n \in Segs |-> dels'[n]],
           \A n \in Segs \ E : docs'[n] = docs[n] /\ dels'[n] = dels[n],
           latest' = MList \cup Fresh \cup E,
           commits < MaxCommits, commits' = commits + 1, schema' = mschema,
           EndMerge, UNCHANGED <<used, session>>
    PROVE  Inv' /\ UNCHANGED Store!vars
<1> DEFINE R == MList \cup Fresh \cup E
           x == docs'
           d == dels'
           W == Vectors(d, R)
<1>1. /\ \A n \in latest : n \in mview \/ n \in Fresh
      /\ mview \subseteq latest
      /\ cutoff \in Segs /\ cutoff \notin latest
      /\ \A n \in Segs : n \in Nat
      /\ latest \subseteq Segs /\ mview \subseteq Segs
      /\ Merged \subseteq mview /\ MList \subseteq Segs
      /\ cutoff \in MList
  BY LatestIsView, PublishesIs DEF MList
<1>2. Inv /\ mpc = "merged"
  BY DEF Publishes
<1>3. /\ docs \in [Segs -> Seq(Docs)]
      /\ \A n \in Segs : /\ DOMAIN dels[n] \subseteq Segs
                         /\ dels[n] \in [DOMAIN dels[n] -> SUBSET Nat]
      /\ PointBack /\ LatestInv /\ MergerInv /\ MergedInv
  BY <1>2 DEF Inv, TypeOK
<1>4. /\ MergerInv' /\ MergedInv' /\ (mpc = "idle" => cutoff = 0)'
      /\ mpc' = "idle" /\ mview' = {} /\ mcommits' = 0 /\ mschema' = {}
      /\ cutoff' = 0 /\ docMaps' = <<>>
  BY EndMergeFacts
<1>5. /\ DOMAIN CarriedDels \subseteq {cutoff}
      /\ cutoff \in DOMAIN CarriedDels => CarriedDels[cutoff] = Hit
      /\ cutoff \notin DOMAIN CarriedDels => Hit = {}
      /\ CarriedDels = [t \in DOMAIN CarriedDels |-> CarriedDels[t]]
  <2>1. CarriedDels = [t \in DOMAIN CarriedDels |-> CarriedDels[t]]
    BY DEF CarriedDels
  <2> QED
    BY <2>1, CarriedFacts
<1>6. Hit \subseteq 1..Len(docs[cutoff])
  BY HitFacts
<1>7. Fresh \subseteq latest
  BY DEF Fresh
<1>8. /\ \A e \in E : e \notin MList \cup Fresh
      /\ MList \cup Fresh \subseteq Segs
  <2>1. \A n \in MList \cup Fresh : n \in Segs /\ n \in Nat
    BY <1>1, <1>7
  <2> QED
    BY <2>1
<1>9. \A n \in MList \cup Fresh : docs'[n] = docs[n] /\ dels'[n] = dels[n]
  BY <1>8
<1>10. /\ \A n \in MList \cup Fresh : x[n] = docs[n] /\ d[n] = dels[n]
       /\ \A e \in E : x[e] = <<>> /\ d[e] = CarriedDels
       /\ docs' = x /\ dels' = d
       /\ x \in [Segs -> Seq(Docs)] /\ d = [n \in Segs |-> d[n]]
       /\ \A n \in Segs \ E : x[n] = docs[n] /\ d[n] = dels[n]
  BY <1>9
<1> HIDE DEF x, d
<1>11. /\ R \in SUBSET Segs
       /\ \A t \in latest \ Merged : GoneIn(d, R, t) = GoneIn(dels, latest, t)
       /\ \A e \in E : GoneIn(d, R, e) = {}
       /\ (\A e \in E : cutoff \notin DOMAIN d[e]) => GoneIn(d, R, cutoff) = {}
  <2>1. \A e \in E : \A n \in MList \cup Fresh : n < e
    OBVIOUS
  <2>2. \A n \in MList \cup Fresh : d[n] = dels[n]
    BY <1>10
  <2>3. \A e \in E : DOMAIN d[e] \subseteq {cutoff}
    BY <1>5, <1>10
  <2>4. /\ MList \cup Fresh \cup E \in SUBSET Segs
        /\ \A t \in latest \ Merged :
              GoneIn(d, MList \cup Fresh \cup E, t) = GoneIn(dels, latest, t)
        /\ \A e \in E : GoneIn(d, MList \cup Fresh \cup E, e) = {}
        /\ (\A e \in E : cutoff \notin DOMAIN d[e])
             => GoneIn(d, MList \cup Fresh \cup E, cutoff) = {}
    BY <2>1, <2>2, <2>3, DeletionsKept
  <2> QED
    BY <2>4
<1>12. GoneIn(d, R, cutoff) = Hit
  <2>1. CASE \A e \in E : cutoff \notin DOMAIN d[e]
    <3>1. GoneIn(d, R, cutoff) = {}
      BY <1>11, <2>1
    <3>2. Hit = {}
      BY <1>5, <1>10, <2>1
    <3> QED
      BY <3>1, <3>2
  <2>2. ASSUME NEW e \in E, cutoff \in DOMAIN d[e]
        PROVE  GoneIn(d, R, cutoff) = Hit
    <3>1. d[e][cutoff] = Hit
      BY <1>5, <1>10, <2>2
    <3>2. e \in R /\ e \in Nat
      BY <1>1
    <3>3. \A m \in R : m <= e
      <4>1. \A m \in R : m = e \/ m < e
        BY <2>2
      <4>2. \A m \in R : m \in Nat
        BY <1>1, <1>11
      <4> HIDE DEF R
      <4> QED
        BY <3>2, <4>1, <4>2
    <3> HIDE DEF R
    <3>4. GoneIn(d, R, cutoff) = d[e][cutoff]
      <4>1. R \in SUBSET Segs /\ e \in R /\ cutoff \in DOMAIN d[e]
        BY <1>11, <2>2, <3>2
      <4>2. \A m \in R : cutoff \in DOMAIN d[m] => m <= e
        BY <3>3
      <4>3. ASSUME NEW L, L = R, NEW f, f = d
            PROVE  GoneIn(f, L, cutoff) = f[e][cutoff]
        <5>1. L \in SUBSET Segs /\ e \in L /\ cutoff \in DOMAIN f[e]
          BY <4>1, <4>3
        <5>2. \A m \in L : cutoff \in DOMAIN f[m] => m <= e
          BY <4>2, <4>3
        <5> QED
          BY <5>1, <5>2, GoneIs
      <4> QED
        BY <4>3
    <3> QED
      BY <3>1, <3>4
  <2> QED
    BY <2>1, <2>2
<1>13. /\ W[cutoff] = Hit /\ \A e \in E : W[e] = {}
       /\ \A t \in latest \ Merged : W[t] = GoneIn(dels, latest, t)
  <2>1. /\ cutoff \in R /\ E \subseteq R
        /\ \A t \in latest \ Merged : t \in R
    BY <1>1 DEF MList
  <2> HIDE DEF R
  <2> QED
    BY <1>11, <1>12, <2>1 DEF Vectors
<1> HIDE DEF W
<1>14. /\ Sound(x, R, W)
       /\ Found(x, R, W) = Found(docs, latest, Vectors(dels, latest))
  <2>1. /\ \A n \in MList \cup Fresh : x[n] = docs[n]
        /\ \A e \in E : x[e] = <<>>
    BY <1>10
  <2>2. /\ Sound(x, MList \cup Fresh \cup E, W)
        /\ Found(x, MList \cup Fresh \cup E, W)
             = Found(docs, latest, Vectors(dels, latest))
    BY <1>8, <1>13, <2>1, PublishFacts
  <2> QED
    BY <2>2
<1>15. /\ latest' = R /\ used' = used /\ open' = FALSE /\ open = FALSE
       /\ session' = session
  BY <1>2 DEF session, Inv, TypeOK
<1>16. TypeOK'
  <2>1. \A n \in Segs : /\ DOMAIN d[n] \subseteq Segs
                        /\ d[n] \in [DOMAIN d[n] -> SUBSET Nat]
    <3>1. ASSUME NEW e \in E
          PROVE  /\ DOMAIN d[e] \subseteq Segs
                 /\ d[e] \in [DOMAIN d[e] -> SUBSET Nat]
      <4>1. d[e] = CarriedDels
        BY <1>10
      <4>2. DOMAIN CarriedDels \subseteq Segs
        BY <1>1, <1>5
      <4>3. \A t \in DOMAIN CarriedDels : CarriedDels[t] \in SUBSET Nat
        BY <1>5, <1>6
      <4>4. CarriedDels \in [DOMAIN CarriedDels -> SUBSET Nat]
        BY <1>5, <4>3
      <4> QED
        BY <4>1, <4>2, <4>4
    <3> QED
      BY <1>3, <1>10, <3>1
  <2>2. commits' \in 0..MaxCommits /\ schema' \subseteq Fields
    BY SMTT(30), <1>2, BoundsAssumption DEF Inv, TypeOK
  <2>3. mcommits' \in 0..MaxCommits
    BY <1>4, BoundsAssumption
  <2>4. /\ DOMAIN docMaps' \subseteq mview'
        /\ docMaps' \in [DOMAIN docMaps' -> Seq(Nat)]
    BY <1>4
  <2> HIDE DEF R
  <2> QED
    BY <1>2, <1>4, <1>10, <1>11, <1>15, <2>1, <2>2, <2>3, <2>4
       DEF Inv, TypeOK, session
<1>17. PointBack'
  <2>1. ASSUME NEW m \in Segs, NEW t \in DOMAIN d[m]
        PROVE  t < m
    <3>1. CASE m \in E
      BY <1>1, <1>5, <1>10, <3>1
    <3>2. CASE m \notin E
      BY <1>3, <1>10, <3>2 DEF PointBack
    <3> QED
      BY <3>1, <3>2
  <2> QED
    BY <1>10, <2>1 DEF PointBack
<1>18. LatestInv'
  <2>1. \A n \in latest : \A i \in 1..Len(docs[n]) : docs[n][i] <= used
    BY <1>3 DEF LatestInv, Known
  <2>2. ASSUME NEW k \in 1..Len(docs[cutoff])
        PROVE  docs[cutoff][k] <= used
    <3>1. PICK n \in Merged : \E i \in 1..Len(docs[n]) : docMaps[n][i] = k
      BY <1>2, <1>3 DEF MergedInv
    <3>2. PICK i \in 1..Len(docs[n]) : docMaps[n][i] = k
      BY <3>1
    <3>3. docs[cutoff][k] = docs[n][i]
      <4>1. /\ docMaps[n][i] # 0 =>
                  docs[cutoff][docMaps[n][i]] = docs[n][i]
        BY SMTT(30), <1>2, <1>3 DEF MergedInv
      <4>2. docMaps[n][i] # 0
        BY <3>2
      <4> QED
        BY <3>2, <4>1, <4>2
    <3>4. n \in latest
      BY <1>1
    <3> QED
      BY <2>1, <3>3, <3>4
  <2>3. ASSUME NEW n \in R, NEW i \in 1..Len(x[n])
        PROVE  x[n][i] <= used
    <3>1. CASE n \in E
      <4>1. x[n] = <<>>
        BY <1>10, <3>1
      <4>2. 1..Len(x[n]) = {}
        BY <4>1
      <4> QED
        BY <4>2
    <3>2. CASE n = cutoff
      BY <1>1, <1>10, <2>2, <3>2
    <3>3. CASE n \in latest /\ n \in MList \cup Fresh
      BY <1>10, <2>1, <3>3
    <3>4. n \in E \/ n = cutoff \/ (n \in latest /\ n \in MList \cup Fresh)
      BY <1>1, <1>7 DEF MList
    <3> QED
      BY <3>1, <3>2, <3>3, <3>4
  <2>4. Sound(x, R, Vectors(d, R))
    BY <1>14 DEF W
  <2> HIDE DEF R
  <2> QED
    BY <1>10, <1>15, <2>3, <2>4 DEF LatestInv, SoundList, Known
<1>19. SessionInv'
  BY <1>15 DEF SessionInv
<1>20. Live(latest)' = Live(latest)
  <2>1. Live(latest)' = Found(x, R, W)
    <3>1. (Live(latest) = Found(docs, latest, Vectors(dels, latest)))'
      BY LiveIs, PTL
    <3> HIDE DEF R
    <3> QED
      BY <1>10, <1>15, <3>1 DEF W
  <2> QED
    BY <1>14, <2>1, LiveIs
<1>21. Draft' = Draft
  BY <1>15 DEF Draft
<1> QED
  BY <1>4, <1>15, <1>16, <1>17, <1>18, <1>19, <1>20, <1>21
     DEF Inv, Store!vars

\* Nobody has committed since: nothing has been deleted either.
LEMMA MCommitAloneKeeps ==
    ASSUME Inv, MCommitAlone
    PROVE  Inv' /\ UNCHANGED Store!vars
<1>1. /\ mpc = "merged" /\ ~open /\ commits = mcommits
      /\ commits < MaxCommits /\ latest' = MList /\ commits' = commits + 1
      /\ schema' = mschema /\ EndMerge
      /\ docs' = docs /\ dels' = dels /\ UNCHANGED <<used, session>>
  BY DEF MCommitAlone
<1>2. /\ latest = mview /\ \A n \in mview : n < cutoff
      /\ cutoff \in Segs /\ mview \subseteq Segs
      /\ Merged \subseteq mview
  BY <1>1 DEF Inv, MergerInv, TypeOK, Merged
<1>3. Publishes
  BY <1>1, <1>2 DEF Publishes
<1>4. Fresh = {}
  <2>1. ASSUME NEW n \in latest
        PROVE  ~ (n > cutoff)
    <3>1. n \in Nat /\ cutoff \in Nat /\ n < cutoff
      BY <1>2 DEF Segs
    <3> QED
      BY <3>1
  <2> QED
    BY <2>1 DEF Fresh
<1>5. Hit = {}
  <2> SUFFICES ASSUME NEW k \in Hit PROVE FALSE
    OBVIOUS
  <2>1. k # 0 /\ \E n \in Merged : \E i \in GoneIn(dels, latest, n) :
                     k = docMaps[n][i]
    BY <1>3, HitFacts
  <2>2. PICK n \in Merged : \E i \in GoneIn(dels, latest, n) :
                 k = docMaps[n][i]
    BY <2>1
  <2>3. PICK i \in GoneIn(dels, latest, n) : k = docMaps[n][i]
    BY <2>2
  <2>4. i \in 1..Len(docs[n])
    <3>1. SoundList(latest) /\ n \in latest
      BY <1>2 DEF Inv, LatestInv
    <3> QED
      BY <3>1 DEF SoundList, Sound, Vectors
  <2>5. docMaps[n][i] = 0
    BY <1>1, <1>2, <2>4 DEF Inv, MergedInv
  <2> QED
    BY <2>1, <2>3, <2>5
<1>6. /\ docs' \in [Segs -> Seq(Docs)] /\ dels' = [n \in Segs |-> dels'[n]]
      /\ \A n \in Segs \ {} : docs'[n] = docs[n] /\ dels'[n] = dels[n]
      /\ latest' = MList \cup Fresh \cup {}
  BY <1>1, <1>4 DEF Inv, TypeOK
<1> DEFINE E == {}
<1>7. /\ E \in SUBSET Segs /\ \A n \in Segs \ E : /\ docs'[n] = docs[n]
                                                  /\ dels'[n] = dels[n]
      /\ latest' = MList \cup Fresh \cup E
      /\ \A e \in E : /\ E = {e}
                      /\ \A n \in MList \cup Fresh : n < e
                      /\ docs'[e] = <<>>
                      /\ dels'[e] = CarriedDels
  BY <1>6
<1> HIDE DEF E
<1> QED
  BY <1>1, <1>3, <1>5, <1>6, <1>7, PublishingKeeps

LEMMA MCommitUpdatedKeeps ==
    ASSUME Inv, MCommitUpdated
    PROVE  Inv' /\ UNCHANGED Store!vars
<1> DEFINE extra == Highest(latest) + 1
           E == IF Changed = {} THEN {} ELSE {extra}
<1>1. /\ mpc = "merged" /\ ~open /\ commits < MaxCommits
      /\ Merged \subseteq latest /\ Highest(latest) < MaxSeg
      /\ commits' = commits + 1 /\ schema' = mschema /\ EndMerge
      /\ UNCHANGED <<used, session>>
  BY DEF MCommitUpdated
<1>2. IF Changed = {}
      THEN /\ latest' = MList \cup Fresh
           /\ docs' = docs /\ dels' = dels
      ELSE /\ latest' = MList \cup Fresh \cup {extra}
           /\ docs' = [docs EXCEPT ![extra] = <<>>]
           /\ dels' = [dels EXCEPT ![extra] = CarriedDels]
  BY DEF MCommitUpdated, Fresh
<1>3. Publishes
  BY <1>1 DEF Publishes
<1>4. /\ docs \in [Segs -> Seq(Docs)] /\ dels = [n \in Segs |-> dels[n]]
  BY DEF Inv, TypeOK
<1>5. /\ \A n \in latest : n \in mview \/ n \in Fresh
      /\ Merged \subseteq mview /\ latest \subseteq Segs
      /\ MList = (mview \ Merged) \cup {cutoff} /\ mview \subseteq latest
      /\ \A n \in mview : n < cutoff
      /\ Fresh \subseteq latest /\ \A n \in Fresh : n > cutoff
      /\ cutoff \in Segs /\ \A n \in Segs : n \in Nat
  BY <1>3, LatestIsView, PublishesIs DEF Fresh, MList
<1>6. CASE Changed = {}
  <2>1. Hit = {} /\ E = {}
    BY <1>6 DEF Hit
  <2>2. /\ E \in SUBSET Segs
        /\ \A n \in Segs \ E : docs'[n] = docs[n] /\ dels'[n] = dels[n]
        /\ latest' = MList \cup Fresh \cup E
        /\ \A e \in E : /\ E = {e}
                        /\ \A n \in MList \cup Fresh : n < e
                        /\ docs'[e] = <<>>
                        /\ dels'[e] = CarriedDels
        /\ docs' \in [Segs -> Seq(Docs)]
        /\ dels' = [n \in Segs |-> dels'[n]]
    BY <1>2, <1>4, <1>6, <2>1
  <2> HIDE DEF E
  <2> QED
    BY <1>1, <1>3, <2>1, <2>2, PublishingKeeps
<1>7. CASE Changed # {}
  \* Without a fresh segment nothing can have been deleted.
  <2>1. Fresh # {}
    <3>1. PICK n \in Merged : DelCount(latest, n) # DelCount(mview, n)
      BY <1>7 DEF Changed
    <3>2. GoneIn(dels, latest, n) # GoneIn(dels, mview, n)
      BY <3>1, DeletionsAre
    <3> QED
      BY <1>3, <1>5, <3>2, DeletionsGrow, PublishesIs
  <2>2. /\ MaxSeg \in Nat /\ latest \in SUBSET (0..MaxSeg)
    <3>1. MaxSeg \in Nat /\ \A n \in Segs : n \in 0..MaxSeg
      BY BoundsAssumption DEF Segs
    <3> QED
      BY <1>5, <3>1
  <2>3. /\ Highest(latest) \in 0..MaxSeg
        /\ \A m \in latest : m <= Highest(latest)
    BY <2>2, HighestIsHighest
  <2>4. extra \in Segs /\ \A n \in latest : n < extra
    <3>1. extra \in 1..MaxSeg
      BY <1>1, <2>2, <2>3
    <3>2. \A n \in latest : n < Highest(latest) + 1
      BY <1>5, <2>3
    <3> QED
      BY <3>1, <3>2 DEF Segs
  <2>5. cutoff < extra
    <3>1. PICK f \in Fresh : TRUE
      BY <2>1
    <3>2. f > cutoff /\ f < extra /\ f \in Nat /\ cutoff \in Nat
      BY <1>5, <2>4
    <3>3. extra \in Nat
      BY <1>5, <2>4
    <3> HIDE DEF extra
    <3> QED
      BY <3>2, <3>3
  <2>6. \A n \in MList \cup Fresh : n < extra
    BY <1>5, <2>4, <2>5
  <2> HIDE DEF extra
  <2>7. E = {extra} /\ E # {}
    BY <1>7
  <2>8. /\ docs'[extra] = <<>> /\ dels'[extra] = CarriedDels
        /\ \A n \in Segs \ {extra} : docs'[n] = docs[n] /\ dels'[n] = dels[n]
        /\ docs' \in [Segs -> Seq(Docs)]
        /\ dels' = [n \in Segs |-> dels'[n]]
    <3>1. <<>> \in Seq(Docs)
      OBVIOUS
    <3> QED
      BY <1>2, <1>4, <1>7, <2>4, <3>1
  <2>9. /\ E \in SUBSET Segs
        /\ \A n \in Segs \ E : docs'[n] = docs[n] /\ dels'[n] = dels[n]
        /\ latest' = MList \cup Fresh \cup E
        /\ \A e \in E : /\ E = {e}
                        /\ \A n \in MList \cup Fresh : n < e
                        /\ docs'[e] = <<>>
                        /\ dels'[e] = CarriedDels
    BY <1>2, <1>7, <2>4, <2>6, <2>7, <2>8
  <2> HIDE DEF E
  <2> QED
    BY <1>1, <1>3, <2>7, <2>8, <2>9, PublishingKeeps
<1> QED
  BY <1>6, <1>7

-----------------------------------------------------------------------------
(* The theorems.                                                           *)

LEMMA Initially ==
    ASSUME Init
    PROVE  Inv /\ Store!Init
<1> USE DEF Init
<1>1. TypeOK
  <2>1. /\ docs \in [Segs -> Seq(Docs)] /\ dels = [n \in Segs |-> dels[n]]
        /\ \A n \in Segs : dels[n] = <<>>
        /\ added \in Seq(Docs)
    OBVIOUS
  <2>3. /\ DOMAIN <<>> = {} /\ <<>> \in [{} -> SUBSET Nat]
        /\ <<>> \in [{} -> Seq(Nat)]
    OBVIOUS
  <2>2. 0 \in 0..MaxDocs /\ 0 \in 0..MaxCommits
    BY BoundsAssumption
  <2> QED
    BY <2>1, <2>2, <2>3 DEF TypeOK
<1>2. PointBack
  BY DEF PointBack
<1>3. LatestInv
  BY DEF LatestInv, SoundList, Sound, Known
<1>4. SessionInv /\ MergerInv
  BY DEF SessionInv, MergerInv
<1>5. MergedInv
  BY DEF MergedInv, Merged
<1>6. Live(latest) = {} /\ Draft = {}
  BY DEF Live, Draft
<1> QED
  BY <1>1, <1>2, <1>3, <1>4, <1>5, <1>6 DEF Inv, Store!Init

\* Every step keeps the invariant, and is one of DocStore.tla or changes
\* nothing there.
LEMMA EveryStep ==
    ASSUME Inv, [Next]_vars
    PROVE  Inv' /\ [Store!Next]_(Store!vars)
<1>1. ASSUME NEW truncate \in BOOLEAN, IxBegin(truncate)
      PROVE  Inv' /\ Store!Next
  BY <1>1, BeginKeeps DEF Store!Next
<1>2. ASSUME AddDoc
      PROVE  Inv' /\ Store!Next
  BY <1>2, AddDocKeeps DEF Store!Next
<1>3. ASSUME NEW gone \in SUBSET {1, 2}, AddIndex(gone)
      PROVE  Inv' /\ Store!Next
  BY <1>3, AddIndexKeeps DEF Store!Next
<1>4. ASSUME NEW t \in Terms, DeleteMatching(t)
      PROVE  Inv' /\ Store!Next
  BY <1>4, DeleteMatchingKeeps DEF Store!Next
<1>5. ASSUME NEW id \in 1..DocsUpTo(view, MaxSeg), DeleteByDocID(id)
      PROVE  Inv' /\ Store!Next
  BY <1>5, DeleteByDocIDKeeps DEF Store!Next
<1>6. ASSUME NEW order \in SetToAllKPermutations(Recyclable), IxCommit(order)
      PROVE  Inv' /\ Store!Next
  BY <1>6, CommitKeeps DEF Store!Next
<1>7. ASSUME IxCommitNothing \/ IxAbandon
      PROVE  Inv' /\ Store!Next
  BY <1>7, EndKeeps DEF IxCommitNothing, IxAbandon, Store!Next
<1>8. ASSUME MBegin
      PROVE  Inv' /\ UNCHANGED Store!vars
  BY <1>8, MBeginKeeps
<1>9. ASSUME NEW order \in SetToAllKPermutations(mview), MMerge(order)
      PROVE  Inv' /\ UNCHANGED Store!vars
  BY <1>9, MMergeKeeps
<1>10. ASSUME MCommitAlone
       PROVE  Inv' /\ UNCHANGED Store!vars
  BY <1>10, MCommitAloneKeeps
<1>11. ASSUME MCommitUpdated
       PROVE  Inv' /\ UNCHANGED Store!vars
  BY <1>11, MCommitUpdatedKeeps
<1>12. ASSUME MGiveUp
       PROVE  Inv' /\ UNCHANGED Store!vars
  BY <1>12, MGiveUpKeeps
<1>13. ASSUME UNCHANGED vars
       PROVE  Inv' /\ UNCHANGED Store!vars
  <2>1. /\ UNCHANGED <<store, session, merger>> /\ used' = used
    BY <1>13 DEF vars
  <2>2. /\ docs' = docs /\ dels' = dels /\ cutoff' = cutoff
        /\ latest' = latest /\ commits' = commits /\ schema' = schema
        /\ UNCHANGED <<store, session, merger>>
        /\ cutoff \in Segs \cup {0} /\ used \in Nat
    BY <2>1, BoundsAssumption DEF store, merger, Inv, TypeOK
  <2>3. SessionInv' /\ UNCHANGED Store!vars
    BY <2>1, <2>2, HiddenKeeps
  <2>4. /\ PointBack' /\ LatestInv' /\ MergerInv' /\ MergedInv'
        /\ (mpc = "idle" => cutoff = 0)'
    BY <2>1, <2>2, SessionFrame
  <2>5. TypeOK'
    BY <2>1 DEF Inv, TypeOK, store, session, merger
  <2> QED
    BY <2>3, <2>4, <2>5 DEF Inv
<1> QED
  BY <1>1, <1>2, <1>3, <1>4, <1>5, <1>6, <1>7, <1>8, <1>9, <1>10, <1>11,
     <1>12, <1>13 DEF Next, IndexerNext, MergerNext

LEMMA Always == Spec => []Inv
<1>1. Init => Inv
  BY Initially
<1>2. Inv /\ [Next]_vars => Inv'
  BY EveryStep
<1> QED
  BY <1>1, <1>2, PTL DEF Spec

\* The variables keep their types: among them that bit vectors are there for
\* the segments of the session's view and no others, and doc maps for segments
\* of the snapshot that the merger has started with.
THEOREM TypeCorrect == Spec => []TypeOK
<1>1. Inv => TypeOK
  BY DEF Inv
<1> QED
  BY <1>1, Always, PTL

\* A document is in the index once: no Indexer's merge and no background
\* merge, however it falls in with additions, deletions, truncation and the
\* recycling of other segments, copies one that it leaves.
THEOREM DocumentsAreInTheIndexOnce == Spec => []NoDocTwice
<1>1. Inv => NoDocTwice
  <2>1. Inv => SoundList(latest)
    BY DEF Inv, LatestInv
  <2> QED
    BY <2>1, DeletionsAre DEF SoundList, Sound, Vectors, NoDocTwice, DocMax
<1> QED
  BY <1>1, Always, PTL

\* A doc map leads from each document that it does not drop to the same
\* document in the merged segment, so that what Indexers delete while the
\* merger works is deleted there (S_merge_updated_deletions).
THEOREM DocMapsLeadToTheSameDocuments == Spec => []DocMapsAgree
<1>1. Inv => DocMapsAgree
  <2> SUFFICES ASSUME Inv, NEW n \in Merged, NEW i \in DOMAIN docMaps[n],
                      docMaps[n][i] # 0
               PROVE  /\ docMaps[n][i] \in DOMAIN docs[cutoff]
                      /\ docs[cutoff][docMaps[n][i]] = docs[n][i]
    BY DEF DocMapsAgree
  <2>1. /\ mpc = "merged" /\ Len(docMaps[n]) = Len(docs[n])
        /\ \A j \in 1..Len(docs[n]) :
              docMaps[n][j] # 0 =>
                  /\ docMaps[n][j] \in 1..Len(docs[cutoff])
                  /\ docs[cutoff][docMaps[n][j]] = docs[n][j]
    BY DEF Inv, MergedInv
  <2>2. docMaps[n] \in Seq(Nat)
    BY DEF Inv, TypeOK, Merged
  <2>3. docs[cutoff] \in Seq(Docs)
    <3>1. cutoff \in Segs
      BY <2>1 DEF Inv, MergerInv
    <3> QED
      BY <3>1 DEF Inv, TypeOK
  <2>4. DOMAIN docMaps[n] = 1..Len(docMaps[n])
        /\ DOMAIN docs[cutoff] = 1..Len(docs[cutoff])
    BY <2>2, <2>3
  <2>5. i \in 1..Len(docs[n])
    BY <2>1, <2>4
  <2> QED
    BY <2>1, <2>4, <2>5
<1> QED
  BY <1>1, Always, PTL

\* Sessions, recycling and background merges together do what DocStore.tla
\* says: a commit makes visible what the session has drafted, all of it and
\* nothing else, and every other step of an Indexer, and each of a merger,
\* leaves what a reader finds as it was.
THEOREM IndexImplementsDocStore == Spec => ImplementsDocStore
<1>1. Init => Store!Init
  BY Initially
<1>2. Inv /\ [Next]_vars => [Store!Next]_(Store!vars)
  BY EveryStep
<1>3. Store!Init /\ [][Store!Next]_(Store!vars) => ImplementsDocStore
  BY DEF ImplementsDocStore, Store!Spec
<1> QED
  BY <1>1, <1>2, <1>3, Always, PTL DEF Spec
=============================================================================
