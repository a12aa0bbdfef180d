--------------------------- MODULE ContainerProofs ---------------------------
(***************************************************************************)
(* What the containers promise, for any sizes and contents.                *)
(* HashTable.tla: however the keys collide, every search comes to an end,  *)
(* no rebuild begins within a rebuild, the calls are those of a map        *)
(* (KeyValues.tla), and a HashIterator returns the keys that stay in the   *)
(* table once each.  BitVector.tla: the calls are those of sets of numbers *)
(* (BitSets.tla), and Next_Hit finds the next one.  PriorityQueue.tla: a   *)
(* queue keeps the best of what it is offered (TopSet.tla) and gives it    *)
(* back in order.  Matchers.tla, the heap of which is that of a queue: a   *)
(* matcher visits the documents that match (Iterators.tla).                *)
(***************************************************************************)
EXTENDS HashTable, Sequences, FiniteSetTheorems, WellFoundedInduction, TLAPS

\* The capacity is 16 or a larger power of two in the code: at least three is
\* what the threshold needs.  A key's slot may be empty or a tombstone instead.
ConstantsOK ==
    /\ InitialCapacity \in Nat /\ InitialCapacity >= 3
    /\ HashSum \in [Keys -> Nat]
    /\ Empty \notin Keys /\ Tombstone \notin Keys /\ Empty # Tombstone

-----------------------------------------------------------------------------
(* The inductive invariant.                                                *)

\* The n-th slot that is looked at in a table of c slots from the home slot of
\* a hash sum on.
ProbeAt(h, c, n) == LET home == h % c
                    IN  IF home + n < c THEN home + n ELSE home + n - c

\* On the way to slot s there is no empty one.
Reached(h, c, e, s) ==
    \E n \in 0..(c - 1) :
        /\ ProbeAt(h, c, n) = s
        /\ \A i \in 0..(n - 1) : e[ProbeAt(h, c, i)].key # Empty

\* A key is in one slot only, and a search for it gets there.
LiveInv ==
    /\ \A s, t \in Live : entries[s].key = entries[t].key => s = t
    /\ \A s \in Live : Reached(HashSum[entries[s].key], capacity, entries, s)

\* What is to be moved and stored has keys of its own.
MovingInv ==
    /\ \A s, t \in Unmoved : old[s].key = old[t].key => s = t
    /\ \A s \in Unmoved, t \in Live : old[s].key # entries[t].key
    /\ Rebuilding => /\ \A s \in Live : entries[s].key # storing[1]
                     /\ \A s \in Unmoved : old[s].key # storing[1]

\* A steady key is where it was when the iteration began, behind the tick and
\* returned, or ahead of it.
IterInv ==
    /\ iter.capacity <= capacity
    /\ Rebuilding => iter.capacity < capacity
    /\ iter.capacity = capacity =>
           \A k \in steady : \E s \in Live :
               /\ entries[s].key = k
               /\ seen[k] = IF s <= iter.tick THEN 1 ELSE 0

Inv == TypeOK /\ SearchesEnd /\ NoRebuildWithin /\ LiveInv /\ MovingInv

-----------------------------------------------------------------------------
(* Searches.                                                               *)

LEMMA Least ==
    ASSUME NEW T \in SUBSET Nat, T # {}
    PROVE  \E x \in T : \A y \in T : x <= y
<1> DEFINE R == OpToRel(<, Nat)
<1>1. IsWellFoundedOn(R, Nat)
  BY NatLessThanWellFounded
<1>2. \A x, y \in Nat : <<y, x>> \in R <=> y < x
  BY DEF OpToRel
<1> HIDE DEF R
<1>3. PICK x \in T : \A y \in T : ~ (<<y, x>> \in R)
  BY <1>1, WFMin
<1>4. ASSUME NEW y \in T
      PROVE  x <= y
  <2>1. x \in Nat /\ y \in Nat
    OBVIOUS
  <2>2. ~ (y < x)
    BY <1>2, <1>3, <2>1, Zenon
  <2> QED
    BY <2>1, <2>2
<1> QED
  BY <1>4

\* From any home slot on, every slot is looked at, and none outside the table.
LEMMA ProbeIs ==
    ASSUME NEW h \in Nat, NEW c \in Nat \ {0}
    PROVE  /\ \A n \in 0..(c - 1) : ProbeAt(h, c, n) \in 0..(c - 1)
           /\ \A s \in 0..(c - 1) : \E n \in 0..(c - 1) : ProbeAt(h, c, n) = s
<1> DEFINE home == h % c
<1>1. home \in 0..(c - 1)
  OBVIOUS
<1> HIDE DEF home
<1>2. \A n : ProbeAt(h, c, n) = IF home + n < c THEN home + n
                                ELSE home + n - c
  BY DEF ProbeAt, home
<1>3. ASSUME NEW n \in 0..(c - 1)
      PROVE  ProbeAt(h, c, n) \in 0..(c - 1)
  BY <1>1, <1>2
<1>4. ASSUME NEW s \in 0..(c - 1)
      PROVE  \E n \in 0..(c - 1) : ProbeAt(h, c, n) = s
  <2>1. CASE s >= home
    <3>1. s - home \in 0..(c - 1) /\ ProbeAt(h, c, s - home) = s
      BY <1>1, <1>2, <2>1
    <3> QED
      BY <3>1
  <2>2. CASE s < home
    <3>1. /\ s - home + c \in 0..(c - 1)
          /\ ProbeAt(h, c, s - home + c) = s
      BY <1>1, <1>2, <2>2
    <3> QED
      BY <3>1
  <2> QED
    BY <1>1, <2>1, <2>2
<1> QED
  BY <1>3, <1>4

\* FirstProbe is the first of the slots on the way with such a key.
LEMMA FirstProbeIs ==
    ASSUME ConstantsOK, TypeOK, NEW k \in Keys, NEW wanted,
           \E s \in Slots : entries[s].key \in wanted
    PROVE  \E n \in Slots :
               /\ FirstProbe(k, wanted) = ProbeAt(HashSum[k], capacity, n)
               /\ FirstProbe(k, wanted) \in Slots
               /\ entries[FirstProbe(k, wanted)].key \in wanted
               /\ \A i \in 0..(n - 1) :
                    /\ ProbeAt(HashSum[k], capacity, i) \in Slots
                    /\ entries[ProbeAt(HashSum[k], capacity, i)].key
                           \notin wanted
<1> DEFINE P(n) == ProbeAt(HashSum[k], capacity, n)
           T == {n \in Slots : entries[P(n)].key \in wanted}
           First(n) == /\ entries[Probe(k, n)].key \in wanted
                       /\ \A i \in 0..(n - 1) :
                              entries[Probe(k, i)].key \notin wanted
<1>1. /\ HashSum[k] \in Nat /\ capacity \in Nat \ {0}
      /\ Slots = 0..(capacity - 1) /\ Slots \in SUBSET Nat
  BY DEF ConstantsOK, TypeOK, Slots
<1>2. \A n : P(n) = Probe(k, n)
  BY DEF ProbeAt, Probe
<1>3. /\ \A n \in Slots : P(n) \in Slots
      /\ \A s \in Slots : \E n \in Slots : P(n) = s
  BY <1>1, ProbeIs
<1> HIDE DEF P
<1>4. T \in SUBSET Nat /\ T # {}
  BY <1>1, <1>3
<1>5. PICK x \in T : \A y \in T : x <= y
  BY <1>4, Least
<1>6. First(x)
  <2>1. entries[Probe(k, x)].key \in wanted
    BY <1>2, <1>5
  <2>2. ASSUME NEW i \in 0..(x - 1)
        PROVE  entries[Probe(k, i)].key \notin wanted
    <3>1. i \in Slots /\ i < x
      BY <1>1, <1>5
    <3> QED
      BY <1>2, <1>5, <3>1, <1>1
  <2> QED
    BY <2>1, <2>2
<1> DEFINE m == CHOOSE n \in Slots : First(n)
<1>7. m \in Slots /\ First(m)
  BY <1>5, <1>6
<1>8. FirstProbe(k, wanted) = Probe(k, m)
  BY DEF FirstProbe
<1> HIDE DEF m
<1>9. \A i \in 0..(m - 1) : i \in Slots
  BY <1>1, <1>7
<1> QED
  BY <1>2, <1>3, <1>7, <1>8, <1>9 DEF P

\* SI_fetch_entry finds the key's entry, or else an empty slot.
LEMMA FetchFinds ==
    ASSUME ConstantsOK, Inv, NEW k \in Keys
    PROVE  /\ SI_fetch_entry(k) \in Slots
           /\ entries[SI_fetch_entry(k)].key \in {k, Empty}
           /\ \A s \in Live : entries[s].key = k => SI_fetch_entry(k) = s
<1> DEFINE f == SI_fetch_entry(k)
           P(n) == ProbeAt(HashSum[k], capacity, n)
<1>1. TypeOK /\ LiveInv /\ (\E s \in Slots : entries[s].key = Empty)
  BY DEF Inv, SearchesEnd
<1>2. \E s \in Slots : entries[s].key \in {k, Empty}
  BY <1>1
<1>3. PICK n \in Slots :
             /\ f = P(n) /\ f \in Slots /\ entries[f].key \in {k, Empty}
             /\ \A i \in 0..(n - 1) : /\ P(i) \in Slots
                                      /\ entries[P(i)].key \notin {k, Empty}
  BY <1>1, <1>2, FirstProbeIs DEF SI_fetch_entry
<1>4. ASSUME NEW s \in Live, entries[s].key = k
      PROVE  f = s
  <2>1. PICK m \in Slots :
               /\ P(m) = s
               /\ \A i \in 0..(m - 1) : entries[P(i)].key # Empty
    BY <1>1, <1>4 DEF LiveInv, Reached, Slots
  <2> HIDE DEF f, P
  <2>2. n \in Nat /\ m \in Nat
    BY <1>1 DEF TypeOK, Slots
  <2>3. CASE m < n
    <3>1. m \in 0..(n - 1)
      BY <2>2, <2>3
    <3> QED
      BY <1>3, <1>4, <2>1, <3>1
  <2>4. CASE n < m
    <3>1. n \in 0..(m - 1)
      BY <2>2, <2>4
    <3>2. entries[f].key = k
      BY <1>3, <2>1, <3>1
    <3>3. f \in Live
      BY <1>3, <3>2 DEF Live
    <3> QED
      BY <1>1, <1>4, <3>2, <3>3 DEF LiveInv
  <2>5. CASE m = n
    BY <1>3, <2>1, <2>5
  <2> QED
    BY <2>2, <2>3, <2>4, <2>5
<1> QED
  BY <1>3, <1>4

LEMMA HasEntryIs ==
    ASSUME ConstantsOK, Inv, NEW k \in Keys
    PROVE  /\ HasEntry(k) => SI_fetch_entry(k) \in Live
           /\ HasEntry(k) <=> \E s \in Live : entries[s].key = k
<1>1. HasEntry(k) => SI_fetch_entry(k) \in Live
  BY FetchFinds DEF HasEntry, Live
<1> QED
  BY <1>1, FetchFinds DEF HasEntry

\* The slot that a new key gets can be reached, and was free.
LEMMA FreeSlot ==
    ASSUME ConstantsOK, Inv, NEW k \in Keys
    PROVE  LET s == FirstProbe(k, {Empty, Tombstone})
           IN  /\ s \in Slots
               /\ entries[s].key \in {Empty, Tombstone}
               /\ s \notin Live
               /\ Reached(HashSum[k], capacity, entries, s)
<1> DEFINE s == FirstProbe(k, {Empty, Tombstone})
<1>1. /\ TypeOK
      /\ \E t \in Slots : entries[t].key \in {Empty, Tombstone}
  BY DEF Inv, SearchesEnd
<1>2. PICK n \in Slots :
             /\ s = ProbeAt(HashSum[k], capacity, n)
             /\ s \in Slots
             /\ entries[s].key \in {Empty, Tombstone}
             /\ \A i \in 0..(n - 1) :
                    entries[ProbeAt(HashSum[k], capacity, i)].key
                        \notin {Empty, Tombstone}
  BY <1>1, FirstProbeIs
<1> HIDE DEF s
<1>3. s \notin Live
  BY <1>2 DEF Live, ConstantsOK
<1>4. Reached(HashSum[k], capacity, entries, s)
  BY <1>2 DEF Reached, Slots
<1> QED
  BY <1>2, <1>3, <1>4 DEF s

-----------------------------------------------------------------------------
(* What the steps do to the table.                                         *)

LEMMA Counted ==
    ASSUME TypeOK
    PROVE  /\ Slots = 0..(capacity - 1) /\ capacity \in Nat
           /\ IsFiniteSet(Slots) /\ Cardinality(Slots) = capacity
           /\ IsFiniteSet(Live) /\ IsFiniteSet(Tombs)
           /\ Cardinality(Live) \in Nat /\ Cardinality(Tombs) \in Nat
<1>1. Slots = 0..(capacity - 1) /\ capacity \in Nat /\ capacity >= 3
  BY DEF TypeOK, Slots
<1>2. IsFiniteSet(Slots) /\ Cardinality(Slots) = capacity
  BY <1>1, FS_Interval
<1>3. Live \in SUBSET Slots /\ Tombs \in SUBSET Slots
  BY DEF Live, Tombs
<1>4. IsFiniteSet(Live) /\ IsFiniteSet(Tombs)
  BY <1>2, <1>3, FS_Subset
<1> QED
  BY <1>1, <1>2, <1>4, FS_CardinalityType

LEMMA LimitIs ==
    ASSUME NEW c \in Nat
    PROVE  /\ Limit(c) \in Nat
           /\ c >= 3 => Limit(c) < c /\ Limit(c) < Limit(2 * c)
<1>1. /\ c \div 3 \in Nat
      /\ 3 * (c \div 3) <= c /\ c < 3 * (c \div 3) + 3
  OBVIOUS
<1>2. /\ (2 * c) \div 3 \in Nat
      /\ 2 * c < 3 * ((2 * c) \div 3) + 3
  OBVIOUS
<1> QED
  BY <1>1, <1>2 DEF Limit

\* A table with fewer entries and tombstones than slots has an empty one.
LEMMA SomeEmpty ==
    ASSUME NEW c \in Nat, c >= 3, NEW e \in [0..(c - 1) -> Entry],
           Cardinality({s \in 0..(c - 1) : e[s].key \in Keys})
             + Cardinality({s \in 0..(c - 1) : e[s].key = Tombstone})
             <= Limit(c)
    PROVE  \E s \in 0..(c - 1) : e[s].key = Empty
<1> DEFINE S == 0..(c - 1)
           L == {s \in S : e[s].key \in Keys}
           T == {s \in S : e[s].key = Tombstone}
<1> SUFFICES ASSUME \A s \in S : e[s].key # Empty
             PROVE  FALSE
  OBVIOUS
<1>1. IsFiniteSet(S) /\ Cardinality(S) = c
  BY FS_Interval
<1>2. \A s \in S : e[s].key \in Keys \union {Empty, Tombstone}
  BY DEF Entry
<1>3. S = L \union T /\ L \in SUBSET S /\ T \in SUBSET S
  BY <1>2
<1>4. Cardinality(L) + Cardinality(T) <= Limit(c)
  OBVIOUS
<1> HIDE DEF L, T, S
<1>5. IsFiniteSet(L) /\ IsFiniteSet(T)
  BY <1>1, <1>3, FS_Subset
<1>6. IsFiniteSet(L \cap T)
  <2>1. L \cap T \in SUBSET L
    OBVIOUS
  <2> QED
    BY <1>5, <2>1, FS_Subset
<1>7. /\ Cardinality(L) \in Nat /\ Cardinality(T) \in Nat
      /\ Cardinality(L \cap T) \in Nat
  BY <1>5, <1>6, FS_CardinalityType
<1>8. c = Cardinality(L) + Cardinality(T) - Cardinality(L \cap T)
  BY <1>1, <1>3, <1>5, FS_Union
<1>9. Limit(c) < c /\ Limit(c) \in Int
  BY DEF Limit
<1> QED
  BY <1>4, <1>7, <1>8, <1>9

\* The counts add up to an empty slot.
LEMMA CountsSuffice ==
    ASSUME capacity' \in Nat, capacity' >= 3,
           entries' \in [0..(capacity' - 1) -> Entry],
           size' \in Nat, threshold' \in Nat,
           size' = Cardinality(Live'),
           threshold' = Limit(capacity') - Cardinality(Tombs'),
           Cardinality(Tombs') \in Nat,
           size' <= threshold'
    PROVE  SearchesEnd'
<1>1. Cardinality(Live') + Cardinality(Tombs') <= Limit(capacity')
  <2>1. Limit(capacity') \in Int
    BY DEF Limit
  <2> QED
    BY <2>1
<1>2. Cardinality({s \in 0..(capacity' - 1) : entries'[s].key \in Keys})
        + Cardinality({s \in 0..(capacity' - 1) : entries'[s].key = Tombstone})
        <= Limit(capacity')
  BY <1>1 DEF Live, Tombs, Slots
<1>3. \E s \in 0..(capacity' - 1) : entries'[s].key = Empty
  BY <1>2, SomeEmpty
<1> QED
  BY <1>3 DEF SearchesEnd, Slots

\* As long as no slot becomes empty, what could be reached still can.
LEMMA StillReached ==
    ASSUME TypeOK, NEW h \in Nat, NEW s,
           Reached(h, capacity, entries, s), capacity' = capacity,
           \A t \in Slots : entries[t].key # Empty => entries'[t].key # Empty
    PROVE  Reached(h, capacity', entries', s)
<1>1. capacity \in Nat \ {0} /\ Slots = 0..(capacity - 1)
  BY DEF TypeOK, Slots
<1>2. PICK n \in 0..(capacity - 1) :
             /\ ProbeAt(h, capacity, n) = s
             /\ \A i \in 0..(n - 1) :
                    entries[ProbeAt(h, capacity, i)].key # Empty
  BY DEF Reached
<1>3. ASSUME NEW i \in 0..(n - 1)
      PROVE  entries'[ProbeAt(h, capacity, i)].key # Empty
  <2>1. i \in 0..(capacity - 1)
    BY <1>1, <1>2
  <2>2. ProbeAt(h, capacity, i) \in Slots
    BY <1>1, <2>1, ProbeIs
  <2> QED
    BY <1>2, <2>2
<1> QED
  BY <1>2, <1>3 DEF Reached

\* A new key comes into a free slot.
LEMMA InsertIs ==
    ASSUME ConstantsOK, Inv, NEW k \in Keys, NEW v \in Values \union {Null},
           ~HasEntry(k), size < threshold, Insert(k, v)
    PROVE  \E s \in Slots :
               /\ s \notin Live
               /\ capacity' = capacity /\ Slots' = Slots
               /\ entries' \in [Slots -> Entry]
               /\ entries'[s] = [key |-> k, value |-> v]
               /\ \A t \in Slots : t # s => entries'[t] = entries[t]
               /\ Live' = Live \union {s}
               /\ size' = size + 1 /\ size' \in Nat
               /\ threshold' \in Nat /\ threshold' >= threshold
               /\ SearchesEnd' /\ LiveInv'
<1> DEFINE s == FirstProbe(k, {Empty, Tombstone})
<1>1. /\ TypeOK /\ SearchesEnd /\ LiveInv
      /\ \A t \in Live : entries[t].key # k
  BY HasEntryIs DEF Inv
<1>2. /\ s \in Slots /\ s \notin Live
      /\ entries[s].key \in {Empty, Tombstone}
      /\ Reached(HashSum[k], capacity, entries, s)
  BY FreeSlot
<1>3. /\ entries' = [entries EXCEPT ![s] = [key |-> k, value |-> v]]
      /\ size' = size + 1
      /\ threshold' = IF entries[s].key = Tombstone THEN threshold + 1
                                                    ELSE threshold
      /\ capacity' = capacity
  BY DEF Insert
<1> HIDE DEF s
<1>4. /\ entries \in [Slots -> Entry] /\ size \in Nat /\ threshold \in Nat
      /\ capacity \in Nat /\ capacity >= 3
  BY <1>1 DEF TypeOK
<1>5. Slots' = Slots /\ Slots = 0..(capacity - 1)
  BY <1>3 DEF Slots
<1>6. /\ entries' \in [Slots -> Entry]
      /\ entries'[s] = [key |-> k, value |-> v]
      /\ \A t \in Slots : t # s => entries'[t] = entries[t]
  BY <1>2, <1>3, <1>4 DEF Entry
<1>7. Live' = Live \union {s}
  BY <1>2, <1>5, <1>6 DEF Live
<1>8. Tombs' = Tombs \ {s}
  BY <1>2, <1>5, <1>6 DEF Tombs, ConstantsOK
<1>9. /\ Cardinality(Live') = Cardinality(Live) + 1
      /\ Cardinality(Tombs') = IF entries[s].key = Tombstone
                               THEN Cardinality(Tombs) - 1
                               ELSE Cardinality(Tombs)
      /\ Cardinality(Tombs') \in Nat
      /\ Cardinality(Live) \in Nat /\ Cardinality(Tombs) \in Nat
  <2>1. /\ IsFiniteSet(Live) /\ IsFiniteSet(Tombs)
        /\ Cardinality(Live) \in Nat /\ Cardinality(Tombs) \in Nat
    BY <1>1, Counted
  <2>2. s \in Tombs <=> entries[s].key = Tombstone
    BY <1>2 DEF Tombs
  <2>3. IsFiniteSet(Tombs \ {s}) /\ Cardinality(Tombs \ {s}) \in Nat
    BY <2>1, FS_RemoveElement, FS_CardinalityType
  <2> QED
    BY <1>2, <1>7, <1>8, <2>1, <2>2, <2>3, FS_AddElement, FS_RemoveElement
<1>10. SearchesEnd'
  <2>1. /\ size = Cardinality(Live)
        /\ threshold = Limit(capacity) - Cardinality(Tombs)
    BY <1>1 DEF SearchesEnd
  <2>2. /\ size' = Cardinality(Live') /\ size' \in Nat /\ threshold' \in Nat
        /\ size' <= threshold'
    BY <1>3, <1>4, <1>9, <2>1
  <2>3. threshold' = Limit(capacity') - Cardinality(Tombs')
    <3>1. Limit(capacity) \in Int
      BY <1>4 DEF Limit
    <3> QED
      BY <1>3, <1>4, <1>9, <2>1, <3>1
  <2> QED
    BY <1>3, <1>4, <1>5, <1>6, <1>9, <2>2, <2>3, CountsSuffice
<1>11. LiveInv'
  <2>1. \A t \in Slots : entries[t].key # Empty => entries'[t].key # Empty
    BY <1>6 DEF ConstantsOK
  <2>2. Reached(HashSum[k], capacity', entries', s)
    BY <1>1, <1>2, <1>3, <2>1, StillReached DEF ConstantsOK
  <2>3. \A t \in Live : /\ t \in Slots /\ t # s /\ entries'[t] = entries[t]
                        /\ entries[t].key \in Keys
    BY <1>2, <1>6 DEF Live
  <2>4. ASSUME NEW t \in Live
        PROVE  Reached(HashSum[entries'[t].key], capacity', entries', t)
    <3>1. /\ Reached(HashSum[entries[t].key], capacity, entries, t)
          /\ HashSum[entries[t].key] \in Nat
      BY <1>1, <2>3 DEF LiveInv, ConstantsOK
    <3>2. Reached(HashSum[entries[t].key], capacity', entries', t)
      BY <1>1, <1>3, <2>1, <3>1, StillReached
    <3> QED
      BY <2>3, <3>2
  <2>5. \A t \in Live' :
            Reached(HashSum[entries'[t].key], capacity', entries', t)
    BY <1>6, <1>7, <2>2, <2>4
  <2>6. \A t, u \in Live' : entries'[t].key = entries'[u].key => t = u
    BY <1>1, <1>6, <1>7, <2>3 DEF LiveInv
  <2> QED
    BY <2>5, <2>6 DEF LiveInv
<1>12. size' \in Nat /\ threshold' \in Nat /\ threshold' >= threshold
  BY <1>3, <1>4
<1> QED
  BY <1>2, <1>3, <1>5, <1>6, <1>7, <1>10, <1>11, <1>12

\* An entry's value is another one.
LEMMA ReplaceIs ==
    ASSUME ConstantsOK, Inv, NEW k \in Keys, NEW v \in Values,
           HasEntry(k), Replace(k, v)
    PROVE  \E s \in Live :
               /\ entries[s].key = k
               /\ capacity' = capacity /\ Slots' = Slots
               /\ entries' \in [Slots -> Entry]
               /\ entries'[s] = [key |-> k, value |-> v]
               /\ \A t \in Slots : t # s => entries'[t] = entries[t]
               /\ Live' = Live
               /\ SearchesEnd' /\ LiveInv'
<1> DEFINE s == SI_fetch_entry(k)
<1>1. TypeOK /\ SearchesEnd /\ LiveInv
  BY DEF Inv
<1>2. s \in Live /\ s \in Slots /\ entries[s].key = k
  BY HasEntryIs DEF HasEntry, Live
<1>3. /\ entries' = [entries EXCEPT ![s].value = v]
      /\ capacity' = capacity /\ size' = size /\ threshold' = threshold
  BY DEF Replace
<1> HIDE DEF s
<1>4. Slots' = Slots /\ entries \in [Slots -> Entry]
  BY <1>1, <1>3 DEF Slots, TypeOK
<1>5. /\ entries' \in [Slots -> Entry]
      /\ entries'[s] = [key |-> k, value |-> v]
      /\ \A t \in Slots : t # s => entries'[t] = entries[t]
  <2>1. entries[s] \in Entry
    BY <1>2, <1>4
  <2>2. [entries[s] EXCEPT !.value = v] = [key |-> k, value |-> v]
    BY <1>2, <2>1 DEF Entry
  <2>3. [key |-> k, value |-> v] \in Entry
    BY DEF Entry
  <2> QED
    BY <1>2, <1>3, <1>4, <2>2, <2>3
<1>6. \A t \in Slots : entries'[t].key = entries[t].key
  BY <1>2, <1>5
<1>7. Live' = Live /\ Tombs' = Tombs
  BY <1>4, <1>6 DEF Live, Tombs
<1>8. SearchesEnd'
  BY <1>1, <1>3, <1>4, <1>6, <1>7 DEF SearchesEnd
<1>9. LiveInv'
  <2>1. \A t \in Live : t \in Slots /\ entries[t].key \in Keys
    BY DEF Live
  <2>2. ASSUME NEW t \in Live
        PROVE  Reached(HashSum[entries'[t].key], capacity', entries', t)
    <3>1. /\ Reached(HashSum[entries[t].key], capacity, entries, t)
          /\ HashSum[entries[t].key] \in Nat
      BY <1>1, <2>1 DEF LiveInv, ConstantsOK
    <3>2. Reached(HashSum[entries[t].key], capacity', entries', t)
      BY <1>1, <1>3, <1>6, <3>1, StillReached
    <3> QED
      BY <1>6, <2>1, <3>2
  <2>3. \A t, u \in Live : entries'[t].key = entries'[u].key => t = u
    BY <1>1, <1>6, <2>1 DEF LiveInv
  <2> QED
    BY <1>7, <2>2, <2>3 DEF LiveInv
<1> QED
  BY <1>2, <1>3, <1>4, <1>5, <1>7, <1>8, <1>9

\* A deleted entry leaves a tombstone.
LEMMA DeleteIs ==
    ASSUME ConstantsOK, Inv, NEW k \in Keys, HasEntry(k), DeleteEntry(k)
    PROVE  \E s \in Live :
               /\ s = SI_fetch_entry(k)
               /\ entries[s].key = k
               /\ capacity' = capacity /\ Slots' = Slots
               /\ entries' \in [Slots -> Entry]
               /\ \A t \in Slots : t # s => entries'[t] = entries[t]
               /\ Live' = Live \ {s}
               /\ size' \in Nat /\ threshold' \in Nat
               /\ SearchesEnd' /\ LiveInv'
<1> DEFINE s == SI_fetch_entry(k)
<1>1. TypeOK /\ SearchesEnd /\ LiveInv
  BY DEF Inv
<1>2. s \in Live /\ s \in Slots /\ entries[s].key = k
  BY HasEntryIs DEF HasEntry, Live
<1>3. /\ entries' = [entries EXCEPT ![s] =
                         [key |-> Tombstone, value |-> Null]]
      /\ capacity' = capacity /\ size' = size - 1
      /\ threshold' = threshold - 1
  BY DEF DeleteEntry
<1> HIDE DEF s
<1>4. /\ Slots' = Slots /\ Slots = 0..(capacity - 1)
      /\ entries \in [Slots -> Entry]
      /\ size \in Nat /\ threshold \in Nat
      /\ capacity \in Nat /\ capacity >= 3
  BY <1>1, <1>3 DEF Slots, TypeOK
<1>5. /\ entries' \in [Slots -> Entry]
      /\ entries'[s].key = Tombstone
      /\ \A t \in Slots : t # s => entries'[t] = entries[t]
  BY <1>2, <1>3, <1>4 DEF Entry
<1>6. Live' = Live \ {s}
  BY <1>4, <1>5 DEF Live, ConstantsOK
<1>7. Tombs' = Tombs \union {s} /\ s \notin Tombs
  BY <1>2, <1>4, <1>5 DEF Tombs, ConstantsOK
<1>8. /\ Cardinality(Live') = Cardinality(Live) - 1
      /\ Cardinality(Tombs') = Cardinality(Tombs) + 1
      /\ Cardinality(Live) \in Nat /\ Cardinality(Tombs) \in Nat
      /\ Cardinality(Live') \in Nat
  <2>1. /\ IsFiniteSet(Live) /\ IsFiniteSet(Tombs)
        /\ Cardinality(Live) \in Nat /\ Cardinality(Tombs) \in Nat
    BY <1>1, Counted
  <2>2. IsFiniteSet(Live \ {s}) /\ Cardinality(Live \ {s}) \in Nat
    BY <2>1, FS_RemoveElement, FS_CardinalityType
  <2> QED
    BY <1>2, <1>6, <1>7, <2>1, <2>2, FS_AddElement, FS_RemoveElement
<1>9. SearchesEnd' /\ size' \in Nat /\ threshold' \in Nat
  <2>1. /\ size = Cardinality(Live) /\ size <= threshold
        /\ threshold = Limit(capacity) - Cardinality(Tombs)
    BY <1>1 DEF SearchesEnd
  <2>2. /\ size' = Cardinality(Live') /\ size' \in Nat /\ threshold' \in Nat
        /\ size' <= threshold'
    BY <1>3, <1>4, <1>8, <2>1
  <2>3. threshold' = Limit(capacity') - Cardinality(Tombs')
    <3>1. Limit(capacity) \in Int
      BY <1>4 DEF Limit
    <3> QED
      BY <1>3, <1>4, <1>8, <2>1, <3>1
  <2> QED
    BY <1>3, <1>4, <1>5, <1>8, <2>2, <2>3, CountsSuffice
<1>10. LiveInv'
  <2>1. \A t \in Slots : entries[t].key # Empty => entries'[t].key # Empty
    BY <1>5 DEF ConstantsOK
  <2>2. \A t \in Live' : /\ t \in Slots /\ entries'[t] = entries[t]
                         /\ t \in Live /\ entries[t].key \in Keys
    BY <1>5, <1>6 DEF Live
  <2>3. ASSUME NEW t \in Live'
        PROVE  Reached(HashSum[entries'[t].key], capacity', entries', t)
    <3>1. /\ Reached(HashSum[entries[t].key], capacity, entries, t)
          /\ HashSum[entries[t].key] \in Nat
      BY <1>1, <2>2 DEF LiveInv, ConstantsOK
    <3>2. Reached(HashSum[entries[t].key], capacity', entries', t)
      BY <1>1, <1>3, <2>1, <3>1, StillReached
    <3> QED
      BY <2>2, <3>2
  <2>4. \A t, u \in Live' : entries'[t].key = entries'[u].key => t = u
    BY <1>1, <2>2 DEF LiveInv
  <2> QED
    BY <2>3, <2>4 DEF LiveInv
<1> QED
  BY <1>2, <1>3, <1>4, <1>5, <1>6, <1>9, <1>10 DEF s

\* A table of empty slots.
LEMMA EmptyTable ==
    ASSUME ConstantsOK, capacity' \in Nat, capacity' >= 3,
           entries' = [s \in 0..(capacity' - 1) |-> NoEntry],
           size' = 0, threshold' = Limit(capacity')
    PROVE  /\ Slots' = 0..(capacity' - 1)
           /\ entries' \in [Slots' -> Entry]
           /\ Live' = {} /\ threshold' \in Nat
           /\ SearchesEnd' /\ LiveInv'
<1>1. Slots' = 0..(capacity' - 1) /\ NoEntry \in Entry
  BY DEF Slots, NoEntry, Entry
<1>2. entries' \in [Slots' -> Entry] /\ \A s \in Slots' : entries'[s] = NoEntry
  BY <1>1
<1>3. Live' = {} /\ Tombs' = {}
  <2>1. \A s \in Slots' : entries'[s].key = Empty
    BY <1>2 DEF NoEntry
  <2> QED
    BY <2>1 DEF Live, Tombs, ConstantsOK
<1>4. threshold' \in Nat /\ Limit(capacity') \in Nat
  BY LimitIs
<1>5. Cardinality(Live') = 0 /\ Cardinality(Tombs') = 0
  BY <1>3, FS_EmptySet
<1>6. SearchesEnd'
  <2>1. entries' \in [0..(capacity' - 1) -> Entry]
    BY <1>1, <1>2
  <2>2. /\ size' \in Nat /\ size' = Cardinality(Live')
        /\ threshold' = Limit(capacity') - Cardinality(Tombs')
        /\ Cardinality(Tombs') \in Nat /\ size' <= threshold'
    BY <1>4, <1>5
  <2> QED
    BY <1>4, <2>1, <2>2, CountsSuffice
<1>7. LiveInv'
  BY <1>3 DEF LiveInv
<1> QED
  BY <1>1, <1>2, <1>3, <1>4, <1>6, <1>7

-----------------------------------------------------------------------------
(* Every step keeps the invariant.                                         *)

LEMMA NotRebuilding ==
    ASSUME TypeOK, ~Rebuilding
    PROVE  old = <<>> /\ storing = <<>> /\ Unmoved = {}
<1>1. storing = <<>>
  BY DEF Rebuilding
<1>2. storing \notin Keys \X Values
  BY <1>1
<1>3. old = <<>>
  BY <1>2 DEF TypeOK
<1>4. DOMAIN old = {}
  BY <1>3
<1> QED
  BY <1>1, <1>3, <1>4 DEF Unmoved

LEMMA WhileRebuilding ==
    ASSUME TypeOK, Rebuilding
    PROVE  /\ old \in [0..(capacity \div 2 - 1) -> Entry]
           /\ DOMAIN old = 0..(capacity \div 2 - 1)
           /\ capacity \div 2 \in Nat /\ capacity = 2 * (capacity \div 2)
           /\ tick \in Nat /\ tick <= capacity \div 2
           /\ storing \in Keys \X Values
           /\ storing[1] \in Keys /\ storing[2] \in Values
           /\ IsFiniteSet(Unmoved) /\ Cardinality(Unmoved) \in Nat
<1>1. /\ old \in [0..(capacity \div 2 - 1) -> Entry]
      /\ capacity = 2 * (capacity \div 2) /\ tick <= capacity \div 2
      /\ storing \in Keys \X Values /\ tick \in Nat /\ capacity \in Nat
  BY DEF TypeOK, Rebuilding
<1>2. capacity \div 2 \in Nat
  BY <1>1
<1>3. Unmoved \in SUBSET (0..(capacity \div 2 - 1))
  BY <1>1 DEF Unmoved
<1>4. IsFiniteSet(0..(capacity \div 2 - 1))
  BY <1>2, FS_Interval
<1>5. IsFiniteSet(Unmoved)
  BY <1>3, <1>4, FS_Subset
<1> QED
  BY <1>1, <1>2, <1>5, FS_CardinalityType

\* A call that begins and ends outside of a rebuild.
LEMMA CallKeeps ==
    ASSUME ConstantsOK, Inv, ~Rebuilding, UNCHANGED rebuild,
           capacity' = capacity, entries' \in [Slots -> Entry],
           size' \in Nat, threshold' \in Nat, SearchesEnd', LiveInv',
           seen' \in [Keys -> Nat], steady' \subseteq Keys,
           iter' \in [tick : Int, capacity : Nat],
           iter'.tick \in -1..iter'.capacity
    PROVE  Inv'
<1>1. TypeOK /\ old = <<>> /\ storing = <<>>
  BY NotRebuilding DEF Inv
<1>2. TypeOK'
  BY <1>1 DEF TypeOK, rebuild, Slots
<1>3. ~Rebuilding'
  BY <1>1 DEF rebuild, Rebuilding
<1>4. Unmoved' = {}
  <2>1. DOMAIN old' = {}
    BY <1>1 DEF rebuild
  <2> QED
    BY <2>1 DEF Unmoved
<1>5. NoRebuildWithin' /\ MovingInv'
  BY <1>3, <1>4 DEF NoRebuildWithin, MovingInv
<1> QED
  BY <1>2, <1>5 DEF Inv

LEMMA StoreKeeps ==
    ASSUME ConstantsOK, Inv, NEW k \in Keys, NEW v \in Values,
           StoreInPlace(k, v)
    PROVE  Inv'
<1>1. /\ ~Rebuilding /\ UNCHANGED rebuild /\ UNCHANGED iteration
      /\ TypeOK
  BY DEF StoreInPlace, Inv
<1>2. /\ seen' \in [Keys -> Nat] /\ steady' \subseteq Keys
      /\ iter' \in [tick : Int, capacity : Nat]
      /\ iter'.tick \in -1..iter'.capacity
  BY <1>1 DEF TypeOK, iteration
<1>3. CASE HasEntry(k) /\ Replace(k, v)
  <2>1. size' \in Nat /\ threshold' \in Nat
    BY <1>1, <1>3 DEF TypeOK, Replace
  <2> QED
    BY <1>1, <1>2, <1>3, <2>1, ReplaceIs, CallKeeps
<1>4. CASE ~HasEntry(k) /\ size < threshold /\ Insert(k, v)
  BY <1>1, <1>2, <1>4, InsertIs, CallKeeps
<1> QED
  BY <1>3, <1>4 DEF StoreInPlace

\* All entries are to be moved into a table with room for them.
LEMMA BeginRebuildIs ==
    ASSUME ConstantsOK, Inv, NEW k \in Keys, NEW v \in Values,
           BeginRebuild(k, v), ~(UNCHANGED <<table, rebuild>>)
    PROVE  /\ capacity' = 2 * capacity
           /\ old' = entries /\ tick' = 0 /\ storing' = <<k, v>>
           /\ Live' = {} /\ Unmoved' = Live
           /\ UNCHANGED <<result, iteration>>
           /\ Inv'
<1>1. /\ TypeOK /\ SearchesEnd /\ LiveInv /\ ~Rebuilding
      /\ \A s \in Live : entries[s].key # k
  BY HasEntryIs DEF Inv, BeginRebuild
<1>2. /\ capacity' = 2 * capacity
      /\ threshold' = Limit(capacity')
      /\ entries' = [s \in 0..(capacity' - 1) |-> NoEntry]
      /\ size' = 0
      /\ old' = entries /\ tick' = 0 /\ storing' = <<k, v>>
      /\ UNCHANGED result /\ UNCHANGED iteration
  BY DEF BeginRebuild
<1>3. /\ capacity \in Nat /\ capacity >= 3 /\ entries \in [Slots -> Entry]
      /\ Slots = 0..(capacity - 1)
      /\ size \in Nat /\ threshold \in Nat
  BY <1>1 DEF TypeOK, Slots
<1>4. capacity' \in Nat /\ capacity' >= 3 /\ capacity' \div 2 = capacity
  BY <1>2, <1>3
<1>5. /\ Slots' = 0..(capacity' - 1)
      /\ entries' \in [Slots' -> Entry]
      /\ Live' = {} /\ threshold' \in Nat
      /\ SearchesEnd' /\ LiveInv'
  BY <1>2, <1>4, EmptyTable
<1>6. Unmoved' = Live
  <2>1. Unmoved' = {s \in DOMAIN entries : s >= 0 /\ entries[s].key \in Keys}
    BY <1>2 DEF Unmoved
  <2>2. DOMAIN entries = Slots /\ \A s \in Slots : s >= 0
    BY <1>3
  <2> QED
    BY <2>1, <2>2 DEF Live
<1>7. TypeOK'
  <2>1. old' \in [0..(capacity' \div 2 - 1) -> Entry]
    BY <1>2, <1>3, <1>4
  <2>2. /\ capacity' = 2 * (capacity' \div 2) /\ tick' <= capacity' \div 2
        /\ tick' \in Nat /\ size' \in Nat
    BY <1>2, <1>3, <1>4
  <2>3. storing' \in Keys \X Values
    BY <1>2
  <2>4. /\ seen' \in [Keys -> Nat] /\ steady' \subseteq Keys
        /\ iter' \in [tick : Int, capacity : Nat]
        /\ iter'.tick \in -1..iter'.capacity
    BY <1>1, <1>2 DEF TypeOK, iteration
  <2> QED
    BY <1>4, <1>5, <2>1, <2>2, <2>3, <2>4 DEF TypeOK
<1>8. NoRebuildWithin'
  <2>1. /\ size = Cardinality(Live) /\ size <= threshold
        /\ threshold = Limit(capacity) - Cardinality(Tombs)
        /\ Cardinality(Tombs) \in Nat
    BY <1>1, Counted DEF SearchesEnd
  <2>2. Limit(capacity) \in Nat /\ Limit(capacity) < Limit(2 * capacity)
    BY <1>3, LimitIs
  <2>3. size' + Cardinality(Unmoved') < threshold'
    BY <1>2, <1>3, <1>5, <1>6, <2>1, <2>2
  <2> QED
    BY <2>3 DEF NoRebuildWithin
<1>9. MovingInv'
  <2>1. /\ \A s \in Unmoved' : old'[s] = entries[s]
        /\ storing'[1] = k
    BY <1>2
  <2> QED
    BY <1>1, <1>5, <1>6, <2>1 DEF MovingInv, LiveInv
<1> QED
  BY <1>2, <1>5, <1>6, <1>7, <1>8, <1>9 DEF Inv

\* An entry moves into the table, or there is none to be moved.
LEMMA RebuildStepIs ==
    ASSUME ConstantsOK, Inv, RebuildStep
    PROVE  /\ capacity' = capacity /\ old' = old /\ storing' = storing
           /\ UNCHANGED <<result, iteration>>
           /\ \/ /\ tick \in Unmoved
                 /\ Unmoved' = Unmoved \ {tick}
                 /\ \E s \in Slots :
                        /\ s \notin Live /\ Live' = Live \union {s}
                        /\ entries'[s].key = old[tick].key
                        /\ entries'[s].value = old[tick].value
                        /\ \A t \in Live : entries'[t] = entries[t]
              \/ UNCHANGED table /\ Unmoved' = Unmoved /\ Live' = Live
           /\ Inv'
<1>1. /\ TypeOK /\ SearchesEnd /\ LiveInv /\ MovingInv /\ NoRebuildWithin
      /\ Rebuilding /\ tick \in DOMAIN old
      /\ tick' = tick + 1 /\ old' = old /\ storing' = storing
      /\ UNCHANGED result /\ UNCHANGED iteration
  BY DEF Inv, RebuildStep
<1>2. /\ old \in [0..(capacity \div 2 - 1) -> Entry]
      /\ DOMAIN old = 0..(capacity \div 2 - 1)
      /\ capacity \div 2 \in Nat /\ capacity = 2 * (capacity \div 2)
      /\ tick \in Nat
      /\ IsFiniteSet(Unmoved) /\ Cardinality(Unmoved) \in Nat
      /\ storing \in Keys \X Values
  BY <1>1, WhileRebuilding
<1>3. tick \in 0..(capacity \div 2 - 1) /\ old[tick] \in Entry
  BY <1>1, <1>2
<1>4. Unmoved' = Unmoved \ {tick}
  BY <1>1, <1>2 DEF Unmoved
<1>5. Rebuilding'
  BY <1>1 DEF Rebuilding
<1>6. /\ seen' \in [Keys -> Nat] /\ steady' \subseteq Keys
      /\ iter' \in [tick : Int, capacity : Nat]
      /\ iter'.tick \in -1..iter'.capacity
  BY <1>1 DEF TypeOK, iteration
<1>7. tick' \in Nat /\ tick' <= capacity \div 2
  BY <1>1, <1>2, <1>3
<1>8. CASE old[tick].key \notin {Empty, Tombstone}
  <2>1. /\ old[tick].key \in Keys /\ old[tick].value \in Values \union {Null}
    BY <1>3, <1>8 DEF Entry
  <2>2. tick \in Unmoved
    BY <1>1, <1>2, <2>1 DEF Unmoved
  <2>3. /\ ~HasEntry(old[tick].key) /\ size < threshold
        /\ Insert(old[tick].key, old[tick].value)
    BY <1>8 DEF RebuildStep
  <2>4. PICK s \in Slots :
               /\ s \notin Live
               /\ capacity' = capacity /\ Slots' = Slots
               /\ entries' \in [Slots -> Entry]
               /\ entries'[s] = [key |-> old[tick].key,
                                 value |-> old[tick].value]
               /\ \A t \in Slots : t # s => entries'[t] = entries[t]
               /\ Live' = Live \union {s}
               /\ size' = size + 1 /\ size' \in Nat
               /\ threshold' \in Nat /\ threshold' >= threshold
               /\ SearchesEnd' /\ LiveInv'
    BY <2>1, <2>3, InsertIs
  <2>5. \A t \in Live : entries'[t] = entries[t]
    BY <2>4 DEF Live
  <2>6. TypeOK'
    BY <1>1, <1>2, <1>6, <1>7, <2>4 DEF TypeOK
  <2>7. NoRebuildWithin'
    <3>1. Cardinality(Unmoved') = Cardinality(Unmoved) - 1
      BY <1>2, <1>4, <2>2, FS_RemoveElement
    <3>2. size + Cardinality(Unmoved) < threshold
      BY <1>1 DEF NoRebuildWithin
    <3>3. size \in Nat /\ threshold \in Nat
      BY <1>1 DEF TypeOK
    <3> QED
      BY <1>2, <2>4, <3>1, <3>2, <3>3 DEF NoRebuildWithin
  <2>8. MovingInv'
    <3>1. \A t \in Unmoved' : t \in Unmoved /\ t # tick /\ old'[t] = old[t]
      BY <1>1, <1>4
    <3>2. \A t \in Live' : entries'[t].key = IF t = s THEN old[tick].key
                                             ELSE entries[t].key
      BY <2>4, <2>5
    <3>3. /\ \A t, u \in Unmoved : old[t].key = old[u].key => t = u
          /\ \A t \in Unmoved, u \in Live : old[t].key # entries[u].key
          /\ \A t \in Live : entries[t].key # storing[1]
          /\ \A t \in Unmoved : old[t].key # storing[1]
      BY <1>1 DEF MovingInv
    <3>4. \A t, u \in Unmoved' : old'[t].key = old'[u].key => t = u
      BY <3>1, <3>3
    <3>5. ASSUME NEW t \in Unmoved', NEW u \in Live'
          PROVE  old'[t].key # entries'[u].key
      BY <2>2, <2>4, <3>1, <3>2, <3>3
    <3>6. /\ \A t \in Live' : entries'[t].key # storing'[1]
          /\ \A t \in Unmoved' : old'[t].key # storing'[1]
      BY <1>1, <2>2, <2>4, <3>1, <3>2, <3>3
    <3> QED
      BY <3>4, <3>5, <3>6 DEF MovingInv
  <2>9. /\ entries'[s].key = old[tick].key
        /\ entries'[s].value = old[tick].value
    BY <2>4
  <2> QED
    BY <1>1, <1>4, <2>2, <2>4, <2>5, <2>6, <2>7, <2>8, <2>9 DEF Inv
<1>9. CASE old[tick].key \in {Empty, Tombstone}
  <2>1. /\ capacity' = capacity /\ entries' = entries /\ size' = size
        /\ threshold' = threshold /\ UNCHANGED table
    BY <1>9 DEF RebuildStep, table
  <2>2. Unmoved' = Unmoved
    BY <1>4, <1>9 DEF Unmoved, ConstantsOK
  <2>3. Slots' = Slots /\ Live' = Live /\ Tombs' = Tombs
    BY <2>1 DEF Slots, Live, Tombs
  <2>4. TypeOK'
    BY <1>1, <1>2, <1>6, <1>7, <2>1, <2>3 DEF TypeOK
  <2>5. SearchesEnd' /\ LiveInv'
    BY <1>1, <2>1, <2>3 DEF SearchesEnd, LiveInv
  <2>6. NoRebuildWithin' /\ MovingInv'
    BY <1>1, <1>5, <2>1, <2>2, <2>3 DEF NoRebuildWithin, MovingInv
  <2> QED
    BY <1>1, <2>1, <2>2, <2>3, <2>4, <2>5, <2>6 DEF Inv
<1> QED
  BY <1>8, <1>9

\* The pair that the rebuild was for comes last.
LEMMA EndRebuildIs ==
    ASSUME ConstantsOK, Inv, EndRebuild
    PROVE  /\ storing[1] \in Keys /\ storing[2] \in Values
           /\ capacity' = capacity /\ Unmoved = {} /\ Unmoved' = {}
           /\ \A s \in Live : entries[s].key # storing[1]
           /\ \E s \in Slots :
                  /\ s \notin Live /\ Live' = Live \union {s}
                  /\ entries'[s] = [key |-> storing[1], value |-> storing[2]]
                  /\ \A t \in Live : entries'[t] = entries[t]
           /\ ~Rebuilding' /\ UNCHANGED iteration
           /\ result' = <<"stored", storing[1]>>
           /\ Inv'
<1>1. /\ TypeOK /\ SearchesEnd /\ LiveInv /\ MovingInv /\ NoRebuildWithin
      /\ Rebuilding /\ tick \notin DOMAIN old
      /\ Insert(storing[1], storing[2])
      /\ old' = <<>> /\ tick' = 0 /\ storing' = <<>>
      /\ UNCHANGED iteration /\ result' = <<"stored", storing[1]>>
  BY DEF Inv, EndRebuild
<1>2. /\ DOMAIN old = 0..(capacity \div 2 - 1)
      /\ capacity \div 2 \in Nat /\ tick \in Nat
      /\ storing[1] \in Keys /\ storing[2] \in Values
  BY <1>1, WhileRebuilding
<1>3. Unmoved = {}
  BY <1>1, <1>2 DEF Unmoved
<1>4. \A s \in Live : entries[s].key # storing[1]
  BY <1>1 DEF MovingInv
<1>5. ~HasEntry(storing[1])
  BY <1>2, <1>4, HasEntryIs
<1>6. size < threshold
  <2>1. Cardinality(Unmoved) = 0 /\ size \in Nat
    BY <1>1, <1>3, FS_EmptySet DEF TypeOK
  <2> QED
    BY <1>1, <2>1 DEF NoRebuildWithin
<1>7. PICK s \in Slots :
             /\ s \notin Live
             /\ capacity' = capacity /\ Slots' = Slots
             /\ entries' \in [Slots -> Entry]
             /\ entries'[s] = [key |-> storing[1], value |-> storing[2]]
             /\ \A t \in Slots : t # s => entries'[t] = entries[t]
             /\ Live' = Live \union {s}
             /\ size' = size + 1 /\ size' \in Nat
             /\ threshold' \in Nat /\ threshold' >= threshold
             /\ SearchesEnd' /\ LiveInv'
  BY <1>1, <1>2, <1>5, <1>6, InsertIs
<1>8. \A t \in Live : entries'[t] = entries[t]
  BY <1>7 DEF Live
<1>9. ~Rebuilding'
  BY <1>1 DEF Rebuilding
<1>10. Unmoved' = {}
  <2>1. DOMAIN old' = {}
    BY <1>1
  <2> QED
    BY <2>1 DEF Unmoved
<1>11. TypeOK'
  <2>1. /\ seen' \in [Keys -> Nat] /\ steady' \subseteq Keys
        /\ iter' \in [tick : Int, capacity : Nat]
        /\ iter'.tick \in -1..iter'.capacity
    BY <1>1 DEF TypeOK, iteration
  <2> QED
    BY <1>1, <1>7, <2>1 DEF TypeOK
<1>12. NoRebuildWithin' /\ MovingInv'
  BY <1>9, <1>10 DEF NoRebuildWithin, MovingInv
<1> QED
  BY <1>1, <1>2, <1>3, <1>4, <1>7, <1>8, <1>9, <1>10, <1>11, <1>12 DEF Inv

\* A call that leaves the table alone.
LEMMA QuietKeeps ==
    ASSUME ConstantsOK, Inv, UNCHANGED <<table, rebuild>>,
           seen' \in [Keys -> Nat], steady' \subseteq Keys,
           iter' \in [tick : Int, capacity : Nat],
           iter'.tick \in -1..iter'.capacity
    PROVE  Inv'
<1>1. /\ capacity' = capacity /\ entries' = entries /\ size' = size
      /\ threshold' = threshold
      /\ old' = old /\ tick' = tick /\ storing' = storing
  BY DEF table, rebuild
<1>2. /\ Slots' = Slots /\ Live' = Live /\ Tombs' = Tombs
      /\ Unmoved' = Unmoved /\ Rebuilding' = Rebuilding
  BY <1>1 DEF Slots, Live, Tombs, Unmoved, Rebuilding
<1>3. TypeOK'
  BY <1>1, <1>2 DEF Inv, TypeOK
<1>4. SearchesEnd' /\ LiveInv'
  BY <1>1, <1>2 DEF Inv, SearchesEnd, LiveInv
<1>5. NoRebuildWithin' /\ MovingInv'
  BY <1>1, <1>2 DEF Inv, NoRebuildWithin, MovingInv
<1> QED
  BY <1>3, <1>4, <1>5 DEF Inv

LEMMA DeleteKeeps ==
    ASSUME ConstantsOK, Inv, Delete
    PROVE  Inv'
<1>1. /\ TypeOK /\ ~Rebuilding /\ UNCHANGED rebuild
      /\ UNCHANGED <<iter, seen>>
  BY DEF Inv, Delete
<1>2. steady' \subseteq steady
  BY DEF Delete
<1>3. /\ seen' \in [Keys -> Nat] /\ steady' \subseteq Keys
      /\ iter' \in [tick : Int, capacity : Nat]
      /\ iter'.tick \in -1..iter'.capacity
  BY <1>1, <1>2 DEF TypeOK
<1>4. CASE UNCHANGED table
  BY <1>1, <1>3, <1>4, QuietKeeps
<1>5. ASSUME NEW k \in Keys, HasEntry(k), DeleteEntry(k)
      PROVE  Inv'
  BY <1>1, <1>3, <1>5, DeleteIs, CallKeeps
<1> QED
  BY <1>4, <1>5 DEF Delete

LEMMA ClearKeeps ==
    ASSUME ConstantsOK, Inv, Clear
    PROVE  Inv' /\ Live' = {}
<1>1. /\ TypeOK /\ ~Rebuilding /\ UNCHANGED rebuild
      /\ UNCHANGED <<iter, seen>> /\ steady' = {}
      /\ capacity' = capacity
      /\ entries' = [s \in Slots |-> NoEntry]
      /\ size' = 0 /\ threshold' = Limit(capacity)
  BY DEF Inv, Clear
<1>2. /\ capacity \in Nat /\ capacity >= 3 /\ Slots = 0..(capacity - 1)
  BY <1>1 DEF TypeOK, Slots
<1>3. /\ Slots' = 0..(capacity' - 1)
      /\ entries' \in [Slots' -> Entry]
      /\ Live' = {} /\ threshold' \in Nat
      /\ SearchesEnd' /\ LiveInv'
  BY <1>1, <1>2, EmptyTable
<1>4. /\ seen' \in [Keys -> Nat] /\ steady' \subseteq Keys
      /\ iter' \in [tick : Int, capacity : Nat]
      /\ iter'.tick \in -1..iter'.capacity
  BY <1>1 DEF TypeOK
<1>5. entries' \in [Slots -> Entry] /\ size' \in Nat
  BY <1>1, <1>2, <1>3
<1> QED
  BY <1>1, <1>3, <1>4, <1>5, CallKeeps

\* The iterator goes on to the next of the entries ahead of it, or to the end.
LEMMA IterNextIs ==
    ASSUME ConstantsOK, Inv, HashIter_Next
    PROVE  /\ UNCHANGED <<table, rebuild, result, steady>>
           /\ iter.capacity = capacity /\ iter'.capacity = capacity
           /\ \/ /\ iter'.tick = capacity /\ seen' = seen
                 /\ \A s \in Live : s <= iter.tick
              \/ \E s \in Live :
                    /\ iter'.tick = s /\ s > iter.tick
                    /\ \A t \in Live : t > iter.tick => s <= t
                    /\ seen' = [seen EXCEPT ![entries[s].key] = @ + 1]
           /\ Inv'
<1>1. /\ TypeOK /\ iter.capacity = capacity
      /\ UNCHANGED <<table, rebuild, result, steady>>
  BY DEF Inv, HashIter_Next
<1>2. /\ iter \in [tick : Int, capacity : Nat] /\ iter.tick \in Int
      /\ capacity \in Nat
      /\ seen \in [Keys -> Nat] /\ steady \subseteq Keys
      /\ \A s \in Live : s \in 0..(capacity - 1) /\ entries[s].key \in Keys
  BY <1>1 DEF TypeOK, Live, Slots
<1> DEFINE ahead == {s \in Live : s > iter.tick}
<1>3. CASE ahead = {}
  <2>1. iter' = [iter EXCEPT !.tick = capacity] /\ seen' = seen
    BY <1>3 DEF HashIter_Next
  <2>2. \A s \in Live : s <= iter.tick
    BY <1>2, <1>3
  <2>3. /\ iter' \in [tick : Int, capacity : Nat]
        /\ iter'.tick = capacity /\ iter'.capacity = capacity
        /\ iter'.tick \in -1..iter'.capacity
    BY <1>1, <1>2, <2>1
  <2>4. Inv'
    BY <1>1, <1>2, <2>1, <2>3, QuietKeeps
  <2> QED
    BY <1>1, <2>1, <2>2, <2>3, <2>4
<1>4. CASE ahead # {}
  <2>1. PICK s \in ahead :
               /\ \A t \in ahead : s <= t
               /\ iter' = [iter EXCEPT !.tick = s]
               /\ seen' = [seen EXCEPT ![entries[s].key] = @ + 1]
    BY <1>4 DEF HashIter_Next
  <2>2. s \in Live /\ s > iter.tick /\ \A t \in Live : t > iter.tick => s <= t
    BY <2>1
  <2>3. /\ iter' \in [tick : Int, capacity : Nat]
        /\ iter'.tick = s /\ iter'.capacity = capacity
        /\ iter'.tick \in -1..iter'.capacity
    BY <1>1, <1>2, <2>1, <2>2
  <2>4. seen' \in [Keys -> Nat]
    BY <1>2, <2>1, <2>2
  <2>5. Inv'
    BY <1>1, <1>2, <2>3, <2>4, QuietKeeps
  <2> QED
    BY <1>1, <2>1, <2>2, <2>3, <2>5
<1> QED
  BY <1>3, <1>4

LEMMA Initially ==
    ASSUME ConstantsOK, Init
    PROVE  Inv /\ IterInv
<1>1. /\ capacity \in Nat /\ capacity >= 3
      /\ entries = [s \in 0..(capacity - 1) |-> NoEntry]
      /\ size = 0 /\ threshold = Limit(capacity)
      /\ old = <<>> /\ tick = 0 /\ storing = <<>>
      /\ iter = [tick |-> -1, capacity |-> capacity]
      /\ seen = [k \in Keys |-> 0] /\ steady = {}
  BY DEF Init, ConstantsOK, Slots
<1>2. NoEntry \in Entry /\ NoEntry.key = Empty
  BY DEF NoEntry, Entry
<1>3. /\ Slots = 0..(capacity - 1) /\ entries \in [Slots -> Entry]
      /\ \A s \in Slots : entries[s].key = Empty
  BY <1>1, <1>2 DEF Slots
<1>4. Live = {} /\ Tombs = {}
  BY <1>3 DEF Live, Tombs, ConstantsOK
<1>5. Limit(capacity) \in Nat
  BY <1>1, LimitIs
<1>6. TypeOK
  BY <1>1, <1>3, <1>5 DEF TypeOK
<1>7. SearchesEnd
  <2>1. Cardinality(Live) = 0 /\ Cardinality(Tombs) = 0
    BY <1>4, FS_EmptySet
  <2>2. 0 \in Slots
    BY <1>1, <1>3
  <2>3. /\ size = Cardinality(Live) /\ size <= threshold
        /\ threshold = Limit(capacity) - Cardinality(Tombs)
    BY <1>1, <1>5, <2>1
  <2>4. \E s \in Slots : entries[s].key = Empty
    BY <1>3, <2>2
  <2> QED
    BY <2>3, <2>4 DEF SearchesEnd
<1>8. LiveInv
  BY <1>4 DEF LiveInv
<1>9. ~Rebuilding
  BY <1>1 DEF Rebuilding
<1>10. Unmoved = {}
  BY <1>6, <1>9, NotRebuilding
<1>11. NoRebuildWithin /\ MovingInv
  BY <1>9, <1>10 DEF NoRebuildWithin, MovingInv
<1>12. IterInv
  BY <1>1, <1>9 DEF IterInv
<1> QED
  BY <1>6, <1>7, <1>8, <1>11, <1>12 DEF Inv

LEMMA Inductive ==
    ASSUME ConstantsOK, Inv, [Next]_vars
    PROVE  Inv'
<1>1. /\ seen \in [Keys -> Nat] /\ steady \subseteq Keys
      /\ iter \in [tick : Int, capacity : Nat]
      /\ iter.tick \in -1..iter.capacity
  BY DEF Inv, TypeOK
<1>2. ASSUME NEW k \in Keys, NEW v \in Values, BeginRebuild(k, v)
      PROVE  Inv'
  <2>1. CASE UNCHANGED <<table, rebuild>>
    <3>1. UNCHANGED iteration
      BY <1>2 DEF BeginRebuild
    <3> QED
      BY <1>1, <2>1, <3>1, QuietKeeps DEF iteration
  <2>2. CASE ~(UNCHANGED <<table, rebuild>>)
    BY <1>2, <2>2, BeginRebuildIs
  <2> QED
    BY <2>1, <2>2
<1>3. CASE Store
  BY <1>2, <1>3, StoreKeeps DEF Store
<1>4. CASE RebuildStep \/ EndRebuild
  BY <1>4, RebuildStepIs, EndRebuildIs
<1>5. CASE Delete \/ Clear
  BY <1>5, DeleteKeeps, ClearKeeps
<1>6. CASE Fetch \/ Has_Key \/ Get_Size \/ UNCHANGED vars
  <2>1. UNCHANGED <<table, rebuild>> /\ UNCHANGED iteration
    BY <1>6 DEF Fetch, Has_Key, Get_Size, vars
  <2> QED
    BY <1>1, <2>1, QuietKeeps DEF iteration
<1>7. CASE HashIter_new
  <2>1. /\ UNCHANGED <<table, rebuild>>
        /\ iter' = [tick |-> -1, capacity |-> capacity]
        /\ seen' = [k \in Keys |-> 0] /\ steady' = {entries[s].key : s \in Live}
        /\ capacity \in Nat
    BY <1>7 DEF HashIter_new, Inv, TypeOK
  <2>2. steady' \subseteq Keys
    BY <2>1 DEF Live
  <2>3. /\ iter' \in [tick : Int, capacity : Nat]
        /\ iter'.tick \in -1..iter'.capacity
    BY <2>1
  <2> QED
    BY <2>1, <2>2, <2>3, QuietKeeps
<1>8. CASE HashIter_Next
  BY <1>8, IterNextIs
<1> QED
  BY <1>3, <1>4, <1>5, <1>6, <1>7, <1>8 DEF Next

-----------------------------------------------------------------------------
(* Iteration.                                                              *)

\* The iterator waits while nothing happens to the steady keys' slots.
LEMMA IterFrame ==
    ASSUME IterInv, capacity' = capacity, iter' = iter, seen' = seen,
           steady' \subseteq steady, Rebuilding' => Rebuilding,
           \A s \in Live : entries[s].key \in steady' =>
               s \in Live' /\ entries'[s].key = entries[s].key
    PROVE  IterInv'
<1>1. /\ iter'.capacity <= capacity'
      /\ Rebuilding' => iter'.capacity < capacity'
  BY DEF IterInv
<1>2. ASSUME iter.capacity = capacity, NEW k \in steady'
      PROVE  \E s \in Live' : /\ entries'[s].key = k
                              /\ seen'[k] = IF s <= iter'.tick THEN 1 ELSE 0
  <2>1. PICK s \in Live : /\ entries[s].key = k
                          /\ seen[k] = IF s <= iter.tick THEN 1 ELSE 0
    BY <1>2 DEF IterInv
  <2>2. s \in Live' /\ entries'[s].key = k
    BY <1>2, <2>1
  <2> QED
    BY <2>1, <2>2
<1> QED
  BY <1>1, <1>2 DEF IterInv

LEMMA IterKept ==
    ASSUME ConstantsOK, Inv, IterInv, [Next]_vars
    PROVE  IterInv'
<1>1. /\ TypeOK /\ capacity \in Nat /\ capacity >= 3
      /\ iter.capacity \in Nat /\ iter.tick \in Int
      /\ seen \in [Keys -> Nat] /\ steady \subseteq Keys
      /\ \A s \in Live : s \in Slots /\ entries[s].key \in Keys
  BY DEF Inv, TypeOK, Live
<1>2. ASSUME UNCHANGED <<table, rebuild, iter, seen, steady>>
      PROVE  IterInv'
  <2>1. Live' = Live /\ Rebuilding' = Rebuilding
    BY <1>2 DEF Live, Slots, Rebuilding, table, rebuild
  <2> QED
    BY <1>2, <2>1, IterFrame DEF table
<1>3. ASSUME NEW k \in Keys, NEW v \in Values, StoreInPlace(k, v)
      PROVE  IterInv'
  <2>1. /\ UNCHANGED rebuild /\ Rebuilding' = Rebuilding
        /\ iter' = iter /\ seen' = seen /\ steady' = steady
    BY <1>3 DEF StoreInPlace, rebuild, Rebuilding, iteration
  <2>2. CASE HasEntry(k) /\ Replace(k, v)
    <3>1. PICK s \in Live :
                 /\ entries[s].key = k
                 /\ capacity' = capacity
                 /\ entries'[s] = [key |-> k, value |-> v]
                 /\ \A t \in Slots : t # s => entries'[t] = entries[t]
                 /\ Live' = Live
      BY <2>2, ReplaceIs
    <3>2. \A t \in Live : entries'[t].key = entries[t].key
      BY <1>1, <3>1
    <3> QED
      BY <2>1, <3>1, <3>2, IterFrame
  <2>3. CASE ~HasEntry(k) /\ size < threshold /\ Insert(k, v)
    <3>1. PICK s \in Slots :
                 /\ s \notin Live
                 /\ capacity' = capacity
                 /\ \A t \in Slots : t # s => entries'[t] = entries[t]
                 /\ Live' = Live \union {s}
      BY <2>3, InsertIs
    <3>2. \A t \in Live : t \in Live' /\ entries'[t] = entries[t]
      BY <1>1, <3>1
    <3> QED
      BY <2>1, <3>1, <3>2, IterFrame
  <2> QED
    BY <1>3, <2>2, <2>3 DEF StoreInPlace
<1>4. ASSUME NEW k \in Keys, NEW v \in Values, BeginRebuild(k, v)
      PROVE  IterInv'
  <2>1. CASE UNCHANGED <<table, rebuild>>
    BY <1>2, <1>4, <2>1 DEF BeginRebuild, iteration
  <2>2. CASE ~(UNCHANGED <<table, rebuild>>)
    <3>1. capacity' = 2 * capacity /\ iter' = iter
      BY <1>4, <2>2, BeginRebuildIs DEF iteration
    <3>2. iter'.capacity < capacity'
      BY <1>1, <3>1 DEF IterInv
    <3> QED
      BY <1>1, <3>1, <3>2 DEF IterInv
  <2> QED
    BY <2>1, <2>2
<1>5. CASE RebuildStep
  <2>1. capacity' = capacity /\ iter' = iter /\ Rebuilding
    BY <1>5, RebuildStepIs DEF iteration, RebuildStep
  <2> QED
    BY <1>1, <2>1 DEF IterInv
<1>6. CASE EndRebuild
  <2>1. capacity' = capacity /\ iter' = iter /\ Rebuilding
    BY <1>6, EndRebuildIs DEF iteration, EndRebuild
  <2> QED
    BY <1>1, <2>1 DEF IterInv
<1>7. CASE Delete
  <2>1. PICK k \in Keys :
               IF HasEntry(k) THEN DeleteEntry(k) /\ steady' = steady \ {k}
                              ELSE UNCHANGED <<table, steady>>
    BY <1>7 DEF Delete
  <2>2. UNCHANGED <<rebuild, iter, seen>>
    BY <1>7 DEF Delete
  <2>3. CASE HasEntry(k)
    <3>1. PICK s \in Live :
                 /\ entries[s].key = k
                 /\ capacity' = capacity
                 /\ \A t \in Slots : t # s => entries'[t] = entries[t]
                 /\ Live' = Live \ {s}
      BY <2>1, <2>3, DeleteIs
    <3>2. steady' = steady \ {k}
      BY <2>1, <2>3
    <3>3. \A t \in Live : entries[t].key \in steady' =>
                              t \in Live' /\ entries'[t] = entries[t]
      BY <1>1, <3>1, <3>2
    <3>4. Rebuilding' = Rebuilding
      BY <2>2 DEF Rebuilding, rebuild
    <3> QED
      BY <2>2, <3>1, <3>2, <3>3, <3>4, IterFrame
  <2>4. CASE ~HasEntry(k)
    BY <1>2, <2>1, <2>2, <2>4
  <2> QED
    BY <2>3, <2>4
<1>8. CASE Clear
  <2>1. /\ capacity' = capacity /\ iter' = iter /\ steady' = {}
        /\ Rebuilding' = Rebuilding
    BY <1>8 DEF Clear, Rebuilding, rebuild
  <2> QED
    BY <2>1 DEF IterInv
<1>9. CASE Fetch \/ Has_Key \/ Get_Size \/ UNCHANGED vars
  BY <1>2, <1>9 DEF Fetch, Has_Key, Get_Size, vars, iteration
<1>10. CASE HashIter_new
  <2>1. /\ UNCHANGED <<table, rebuild>> /\ ~Rebuilding
        /\ iter' = [tick |-> -1, capacity |-> capacity]
        /\ seen' = [k \in Keys |-> 0] /\ steady' = {entries[s].key : s \in Live}
    BY <1>10 DEF HashIter_new
  <2>2. /\ Live' = Live /\ Rebuilding' = Rebuilding
        /\ capacity' = capacity /\ entries' = entries
    BY <2>1 DEF Live, Slots, Rebuilding, table, rebuild
  <2>3. ASSUME NEW k \in steady'
        PROVE  \E s \in Live : /\ entries[s].key = k
                               /\ seen'[k] = IF s <= -1 THEN 1 ELSE 0
    <3>1. PICK s \in Live : entries[s].key = k
      BY <2>1, <2>3
    <3>2. ~(s <= -1) /\ seen'[k] = 0
      BY <1>1, <2>1, <3>1 DEF Slots
    <3> QED
      BY <3>1, <3>2
  <2> QED
    BY <1>1, <2>1, <2>2, <2>3 DEF IterInv
<1>11. CASE HashIter_Next
  <2>1. /\ UNCHANGED <<table, rebuild, steady>>
        /\ iter.capacity = capacity /\ iter'.capacity = capacity
        /\ ~Rebuilding
    BY <1>11, IterNextIs DEF HashIter_Next
  <2>2. /\ Live' = Live /\ Rebuilding' = Rebuilding
        /\ capacity' = capacity /\ entries' = entries /\ steady' = steady
    BY <2>1 DEF Live, Slots, Rebuilding, table, rebuild
  <2>3. ASSUME NEW k \in steady
        PROVE  \E s \in Live : /\ entries[s].key = k
                               /\ seen'[k] = IF s <= iter'.tick THEN 1 ELSE 0
    <3>1. PICK s \in Live : /\ entries[s].key = k
                            /\ seen[k] = IF s <= iter.tick THEN 1 ELSE 0
      BY <2>1, <2>3 DEF IterInv
    <3>2. s \in Nat /\ s < capacity
      BY <1>1, <3>1 DEF Slots
    <3>3. CASE /\ iter'.tick = capacity /\ seen' = seen
               /\ \A t \in Live : t <= iter.tick
      <4>1. s <= iter.tick /\ s <= iter'.tick
        BY <1>1, <3>1, <3>2, <3>3
      <4>2. seen'[k] = 1
        BY <3>1, <3>3, <4>1
      <4> QED
        BY <3>1, <4>1, <4>2
    <3>4. CASE \E t \in Live :
                  /\ iter'.tick = t /\ t > iter.tick
                  /\ \A u \in Live : u > iter.tick => t <= u
                  /\ seen' = [seen EXCEPT ![entries[t].key] = @ + 1]
      <4>1. PICK t \in Live :
                   /\ iter'.tick = t /\ t > iter.tick
                   /\ \A u \in Live : u > iter.tick => t <= u
                   /\ seen' = [seen EXCEPT ![entries[t].key] = @ + 1]
        BY <3>4
      <4>2. t \in Nat
        BY <1>1 DEF Slots
      <4>3. CASE s = t
        <5>1. seen[k] = 0 /\ seen'[k] = seen[k] + 1
          BY <1>1, <3>1, <3>2, <4>1, <4>3
        <5> QED
          BY <3>1, <3>2, <4>1, <4>3, <5>1
      <4>4. CASE s # t
        <5>1. entries[t].key # k
          BY <3>1, <4>4 DEF Inv, LiveInv
        <5>2. seen'[k] = seen[k]
          BY <1>1, <4>1, <5>1, <2>3
        <5>3. s <= iter.tick <=> s <= iter'.tick
          BY <1>1, <3>2, <4>1, <4>2, <4>4
        <5> QED
          BY <3>1, <5>2, <5>3
      <4> QED
        BY <4>3, <4>4
    <3> QED
      BY <1>11, <3>3, <3>4, IterNextIs
  <2> QED
    BY <1>1, <2>1, <2>2, <2>3 DEF IterInv
<1> QED
  BY <1>3, <1>4, <1>5, <1>6, <1>7, <1>8, <1>9, <1>10, <1>11 DEF Next, Store

-----------------------------------------------------------------------------
(* The refinement of a map.                                                *)

PairAt(s) == <<entries[s].key, entries[s].value>>

LEMMA PairsAre ==
    ASSUME Inv, ~Rebuilding
    PROVE  Pairs = {PairAt(s) : s \in Live}
<1>1. Unmoved = {}
  BY NotRebuilding DEF Inv
<1> QED
  BY <1>1 DEF Pairs, PairAt

LEMMA ValueIs ==
    ASSUME ConstantsOK, Inv, ~Rebuilding, NEW k \in Keys
    PROVE  /\ HasEntry(k) <=> \E p \in Pairs : p[1] = k
           /\ Map!ValueOf(k) = IF HasEntry(k)
                               THEN entries[SI_fetch_entry(k)].value ELSE Null
<1> DEFINE f == SI_fetch_entry(k)
<1>1. /\ HasEntry(k) => f \in Live /\ entries[f].key = k
      /\ HasEntry(k) <=> \E s \in Live : entries[s].key = k
      /\ \A s \in Live : entries[s].key = k => s = f
  BY HasEntryIs, FetchFinds DEF HasEntry
<1>2. \A p : p \in Pairs <=> \E s \in Live : p = PairAt(s)
  BY PairsAre
<1>3. \A s : PairAt(s)[1] = entries[s].key /\ PairAt(s)[2] = entries[s].value
  BY DEF PairAt
<1> HIDE DEF f
<1>4. HasEntry(k) <=> \E p \in Pairs : p[1] = k
  BY <1>1, <1>2, <1>3
<1>5. CASE HasEntry(k)
  <2>1. \A p \in Pairs : p[1] = k => p = PairAt(f)
    BY <1>1, <1>2, <1>3
  <2>2. PairAt(f) \in Pairs /\ PairAt(f)[1] = k
    BY <1>1, <1>2, <1>3, <1>5
  <2>3. (CHOOSE p \in Pairs : p[1] = k) = PairAt(f)
    BY <2>1, <2>2
  <2>4. Map!ValueOf(k) = PairAt(f)[2]
    BY <1>4, <1>5, <2>3 DEF Map!ValueOf
  <2> QED
    BY <1>3, <1>4, <1>5, <2>4 DEF f
<1>6. CASE ~HasEntry(k)
  BY <1>4, <1>6 DEF Map!ValueOf
<1> QED
  BY <1>4, <1>5, <1>6

LEMMA SizeIs ==
    ASSUME ConstantsOK, Inv, ~Rebuilding
    PROVE  size = Cardinality(Pairs)
<1> DEFINE f == [s \in Live |-> PairAt(s)]
<1>1. /\ IsFiniteSet(Live) /\ size = Cardinality(Live)
      /\ \A s, t \in Live : entries[s].key = entries[t].key => s = t
  BY Counted DEF Inv, SearchesEnd, LiveInv
<1>2. Pairs = {PairAt(s) : s \in Live}
  BY PairsAre
<1>3. \A s, t \in Live : PairAt(s) = PairAt(t) => s = t
  BY <1>1 DEF PairAt
<1>4. f \in Bijection(Live, Pairs)
  <2>1. f \in [Live -> Pairs]
    BY <1>2
  <2>2. \A s, t \in Live : f[s] = f[t] => s = t
    BY <1>3
  <2>3. \A p \in Pairs : \E s \in Live : f[s] = p
    BY <1>2
  <2> HIDE DEF f
  <2> QED
    BY <2>1, <2>2, <2>3 DEF Bijection, Injection, Surjection, IsInjective
<1>5. ExistsBijection(Live, Pairs)
  BY <1>4 DEF ExistsBijection
<1> QED
  BY <1>1, <1>5, FS_Bijection

\* A pair comes into a slot that had none, or had one with the same key.
LEMMA PairComes ==
    ASSUME Unmoved = {}, Unmoved' = {},
           NEW s, NEW k, NEW v, Live' = Live \union {s},
           entries'[s] = [key |-> k, value |-> v],
           \A t \in Live : t # s => entries'[t] = entries[t],
           \A t \in Live : entries[t].key = k <=> t = s
    PROVE  Pairs' = Map!Without(k) \union {<<k, v>>}
<1>2. \A p : p \in Pairs <=>
             \E t \in Live : p = <<entries[t].key, entries[t].value>>
  BY DEF Pairs
<1>3. \A p : p \in Pairs' <=>
             \E t \in Live' : p = <<entries'[t].key, entries'[t].value>>
  BY DEF Pairs
<1>4. \A p : p \in Map!Without(k) <=> p \in Pairs /\ p[1] # k
  BY DEF Map!Without
<1>5. \A p : p \in Map!Without(k) <=>
             \E t \in Live : t # s /\ p = <<entries[t].key, entries[t].value>>
  BY <1>2, <1>4
<1> QED
  BY <1>3, <1>5

\* A store outside of a rebuild, and the one that ends it.
LEMMA StoreIsStore ==
    ASSUME ConstantsOK, Inv, NEW k \in Keys, NEW v \in Values,
           StoreInPlace(k, v)
    PROVE  Map!Store
<1>1. /\ ~Rebuilding /\ UNCHANGED rebuild /\ result' = <<"stored", k>>
      /\ Unmoved = {} /\ TypeOK
      /\ \A t, u \in Live : entries[t].key = entries[u].key => t = u
  BY NotRebuilding DEF StoreInPlace, Inv, LiveInv
<1>2. Unmoved' = {}
  BY <1>1 DEF Unmoved, rebuild
<1>3. CASE HasEntry(k) /\ Replace(k, v)
  <2>1. PICK s \in Live :
               /\ entries[s].key = k
               /\ entries'[s] = [key |-> k, value |-> v]
               /\ \A t \in Slots : t # s => entries'[t] = entries[t]
               /\ Live' = Live
    BY <1>3, ReplaceIs
  <2>2. /\ Live' = Live \union {s}
        /\ \A t \in Live : t # s => entries'[t] = entries[t]
        /\ \A t \in Live : entries[t].key = k <=> t = s
    BY <1>1, <2>1 DEF Live
  <2>3. Pairs' = Map!Without(k) \union {<<k, v>>}
    BY <1>1, <1>2, <2>1, <2>2, PairComes
  <2> QED
    BY <1>1, <2>3 DEF Map!Store
<1>4. CASE ~HasEntry(k) /\ size < threshold /\ Insert(k, v)
  <2>1. PICK s \in Slots :
               /\ s \notin Live
               /\ entries'[s] = [key |-> k, value |-> v]
               /\ \A t \in Slots : t # s => entries'[t] = entries[t]
               /\ Live' = Live \union {s}
    BY <1>4, InsertIs
  <2>2. /\ \A t \in Live : t # s => entries'[t] = entries[t]
        /\ \A t \in Live : entries[t].key = k <=> t = s
    BY <1>4, <2>1, HasEntryIs DEF Live
  <2>3. Pairs' = Map!Without(k) \union {<<k, v>>}
    BY <1>1, <1>2, <2>1, <2>2, PairComes
  <2> QED
    BY <1>1, <2>3 DEF Map!Store
<1> QED
  BY <1>3, <1>4 DEF StoreInPlace

LEMMA EndIsStore ==
    ASSUME ConstantsOK, Inv, EndRebuild
    PROVE  Map!Store
<1> DEFINE k == storing[1]
           v == storing[2]
<1>1. /\ k \in Keys /\ v \in Values /\ Unmoved = {} /\ Unmoved' = {}
      /\ \A s \in Live : entries[s].key # k
      /\ result' = <<"stored", k>>
  BY EndRebuildIs
<1>2. PICK s \in Slots :
             /\ s \notin Live /\ Live' = Live \union {s}
             /\ entries'[s] = [key |-> k, value |-> v]
             /\ \A t \in Live : entries'[t] = entries[t]
  BY EndRebuildIs
<1> HIDE DEF k, v
<1>3. Pairs' = Map!Without(k) \union {<<k, v>>}
  <2>1. \A t \in Live : entries[t].key = k <=> t = s
    BY <1>1, <1>2
  <2>2. \A t \in Live : t # s => entries'[t] = entries[t]
    BY <1>2
  <2> QED
    BY <1>1, <1>2, <2>1, <2>2, PairComes
<1> QED
  BY <1>1, <1>3 DEF Map!Store

\* Until then the pairs are partly in the old table, partly in the new one.
LEMMA RebuildIsInvisible ==
    ASSUME ConstantsOK, Inv,
           \/ RebuildStep
           \/ \E k \in Keys, v \in Values :
                  BeginRebuild(k, v) /\ ~(UNCHANGED <<table, rebuild>>)
    PROVE  UNCHANGED Map!vars
<1>1. CASE RebuildStep
  <2>1. /\ old' = old /\ result' = result
        /\ \A s \in Live : s \in Slots
    BY <1>1, RebuildStepIs DEF Live
  <2>2. ASSUME tick \in Unmoved, Unmoved' = Unmoved \ {tick},
               NEW s \in Slots, s \notin Live, Live' = Live \union {s},
               entries'[s].key = old[tick].key,
               entries'[s].value = old[tick].value,
               \A t \in Live : entries'[t] = entries[t]
        PROVE  Pairs' = Pairs
    <3>1. \A t \in Live : entries'[t] = entries[t]
      BY <2>2
    <3> QED
      BY <2>1, <2>2, <3>1 DEF Pairs
  <2>3. ASSUME UNCHANGED table, Unmoved' = Unmoved, Live' = Live
        PROVE  Pairs' = Pairs
    BY <2>1, <2>3 DEF Pairs, table
  <2> QED
    BY <1>1, <2>1, <2>2, <2>3, RebuildStepIs DEF Map!vars
<1>2. ASSUME NEW k \in Keys, NEW v \in Values,
             BeginRebuild(k, v), ~(UNCHANGED <<table, rebuild>>)
      PROVE  UNCHANGED Map!vars
  <2>1. /\ old' = entries /\ Live' = {} /\ Unmoved' = Live
        /\ result' = result
    BY <1>2, BeginRebuildIs
  <2>2. Unmoved = {}
    BY <1>2, NotRebuilding DEF BeginRebuild, Inv
  <2>3. Pairs' = Pairs
    BY <2>1, <2>2 DEF Pairs
  <2> QED
    BY <2>1, <2>3 DEF Map!vars
<1> QED
  BY <1>1, <1>2

LEMMA DeleteIsDelete ==
    ASSUME ConstantsOK, Inv, Delete
    PROVE  Map!Delete
<1>1. PICK k \in Keys :
             IF HasEntry(k)
             THEN /\ DeleteEntry(k)
                  /\ result' = <<"deleted", k,
                                 entries[SI_fetch_entry(k)].value>>
             ELSE UNCHANGED table /\ result' = <<"deleted", k, Null>>
  BY DEF Delete
<1>2. ~Rebuilding /\ UNCHANGED rebuild
  BY DEF Delete
<1>3. result' = <<"deleted", k, Map!ValueOf(k)>>
  BY <1>1, <1>2, ValueIs
<1>4. \A p : p \in Map!Without(k) <=> p \in Pairs /\ p[1] # k
  BY DEF Map!Without
<1>5. CASE HasEntry(k)
  <2>1. PICK s \in Live :
               /\ entries[s].key = k
               /\ \A t \in Slots : t # s => entries'[t] = entries[t]
               /\ Live' = Live \ {s}
    BY <1>1, <1>5, DeleteIs
  <2>2. Unmoved = {} /\ Unmoved' = {}
    BY <1>2, NotRebuilding DEF Inv, Unmoved, rebuild
  <2>3. \A t \in Live : t # s => /\ entries'[t] = entries[t]
                                 /\ entries[t].key # k
    BY <2>1 DEF Inv, LiveInv, Live
  <2>4. \A p : p \in Pairs <=>
               \E t \in Live : p = <<entries[t].key, entries[t].value>>
    BY <2>2 DEF Pairs
  <2>5. \A p : p \in Pairs' <=>
               \E t \in Live' : p = <<entries'[t].key, entries'[t].value>>
    BY <2>2 DEF Pairs
  <2>6. \A p : p \in Map!Without(k) <=>
               \E t \in Live : /\ t # s
                               /\ p = <<entries[t].key, entries[t].value>>
    BY <1>4, <2>1, <2>3, <2>4
  <2>7. Pairs' = Map!Without(k)
    BY <2>1, <2>3, <2>5, <2>6, ZenonT(60)
  <2> QED
    BY <1>3, <2>7 DEF Map!Delete
<1>6. CASE ~HasEntry(k)
  <2>1. Pairs' = Pairs
    BY <1>1, <1>2, <1>6 DEF Pairs, Live, Slots, Unmoved, table, rebuild
  <2>2. Map!Without(k) = Pairs
    BY <1>2, <1>4, <1>6, ValueIs
  <2> QED
    BY <1>3, <2>1, <2>2 DEF Map!Delete
<1> QED
  BY <1>5, <1>6

LEMMA SamePairs ==
    ASSUME UNCHANGED <<table, rebuild>>
    PROVE  Pairs' = Pairs
BY DEF Pairs, Live, Slots, Unmoved, table, rebuild

LEMMA StepsAreTheMaps ==
    ASSUME ConstantsOK, Inv, [Next]_vars
    PROVE  [Map!Next]_Map!vars
<1>1. ASSUME NEW k \in Keys, NEW v \in Values, BeginRebuild(k, v)
      PROVE  [Map!Next]_Map!vars
  <2>1. CASE UNCHANGED <<table, rebuild>> /\ result' = <<"too large">>
    BY <2>1, SamePairs DEF Map!Next, Map!TooLarge
  <2>2. CASE ~(UNCHANGED <<table, rebuild>>)
    BY <1>1, <2>2, RebuildIsInvisible
  <2>3. UNCHANGED <<table, rebuild>> => result' = <<"too large">>
    <3>1. capacity' = 2 * capacity => capacity' # capacity
      BY DEF Inv, TypeOK
    <3> QED
      BY <1>1, <3>1 DEF BeginRebuild, table
  <2> QED
    BY <2>1, <2>2, <2>3
<1>2. CASE Store
  BY <1>1, <1>2, StoreIsStore DEF Store, Map!Next
<1>3. CASE RebuildStep
  BY <1>3, RebuildIsInvisible
<1>4. CASE EndRebuild
  BY <1>4, EndIsStore DEF Map!Next
<1>5. CASE Fetch
  <2>1. PICK k \in Keys :
               result' = <<"value", k,
                           IF HasEntry(k)
                           THEN entries[SI_fetch_entry(k)].value ELSE Null>>
    BY <1>5 DEF Fetch
  <2>2. Pairs' = Pairs /\ ~Rebuilding
    BY <1>5, SamePairs DEF Fetch
  <2>3. result' = <<"value", k, Map!ValueOf(k)>>
    BY <2>1, <2>2, ValueIs
  <2> QED
    BY <2>2, <2>3 DEF Map!Next, Map!Fetch
<1>6. CASE Has_Key
  <2>1. PICK k \in Keys : result' = <<"has", k, HasEntry(k)>>
    BY <1>6 DEF Has_Key
  <2>2. Pairs' = Pairs /\ ~Rebuilding
    BY <1>6, SamePairs DEF Has_Key
  <2>3. HasEntry(k) = \E p \in Pairs : p[1] = k
    BY <2>2, ValueIs DEF HasEntry
  <2>4. result' = <<"has", k, \E p \in Pairs : p[1] = k>>
    BY <2>1, <2>3, Zenon
  <2> QED
    BY <2>2, <2>4 DEF Map!Next, Map!Has_Key
<1>7. CASE Delete
  BY <1>7, DeleteIsDelete DEF Map!Next
<1>8. CASE Clear
  <2>1. Live' = {} /\ Unmoved' = {} /\ result' = <<"cleared">>
    BY <1>8, ClearKeeps, NotRebuilding DEF Clear, Unmoved, rebuild, Inv
  <2>2. Pairs' = {}
    BY <2>1 DEF Pairs
  <2> QED
    BY <2>1, <2>2 DEF Map!Next, Map!Clear
<1>9. CASE Get_Size
  <2>1. Pairs' = Pairs /\ result' = <<"size", Cardinality(Pairs)>>
    BY <1>9, SamePairs, SizeIs DEF Get_Size
  <2>2. Cardinality(Pairs) = Map!Cardinality(Pairs)
    BY DEF Cardinality, Map!Cardinality
  <2> QED
    BY <2>1, <2>2 DEF Map!Next, Map!Get_Size
<1>10. CASE HashIter_new \/ HashIter_Next \/ UNCHANGED vars
  <2>1. UNCHANGED <<table, rebuild>> /\ result' = result
    BY <1>10 DEF HashIter_new, HashIter_Next, vars
  <2> QED
    BY <2>1, SamePairs DEF Map!vars
<1> QED
  BY <1>2, <1>3, <1>4, <1>5, <1>6, <1>7, <1>8, <1>9, <1>10 DEF Next

-----------------------------------------------------------------------------
(* The theorems.                                                           *)

LEMMA Always ==
    ASSUME ConstantsOK
    PROVE  Spec => [](Inv /\ IterInv)
<1>1. Init => Inv /\ IterInv
  BY Initially
<1>2. Inv /\ IterInv /\ [Next]_vars => (Inv /\ IterInv)'
  BY Inductive, IterKept
<1> QED
  BY <1>1, <1>2, PTL DEF Spec

\* The types of a table, of its rebuild and of its iterator.
THEOREM TypeCorrect ==
    ASSUME ConstantsOK
    PROVE  Spec => []TypeOK
<1>1. Inv => TypeOK
  BY DEF Inv
<1> QED
  BY <1>1, Always, PTL

\* Every search comes to an empty slot in the end, and a table that is being
\* rebuilt has room for what is moved and stored, whatever collides.
THEOREM TablesHaveRoom ==
    ASSUME ConstantsOK
    PROVE  Spec => [](SearchesEnd /\ NoRebuildWithin)
<1>1. Inv => SearchesEnd /\ NoRebuildWithin
  BY DEF Inv
<1> QED
  BY <1>1, Always, PTL

\* The calls of a Hash, rebuilds included, do and return what those of a map
\* do: it keeps the last value of every key and loses none.
THEOREM HashImplementsMap ==
    ASSUME ConstantsOK
    PROVE  Spec => ImplementsMap
<1>1. Init => Map!Init
  <2> SUFFICES ASSUME Init PROVE Map!Init
    OBVIOUS
  <2>1. ~Rebuilding /\ Inv
    BY Initially DEF Init, Rebuilding
  <2>2. \A s \in Slots : entries[s].key = Empty
    BY DEF Init, NoEntry
  <2>3. Live = {}
    BY <2>2 DEF Live, ConstantsOK
  <2>4. Pairs = {}
    BY <2>1, <2>3, PairsAre
  <2> QED
    BY <2>4 DEF Init, Map!Init
<1>2. Inv /\ [Next]_vars => [Map!Next]_Map!vars
  BY StepsAreTheMaps
<1> QED
  BY <1>1, <1>2, Always, PTL DEF Spec, ImplementsMap, Map!Spec

\* A HashIterator returns each key that stays in the table while it goes on
\* once, and none of them twice before it has come to the end.
THEOREM IteratorsReturnTheSteady ==
    ASSUME ConstantsOK
    PROVE  Spec => []IterationComplete
<1>1. Inv /\ IterInv => IterationComplete
  <2> SUFFICES ASSUME Inv, IterInv, iter.capacity = capacity, NEW k \in steady
               PROVE  /\ seen[k] <= 1
                      /\ iter.tick = capacity => seen[k] = 1
    BY DEF IterationComplete
  <2>1. PICK s \in Live : seen[k] = IF s <= iter.tick THEN 1 ELSE 0
    BY DEF IterInv
  <2>2. s <= capacity
    BY DEF Live, Slots, Inv, TypeOK
  <2> QED
    BY <2>1, <2>2
<1> QED
  BY <1>1, Always, PTL

-----------------------------------------------------------------------------
(* Bit vectors.                                                            *)

CONSTANTS Vecs, Ticks, Bits, Ints, MaxBytes
VARIABLE bits

Vec == INSTANCE BitVector

\* The bits asked for are numbers, and a byte has at least two: with one, Mimic
\* would ask for no more than there is.
VecConstantsOK == Ticks \subseteq Nat /\ Bits \in Nat \ {0, 1}

\* Vectors are any bytes.
Bytes == Seq(SUBSET (0..(Bits - 1)))

VecInv == bits \in [Vecs -> Bytes]

\* Whether the bit at t is 1, also where there is none.
Has(v, t) == /\ (t \div Bits) + 1 \in 1..Len(v)
             /\ t % Bits \in v[(t \div Bits) + 1]

-----------------------------------------------------------------------------
(* Bytes and the bits in them.                                             *)

LEMMA TimesMonotonic ==
    ASSUME NEW a \in Nat, NEW b \in Nat, NEW n \in Nat, a <= b
    PROVE  n * a <= n * b
<1>1. PICK d \in Nat : b = a + d
  BY b - a \in Nat
<1>2. n * b = n * a + n * d /\ n * d >= 0
  BY <1>1
<1> QED
  BY <1>2

\* A number is so many whole bytes and a rest.
LEMMA DivMod ==
    ASSUME NEW t \in Nat, NEW n \in Nat \ {0}
    PROVE  /\ t \div n \in Nat /\ t % n \in 0..(n - 1)
           /\ t = n * (t \div n) + (t % n)
<1>1. t = n * (t \div n) + (t % n) /\ t \div n \in Int /\ t % n \in 0..(n - 1)
  OBVIOUS
<1>2. t \div n >= 0
  OBVIOUS
<1> QED
  BY <1>1, <1>2

\* In only one way.
LEMMA DivModUnique ==
    ASSUME NEW n \in Nat \ {0}, NEW q \in Nat, NEW r \in 0..(n - 1)
    PROVE  (n * q + r) \div n = q /\ (n * q + r) % n = r
<1> DEFINE t == n * q + r
           p == t \div n
           s == t % n
<1>1. n * q \in Nat /\ t \in Nat
  OBVIOUS
<1>2. p \in Nat /\ s \in 0..(n - 1) /\ n * p + s = n * q + r
  BY <1>1, DivMod
<1> HIDE DEF t, p, s
<1>3. p <= q
  <2> SUFFICES ASSUME q + 1 <= p
               PROVE  FALSE
    BY <1>2
  <2>1. n * (q + 1) <= n * p
    BY <1>2, TimesMonotonic, q + 1 \in Nat
  <2>2. n * (q + 1) = n * q + n
    OBVIOUS
  <2> QED
    BY <1>2, <2>1, <2>2
<1>4. q <= p
  <2> SUFFICES ASSUME p + 1 <= q
               PROVE  FALSE
    BY <1>2
  <2>1. n * (p + 1) <= n * q
    BY <1>2, TimesMonotonic, p + 1 \in Nat
  <2>2. n * (p + 1) = n * p + n
    BY <1>2
  <2> QED
    BY <1>2, <2>1, <2>2
<1>5. p = q
  BY <1>2, <1>3, <1>4
<1>6. s = r
  BY <1>2, <1>5
<1> QED
  BY <1>5, <1>6 DEF p, s, t

\* The numbers below n whole bytes.
LEMMA DivBelow ==
    ASSUME NEW t \in Nat, NEW n \in Nat \ {0}, NEW q \in Nat
    PROVE  t < q * n <=> t \div n < q
<1> DEFINE p == t \div n
           s == t % n
<1>1. p \in Nat /\ s \in 0..(n - 1) /\ t = n * p + s
  BY DivMod
<1> HIDE DEF p, s
<1>2. q * n = n * q
  OBVIOUS
<1>3. CASE p < q
  <2>1. n * (p + 1) <= n * q
    BY <1>1, <1>3, TimesMonotonic, p + 1 \in Nat, p + 1 <= q
  <2>2. n * (p + 1) = n * p + n
    BY <1>1
  <2> QED
    BY <1>1, <1>2, <1>3, <2>1, <2>2 DEF p
<1>4. CASE q <= p
  <2>1. n * q <= n * p
    BY <1>1, <1>4, TimesMonotonic
  <2> QED
    BY <1>1, <1>2, <1>4, <2>1 DEF p
<1> QED
  BY <1>1, <1>3, <1>4

LEMMA DivMonotonic ==
    ASSUME NEW t \in Nat, NEW c \in Nat, NEW n \in Nat \ {0}, t <= c
    PROVE  t \div n <= c \div n
<1>1. t \div n \in Nat /\ c \div n \in Nat
  BY DivMod
<1> DEFINE q == (c \div n) + 1
<1>2. q \in Nat /\ q * n \in Nat
  BY <1>1
<1>3. c < q * n
  BY <1>1, <1>2, DivBelow, c \div n < q
<1> HIDE DEF q
<1>4. t < q * n
  BY <1>2, <1>3
<1>5. t \div n < q
  BY <1>2, <1>4, DivBelow
<1> QED
  BY <1>1, <1>5 DEF q

LEMMA CapIs ==
    ASSUME VecConstantsOK, NEW v \in Bytes
    PROVE  /\ Vec!Cap(v) \in Nat
           /\ \A t \in Nat : t < Vec!Cap(v) <=> (t \div Bits) + 1 \in 1..Len(v)
<1>1. Len(v) \in Nat /\ Bits \in Nat \ {0}
  BY DEF VecConstantsOK, Bytes
<1>2. Vec!Cap(v) = Len(v) * Bits
  BY DEF Vec!Cap
<1>3. Len(v) * Bits \in Nat
  BY <1>1
<1>4. ASSUME NEW t \in Nat
      PROVE  t < Vec!Cap(v) <=> (t \div Bits) + 1 \in 1..Len(v)
  <2>1. t < Len(v) * Bits <=> t \div Bits < Len(v)
    BY <1>1, DivBelow
  <2>2. t \div Bits \in Nat
    BY <1>1, DivMod
  <2> QED
    BY <1>1, <1>2, <2>1, <2>2
<1> QED
  BY <1>2, <1>3, <1>4

LEMMA OnesIs ==
    ASSUME VecConstantsOK, NEW v \in Bytes
    PROVE  Vec!Ones(v) = {t \in Nat : Has(v, t)}
<1>1. \A t \in 0..(Vec!Cap(v) - 1) : t \in Nat /\ t < Vec!Cap(v)
  BY CapIs
<1>2. \A t \in Nat : t < Vec!Cap(v) => t \in 0..(Vec!Cap(v) - 1)
  BY CapIs
<1>3. \A t \in Nat : t < Vec!Cap(v) <=> (t \div Bits) + 1 \in 1..Len(v)
  BY CapIs
<1>4. \A t \in Nat : Has(v, t) <=> t < Vec!Cap(v) /\ Vec!U1get(v, t)
  BY <1>3 DEF Has, Vec!U1get
<1> QED
  BY <1>1, <1>2, <1>4 DEF Vec!Ones

\* Vectors whose bits are those of a set.
LEMMA OnesAre ==
    ASSUME VecConstantsOK, NEW v \in Bytes, NEW S \in SUBSET Nat,
           \A t \in Nat : Has(v, t) <=> t \in S
    PROVE  Vec!Ones(v) = S
BY OnesIs

LEMMA InOnes ==
    ASSUME VecConstantsOK, NEW v \in Bytes
    PROVE  /\ Vec!Ones(v) \in SUBSET Nat
           /\ \A t \in Nat : t \in Vec!Ones(v) <=> Has(v, t)
BY OnesIs

-----------------------------------------------------------------------------
(* What grows.                                                             *)

LEMMA BytesOf ==
    ASSUME NEW n \in Nat, NEW f \in [1..n -> SUBSET (0..(Bits - 1))]
    PROVE  f \in Bytes /\ Len(f) = n /\ DOMAIN f = 1..n
BY DEF Bytes

LEMMA BytesAre ==
    ASSUME NEW v \in Bytes
    PROVE  /\ Len(v) \in Nat /\ DOMAIN v = 1..Len(v)
           /\ v \in [1..Len(v) -> SUBSET (0..(Bits - 1))]
BY DEF Bytes

LEMMA ZerosAre ==
    ASSUME NEW n \in Nat
    PROVE  /\ Vec!Zeros(n) \in Bytes /\ Len(Vec!Zeros(n)) = n
           /\ \A i \in 1..n : Vec!Zeros(n)[i] = {}
           /\ \A t \in Nat : ~ Has(Vec!Zeros(n), t)
<1> DEFINE z == Vec!Zeros(n)
<1>1. z \in [1..n -> SUBSET (0..(Bits - 1))] /\ \A i \in 1..n : z[i] = {}
  BY DEF Vec!Zeros
<1>2. z \in Bytes /\ Len(z) = n
  BY <1>1, BytesOf
<1> HIDE DEF z
<1> QED
  BY <1>1, <1>2 DEF Has, z

\* g is v with bytes that are 0 behind it.
Extends(g, v) ==
    /\ g \in Bytes /\ Len(g) >= Len(v)
    /\ \A i \in 1..Len(g) : g[i] = IF i <= Len(v) THEN v[i] ELSE {}

LEMMA ExtendsHas ==
    ASSUME VecConstantsOK, NEW v \in Bytes, NEW g, Extends(g, v)
    PROVE  \A t \in Nat : Has(g, t) <=> Has(v, t)
BY BytesAre DEF Extends, Has

LEMMA ConcatBytes ==
    ASSUME NEW v \in Bytes, NEW w \in Bytes
    PROVE  /\ v \o w \in Bytes /\ Len(v \o w) = Len(v) + Len(w)
           /\ \A i \in 1..(Len(v) + Len(w)) :
                  (v \o w)[i] = IF i <= Len(v) THEN v[i] ELSE w[i - Len(v)]
BY DEF Bytes

LEMMA CeilIs ==
    ASSUME VecConstantsOK, NEW c \in Nat
    PROVE  Vec!Ceil(c + 1) = (c \div Bits) + 1
<1> DEFINE q == c \div Bits
           r == c % Bits
<1>1. q \in Nat /\ r \in 0..(Bits - 1) /\ c = Bits * q + r
  BY DivMod DEF VecConstantsOK
<1> HIDE DEF q, r
<1>2. (c + 1) + Bits - 1 = Bits * (q + 1) + r
  BY <1>1 DEF VecConstantsOK
<1>3. (Bits * (q + 1) + r) \div Bits = q + 1
  BY <1>1, DivModUnique DEF VecConstantsOK
<1> QED
  BY <1>2, <1>3 DEF Vec!Ceil, q

LEMMA GrowExtends ==
    ASSUME VecConstantsOK, NEW v \in Bytes, NEW c \in Nat
    PROVE  /\ Extends(Vec!Grow(v, c), v)
           /\ c > Vec!Cap(v) => Len(Vec!Grow(v, c)) = (c \div Bits) + 1
<1>1. Len(v) \in Nat /\ Vec!Cap(v) \in Nat
  BY BytesAre, CapIs
<1>2. CASE c <= Vec!Cap(v)
  <2>1. Vec!Grow(v, c) = v
    BY <1>2 DEF Vec!Grow
  <2> QED
    BY <1>1, <1>2, <2>1 DEF Extends
<1>3. CASE c > Vec!Cap(v)
  <2> DEFINE n == (c \div Bits) + 1
  <2>1. Vec!Grow(v, c) = v \o Vec!Zeros(n - Len(v))
    <3>1. Vec!Ceil(c + 1) = n
      BY CeilIs
    <3>2. ~ (c <= Vec!Cap(v))
      BY <1>1, <1>3
    <3> QED
      BY <3>1, <3>2, Zenon DEF Vec!Grow
  <2>2. c \div Bits \in Nat /\ ~ (c \div Bits < Len(v))
    <3>1. Bits \in Nat \ {0}
      BY DEF VecConstantsOK
    <3>2. ~ (c < Len(v) * Bits)
      BY <1>1, <1>3 DEF Vec!Cap
    <3> QED
      BY <1>1, <3>1, <3>2, DivMod, DivBelow, Zenon
  <2> HIDE DEF n
  <2>3. n \in Nat /\ n > Len(v) /\ n - Len(v) \in Nat
    BY <1>1, <2>2 DEF n
  <2> DEFINE z == Vec!Zeros(n - Len(v))
  <2>4. /\ z \in Bytes /\ Len(z) = n - Len(v)
        /\ \A i \in 1..(n - Len(v)) : z[i] = {}
    BY <2>3, ZerosAre
  <2> HIDE DEF z
  <2>5. /\ v \o z \in Bytes /\ Len(v \o z) = n
        /\ \A i \in 1..n :
              (v \o z)[i] = IF i <= Len(v) THEN v[i] ELSE z[i - Len(v)]
    <3>1. Len(v) + Len(z) = n /\ Len(v) + (n - Len(v)) = n
      BY <1>1, <2>3, <2>4
    <3> QED
      BY <2>4, <3>1, ConcatBytes
  <2>6. \A i \in 1..n : (v \o z)[i] = IF i <= Len(v) THEN v[i] ELSE {}
    <3>1. \A i \in 1..n : ~ (i <= Len(v)) => i - Len(v) \in 1..(n - Len(v))
      BY <1>1, <2>3
    <3> QED
      BY <2>4, <2>5, <3>1, Zenon
  <2> QED
    BY <2>1, <2>3, <2>5, <2>6 DEF Extends, z, n
<1> QED
  BY <1>1, <1>2, <1>3

LEMMA MaxOfTwo ==
    ASSUME NEW a \in Int, NEW b \in Int
    PROVE  /\ Vec!Max({a, b}) = IF a >= b THEN a ELSE b
           /\ Vec!Min({a, b}) = IF a <= b THEN a ELSE b
BY DEF Vec!Max, Vec!Min

LEMMA OversizeIs ==
    ASSUME NEW n \in Nat
    PROVE  Vec!Memory_oversize(n) \in Nat /\ Vec!Memory_oversize(n) >= n
<1>1. n \div 8 \in Nat
  BY DivMod
<1>2. Vec!Max({n \div 8, 3}) \in Nat
  BY <1>1, MaxOfTwo
<1> QED
  BY <1>2 DEF Vec!Memory_oversize

LEMMA GrownForExtends ==
    ASSUME VecConstantsOK, NEW v \in Bytes, NEW t \in Nat
    PROVE  /\ Extends(Vec!GrownFor(v, t), v)
           /\ (t \div Bits) + 1 \in 1..Len(Vec!GrownFor(v, t))
<1>1. Len(v) \in Nat /\ Vec!Cap(v) \in Nat
  BY BytesAre, CapIs
<1>2. CASE t < Vec!Cap(v)
  <2>1. Vec!GrownFor(v, t) = v
    BY <1>2 DEF Vec!GrownFor
  <2> QED
    BY <1>1, <1>2, <2>1, CapIs DEF Extends
<1>3. CASE t >= Vec!Cap(v)
  <2> DEFINE c == Vec!Memory_oversize(t + 1)
             g == Vec!Grow(v, c)
  <2>1. c \in Nat /\ c >= t + 1
    BY OversizeIs
  <2> HIDE DEF c
  <2>2. Extends(g, v) /\ Len(g) = (c \div Bits) + 1
    BY <1>1, <1>3, <2>1, GrowExtends
  <2>3. t \div Bits \in Nat /\ c \div Bits \in Nat
    BY <2>1, DivMod DEF VecConstantsOK
  <2>4. t \div Bits <= c \div Bits
    BY <2>1, DivMonotonic DEF VecConstantsOK
  <2>5. Vec!GrownFor(v, t) = g
    BY <1>1, <1>3 DEF Vec!GrownFor, c
  <2> QED
    BY <2>2, <2>3, <2>4, <2>5
<1> QED
  BY <1>1, <1>2, <1>3

-----------------------------------------------------------------------------
(* The operations, bit by bit.                                             *)

LEMMA SameBit ==
    ASSUME VecConstantsOK, NEW t \in Nat, NEW u \in Nat
    PROVE  (t \div Bits = u \div Bits /\ t % Bits = u % Bits) <=> t = u
<1>1. t = Bits * (t \div Bits) + (t % Bits)
  BY DivMod DEF VecConstantsOK
<1>2. u = Bits * (u \div Bits) + (u % Bits)
  BY DivMod DEF VecConstantsOK
<1>3. ASSUME t \div Bits = u \div Bits, t % Bits = u % Bits
      PROVE  t = u
  BY <1>1, <1>2, <1>3, Zenon
<1> QED
  BY <1>3, Zenon

LEMMA PlaceOf ==
    ASSUME VecConstantsOK, NEW t \in Nat
    PROVE  t \div Bits \in Nat /\ t % Bits \in 0..(Bits - 1)
BY DivMod DEF VecConstantsOK

\* The byte of a bit and its place there.
LEMMA HasIs ==
    ASSUME VecConstantsOK, NEW u \in Nat
    PROVE  \E i \in Nat \ {0}, r \in 0..(Bits - 1) :
               \A x : Has(x, u) <=> i \in 1..Len(x) /\ r \in x[i]
<1>1. (u \div Bits) + 1 \in Nat \ {0} /\ u % Bits \in 0..(Bits - 1)
  BY PlaceOf
<1> QED
  BY <1>1, Zenon DEF Has

\* A vector whose byte k is another one.
LEMMA WithByte ==
    ASSUME VecConstantsOK, NEW v \in Bytes, NEW k \in 1..Len(v),
           NEW b \in SUBSET (0..(Bits - 1)),
           NEW w, w = [v EXCEPT ![k] = b]
    PROVE  /\ w \in Bytes
           /\ \A u \in Nat :
                  Has(w, u) <=> IF (u \div Bits) + 1 = k THEN u % Bits \in b
                                ELSE Has(v, u)
<1>1. Len(v) \in Nat /\ v \in [1..Len(v) -> SUBSET (0..(Bits - 1))]
  BY BytesAre
<1>2. w \in [1..Len(v) -> SUBSET (0..(Bits - 1))]
  BY <1>1
<1>3. w \in Bytes /\ Len(w) = Len(v)
  BY <1>1, <1>2, BytesOf
<1>4. \A i \in 1..Len(v) : w[i] = IF i = k THEN b ELSE v[i]
  BY <1>1
<1> QED
  BY <1>3, <1>4 DEF Has

LEMMA OneBit ==
    ASSUME VecConstantsOK, NEW v \in Bytes, NEW t \in Nat,
           (t \div Bits) + 1 \in 1..Len(v)
    PROVE  /\ Vec!U1set(v, t) \in Bytes
           /\ Vec!U1clear(v, t) \in Bytes
           /\ Vec!U1flip(v, t) \in Bytes
           /\ \A u \in Nat : Has(Vec!U1set(v, t), u) <=> Has(v, u) \/ u = t
           /\ \A u \in Nat : Has(Vec!U1clear(v, t), u) <=> Has(v, u) /\ u # t
           /\ \A u \in Nat :
                  Has(Vec!U1flip(v, t), u) <=> ~ (Has(v, u) <=> u = t)
<1> DEFINE k == (t \div Bits) + 1
           r == t % Bits
<1>1. k \in 1..Len(v) /\ r \in 0..(Bits - 1)
  BY PlaceOf
<1>2. v[k] \in SUBSET (0..(Bits - 1))
  BY <1>1, BytesAre
<1>3. \A u \in Nat : u = t <=> (u \div Bits) + 1 = k /\ u % Bits = r
  <2> SUFFICES ASSUME NEW u \in Nat
               PROVE  u = t <=> (u \div Bits) + 1 = k /\ u % Bits = r
    OBVIOUS
  <2>1. (u \div Bits = t \div Bits /\ u % Bits = r) <=> u = t
    BY SameBit
  <2>2. u \div Bits \in Nat /\ t \div Bits \in Nat
    BY PlaceOf
  <2> QED
    BY <2>1, <2>2
<1>4. \A u \in Nat : (u \div Bits) + 1 = k =>
                         (Has(v, u) <=> u % Bits \in v[k])
  BY <1>1 DEF Has
<1>5. /\ Vec!U1set(v, t) = [v EXCEPT ![k] = v[k] \union {r}]
      /\ Vec!U1clear(v, t) = [v EXCEPT ![k] = v[k] \ {r}]
      /\ Vec!U1flip(v, t) = [v EXCEPT ![k] = Vec!SymDiff(v[k], {r})]
  BY DEF Vec!U1set, Vec!U1clear, Vec!U1flip
<1> HIDE DEF k, r
<1>6. \A q : q \in Vec!SymDiff(v[k], {r}) <=> ~ (q \in v[k] <=> q = r)
  BY DEF Vec!SymDiff
<1>7. /\ v[k] \union {r} \in SUBSET (0..(Bits - 1))
      /\ v[k] \ {r} \in SUBSET (0..(Bits - 1))
      /\ Vec!SymDiff(v[k], {r}) \in SUBSET (0..(Bits - 1))
  BY <1>1, <1>2 DEF Vec!SymDiff
<1>8. /\ Vec!U1set(v, t) \in Bytes
      /\ \A u \in Nat : Has(Vec!U1set(v, t), u) <=> Has(v, u) \/ u = t
  <2>1. /\ Vec!U1set(v, t) \in Bytes
        /\ \A u \in Nat :
               Has(Vec!U1set(v, t), u) <=>
                   IF (u \div Bits) + 1 = k THEN u % Bits \in v[k] \union {r}
                   ELSE Has(v, u)
    BY <1>1, <1>5, <1>7, WithByte, Zenon
  <2> QED
    BY <1>3, <1>4, <2>1
<1>9. /\ Vec!U1clear(v, t) \in Bytes
      /\ \A u \in Nat : Has(Vec!U1clear(v, t), u) <=> Has(v, u) /\ u # t
  <2>1. /\ Vec!U1clear(v, t) \in Bytes
        /\ \A u \in Nat :
               Has(Vec!U1clear(v, t), u) <=>
                   IF (u \div Bits) + 1 = k THEN u % Bits \in v[k] \ {r}
                   ELSE Has(v, u)
    BY <1>1, <1>5, <1>7, WithByte, Zenon
  <2> QED
    BY <1>3, <1>4, <2>1
<1>10. /\ Vec!U1flip(v, t) \in Bytes
       /\ \A u \in Nat :
              Has(Vec!U1flip(v, t), u) <=> ~ (Has(v, u) <=> u = t)
  <2>1. /\ Vec!U1flip(v, t) \in Bytes
        /\ \A u \in Nat :
               Has(Vec!U1flip(v, t), u) <=>
                   IF (u \div Bits) + 1 = k
                   THEN u % Bits \in Vec!SymDiff(v[k], {r})
                   ELSE Has(v, u)
    BY <1>1, <1>5, <1>7, WithByte, Zenon
  <2> QED
    BY <1>3, <1>4, <1>6, <2>1
<1> QED
  BY <1>8, <1>9, <1>10

LEMMA ClearIs ==
    ASSUME VecConstantsOK, NEW v \in Bytes, NEW t \in Nat
    PROVE  /\ Vec!Clear(v, t) \in Bytes
           /\ \A u \in Nat : Has(Vec!Clear(v, t), u) <=> Has(v, u) /\ u # t
<1>1. Vec!Cap(v) \in Nat
  BY CapIs
<1>2. CASE t >= Vec!Cap(v)
  <2>1. ~ ((t \div Bits) + 1 \in 1..Len(v))
    BY <1>1, <1>2, CapIs
  <2> QED
    BY <1>2, <2>1 DEF Vec!Clear, Has
<1>3. CASE ~ (t >= Vec!Cap(v))
  <2>1. (t \div Bits) + 1 \in 1..Len(v)
    BY <1>1, <1>3, CapIs
  <2> QED
    BY <1>3, <2>1, OneBit, Zenon DEF Vec!Clear
<1> QED
  BY <1>2, <1>3

\* Byte by byte operations on vectors of any lengths.
LEMMA PairIs ==
    ASSUME VecConstantsOK, NEW v \in Bytes, NEW w \in Bytes
    PROVE  /\ Vec!And(v, w) \in Bytes /\ Vec!And_Not(v, w) \in Bytes
           /\ \A u \in Nat :
                  /\ Has(Vec!And(v, w), u) <=> Has(v, u) /\ Has(w, u)
                  /\ Has(Vec!And_Not(v, w), u) <=> Has(v, u) /\ ~ Has(w, u)
<1>1. /\ Len(v) \in Nat /\ v \in [1..Len(v) -> SUBSET (0..(Bits - 1))]
      /\ Len(w) \in Nat /\ w \in [1..Len(w) -> SUBSET (0..(Bits - 1))]
      /\ DOMAIN v = 1..Len(v)
  BY BytesAre
<1>2. Vec!And(v, w) \in [1..Len(v) -> SUBSET (0..(Bits - 1))]
  BY <1>1 DEF Vec!And
<1>3. Vec!And_Not(v, w) \in [1..Len(v) -> SUBSET (0..(Bits - 1))]
  BY <1>1 DEF Vec!And_Not
<1>4. /\ Vec!And(v, w) \in Bytes /\ Len(Vec!And(v, w)) = Len(v)
      /\ Vec!And_Not(v, w) \in Bytes /\ Len(Vec!And_Not(v, w)) = Len(v)
  BY <1>1, <1>2, <1>3, BytesOf
<1>5. \A i \in 1..Len(v) :
          /\ Vec!And(v, w)[i] = IF i <= Len(w) THEN v[i] \intersect w[i] ELSE {}
          /\ Vec!And_Not(v, w)[i] = IF i <= Len(w) THEN v[i] \ w[i] ELSE v[i]
  BY <1>1 DEF Vec!And, Vec!And_Not
<1>6. ASSUME NEW u \in Nat
      PROVE  /\ Has(Vec!And(v, w), u) <=> Has(v, u) /\ Has(w, u)
             /\ Has(Vec!And_Not(v, w), u) <=> Has(v, u) /\ ~ Has(w, u)
  <2>1. PICK i \in Nat \ {0}, r \in 0..(Bits - 1) :
            \A x : Has(x, u) <=> i \in 1..Len(x) /\ r \in x[i]
    BY HasIs
  <2>2. i \in 1..Len(w) <=> i <= Len(w)
    BY <1>1
  <2> QED
    BY <1>4, <1>5, <2>1, <2>2
<1> QED
  BY <1>4, <1>6

LEMMA MimicIs ==
    ASSUME VecConstantsOK, NEW v \in Bytes, NEW w \in Bytes
    PROVE  /\ Vec!Mimic(v, w) \in Bytes
           /\ \A u \in Nat : Has(Vec!Mimic(v, w), u) <=> Has(w, u)
<1>1. /\ Len(v) \in Nat /\ Len(w) \in Nat
      /\ w \in [1..Len(w) -> SUBSET (0..(Bits - 1))]
  BY BytesAre
<1> DEFINE g == IF Len(v) < Len(w) THEN Vec!Grow(v, Vec!Cap(w) - 1) ELSE v
           m == Vec!Mimic(v, w)
<1>2. g \in Bytes /\ Len(g) >= Len(w)
  <2>1. CASE Len(v) < Len(w)
    <3> DEFINE c == Len(w) * Bits - 1
    <3>1. /\ c = Bits * (Len(w) - 1) + (Bits - 1)
          /\ Bits \in Nat \ {0, 1} /\ Len(w) - 1 \in Nat
      BY <1>1, <2>1 DEF VecConstantsOK
    <3>2. c \div Bits = Len(w) - 1
      BY <3>1, DivModUnique, Bits - 1 \in 0..(Bits - 1)
    <3>3. Len(v) * Bits <= (Len(w) - 1) * Bits
      <4>1. Bits * Len(v) <= Bits * (Len(w) - 1)
        BY <1>1, <2>1, <3>1, TimesMonotonic
      <4> QED
        BY <1>1, <3>1, <4>1
    <3>4. c \in Nat /\ c > Len(v) * Bits
      <4>1. (Len(w) - 1) * Bits = Bits * (Len(w) - 1)
        BY <1>1, <3>1
      <4>2. Bits * (Len(w) - 1) \in Nat /\ Len(v) * Bits \in Nat
        BY <1>1, <3>1
      <4> HIDE DEF c
      <4> QED
        BY <3>1, <3>3, <4>1, <4>2
    <3>5. Vec!Cap(w) - 1 = c /\ Vec!Cap(v) = Len(v) * Bits
      BY DEF Vec!Cap
    <3> HIDE DEF c
    <3>6. Extends(Vec!Grow(v, c), v) /\ Len(Vec!Grow(v, c)) = (c \div Bits) + 1
      BY <3>4, <3>5, GrowExtends
    <3> QED
      BY <1>1, <2>1, <3>2, <3>5, <3>6 DEF Extends
  <2>2. CASE ~ (Len(v) < Len(w))
    BY <1>1, <2>2
  <2> QED
    BY <2>1, <2>2
<1>3. m = [i \in DOMAIN g |-> IF i <= Len(w) THEN w[i] ELSE {}]
  BY DEF Vec!Mimic
<1> HIDE DEF m, g
<1>4. Len(g) \in Nat /\ DOMAIN g = 1..Len(g)
  BY <1>2, BytesAre
<1>5. m \in [1..Len(g) -> SUBSET (0..(Bits - 1))]
  BY <1>1, <1>3, <1>4
<1>6. m \in Bytes /\ Len(m) = Len(g)
  BY <1>4, <1>5, BytesOf
<1>7. \A i \in 1..Len(g) : m[i] = IF i <= Len(w) THEN w[i] ELSE {}
  BY <1>3, <1>4
<1>8. ASSUME NEW u \in Nat
      PROVE  Has(m, u) <=> Has(w, u)
  <2>1. PICK i \in Nat \ {0}, r \in 0..(Bits - 1) :
            \A x : Has(x, u) <=> i \in 1..Len(x) /\ r \in x[i]
    BY HasIs
  <2>2. (i \in 1..Len(w) <=> i <= Len(w)) /\ (i <= Len(w) => i \in 1..Len(g))
    BY <1>1, <1>2, <1>4
  <2> QED
    BY <1>6, <1>7, <2>1, <2>2
<1> QED
  BY <1>6, <1>8 DEF m

LEMMA OrXorIs ==
    ASSUME VecConstantsOK, NEW v \in Bytes, NEW w \in Bytes,
           NEW operation \in {"or", "xor"}
    PROVE  /\ Vec!S_do_or_or_xor(v, w, operation) \in Bytes
           /\ \A u \in Nat :
                  Has(Vec!S_do_or_or_xor(v, w, operation), u) <=>
                      IF operation = "or" THEN Has(v, u) \/ Has(w, u)
                      ELSE ~ (Has(v, u) <=> Has(w, u))
<1>1. /\ Len(v) \in Nat /\ v \in [1..Len(v) -> SUBSET (0..(Bits - 1))]
      /\ Len(w) \in Nat /\ w \in [1..Len(w) -> SUBSET (0..(Bits - 1))]
  BY BytesAre
<1> DEFINE g == IF Len(v) < Len(w) THEN Vec!Grow(v, Vec!Cap(w)) ELSE v
           both(a, b) == IF operation = "or" THEN a \union b
                         ELSE Vec!SymDiff(a, b)
           m == Vec!S_do_or_or_xor(v, w, operation)
<1>2. Extends(g, v) /\ Len(g) >= Len(w)
  <2>1. CASE Len(v) < Len(w)
    <3>1. Vec!Cap(v) \in Nat /\ Vec!Cap(w) \in Nat
      BY CapIs
    <3>2. Vec!Cap(w) > Vec!Cap(v)
      <4>1. Bits * (Len(v) + 1) <= Bits * Len(w)
        BY <1>1, <2>1, TimesMonotonic, Len(v) + 1 \in Nat DEF VecConstantsOK
      <4>2. /\ Bits * (Len(v) + 1) = Bits * Len(v) + Bits
            /\ Bits * Len(w) = Vec!Cap(w) /\ Bits * Len(v) = Vec!Cap(v)
        BY <1>1 DEF VecConstantsOK, Vec!Cap
      <4> QED
        BY <3>1, <4>1, <4>2 DEF VecConstantsOK
    <3>3. Vec!Cap(w) \div Bits = Len(w)
      <4>1. Vec!Cap(w) = Bits * Len(w) + 0
        BY <1>1 DEF VecConstantsOK, Vec!Cap
      <4>2. Bits \in Nat \ {0} /\ 0 \in 0..(Bits - 1)
        BY DEF VecConstantsOK
      <4> QED
        BY <1>1, <4>1, <4>2, DivModUnique, Zenon
    <3> QED
      BY <1>1, <2>1, <3>1, <3>2, <3>3, GrowExtends
  <2>2. CASE ~ (Len(v) < Len(w))
    BY <1>1, <2>2 DEF Extends
  <2> QED
    BY <2>1, <2>2
<1>3. m = [i \in DOMAIN g |->
              IF i <= Vec!Min({Len(v), Len(w)}) THEN both(v[i], w[i])
              ELSE IF i <= Len(w) THEN w[i] ELSE g[i]]
  BY DEF Vec!S_do_or_or_xor
<1> HIDE DEF m, g
<1>4. /\ g \in Bytes /\ Len(g) \in Nat /\ DOMAIN g = 1..Len(g)
      /\ Len(g) >= Len(v)
      /\ \A i \in 1..Len(g) : g[i] = IF i <= Len(v) THEN v[i] ELSE {}
  BY <1>2, BytesAre DEF Extends
<1>5. \A i \in 1..Len(g) :
          i <= Vec!Min({Len(v), Len(w)}) <=> i <= Len(v) /\ i <= Len(w)
  <2>1. Vec!Min({Len(v), Len(w)}) =
            IF Len(v) <= Len(w) THEN Len(v) ELSE Len(w)
    <3>1. Len(v) \in Int /\ Len(w) \in Int
      BY <1>1
    <3> QED
      BY <3>1, MaxOfTwo, Zenon
  <2> QED
    BY <1>1, <2>1
<1>6. \A i \in 1..Len(g) :
          m[i] = IF i <= Len(v) /\ i <= Len(w) THEN both(v[i], w[i])
                 ELSE IF i <= Len(w) THEN w[i]
                 ELSE IF i <= Len(v) THEN v[i] ELSE {}
  BY <1>3, <1>4, <1>5
<1>7. \A i \in 1..Len(g) : m[i] \in SUBSET (0..(Bits - 1))
  <2> SUFFICES ASSUME NEW i \in 1..Len(g)
               PROVE  m[i] \in SUBSET (0..(Bits - 1))
    OBVIOUS
  <2>1. /\ i <= Len(v) => v[i] \in SUBSET (0..(Bits - 1))
        /\ i <= Len(w) => w[i] \in SUBSET (0..(Bits - 1))
    BY <1>1
  <2> QED
    BY <1>6, <2>1 DEF Vec!SymDiff
<1>8. m \in [1..Len(g) -> SUBSET (0..(Bits - 1))]
  BY <1>3, <1>4, <1>7
<1>9. m \in Bytes /\ Len(m) = Len(g)
  BY <1>4, <1>8, BytesOf
<1>10. ASSUME NEW u \in Nat
       PROVE  Has(m, u) <=> IF operation = "or" THEN Has(v, u) \/ Has(w, u)
                            ELSE ~ (Has(v, u) <=> Has(w, u))
  <2>1. PICK i \in Nat \ {0}, r \in 0..(Bits - 1) :
            \A x : Has(x, u) <=> i \in 1..Len(x) /\ r \in x[i]
    BY HasIs
  <2>2. /\ i \in 1..Len(w) <=> i <= Len(w)
        /\ i \in 1..Len(v) <=> i <= Len(v)
        /\ i <= Len(w) \/ i <= Len(v) => i \in 1..Len(g)
    BY <1>1, <1>2, <1>4
  <2>3. r \in both(v[i], w[i]) <=> IF operation = "or"
                                 THEN r \in v[i] \/ r \in w[i]
                                 ELSE ~ (r \in v[i] <=> r \in w[i])
    BY DEF Vec!SymDiff
  <2> HIDE DEF both
  <2>4. Has(m, u) <=> i \in 1..Len(g) /\ r \in m[i]
    BY <1>9, <2>1
  <2>5. /\ Has(v, u) <=> i <= Len(v) /\ r \in v[i]
        /\ Has(w, u) <=> i <= Len(w) /\ r \in w[i]
    BY <2>1, <2>2
  <2> QED
    BY <1>6, <2>2, <2>3, <2>4, <2>5
<1> QED
  BY <1>9, <1>10 DEF m

-----------------------------------------------------------------------------
(* Blocks.                                                                 *)

LEMMA MinIs ==
    ASSUME NEW T \in SUBSET Nat, T # {}
    PROVE  Vec!Min(T) \in T /\ \A y \in T : Vec!Min(T) <= y
<1>1. \E x \in T : \A y \in T : x <= y
  BY Least
<1> QED
  BY <1>1, Zenon DEF Vec!Min

LEMMA MaxIs ==
    ASSUME NEW n \in Nat, NEW T \in SUBSET (0..n), T # {}
    PROVE  Vec!Max(T) \in T /\ \A y \in T : y <= Vec!Max(T)
<1> DEFINE U == {n - x : x \in T}
<1>1. U \in SUBSET Nat /\ U # {}
  <2>1. \A x \in T : n - x \in Nat
    OBVIOUS
  <2> QED
    BY <2>1, Zenon
<1>2. PICK u \in U : \A y \in U : u <= y
  BY <1>1, Least
<1>3. PICK x \in T : u = n - x
  BY <1>2
<1>4. \A y \in T : n - y \in U
  OBVIOUS
<1>5. \A y \in T : n - x <= n - y
  BY <1>2, <1>3, <1>4
<1>6. \A y \in T : x >= y
  BY <1>5
<1>7. Vec!Max(T) \in T /\ \A y \in T : Vec!Max(T) >= y
  BY <1>6, Zenon DEF Vec!Max
<1> QED
  BY <1>7

\* Where the single bits of a block end and the whole bytes begin.
Last(offset, end) ==
    Vec!Max({offset} \union {t \in offset..end : t % Bits = 0})
First(offset, last) ==
    Vec!Min({last} \union {t \in offset..last : t % Bits = 0})

LEMMA LastAndFirst ==
    ASSUME VecConstantsOK, NEW offset \in Nat, NEW end \in Nat, offset <= end
    PROVE  LET last == Last(offset, end)
               first == First(offset, last)
           IN  /\ last \in offset..end /\ first \in offset..last
               /\ first # last => first % Bits = 0 /\ last % Bits = 0
<1> DEFINE S == {offset} \union {t \in offset..end : t % Bits = 0}
           last == Last(offset, end)
           F == {last} \union {t \in offset..last : t % Bits = 0}
           first == First(offset, last)
<1>1. S \in SUBSET (0..end) /\ S # {} /\ offset \in S
  OBVIOUS
<1>2. last \in S
  BY <1>1, MaxIs DEF Last
<1>3. last \in offset..end
  BY <1>2
<1> HIDE DEF last
<1>4. F \in SUBSET Nat /\ F # {} /\ last \in F
  BY <1>3
<1>5. first \in F
  BY <1>4, MinIs DEF First
<1>6. first \in offset..last
  BY <1>3, <1>5
<1> HIDE DEF first
<1>7. ASSUME first # last
      PROVE  first % Bits = 0 /\ last % Bits = 0
  <2>1. first % Bits = 0
    BY <1>5, <1>7
  <2>2. last # offset
    BY <1>3, <1>6, <1>7
  <2>3. last % Bits = 0
    BY <1>2, <2>2
  <2> QED
    BY <2>1, <2>3
<1> QED
  BY <1>3, <1>6, <1>7 DEF last, first

\* The whole bytes hold what is from the first to before the last bit.
LEMMA WholeIs ==
    ASSUME VecConstantsOK, NEW first \in Nat, NEW last \in Nat, first <= last,
           first # last => first % Bits = 0 /\ last % Bits = 0,
           NEW u \in Nat
    PROVE  (u \div Bits) + 1 \in ((first \div Bits) + 1)..(last \div Bits)
               <=> first <= u /\ u < last
<1> DEFINE p == first \div Bits
           q == last \div Bits
           k == u \div Bits
<1>1. p \in Nat /\ q \in Nat /\ k \in Nat
  BY PlaceOf
<1>2. CASE first = last
  BY <1>1, <1>2
<1>3. CASE first # last
  <2>1. first = Bits * p /\ last = Bits * q
    <3>1. first % Bits = 0 /\ last % Bits = 0
      BY <1>3
    <3>2. first = Bits * p + (first % Bits) /\ last = Bits * q + (last % Bits)
      BY DivMod DEF VecConstantsOK
    <3> QED
      BY <1>1, <3>1, <3>2 DEF VecConstantsOK
  <2> HIDE DEF p, q, k
  <2>2. first = p * Bits /\ last = q * Bits
    BY <1>1, <2>1 DEF VecConstantsOK
  <2>3. (u < p * Bits <=> k < p) /\ (u < q * Bits <=> k < q)
    BY <1>1, DivBelow DEF VecConstantsOK, k
  <2>4. (u < first <=> k < p) /\ (u < last <=> k < q)
    BY <2>2, <2>3, Zenon
  <2>5. k + 1 \in (p + 1)..q <=> first <= u /\ u < last
    BY <1>1, <2>4
  <2> QED
    BY <2>5 DEF p, q, k
<1> QED
  BY <1>2, <1>3

LEMMA FlipBlockIs ==
    ASSUME VecConstantsOK, NEW v \in Bytes, NEW offset \in Nat,
           NEW length \in Nat
    PROVE  /\ Vec!Flip_Block(v, offset, length) \in Bytes
           /\ \A u \in Nat :
                  Has(Vec!Flip_Block(v, offset, length), u) <=>
                      ~ (Has(v, u) <=> u \in offset..(offset + length - 1))
<1>1. CASE length = 0
  <2>1. Vec!Flip_Block(v, offset, length) = v
    BY <1>1 DEF Vec!Flip_Block
  <2>2. \A u \in Nat : u \notin offset..(offset + length - 1)
    BY <1>1
  <2> QED
    BY <2>1, <2>2, Zenon
<1>2. CASE length # 0
  <2> DEFINE end == offset + length - 1
             last == Last(offset, end)
             first == First(offset, last)
             single == ((last + 1)..end) \union (offset..(first - 1))
                           \union {last}
             whole == ((first \div Bits) + 1)..(last \div Bits)
             g == IF end >= Vec!Cap(v) THEN Vec!Grow(v, end + 1) ELSE v
             bitsAt(i) == {t % Bits : t \in {s \in single :
                                                s \div Bits = i - 1}}
             flipped(i) == Vec!SymDiff(g[i], bitsAt(i))
             m == Vec!Flip_Block(v, offset, length)
  <2>1. m = [i \in DOMAIN g |->
                IF i \in whole THEN (0..(Bits - 1)) \ flipped(i)
                ELSE flipped(i)]
    BY <1>2 DEF Vec!Flip_Block, Last, First
  <2>2. end \in Nat /\ offset <= end
    BY <1>2
  <2>3. /\ last \in offset..end /\ first \in offset..last
        /\ first # last => first % Bits = 0 /\ last % Bits = 0
    BY <2>2, LastAndFirst
  <2>4. Extends(g, v) /\ \A u \in 0..end : (u \div Bits) + 1 \in 1..Len(g)
    <3>1. Vec!Cap(v) \in Nat /\ Len(v) \in Nat
      BY CapIs, BytesAre
    <3>2. CASE end >= Vec!Cap(v)
      <4> DEFINE c == end + 1
      <4>1. c \in Nat /\ c > Vec!Cap(v)
        BY <2>2, <3>1, <3>2
      <4>2. g = Vec!Grow(v, c)
        BY <3>2
      <4> HIDE DEF g
      <4>3. Extends(g, v) /\ Len(g) = (c \div Bits) + 1
        BY <4>1, <4>2, GrowExtends
      <4>4. ASSUME NEW u \in 0..end
            PROVE  (u \div Bits) + 1 \in 1..Len(g)
        <5>1. u \in Nat /\ u <= c
          BY <2>2
        <5> HIDE DEF c, end
        <5>2. u \div Bits <= c \div Bits
          BY <4>1, <5>1, DivMonotonic DEF VecConstantsOK
        <5>3. u \div Bits \in Nat /\ c \div Bits \in Nat
          BY <4>1, <5>1, PlaceOf
        <5> QED
          BY <4>3, <5>2, <5>3
      <4> QED
        BY <4>3, <4>4
    <3>3. CASE ~ (end >= Vec!Cap(v))
      <4>1. g = v
        BY <3>3
      <4> HIDE DEF g
      <4>2. \A u \in 0..end : u \in Nat /\ u < Vec!Cap(v)
        BY <2>2, <3>1, <3>3
      <4>3. \A u \in 0..end : (u \div Bits) + 1 \in 1..Len(v)
        BY <4>2, CapIs
      <4> QED
        BY <3>1, <4>1, <4>3 DEF Extends
    <3> QED
      BY <3>2, <3>3
  <2>5. \A t \in single : t \in Nat
    BY <2>2, <2>3
  <2>6. \A u \in Nat : u \in single <=> /\ u \in offset..end
                                        /\ ~ (first <= u /\ u < last)
    BY <2>2, <2>3
  <2>7. \A u \in Nat : (u \div Bits) + 1 \in whole <=> first <= u /\ u < last
    BY <2>2, <2>3, WholeIs
  <2> HIDE DEF end, last, first, single, whole, g, m
  <2>8. g \in Bytes /\ Len(g) \in Nat /\ DOMAIN g = 1..Len(g)
        /\ g \in [1..Len(g) -> SUBSET (0..(Bits - 1))]
    BY <2>4, BytesAre DEF Extends
  <2>9. \A i : bitsAt(i) \in SUBSET (0..(Bits - 1))
    BY <2>5, PlaceOf
  <2>10. \A i, r : r \in bitsAt(i) <=>
             \E t \in single : t \div Bits = i - 1 /\ t % Bits = r
    OBVIOUS
  <2> HIDE DEF bitsAt
  <2>11. \A i \in 1..Len(g) : flipped(i) \in SUBSET (0..(Bits - 1))
    BY <2>8, <2>9 DEF Vec!SymDiff
  <2>12. \A i, r : r \in flipped(i) <=> ~ (r \in g[i] <=> r \in bitsAt(i))
    BY DEF Vec!SymDiff
  <2> HIDE DEF flipped
  <2>13. m \in [1..Len(g) -> SUBSET (0..(Bits - 1))]
    BY <2>1, <2>8, <2>11
  <2>14. m \in Bytes /\ Len(m) = Len(g)
    BY <2>8, <2>13, BytesOf
  <2>15. ASSUME NEW u \in Nat
         PROVE  Has(m, u) <=> ~ (Has(v, u) <=> u \in offset..end)
    <3> DEFINE i == (u \div Bits) + 1
               r == u % Bits
    <3>1. u \div Bits \in Nat /\ r \in 0..(Bits - 1)
      BY PlaceOf
    <3>2. r \in bitsAt(i) <=> u \in single
      <4>1. \A t \in single : t \div Bits = i - 1 /\ t % Bits = r <=> t = u
        BY <2>5, <3>1, SameBit
      <4> QED
        BY <2>10, <3>1, <4>1
    <3>3. /\ Has(v, u) <=> Has(g, u)
          /\ Has(g, u) <=> i \in 1..Len(g) /\ r \in g[i]
          /\ Has(m, u) <=> i \in 1..Len(g) /\ r \in m[i]
      BY <2>4, <2>14, ExtendsHas DEF Has
    <3>4. u \in offset..end => i \in 1..Len(g)
      BY <2>2, <2>4
    <3>5. i \in whole <=> first <= u /\ u < last
      BY <2>7
    <3>6. u \in single <=> u \in offset..end /\ ~ (first <= u /\ u < last)
      BY <2>6
    <3>7. first <= u /\ u < last => u \in offset..end
      BY <2>2, <2>3
    <3> HIDE DEF i, r
    <3>8. i \in 1..Len(g) =>
              (r \in m[i] <=> IF i \in whole THEN r \notin flipped(i)
                              ELSE r \in flipped(i))
      BY <2>1, <2>8, <3>1
    <3> QED
      BY <2>12, <3>2, <3>3, <3>4, <3>5, <3>6, <3>7, <3>8, Zenon
  <2> QED
    BY <2>14, <2>15 DEF m, end
<1> QED
  BY <1>1, <1>2

-----------------------------------------------------------------------------
(* The refinement.                                                         *)

LEMMA InitVectors ==
    ASSUME VecConstantsOK, Vec!Init
    PROVE  VecInv /\ Vec!Sets!Init
<1>1. \A c \in Ticks : Vec!Ceil(c) \in Nat
  <2> SUFFICES ASSUME NEW c \in Ticks
               PROVE  Vec!Ceil(c) \in Nat
    OBVIOUS
  <2>1. c + Bits - 1 \in Nat /\ Bits \in Nat \ {0}
    BY DEF VecConstantsOK
  <2> QED
    BY <2>1, DivMod DEF Vec!Ceil
<1>2. \A c \in Ticks : /\ Vec!Zeros(Vec!Ceil(c)) \in Bytes
                       /\ Vec!Ones(Vec!Zeros(Vec!Ceil(c))) = {}
  BY <1>1, ZerosAre, OnesIs
<1>3. bits \in [Vecs -> {Vec!Zeros(Vec!Ceil(c)) : c \in Ticks}]
  BY DEF Vec!Init
<1>4. ASSUME NEW x \in Vecs
      PROVE  bits[x] \in Bytes /\ Vec!Ones(bits[x]) = {}
  <2>1. PICK c \in Ticks : bits[x] = Vec!Zeros(Vec!Ceil(c))
    BY <1>3
  <2> QED
    BY <1>2, <2>1
<1>5. VecInv
  BY <1>3, <1>4 DEF VecInv
<1>6. [x \in Vecs |-> Vec!Ones(bits[x])] = [x \in Vecs |-> {}]
  BY <1>4
<1> QED
  BY <1>5, <1>6 DEF Vec!Sets!Init

\* A vector that becomes one with the bits of S: so does its set.
LEMMA BecomesIs ==
    ASSUME VecConstantsOK, VecInv, NEW x \in Vecs, NEW w \in Bytes,
           NEW S \in SUBSET Nat, \A u \in Nat : Has(w, u) <=> u \in S,
           Vec!Becomes(x, w)
    PROVE  VecInv' /\ Vec!Sets!Becomes(x, S)
<1>1. bits' = [bits EXCEPT ![x] = w]
  BY DEF Vec!Becomes
<1>2. VecInv'
  BY <1>1 DEF VecInv, Bytes
<1>3. Vec!Ones(w) = S
  BY OnesAre
<1>4. \A y \in Vecs : bits'[y] = IF y = x THEN w ELSE bits[y]
  BY <1>1 DEF VecInv
<1>5. [y \in Vecs |-> Vec!Ones(bits'[y])]
          = [[y \in Vecs |-> Vec!Ones(bits[y])] EXCEPT ![x] = S]
  BY <1>3, <1>4
<1> QED
  BY <1>2, <1>5 DEF Vec!Sets!Becomes

LEMMA SymDiffIs ==
    ASSUME NEW S, NEW T
    PROVE  \A u : u \in Vec!Sets!SymDiff(S, T) <=> ~ (u \in S <=> u \in T)
BY DEF Vec!Sets!SymDiff

LEMMA SingleIs ==
    ASSUME VecConstantsOK, VecInv, Vec!Single
    PROVE  VecInv' /\ Vec!Sets!Single
<1> USE DEF VecInv
<1>1. PICK x \in Vecs, t \in Ticks :
          \/ Vec!Becomes(x, Vec!U1set(Vec!GrownFor(bits[x], t), t))
          \/ Vec!Becomes(x, Vec!Clear(bits[x], t))
          \/ Vec!Becomes(x, Vec!U1flip(Vec!GrownFor(bits[x], t), t))
  BY DEF Vec!Single
<1> DEFINE v == bits[x]
           g == Vec!GrownFor(v, t)
           O == Vec!Ones(v)
<1>2. v \in Bytes /\ t \in Nat /\ {t} \in SUBSET Nat
  BY DEF VecConstantsOK
<1>3. O \in SUBSET Nat /\ \A u \in Nat : u \in O <=> Has(v, u)
  BY <1>2, InOnes
<1>4. Extends(g, v) /\ (t \div Bits) + 1 \in 1..Len(g)
  BY <1>2, GrownForExtends
<1>5. g \in Bytes /\ \A u \in Nat : Has(g, u) <=> Has(v, u)
  BY <1>2, <1>4, ExtendsHas DEF Extends
<1>6. [y \in Vecs |-> Vec!Ones(bits[y])][x] = O
  OBVIOUS
<1> HIDE DEF v, g, O
<1>7. CASE Vec!Becomes(x, Vec!U1set(g, t))
  <2>1. /\ Vec!U1set(g, t) \in Bytes
        /\ \A u \in Nat : Has(Vec!U1set(g, t), u) <=> u \in O \union {t}
    BY <1>2, <1>3, <1>4, <1>5, OneBit
  <2>2. VecInv' /\ Vec!Sets!Becomes(x, O \union {t})
    BY <1>2, <1>3, <1>7, <2>1, BecomesIs
  <2> QED
    BY <1>6, <2>2 DEF Vec!Sets!Single
<1>8. CASE Vec!Becomes(x, Vec!Clear(v, t))
  <2>1. /\ Vec!Clear(v, t) \in Bytes
        /\ \A u \in Nat : Has(Vec!Clear(v, t), u) <=> u \in O \ {t}
    BY <1>2, <1>3, ClearIs
  <2>2. VecInv' /\ Vec!Sets!Becomes(x, O \ {t})
    BY <1>2, <1>3, <1>8, <2>1, BecomesIs
  <2> QED
    BY <1>6, <2>2 DEF Vec!Sets!Single
<1>9. CASE Vec!Becomes(x, Vec!U1flip(g, t))
  <2> DEFINE D == Vec!Sets!SymDiff(O, {t})
  <2>1. \A u : u \in D <=> ~ (u \in O <=> u = t)
    BY SymDiffIs
  <2> HIDE DEF D
  <2>2. /\ Vec!U1flip(g, t) \in Bytes
        /\ \A u \in Nat : Has(Vec!U1flip(g, t), u) <=> u \in D
    BY <1>2, <1>3, <1>4, <1>5, <2>1, OneBit
  <2>3. D \in SUBSET Nat
    BY <1>2, <1>3, <2>1
  <2>4. VecInv' /\ Vec!Sets!Becomes(x, D)
    BY <1>2, <1>9, <2>2, <2>3, BecomesIs
  <2> QED
    BY <1>6, <2>4 DEF Vec!Sets!Single, D
<1> QED
  BY <1>1, <1>7, <1>8, <1>9 DEF v, g

LEMMA BlocksAre ==
    ASSUME VecConstantsOK, VecInv, Vec!FlipBlock
    PROVE  VecInv' /\ Vec!Sets!Flip_Block
<1>1. PICK x \in Vecs, offset \in Ticks, length \in Ticks :
          Vec!Becomes(x, Vec!Flip_Block(bits[x], offset, length))
  BY DEF Vec!FlipBlock
<1> DEFINE v == bits[x]
           O == Vec!Ones(v)
           block == offset..(offset + length - 1)
           D == Vec!Sets!SymDiff(O, block)
<1>2. v \in Bytes /\ offset \in Nat /\ length \in Nat
  BY DEF VecConstantsOK, VecInv
<1>3. O \in SUBSET Nat /\ \A u \in Nat : u \in O <=> Has(v, u)
  BY <1>2, InOnes
<1>5. \A u \in block : u \in Nat
  BY <1>2
<1>6. [y \in Vecs |-> Vec!Ones(bits[y])][x] = O
  OBVIOUS
<1>7. /\ Vec!Flip_Block(v, offset, length) \in Bytes
      /\ \A u \in Nat : Has(Vec!Flip_Block(v, offset, length), u) <=>
                             ~ (Has(v, u) <=> u \in block)
  BY <1>2, FlipBlockIs
<1> HIDE DEF v, O, block
<1>4. \A u : u \in D <=> ~ (u \in O <=> u \in block)
  BY SymDiffIs
<1> HIDE DEF D
<1>8. D \in SUBSET Nat
  BY <1>3, <1>4, <1>5
<1>9. \A u \in Nat : Has(Vec!Flip_Block(v, offset, length), u) <=> u \in D
  BY <1>3, <1>4, <1>7
<1>10. VecInv' /\ Vec!Sets!Becomes(x, D)
  BY <1>1, <1>7, <1>8, <1>9, BecomesIs DEF v
<1> QED
  BY <1>6, <1>10 DEF Vec!Sets!Flip_Block, D, block

LEMMA WholesAre ==
    ASSUME VecConstantsOK, VecInv, Vec!Whole
    PROVE  VecInv' /\ Vec!Sets!Whole
<1>1. PICK x \in Vecs :
          \/ \E c \in Ticks : Vec!Becomes(x, Vec!Grow(bits[x], c))
          \/ Vec!Becomes(x, Vec!Zeros(Len(bits[x])))
  BY DEF Vec!Whole
<1> DEFINE v == bits[x]
           O == Vec!Ones(v)
<1>2. v \in Bytes /\ Len(v) \in Nat
  BY BytesAre DEF VecInv
<1>3. O \in SUBSET Nat /\ \A u \in Nat : u \in O <=> Has(v, u)
  BY <1>2, InOnes
<1>4. [y \in Vecs |-> Vec!Ones(bits[y])][x] = O
  OBVIOUS
<1> HIDE DEF v, O
<1>5. ASSUME NEW c \in Ticks, Vec!Becomes(x, Vec!Grow(v, c))
      PROVE  VecInv' /\ Vec!Sets!Whole
  <2>1. c \in Nat
    BY DEF VecConstantsOK
  <2>2. Extends(Vec!Grow(v, c), v)
    BY <1>2, <2>1, GrowExtends
  <2>3. /\ Vec!Grow(v, c) \in Bytes
        /\ \A u \in Nat : Has(Vec!Grow(v, c), u) <=> u \in O
    BY <1>2, <1>3, <2>2, ExtendsHas DEF Extends
  <2>4. VecInv' /\ Vec!Sets!Becomes(x, O)
    BY <1>3, <1>5, <2>3, BecomesIs
  <2> QED
    BY <1>4, <2>4 DEF Vec!Sets!Whole
<1>6. ASSUME Vec!Becomes(x, Vec!Zeros(Len(v)))
      PROVE  VecInv' /\ Vec!Sets!Whole
  <2>1. /\ Vec!Zeros(Len(v)) \in Bytes
        /\ \A u \in Nat : Has(Vec!Zeros(Len(v)), u) <=> u \in {}
    BY <1>2, ZerosAre
  <2>2. VecInv' /\ Vec!Sets!Becomes(x, {})
    BY <1>6, <2>1, BecomesIs
  <2> QED
    BY <2>2 DEF Vec!Sets!Whole
<1> QED
  BY <1>1, <1>5, <1>6 DEF v

\* Also of a vector with itself.
LEMMA BitPairsAre ==
    ASSUME VecConstantsOK, VecInv, Vec!Pair \/ Vec!Copy
    PROVE  VecInv' /\ Vec!Sets!Pair
<1>1. PICK x \in Vecs, y \in Vecs :
          \/ Vec!Becomes(x, Vec!And(bits[x], bits[y]))
          \/ Vec!Becomes(x, Vec!S_do_or_or_xor(bits[x], bits[y], "or"))
          \/ Vec!Becomes(x, Vec!S_do_or_or_xor(bits[x], bits[y], "xor"))
          \/ Vec!Becomes(x, Vec!And_Not(bits[x], bits[y]))
          \/ Vec!Becomes(x, Vec!Mimic(bits[x], bits[y]))
          \/ Vec!Becomes(x, bits[y])
  BY DEF Vec!Pair, Vec!Copy
<1> DEFINE v == bits[x]
           w == bits[y]
           O == Vec!Ones(v)
           P == Vec!Ones(w)
           D == Vec!Sets!SymDiff(O, P)
           sets == [z \in Vecs |-> Vec!Ones(bits[z])]
<1>2. v \in Bytes /\ w \in Bytes
  BY DEF VecInv
<1>3. /\ O \in SUBSET Nat /\ \A u \in Nat : u \in O <=> Has(v, u)
      /\ P \in SUBSET Nat /\ \A u \in Nat : u \in P <=> Has(w, u)
  BY <1>2, InOnes
<1>4. sets[x] = O /\ sets[y] = P
  OBVIOUS
<1>5. \A u : u \in D <=> ~ (u \in O <=> u \in P)
  BY SymDiffIs
<1> HIDE DEF v, w, O, P
<1>6. ASSUME NEW m \in Bytes, Vec!Becomes(x, m),
             \/ \A u \in Nat : Has(m, u) <=> u \in O \intersect P
             \/ \A u \in Nat : Has(m, u) <=> u \in O \union P
             \/ \A u \in Nat : Has(m, u) <=> u \in D
             \/ \A u \in Nat : Has(m, u) <=> u \in O \ P
             \/ \A u \in Nat : Has(m, u) <=> u \in P
      PROVE  VecInv' /\ Vec!Sets!Pair
  <2>1. PICK S \in {O \intersect P, O \union P, D, O \ P, P} :
            \A u \in Nat : Has(m, u) <=> u \in S
    BY <1>6
  <2>2. S \in SUBSET Nat
    BY <1>3, <1>5
  <2>3. VecInv' /\ Vec!Sets!Becomes(x, S)
    BY <1>6, <2>1, <2>2, BecomesIs
  <2>4. \/ Vec!Sets!Becomes(x, P)
        \/ Vec!Sets!Becomes(x, O \intersect P)
        \/ Vec!Sets!Becomes(x, O \union P)
        \/ Vec!Sets!Becomes(x, D)
        \/ Vec!Sets!Becomes(x, O \ P)
    BY <2>1, <2>3, Zenon
  <2> QED
    BY <1>4, <2>3, <2>4, Zenon DEF Vec!Sets!Pair
<1>7. CASE Vec!Becomes(x, Vec!And(v, w))
  BY <1>2, <1>3, <1>6, <1>7, PairIs
<1>8. CASE Vec!Becomes(x, Vec!And_Not(v, w))
  BY <1>2, <1>3, <1>6, <1>8, PairIs
<1>9. CASE Vec!Becomes(x, Vec!S_do_or_or_xor(v, w, "or"))
  <2> DEFINE m == Vec!S_do_or_or_xor(v, w, "or")
  <2>1. m \in Bytes /\ \A u \in Nat : Has(m, u) <=> Has(v, u) \/ Has(w, u)
    BY <1>2, OrXorIs
  <2> HIDE DEF m
  <2>2. \A u \in Nat : Has(m, u) <=> u \in O \union P
    BY <1>3, <2>1
  <2> QED
    BY <1>6, <1>9, <2>1, <2>2 DEF m
<1>10. CASE Vec!Becomes(x, Vec!S_do_or_or_xor(v, w, "xor"))
  <2> DEFINE m == Vec!S_do_or_or_xor(v, w, "xor")
  <2>1. m \in Bytes
        /\ \A u \in Nat : Has(m, u) <=> ~ (Has(v, u) <=> Has(w, u))
    BY <1>2, OrXorIs
  <2> HIDE DEF m, D
  <2>2. \A u \in Nat : Has(m, u) <=> u \in D
    BY <1>3, <1>5, <2>1
  <2> QED
    BY <1>6, <1>10, <2>1, <2>2 DEF m
<1>11. CASE Vec!Becomes(x, Vec!Mimic(v, w))
  BY <1>2, <1>3, <1>6, <1>11, MimicIs
<1>12. CASE Vec!Becomes(x, w)
  BY <1>2, <1>3, <1>6, <1>12
<1> QED
  BY <1>1, <1>7, <1>8, <1>9, <1>10, <1>11, <1>12 DEF v, w

\* BitVector.c: whatever the capacities of the vectors and wherever a block of
\* bits begins and ends, every call on BitVectors is the one on sets.
THEOREM VectorsImplementSets ==
    ASSUME VecConstantsOK
    PROVE  Vec!Spec => Vec!ImplementsSets
<1>1. Vec!Init => VecInv /\ Vec!Sets!Init
  BY InitVectors
<1>2. ASSUME VecInv, [Vec!Next]_bits
      PROVE  VecInv' /\ Vec!Sets!Step
  <2>1. CASE Vec!Next
    <3>1. VecInv' /\ Vec!Sets!Next
      BY <1>2, <2>1, SingleIs, BlocksAre, WholesAre, BitPairsAre
         DEF Vec!Next, Vec!Sets!Next
    <3> QED
      BY <3>1 DEF Vec!Sets!Step
  <2>2. CASE UNCHANGED bits
    <3>1. [x \in Vecs |-> Vec!Ones(bits[x])]'
              = [x \in Vecs |-> Vec!Ones(bits[x])]
      BY <2>2
    <3> QED
      BY <1>2, <2>2, <3>1 DEF VecInv, Vec!Sets!Step
  <2> QED
    BY <1>2, <2>1, <2>2
<1>3. VecInv /\ [Vec!Next]_bits => VecInv' /\ Vec!Sets!Step
  BY <1>2
<1> QED
  BY <1>1, <1>3, PTL
     DEF Vec!Spec, Vec!ImplementsSets, Vec!Sets!Spec, Vec!Sets!Step

-----------------------------------------------------------------------------
(* Next_Hit.                                                               *)

LEMMA Int32Is ==
    ASSUME Ints \in Nat \ {0}, NEW n \in Nat, n < Ints \div 2
    PROVE  Vec!Int32(n) = n
<1>1. Ints \div 2 \in Nat /\ Ints \div 2 <= Ints
  OBVIOUS
<1>2. n \in 0..(Ints - 1)
  BY <1>1
<1>3. Ints * 0 + n = n
  OBVIOUS
<1>4. n % Ints = n
  <2>1. (Ints * 0 + n) % Ints = n
    BY <1>2, DivModUnique
  <2> QED
    BY <1>3, <2>1, Zenon
<1> QED
  BY <1>1, <1>4 DEF Vec!Int32

LEMMA FirstFrom ==
    ASSUME NEW S \in SUBSET Nat, NEW t \in Nat, NEW i \in S, i >= t,
           \A j \in S : j >= t => i <= j
    PROVE  Vec!Sets!Next_Hit(S, t) = i
<1> DEFINE T == {j \in S : j >= t}
<1>1. i \in T /\ (\A j \in T : i <= j) /\ T \subseteq Nat
  OBVIOUS
<1>2. Vec!Sets!Min(T) \in T /\ \A j \in T : Vec!Sets!Min(T) <= j
  BY <1>1, Zenon DEF Vec!Sets!Min
<1> HIDE DEF T
<1>3. Vec!Sets!Min(T) = i
  <2>1. /\ Vec!Sets!Min(T) \in Nat /\ i \in Nat
        /\ i <= Vec!Sets!Min(T) /\ Vec!Sets!Min(T) <= i
    BY <1>1, <1>2, Zenon
  <2> QED
    BY <2>1
<1> QED
  BY <1>3, Zenon DEF Vec!Sets!Next_Hit, T

\* The bits of a byte, wherever it is.
LEMMA BitOf ==
    ASSUME VecConstantsOK, NEW v \in Bytes, NEW k \in 1..Len(v), NEW b \in v[k]
    PROVE  LET t == (k - 1) * Bits + b
           IN  /\ t \in Nat /\ t \div Bits = k - 1 /\ t % Bits = b
               /\ t \in Vec!Ones(v) /\ t < Vec!Cap(v)
<1> DEFINE t == (k - 1) * Bits + b
<1>1. Len(v) \in Nat /\ k - 1 \in Nat /\ b \in 0..(Bits - 1)
  BY BytesAre
<1>2. t = Bits * (k - 1) + b
  BY <1>1 DEF VecConstantsOK
<1>3. t \in Nat /\ t \div Bits = k - 1 /\ t % Bits = b
  <2>1. Bits * (k - 1) + b \in Nat
    BY <1>1 DEF VecConstantsOK
  <2>2. Bits \in Nat \ {0}
    BY DEF VecConstantsOK
  <2> QED
    BY <1>1, <1>2, <2>1, <2>2, DivModUnique, Zenon
<1> HIDE DEF t
<1>4. (t \div Bits) + 1 = k
  BY <1>1, <1>3
<1>5. Has(v, t)
  BY <1>3, <1>4 DEF Has
<1>6. t \in Vec!Ones(v) /\ t < Vec!Cap(v)
  BY <1>3, <1>4, <1>5, InOnes, CapIs
<1> QED
  BY <1>3, <1>6 DEF t

\* Bits are in the order of their bytes.
LEMMA ByteOrder ==
    ASSUME VecConstantsOK, NEW t \in Nat, NEW u \in Nat
    PROVE  /\ t \div Bits < u \div Bits => t < u
           /\ t \div Bits = u \div Bits => (t <= u <=> t % Bits <= u % Bits)
<1>1. /\ t \div Bits \in Nat /\ u \div Bits \in Nat
      /\ t % Bits \in Nat /\ u % Bits \in Nat
  BY PlaceOf
<1>2. ASSUME t \div Bits < u \div Bits
      PROVE  t < u
  <2> SUFFICES ASSUME u <= t
               PROVE  FALSE
    OBVIOUS
  <2>1. u \div Bits <= t \div Bits
    BY DivMonotonic DEF VecConstantsOK
  <2> QED
    BY <1>1, <1>2, <2>1
<1>3. ASSUME t \div Bits = u \div Bits
      PROVE  t <= u <=> t % Bits <= u % Bits
  <2> DEFINE p == Bits * (t \div Bits)
  <2>1. t = p + (t % Bits) /\ p \in Nat
    BY <1>1, DivMod DEF VecConstantsOK
  <2>2. u = p + (u % Bits)
    BY <1>3, DivMod DEF VecConstantsOK
  <2> HIDE DEF p
  <2> QED
    BY <1>1, <2>1, <2>2
<1> QED
  BY <1>2, <1>3

LEMMA Successor ==
    ASSUME NEW p \in Nat, NEW q \in Nat, NEW n \in Nat, q = n - 1
    PROVE  (p + 1 = n => q = p) /\ (p + 1 > n => q < p)
OBVIOUS

LEMMA NextHitIs ==
    ASSUME VecConstantsOK, Ints \in Nat \ {0}, NEW v \in Bytes,
           Vec!Cap(v) < Ints \div 2, NEW t \in Nat
    PROVE  Vec!Next_Hit(v, t) = Vec!Sets!Next_Hit(Vec!Ones(v), t)
<1> DEFINE O == Vec!Ones(v)
           at == (t \div Bits) + 1
           sub == {b \in v[at] : b >= t % Bits}
           later == {i \in (at + 1)..Len(v) : v[i] # {}}
           checked(n) ==
               IF Vec!Int32(n) < Vec!Int32(Vec!Cap(v)) THEN Vec!Int32(n) ELSE -1
           m == Vec!Min(later)
           r == (at - 1) * Bits + Vec!Min(sub)
           s == (m - 1) * Bits + Vec!Min(v[m])
<1>1. Vec!Next_Hit(v, t) = IF at > Len(v) THEN -1
                           ELSE IF sub # {} THEN checked(r)
                           ELSE IF later = {} THEN -1 ELSE checked(s)
  BY DEF Vec!Next_Hit
<1>2. /\ Len(v) \in Nat /\ v \in [1..Len(v) -> SUBSET (0..(Bits - 1))]
      /\ Vec!Cap(v) \in Nat
  BY BytesAre, CapIs
<1>3. t \div Bits \in Nat /\ at \in Nat \ {0} /\ t % Bits \in 0..(Bits - 1)
  BY PlaceOf
<1>4. O \in SUBSET Nat
  BY InOnes
<1>5. \A j \in O : /\ j \div Bits \in Nat /\ (j \div Bits) + 1 \in 1..Len(v)
                   /\ j % Bits \in v[(j \div Bits) + 1]
  BY <1>4, InOnes, PlaceOf DEF Has
<1>6. \A n \in Nat : n < Vec!Cap(v) => checked(n) = n
  <2>1. Vec!Int32(Vec!Cap(v)) = Vec!Cap(v)
    BY <1>2, Int32Is
  <2>2. ASSUME NEW n \in Nat, n < Vec!Cap(v)
        PROVE  Vec!Int32(n) = n
    <3>1. Ints \div 2 \in Int
      OBVIOUS
    <3>2. n < Ints \div 2
      BY <1>2, <2>2, <3>1
    <3> QED
      BY <3>2, Int32Is
  <2> QED
    BY <2>1, <2>2
<1> HIDE DEF checked
\* What is not below t is in t's byte and not below its place there, or in a
\* later byte.
<1>7. ASSUME NEW j \in O, j >= t
      PROVE  \/ (j \div Bits) + 1 = at /\ j % Bits \in sub
             \/ (j \div Bits) + 1 \in later
  <2>1. j \in Nat /\ t <= j
    BY <1>4, <1>7
  <2>2. t \div Bits <= j \div Bits
    BY <2>1, DivMonotonic DEF VecConstantsOK
  <2>3. CASE t \div Bits = j \div Bits
    <3>1. t % Bits <= j % Bits
      BY <2>1, <2>3, ByteOrder
    <3>2. j % Bits >= t % Bits
      BY <1>3, <2>1, <3>1, PlaceOf
    <3>3. j % Bits \in v[at]
      BY <1>5, <2>3
    <3> QED
      BY <2>3, <3>2, <3>3
  <2>4. CASE t \div Bits # j \div Bits
    <3>1. (j \div Bits) + 1 \in (at + 1)..Len(v)
      BY <1>2, <1>3, <1>5, <2>2, <2>4
    <3> QED
      BY <1>5, <3>1
  <2> QED
    BY <2>3, <2>4
<1>8. ASSUME NEW n \in Nat, n \in O, n < Vec!Cap(v), n >= t,
             \A j \in O : j >= t => n <= j
      PROVE  checked(n) = Vec!Sets!Next_Hit(O, t)
  BY <1>4, <1>6, <1>8, FirstFrom
<1>9. ASSUME \A j \in O : ~ (j >= t)
      PROVE  -1 = Vec!Sets!Next_Hit(O, t)
  BY <1>9, Zenon DEF Vec!Sets!Next_Hit
<1>10. CASE at > Len(v)
  <2>1. \A j \in O : ~ (j >= t)
    BY <1>2, <1>3, <1>5, <1>7, <1>10
  <2> QED
    BY <1>1, <1>9, <1>10, <2>1
<1>11. CASE ~ (at > Len(v)) /\ sub # {}
  <2>1. at \in 1..Len(v)
    BY <1>2, <1>3, <1>11
  <2>2. sub \subseteq Nat
    BY <1>2, <2>1
  <2>3. Vec!Min(sub) \in sub /\ \A b \in sub : Vec!Min(sub) <= b
    BY <1>11, <2>2, MinIs
  <2> DEFINE b == Vec!Min(sub)
  <2>4. b \in v[at] /\ b >= t % Bits
    BY <2>3
  <2>5. /\ r \in Nat /\ r \div Bits = at - 1 /\ r % Bits = b
        /\ r \in O /\ r < Vec!Cap(v)
    BY <2>1, <2>4, BitOf
  <2> HIDE DEF b, r
  <2>6. r \div Bits = t \div Bits
    BY <1>3, <2>5
  <2>7. t % Bits <= r % Bits
    BY <1>3, <2>4, <2>5, PlaceOf
  <2>8. r >= t
    BY <2>5, <2>6, <2>7, ByteOrder
  <2>9. ASSUME NEW j \in O, j >= t
        PROVE  r <= j
    <3>1. j \in Nat
      BY <1>4
    <3>2. CASE (j \div Bits) + 1 = at /\ j % Bits \in sub
      <4>1. r \div Bits = j \div Bits
        BY <1>3, <1>5, <2>5, <3>2, PlaceOf, Successor
      <4>2. r % Bits <= j % Bits
        BY <2>3, <2>5, <3>2 DEF b
      <4> QED
        BY <2>5, <3>1, <4>1, <4>2, ByteOrder
    <3>3. CASE (j \div Bits) + 1 \in later
      <4>1. r \div Bits < j \div Bits
        <5>1. (j \div Bits) + 1 > at
          BY <1>3, <3>3
        <5> QED
          BY <1>3, <1>5, <2>5, <5>1, Successor
      <4> QED
        BY <2>5, <3>1, <4>1, ByteOrder
    <3> QED
      BY <1>7, <2>9, <3>2, <3>3
  <2>10. checked(r) = Vec!Sets!Next_Hit(O, t)
    BY <1>8, <2>5, <2>8, <2>9
  <2> QED
    BY <1>1, <1>11, <2>10 DEF r, b
<1>12. CASE ~ (at > Len(v)) /\ sub = {} /\ later = {}
  <2>1. \A j \in O : ~ (j >= t)
    BY <1>7, <1>12
  <2> QED
    BY <1>1, <1>9, <1>12, <2>1
<1>13. CASE ~ (at > Len(v)) /\ sub = {} /\ later # {}
  <2>1. later \subseteq Nat
    BY <1>3
  <2>2. m \in later /\ \A i \in later : m <= i
    BY <1>13, <2>1, MinIs
  <2>3. m \in (at + 1)..Len(v) /\ v[m] # {}
    BY <2>2
  <2> HIDE DEF m
  <2>4. m \in 1..Len(v) /\ m \in Nat
    BY <1>2, <1>3, <2>3
  <2>5. v[m] \subseteq Nat
    BY <1>2, <2>4
  <2> DEFINE b == Vec!Min(v[m])
  <2>6. b \in v[m] /\ \A c \in v[m] : b <= c
    BY <2>3, <2>5, MinIs
  <2>7. /\ s \in Nat /\ s \div Bits = m - 1 /\ s % Bits = b
        /\ s \in O /\ s < Vec!Cap(v)
    BY <2>4, <2>6, BitOf
  <2> HIDE DEF b, s
  <2>8. t \div Bits < s \div Bits
    BY <1>2, <1>3, <2>3, <2>4, <2>7
  <2>9. t < s
    BY <2>7, <2>8, ByteOrder
  <2>10. ASSUME NEW j \in O, j >= t
         PROVE  s <= j
    <3>1. j \in Nat /\ (j \div Bits) + 1 \in later
      BY <1>4, <1>7, <1>13, <2>10
    <3>2. m <= (j \div Bits) + 1
      BY <2>2, <3>1
    <3>3. CASE m = (j \div Bits) + 1
      <4>1. s \div Bits = j \div Bits
        BY <1>5, <2>4, <2>7, <3>3, PlaceOf, Successor
      <4>2. s % Bits <= j % Bits
        BY <1>5, <2>6, <2>7, <3>3
      <4> QED
        BY <2>7, <3>1, <4>1, <4>2, ByteOrder
    <3>4. CASE m # (j \div Bits) + 1
      <4> DEFINE q == j \div Bits
      <4>1. s \div Bits < j \div Bits
        <5>1. q \in Nat
          BY <1>5
        <5>2. m <= q + 1 /\ m # q + 1
          BY <3>2, <3>4
        <5> HIDE DEF q
        <5>3. m - 1 < q
          BY <2>4, <5>1, <5>2
        <5> QED
          BY <2>7, <5>3 DEF q
      <4> HIDE DEF q
      <4>2. s < j
        BY <2>7, <3>1, <4>1, ByteOrder
      <4>3. s \in Nat /\ j \in Nat
        BY <2>7, <3>1
      <4> QED
        BY <4>2, <4>3
    <3> QED
      BY <3>3, <3>4
  <2>11. checked(s) = Vec!Sets!Next_Hit(O, t)
    <3>1. s >= t
      BY <2>7, <2>9
    <3> QED
      BY <1>8, <2>7, <2>10, <3>1
  <2> QED
    BY <1>1, <1>13, <2>11 DEF s, b, m
<1> QED
  BY <1>10, <1>11, <1>12, <1>13

LEMMA TypesOfVectors ==
    ASSUME VecConstantsOK, VecInv, [Vec!Next]_bits
    PROVE  VecInv'
BY SingleIs, BlocksAre, WholesAre, BitPairsAre DEF Vec!Next, VecInv

\* BitVector.cfh:72: Next_Hit returns the next bit that is set, or -1, in every
\* vector whose capacity fits a signed number.
THEOREM NextHitIsTheNext ==
    ASSUME VecConstantsOK, Ints \in Nat \ {0}, MaxBytes \in Nat,
           MaxBytes * Bits < Ints \div 2,
           \A c \in Ticks : Vec!Ceil(c) <= MaxBytes
    PROVE  Vec!Spec => []Vec!NextHitTrue
<1> DEFINE Bounded == \A x \in Vecs : Len(bits[x]) <= MaxBytes
<1>1. Vec!Init => VecInv /\ Bounded
  <2> SUFFICES ASSUME Vec!Init
               PROVE  VecInv /\ Bounded
    OBVIOUS
  <2>1. VecInv
    BY InitVectors
  <2>2. ASSUME NEW x \in Vecs
        PROVE  Len(bits[x]) <= MaxBytes
    <3>1. PICK c \in Ticks : bits[x] = Vec!Zeros(Vec!Ceil(c))
      BY DEF Vec!Init
    <3>2. c \in Nat /\ c + Bits - 1 \in Nat /\ Bits \in Nat \ {0}
      BY DEF VecConstantsOK
    <3>3. Vec!Ceil(c) \in Nat
      BY <3>2, DivMod DEF Vec!Ceil
    <3> QED
      BY <3>1, <3>3, ZerosAre
  <2> QED
    BY <2>1, <2>2
<1>2. VecInv /\ Bounded /\ [Vec!Next]_bits => VecInv' /\ Bounded'
  <2> SUFFICES ASSUME VecInv, Bounded, [Vec!Next]_bits
               PROVE  VecInv' /\ Bounded'
    OBVIOUS
  <2>1. VecInv'
    BY TypesOfVectors
  <2>2. CASE UNCHANGED bits
    BY <2>1, <2>2
  <2>3. CASE Vec!Next
    <3>1. PICK x \in Vecs : \E w : Vec!Becomes(x, w)
      BY <2>3 DEF Vec!Next, Vec!Single, Vec!FlipBlock, Vec!Whole, Vec!Pair,
                  Vec!Copy
    <3>2. PICK w : Len(w) <= MaxBytes /\ bits' = [bits EXCEPT ![x] = w]
      BY <3>1 DEF Vec!Becomes
    <3> QED
      BY <2>1, <3>2 DEF VecInv
  <2> QED
    BY <2>2, <2>3
<1>3. VecInv /\ Bounded => Vec!NextHitTrue
  <2> SUFFICES ASSUME VecInv, Bounded, NEW x \in Vecs, NEW t \in Ticks
               PROVE  Vec!Next_Hit(bits[x], t)
                          = Vec!Sets!Next_Hit(Vec!Ones(bits[x]), t)
    BY DEF Vec!NextHitTrue
  <2>1. bits[x] \in Bytes /\ t \in Nat
    BY DEF VecInv, VecConstantsOK
  <2>2. Vec!Cap(bits[x]) < Ints \div 2
    <3>1. Len(bits[x]) \in Nat
      BY <2>1, BytesAre
    <3>2. Bits * Len(bits[x]) <= Bits * MaxBytes
      BY <3>1, TimesMonotonic DEF VecConstantsOK
    <3>3. /\ Bits * Len(bits[x]) = Vec!Cap(bits[x])
          /\ Bits * MaxBytes = MaxBytes * Bits
          /\ MaxBytes * Bits \in Nat /\ Vec!Cap(bits[x]) \in Nat
          /\ Ints \div 2 \in Int
      BY <3>1 DEF VecConstantsOK, Vec!Cap
    <3> QED
      BY <3>2, <3>3
  <2> QED
    BY <2>1, <2>2, NextHitIs
<1> HIDE DEF Bounded
<1> QED
  BY <1>1, <1>2, <1>3, PTL DEF Vec!Spec

-----------------------------------------------------------------------------
(* Priority queues.                                                        *)

CONSTANTS Element, Ranks, Sizes
VARIABLES key, max_size, heap, out

Queue == INSTANCE PriorityQueue WITH Keys <- Ranks

\* Keys are numbers, of which the order is known, and so are sizes.
QueueConstantsOK == Ranks \subseteq Int /\ Sizes \subseteq Nat

-----------------------------------------------------------------------------
(* The slots above a slot.                                                 *)

\* Everything above i is in every set that has i and the parents of its own.
UpClosed == {S \in SUBSET Nat : \A s \in S : s \div 2 \in S}

LEMMA AncestryIs ==
    \A i \in Nat : Queue!Ancestry[i] =
        IF i = 0 THEN {} ELSE {i} \union Queue!Ancestry[i \div 2]
<1> DEFINE A(i) == {a \in 1..i : \A S \in UpClosed : i \in S => a \in S}
           f == [i \in Nat |-> A(i)]
           F(g) == [i \in Nat |-> IF i = 0 THEN {} ELSE {i} \union g[i \div 2]]
<1>1. ASSUME NEW i \in Nat, i # 0
      PROVE  A(i) = {i} \union A(i \div 2)
  <2>1. i \div 2 \in Nat /\ i \div 2 < i /\ i \in 1..i
    BY <1>1
  <2>2. i \in A(i)
    BY <2>1
  <2>3. ASSUME NEW a \in A(i \div 2)
        PROVE  a \in A(i)
    <3>1. a \in 1..i
      BY <2>1
    <3>2. ASSUME NEW S \in UpClosed, i \in S
          PROVE  a \in S
      <4>1. i \div 2 \in S
        BY <3>2 DEF UpClosed
      <4> QED
        BY <4>1
    <3> QED
      BY <3>1, <3>2
  <2>4. ASSUME NEW a \in A(i), a # i
        PROVE  a \in A(i \div 2)
    <3>1. a \in 1..(i \div 2)
      <4> DEFINE T == 0..(i \div 2) \union {i}
      <4>1. T \in UpClosed
        <5>1. T \in SUBSET Nat
          BY <2>1
        <5>2. ASSUME NEW s \in T
              PROVE  s \div 2 \in T
          <6>1. CASE s = i
            BY <2>1, <6>1
          <6>2. CASE s \in 0..(i \div 2)
            <7>1. s \div 2 \in Nat /\ s \div 2 <= s
              BY <2>1, <6>2
            <7> QED
              BY <2>1, <6>2, <7>1
          <6> QED
            BY <6>1, <6>2
        <5> QED
          BY <5>1, <5>2 DEF UpClosed
      <4>2. a \in T
        BY <4>1
      <4> QED
        BY <2>4, <4>2
    <3>2. ASSUME NEW S \in UpClosed, i \div 2 \in S
          PROVE  a \in S
      <4> DEFINE T == S \union {i}
      <4>1. T \in UpClosed
        BY <3>2 DEF UpClosed
      <4>2. a \in T
        BY <4>1
      <4> QED
        BY <2>4, <4>2
    <3> QED
      BY <3>1, <3>2
  <2> HIDE DEF A
  <2> QED
    BY <2>2, <2>3, <2>4
<1>2. A(0) = {}
  OBVIOUS
<1> HIDE DEF A
<1>3. f = F(f)
  <2>1. ASSUME NEW i \in Nat, i # 0
        PROVE  f[i] = {i} \union f[i \div 2]
    <3>1. i \div 2 \in Nat
      OBVIOUS
    <3> QED
      BY <1>1, <2>1, <3>1
  <2>2. f[0] = {}
    BY <1>2
  <2> HIDE DEF f
  <2>3. \A i \in Nat : f[i] = IF i = 0 THEN {} ELSE {i} \union f[i \div 2]
    BY <2>1, <2>2
  <2>4. f = [i \in Nat |-> f[i]]
    BY DEF f
  <2> QED
    BY <2>3, <2>4, Zenon
<1> HIDE DEF f
<1>4. Queue!Ancestry = CHOOSE g : g = F(g)
  BY DEF Queue!Ancestry
<1>5. Queue!Ancestry = F(Queue!Ancestry)
  BY <1>3, <1>4, Zenon
<1> QED
  BY <1>5, Zenon

\* It is a way from n to the root that leaves no slot out.
Way(n) ==
    LET above == Queue!Ancestry[n]
    IN  /\ above \subseteq 1..n
        /\ n > 0 => n \in above /\ 1 \in above
        /\ \A a \in above : a # 1 => a \div 2 \in above
        /\ \A a, b \in above : a < b => a <= b \div 2
        /\ \A a \in above : a # n => \E b \in above : b # 1 /\ b \div 2 = a

LEMMA WayStep ==
    ASSUME NEW n \in Nat, n # 0, Way(n \div 2)
    PROVE  Way(n)
<1> DEFINE m == n \div 2
           A == Queue!Ancestry[n]
           B == Queue!Ancestry[m]
<1>1. m \in Nat /\ m < n /\ (n # 1 => m > 0) /\ (n = 1 => m = 0)
  OBVIOUS
<1>2. A = {n} \union B
  BY AncestryIs, Zenon
<1>3. /\ B \subseteq 1..m
      /\ m > 0 => m \in B /\ 1 \in B
      /\ \A a \in B : a # 1 => a \div 2 \in B
      /\ \A a, b \in B : a < b => a <= b \div 2
      /\ \A a \in B : a # m => \E b \in B : b # 1 /\ b \div 2 = a
  BY Zenon DEF Way
<1>4. B = {} \/ m > 0
  BY <1>1, <1>3
<1>5. A \subseteq 1..n
  BY <1>1, <1>2, <1>3
<1>6. n \in A /\ 1 \in A
  BY <1>1, <1>2, <1>3
<1>7. ASSUME NEW a \in A, a # 1
      PROVE  a \div 2 \in A
  BY <1>1, <1>2, <1>3, <1>7
<1>8. ASSUME NEW a \in A, NEW b \in A, a < b
      PROVE  a <= b \div 2
  <2>1. CASE b = n
    <3>1. a \in B
      BY <1>2, <1>8, <1>5, <2>1
    <3> QED
      BY <1>1, <1>3, <2>1, <3>1
  <2>2. CASE b # n
    <3>1. b \in B /\ b <= m
      BY <1>1, <1>2, <1>3, <2>2
    <3>2. a \in B
      BY <1>1, <1>2, <1>3, <1>5, <1>8, <3>1
    <3> QED
      BY <1>3, <1>8, <3>1, <3>2
  <2> QED
    BY <2>1, <2>2
<1>9. ASSUME NEW a \in A, a # n
      PROVE  \E b \in A : b # 1 /\ b \div 2 = a
  <2>1. a \in B
    BY <1>2, <1>9
  <2>2. CASE a = m
    BY <1>1, <1>4, <1>6, <2>1, <2>2
  <2>3. CASE a # m
    BY <1>2, <1>3, <2>1, <2>3
  <2> QED
    BY <2>2, <2>3
<1> HIDE DEF m
<1> QED
  BY <1>5, <1>6, <1>7, <1>8, <1>9, Zenon DEF Way

LEMMA WayUp ==
    \A n \in Nat : Way(n)
<1> DEFINE T == {n \in Nat : ~Way(n)}
<1> SUFFICES ASSUME T # {}
             PROVE  FALSE
  OBVIOUS
<1>1. T \in SUBSET Nat
  OBVIOUS
<1>2. PICK n \in T : \A k \in T : n <= k
  BY <1>1, Least
<1>3. Way(0)
  <2>1. Queue!Ancestry[0] = {}
    BY AncestryIs
  <2> QED
    BY <2>1 DEF Way
<1>4. n \in Nat /\ n # 0 /\ ~Way(n)
  BY <1>3
<1>5. n \div 2 \in Nat /\ n \div 2 < n
  BY <1>4
<1>6. Way(n \div 2)
  BY <1>2, <1>4, <1>5
<1> QED
  BY <1>4, <1>6, WayStep

-----------------------------------------------------------------------------
(* Heaps.                                                                  *)

Lt(less, a, b) == less[a, b]

\* less orders elements that may also be equal.
Weak(E, less) ==
    /\ \A a, b \in E : Lt(less, a, b) \in BOOLEAN
    /\ \A a, b \in E : Lt(less, a, b) => ~Lt(less, b, a)
    /\ \A a, b, c \in E :
           ~Lt(less, a, b) /\ ~Lt(less, b, c) => ~Lt(less, a, c)

\* From slot `from' on, no child is less than its parent.
HeapFrom(h, less, from) ==
    \A i \in 2..Len(h) : i \div 2 >= from => ~Lt(less, h[i], h[i \div 2])

Heap(h, less) == HeapFrom(h, less, 1)

Distinct(h) == \A i, j \in 1..Len(h) : h[i] = h[j] => i = j

LEMMA RootIsLeast ==
    ASSUME NEW E, NEW less, Weak(E, less), NEW h \in Seq(E), Heap(h, less)
    PROVE  \A i \in 1..Len(h) : ~Lt(less, h[i], h[1])
<1> DEFINE T == {i \in 1..Len(h) : Lt(less, h[i], h[1])}
<1> SUFFICES ASSUME T # {}
             PROVE  FALSE
  OBVIOUS
<1>1. T \in SUBSET Nat
  OBVIOUS
<1>2. PICK i \in T : \A k \in T : i <= k
  BY <1>1, Least
<1>3. i \in 1..Len(h) /\ Lt(less, h[i], h[1]) /\ Len(h) \in Nat
  OBVIOUS
<1>4. \A j \in 1..Len(h) : h[j] \in E
  OBVIOUS
<1>5. 1 \in 1..Len(h)
  BY <1>3
<1>6. i # 1
  BY <1>3, <1>4 DEF Weak
<1> DEFINE p == i \div 2
<1>7. p \in 1..Len(h) /\ p < i /\ p >= 1 /\ i \in 2..Len(h)
  BY <1>3, <1>6
<1>8. ~Lt(less, h[i], h[p])
  BY <1>7 DEF Heap, HeapFrom
<1> HIDE DEF p
<1>9. ~Lt(less, h[p], h[1])
  BY <1>2, <1>3, <1>7
<1>10. ~Lt(less, h[i], h[1])
  BY <1>3, <1>4, <1>5, <1>7, <1>8, <1>9 DEF Weak
<1> QED
  BY <1>3, <1>10

\* Elements change places and stay the same.
Rearranges(E, g, h) ==
    /\ g \in Seq(E) /\ Len(g) = Len(h)
    /\ Queue!ToSet(g) = Queue!ToSet(h)
    /\ Distinct(h) => Distinct(g)

LEMMA Rearranged ==
    ASSUME NEW E, NEW h \in Seq(E), NEW at \in [1..Len(h) -> 1..Len(h)],
           \A i, j \in 1..Len(h) : at[i] = at[j] => i = j,
           \A m \in 1..Len(h) : \E i \in 1..Len(h) : at[i] = m,
           NEW g, g = [i \in 1..Len(h) |-> h[at[i]]]
    PROVE  Rearranges(E, g, h)
<1>1. Len(h) \in Nat /\ \A i \in 1..Len(h) : h[i] \in E
  OBVIOUS
<1>2. \A i \in 1..Len(h) : g[i] = h[at[i]] /\ g[i] \in E
  BY <1>1
<1>3. g \in Seq(E) /\ Len(g) = Len(h) /\ DOMAIN g = 1..Len(h)
  BY <1>1, <1>2
<1>4. DOMAIN h = 1..Len(h)
  OBVIOUS
<1>5. Queue!ToSet(g) = Queue!ToSet(h)
  BY <1>2, <1>3, <1>4 DEF Queue!ToSet
<1>6. ASSUME Distinct(h), NEW i \in 1..Len(g), NEW j \in 1..Len(g), g[i] = g[j]
      PROVE  i = j
  <2>1. i \in 1..Len(h) /\ j \in 1..Len(h) /\ h[at[i]] = h[at[j]]
    BY <1>2, <1>3, <1>6
  <2>2. at[i] \in 1..Len(h) /\ at[j] \in 1..Len(h)
    BY <2>1
  <2>3. at[i] = at[j]
    BY <1>6, <2>1, <2>2 DEF Distinct
  <2> QED
    BY <2>1, <2>3
<1> QED
  BY <1>3, <1>5, <1>6 DEF Rearranges, Distinct

-----------------------------------------------------------------------------
(* The way up.                                                             *)

LEMMA MaxOf ==
    ASSUME NEW n \in Nat, NEW T \in SUBSET (1..n), T # {}
    PROVE  Queue!Max(T) \in T /\ \A y \in T : y <= Queue!Max(T)
<1> DEFINE U == {n - x : x \in T}
<1>1. U \in SUBSET Nat /\ U # {}
  <2>1. \A x \in T : n - x \in Nat
    OBVIOUS
  <2> QED
    BY <2>1, Zenon
<1>2. PICK u \in U : \A y \in U : u <= y
  BY <1>1, Least
<1>3. PICK x \in T : u = n - x
  BY <1>2
<1>4. \A y \in T : n - y \in U
  OBVIOUS
<1>5. \A y \in T : n - x <= n - y
  BY <1>2, <1>3, <1>4
<1>6. \A y \in T : x >= y
  BY <1>5
<1>7. Queue!Max(T) \in T /\ \A y \in T : Queue!Max(T) >= y
  BY <1>6, Zenon DEF Queue!Max
<1> QED
  BY <1>7

\* The element in the last slot finds its place above; it need not be in order
\* with those that it passes.
LEMMA UpHeap ==
    ASSUME NEW E, NEW less, Weak(E, less), NEW h \in Seq(E), h # <<>>,
           \A i \in 2..(Len(h) - 1) : ~Lt(less, h[i], h[i \div 2])
    PROVE  /\ Rearranges(E, Queue!S_up_heap(h, less), h)
           /\ Heap(Queue!S_up_heap(h, less), less)
<1> DEFINE n == Len(h)
           node == h[n]
           above == Queue!Ancestry[n]
           stops == {i \in above : i = 1 \/ ~Lt(less, node, h[i \div 2])}
           L == Queue!Max(stops)
           at == [i \in 1..n |-> IF i = L THEN n
                                 ELSE IF i > L /\ i \in above THEN i \div 2
                                 ELSE i]
           g == [i \in 1..n |-> IF i = L THEN node
                                ELSE IF i > L /\ i \in above THEN h[i \div 2]
                                ELSE h[i]]
<1>1. Queue!S_up_heap(h, less) = g
  BY Zenon DEF Queue!S_up_heap, Queue!Last, Lt
<1>2. n \in Nat /\ n > 0 /\ \A i \in 1..n : h[i] \in E
  OBVIOUS
<1>3. /\ above \subseteq 1..n /\ n \in above /\ 1 \in above
      /\ \A a \in above : a # 1 => a \div 2 \in above
      /\ \A a, b \in above : a < b => a <= b \div 2
      /\ \A a \in above : a # n => \E b \in above : b # 1 /\ b \div 2 = a
  BY <1>2, WayUp DEF Way
<1>4. \A i \in 1..n : i # 1 => i \div 2 \in 1..n /\ i \div 2 < i
  BY <1>2
<1>5. \A i \in 2..(n - 1) : ~Lt(less, h[i], h[i \div 2])
  OBVIOUS
<1> HIDE DEF n, above
<1>6. stops \in SUBSET (1..n) /\ 1 \in stops
  BY <1>3
<1>7. L \in stops /\ \A y \in stops : y <= L
  BY <1>2, <1>6, MaxOf, Zenon
<1>8. L \in above /\ L \in 1..n /\ (L = 1 \/ ~Lt(less, node, h[L \div 2]))
  BY <1>3, <1>7
<1>9. \A i \in above : i > L => i # 1 /\ Lt(less, node, h[i \div 2])
  <2> HIDE DEF L
  <2>1. ASSUME NEW i \in above, i > L
        PROVE  i # 1 /\ Lt(less, node, h[i \div 2])
    <3>1. i \notin stops
      BY <1>3, <1>7, <1>8, <2>1
    <3> QED
      BY <3>1
  <2> QED
    BY <2>1
<1> HIDE DEF stops, L
<1>10. /\ \A i \in 1..n : i > L /\ i \in above => at[i] = i \div 2
       /\ \A i \in 1..n : i < L \/ i \notin above => at[i] = i
       /\ at[L] = n
  <2>1. ASSUME NEW i \in 1..n, i > L, i \in above
        PROVE  at[i] = i \div 2
    BY <1>2, <1>8, <2>1
  <2>2. ASSUME NEW i \in 1..n, i < L \/ i \notin above
        PROVE  at[i] = i
    BY <1>2, <1>8, <2>2
  <2>3. at[L] = n
    BY <1>8
  <2> HIDE DEF at
  <2> QED
    BY <2>1, <2>2, <2>3
<1>11. at \in [1..n -> 1..n] /\ g = [i \in 1..n |-> h[at[i]]]
  <2>1. \A i \in 1..n : (IF i = L THEN n
                         ELSE IF i > L /\ i \in above THEN i \div 2
                         ELSE i) \in 1..n
    BY <1>2, <1>3, <1>4, <1>9
  <2>2. at \in [1..n -> 1..n]
    BY <2>1
  <2>3. \A i \in 1..n : g[i] = h[at[i]]
    OBVIOUS
  <2> QED
    BY <2>2, <2>3
<1>12. ASSUME NEW i \in 1..n, NEW j \in 1..n, i < j
       PROVE  at[i] # at[j]
  <2> HIDE DEF at
  <2>1. CASE i \in above /\ i > L /\ j \in above
    BY <1>2, <1>3, <1>4, <1>8, <1>9, <1>10, <1>12, <2>1
  <2>2. CASE i \in above /\ i > L /\ j \notin above
    <3>1. at[i] = i \div 2 /\ at[j] = j
      BY <1>10, <2>2
    <3>2. i \div 2 < j
      BY <1>2, <1>4, <1>9, <1>12, <2>2
    <3> QED
      BY <3>1, <3>2
  <2>3. CASE i = L /\ j \in above
    BY <1>2, <1>3, <1>4, <1>8, <1>9, <1>10, <1>12, <2>3
  <2>4. CASE i = L /\ j \notin above
    BY <1>2, <1>3, <1>4, <1>8, <1>9, <1>10, <1>12, <2>4
  <2>5. CASE (i < L \/ i \notin above) /\ j = L
    <3>1. at[i] = i /\ at[j] = n
      BY <1>10, <2>5
    <3>2. i # n
      BY <1>2, <1>3, <1>8, <1>12
    <3> QED
      BY <3>1, <3>2
  <2>6. CASE (i < L \/ i \notin above) /\ j > L /\ j \in above
    <3>1. at[i] = i /\ at[j] = j \div 2
      BY <1>10, <2>6
    <3>2. j \div 2 \in above /\ L <= j \div 2
      BY <1>3, <1>8, <1>9, <2>6
    <3>3. CASE i \notin above
      BY <3>1, <3>2, <3>3
    <3>4. CASE i < L
      BY <1>2, <1>8, <3>1, <3>2, <3>4
    <3> QED
      BY <2>6, <3>3, <3>4
  <2>7. CASE (i < L \/ i \notin above) /\ (j < L \/ j \notin above)
    BY <1>10, <1>12, <2>7
  <2> QED
    BY <1>8, <2>1, <2>2, <2>3, <2>4, <2>5, <2>6, <2>7
<1>13. ASSUME NEW m \in 1..n
       PROVE  \E i \in 1..n : at[i] = m
  <2> HIDE DEF at
  <2>1. CASE m = n
    BY <1>8, <1>10, <2>1
  <2>2. CASE m < n /\ m \in above /\ m >= L
    <3>1. PICK b \in above : b # 1 /\ b \div 2 = m
      BY <1>3, <2>2
    <3>2. b > L /\ b \in 1..n
      BY <1>3, <1>4, <1>8, <2>2, <3>1
    <3> QED
      BY <1>10, <3>1, <3>2
  <2>3. CASE m < L \/ m \notin above
    BY <1>10, <2>3
  <2> QED
    BY <1>2, <1>8, <2>1, <2>2, <2>3
<1>14. Rearranges(E, g, h)
  <2>1. \A i, j \in 1..n : at[i] = at[j] => i = j
    <3> HIDE DEF at
    <3> QED
      BY <1>12
  <2> HIDE DEF at, g
  <2> QED
    BY <1>11, <1>13, <2>1, Rearranged, Zenon DEF n
<1>15. /\ \A i \in 1..n : i > L /\ i \in above => g[i] = h[i \div 2]
       /\ \A i \in 1..n : i < L \/ i \notin above => g[i] = h[i]
       /\ g[L] = node
  BY <1>3, <1>8
<1>16. Len(g) = n
  BY <1>14 DEF Rearranges, n
<1> HIDE DEF at, g
<1>17. node \in E
  BY <1>2
<1> HIDE DEF node
<1>18. ASSUME NEW i \in 2..n
       PROVE  ~Lt(less, g[i], g[i \div 2])
  <2> DEFINE p == i \div 2
             q == p \div 2
  <2>1. i \in 1..n /\ p \in 1..n /\ p < i /\ p < n /\ i # 1
    BY <1>2, <1>4
  <2>2. p # 1 => q \in 1..n /\ p \in 2..(n - 1) /\ ~Lt(less, h[p], h[q])
    BY <1>2, <1>4, <1>5, <2>1
  <2>3. i # n => i \in 2..(n - 1) /\ ~Lt(less, h[i], h[p])
    BY <1>2, <1>5, <2>1
  <2>4. CASE i \in above
    <3>1. p \in above
      BY <1>3, <2>1, <2>4
    <3>2. i > L => p >= L
      BY <1>3, <1>8, <2>4
    <3>3. p > L => Lt(less, node, h[q]) /\ p # 1
      BY <1>9, <3>1
    <3>4. i > L => Lt(less, node, h[p])
      BY <1>9, <2>4
    <3> HIDE DEF q, p
    <3>5. CASE i > L /\ p > L
      <4>1. g[i] = h[p] /\ g[p] = h[q]
        BY <1>15, <2>1, <2>4, <3>1, <3>5 DEF p, q
      <4> QED
        BY <2>2, <3>3, <3>5, <4>1 DEF p
    <3>6. CASE i > L /\ p = L
      <4>1. g[i] = h[p] /\ g[p] = node
        BY <1>15, <2>1, <2>4, <3>6 DEF p
      <4> QED
        BY <1>2, <1>17, <2>1, <3>4, <3>6, <4>1 DEF p, Weak
    <3>7. CASE i = L
      <4>1. g[i] = node /\ g[p] = h[p]
        BY <1>15, <2>1, <3>7
      <4> QED
        BY <1>8, <2>1, <3>7, <4>1 DEF p
    <3>8. CASE i < L
      <4>1. g[i] = h[i] /\ g[p] = h[p] /\ i # n
        BY <1>8, <1>15, <2>1, <3>8
      <4> QED
        BY <2>3, <4>1 DEF p
    <3> QED
      BY <1>8, <2>1, <3>2, <3>5, <3>6, <3>7, <3>8
  <2>5. CASE i \notin above
    <3>1. i # n /\ g[i] = h[i] /\ ~Lt(less, h[i], h[p])
      BY <1>3, <1>15, <2>1, <2>3, <2>5
    <3> HIDE DEF q, p
    <3>2. CASE p > L /\ p \in above
      <4>1. g[p] = h[q] /\ p # 1
        BY <1>8, <1>15, <2>1, <3>2 DEF q
      <4> QED
        BY <1>2, <2>1, <2>2, <3>1, <4>1 DEF p, Weak
    <3>3. CASE p = L
      <4>1. PICK b \in above : b # 1 /\ b \div 2 = L
        BY <1>3, <1>8, <2>1, <3>3
      <4>2. b > L /\ Lt(less, node, h[p])
        BY <1>3, <1>4, <1>9, <3>3, <4>1
      <4>3. ~Lt(less, h[p], node)
        BY <1>2, <1>17, <2>1, <4>2 DEF Weak
      <4>4. g[p] = node
        BY <1>15, <3>3
      <4> QED
        BY <1>2, <1>17, <2>1, <3>1, <4>3, <4>4 DEF p, Weak
    <3>4. CASE p < L \/ p \notin above
      <4>1. g[p] = h[p]
        BY <1>15, <2>1, <3>4
      <4> QED
        BY <3>1, <4>1 DEF p
    <3> QED
      BY <1>8, <2>1, <3>2, <3>3, <3>4
  <2> QED
    BY <2>4, <2>5
<1>19. Heap(g, less)
  BY <1>16, <1>18 DEF Heap, HeapFrom
<1> QED
  BY <1>1, <1>14, <1>19

-----------------------------------------------------------------------------
(* The way down.                                                           *)

LEMMA LesserChildIs ==
    ASSUME NEW E, NEW less, Weak(E, less), NEW h \in Seq(E),
           NEW i \in 1..Len(h)
    PROVE  LET c == Queue!LesserChild(h, less, i)
           IN  /\ c \in Nat /\ c > i /\ c # 1 /\ c \div 2 = i
               /\ 2 * i <= Len(h) => c <= Len(h)
               /\ \A k \in 2..Len(h) : k \div 2 = i =>
                      c <= Len(h) /\ ~Lt(less, h[k], h[c])
<1> DEFINE n == Len(h)
           c == Queue!LesserChild(h, less, i)
<1>1. n \in Nat /\ \A k \in 1..n : h[k] \in E
  OBVIOUS
<1>2. c = IF 2 * i + 1 <= n /\ Lt(less, h[2 * i + 1], h[2 * i])
          THEN 2 * i + 1 ELSE 2 * i
  BY Zenon DEF Queue!LesserChild, Lt
<1> HIDE DEF n, c
<1>3. i \in Nat /\ i >= 1 /\ i <= n
  BY <1>1 DEF n
<1>4. c = 2 * i \/ c = 2 * i + 1
  BY <1>2
<1>5. c \in Nat /\ c > i /\ c # 1 /\ c \div 2 = i
  BY <1>3, <1>4
<1>6. 2 * i <= n => c <= n
  BY <1>1, <1>2, <1>3
<1>7. ASSUME NEW k \in 2..n, k \div 2 = i
      PROVE  c <= n /\ ~Lt(less, h[k], h[c])
  <2>1. k = 2 * i \/ k = 2 * i + 1
    BY <1>1, <1>3, <1>7
  <2>2. 2 * i <= n
    BY <1>1, <1>3, <2>1
  <2>3. \A a \in E : ~Lt(less, a, a)
    BY DEF Weak
  <2>4. CASE k = 2 * i
    <3>1. h[2 * i] \in E
      BY <1>1, <1>3, <2>2
    <3>2. CASE c = 2 * i
      BY <1>6, <2>2, <2>3, <2>4, <3>1, <3>2
    <3>3. CASE c # 2 * i
      <4>1. /\ 2 * i + 1 <= n /\ Lt(less, h[2 * i + 1], h[2 * i])
            /\ c = 2 * i + 1
        BY <1>2, <3>3
      <4>2. h[2 * i + 1] \in E
        BY <1>1, <1>3, <4>1
      <4> QED
        BY <2>4, <3>1, <4>1, <4>2 DEF Weak
    <3> QED
      BY <3>2, <3>3
  <2>5. CASE k = 2 * i + 1
    <3>1. 2 * i + 1 <= n
      BY <1>1, <1>3, <2>5
    <3>2. h[2 * i + 1] \in E
      BY <1>1, <1>3, <3>1
    <3>3. CASE Lt(less, h[2 * i + 1], h[2 * i])
      <4>1. c = 2 * i + 1
        BY <1>2, <3>1, <3>3
      <4> QED
        BY <2>3, <2>5, <3>1, <3>2, <4>1
    <3>4. CASE ~Lt(less, h[2 * i + 1], h[2 * i])
      <4>1. c = 2 * i
        BY <1>2, <3>4
      <4> QED
        BY <1>6, <2>2, <2>5, <3>4, <4>1
    <3> QED
      BY <3>3, <3>4
  <2> QED
    BY <2>1, <2>4, <2>5
<1> QED
  BY <1>5, <1>6, <1>7 DEF n, c

\* The element in the first slot finds its place below; it need not be in
\* order with those that it passes.
LEMMA DownHeap ==
    ASSUME NEW E, NEW less, Weak(E, less), NEW h \in Seq(E), h # <<>>,
           HeapFrom(h, less, 2)
    PROVE  /\ Rearranges(E, Queue!S_down_heap(h, less), h)
           /\ Heap(Queue!S_down_heap(h, less), less)
<1> DEFINE n == Len(h)
           C(i) == Queue!LesserChild(h, less, i)
           A(i) == Queue!Ancestry[i]
           Passes(i) == i = C(i \div 2) /\ Lt(less, h[i], h[1])
           passed == {i \in 1..n : \A a \in A(i) : a = 1 \/ Passes(a)}
           L == Queue!Max(passed)
           at == [i \in 1..n |-> IF i = L THEN 1
                                 ELSE IF i \in A(L) THEN C(i) ELSE i]
           g == [i \in 1..n |-> IF i = L THEN h[1]
                                ELSE IF i \in A(L) THEN h[C(i)]
                                ELSE h[i]]
<1>1. Queue!S_down_heap(h, less) = g
  BY Zenon DEF Queue!S_down_heap, Lt
<1>2. n \in Nat /\ n > 0 /\ 1 \in 1..n /\ \A i \in 1..n : h[i] \in E
  OBVIOUS
<1>3. \A i \in 1..n :
          /\ C(i) \in Nat /\ C(i) > i /\ C(i) # 1 /\ C(i) \div 2 = i
          /\ 2 * i <= n => C(i) <= n
          /\ \A k \in 2..n : k \div 2 = i =>
                 C(i) <= n /\ ~Lt(less, h[k], h[C(i)])
  BY LesserChildIs
<1>4. \A i \in 1..n :
          /\ A(i) \subseteq 1..i /\ i \in A(i) /\ 1 \in A(i)
          /\ \A a \in A(i) : a # 1 => a \div 2 \in A(i)
          /\ \A a \in A(i) : a # i => \E b \in A(i) : b # 1 /\ b \div 2 = a
  <2>1. ASSUME NEW i \in 1..n
        PROVE  Way(i) /\ i \in Nat /\ i > 0
    BY <1>2, WayUp
  <2> QED
    BY <2>1 DEF Way
<1>5. \A i \in 1..n : A(C(i)) = {C(i)} \union A(i)
  <2>1. ASSUME NEW i \in 1..n
        PROVE  A(C(i)) = {C(i)} \union A(C(i) \div 2)
    <3>1. C(i) \in Nat /\ C(i) # 0
      BY <1>2, <1>3
    <3> QED
      BY <3>1, AncestryIs, Zenon
  <2> QED
    BY <1>3, <2>1
<1>6. \A i \in 2..n : i \div 2 \in 1..n /\ i \div 2 < i
  BY <1>2
<1>7. \A i \in 2..n : i \div 2 # 1 => ~Lt(less, h[i], h[i \div 2])
  BY <1>2, <1>6 DEF HeapFrom
<1> HIDE DEF n, C, A
<1>8. passed \in SUBSET (1..n) /\ 1 \in passed
  BY <1>2, <1>4
<1>9. L \in passed /\ \A y \in passed : y <= L
  BY <1>2, <1>8, MaxOf, Zenon
<1> DEFINE above == A(L)
<1>10. L \in 1..n /\ \A a \in above : a # 1 => Passes(a)
  BY <1>9
<1> HIDE DEF L
<1>11. /\ above \subseteq 1..L /\ L \in above /\ 1 \in above
       /\ \A a \in above : a # 1 => a \div 2 \in above
       /\ \A a \in above : a # L => C(a) \in above
  <2>1. ASSUME NEW a \in above, a # L
        PROVE  C(a) \in above
    <3>1. PICK b \in above : b # 1 /\ b \div 2 = a
      BY <1>4, <1>10, <2>1
    <3> QED
      BY <1>10, <3>1
  <2> QED
    BY <1>4, <1>10, <2>1
<1>12. above \subseteq 1..n
  BY <1>2, <1>10, <1>11
<1>13. C(L) <= n => ~Lt(less, h[C(L)], h[1])
  <2> SUFFICES ASSUME C(L) <= n, Lt(less, h[C(L)], h[1])
               PROVE  FALSE
    OBVIOUS
  <2>1. C(L) \in 1..n /\ C(L) > L /\ C(L) \div 2 = L
    BY <1>2, <1>3, <1>10
  <2>2. Passes(C(L))
    BY <2>1
  <2>3. \A a \in A(C(L)) : a = 1 \/ Passes(a)
    BY <1>5, <1>10, <2>2
  <2>4. C(L) \in passed
    BY <2>1, <2>3
  <2> QED
    BY <1>2, <1>9, <1>10, <2>1, <2>4
<1> HIDE DEF passed, above
<1>14. /\ \A i \in 1..n : i # L /\ i \in above => at[i] = C(i)
       /\ \A i \in 1..n : i \notin above => at[i] = i
       /\ at[L] = 1
  BY <1>10, <1>11 DEF above
<1>15. at \in [1..n -> 1..n] /\ g = [i \in 1..n |-> h[at[i]]]
  <2>1. \A i \in 1..n : (IF i = L THEN 1 ELSE IF i \in A(L) THEN C(i)
                         ELSE i) \in 1..n
    BY <1>2, <1>11, <1>12 DEF above
  <2>2. at \in [1..n -> 1..n]
    BY <2>1
  <2>3. \A i \in 1..n : g[i] = h[at[i]]
    OBVIOUS
  <2> QED
    BY <2>2, <2>3
<1>16. ASSUME NEW i \in 1..n, NEW j \in 1..n, at[i] = at[j]
       PROVE  i = j
  <2> HIDE DEF at
  <2>1. \A k \in 1..n : k \in above => at[k] \in above
    BY <1>11, <1>14
  <2>2. CASE i \in above /\ j \in above
    <3>1. \A k \in 1..n : k \in above /\ k # L => at[k] = C(k)
      BY <1>14
    <3>2. \A k \in 1..n : C(k) # 1
      BY <1>3
    <3>3. \A k, m \in 1..n : C(k) = C(m) => k = m
      BY <1>3
    <3> QED
      BY <1>14, <1>16, <2>2, <3>1, <3>2, <3>3
  <2>3. CASE i \notin above \/ j \notin above
    BY <1>14, <1>16, <2>1, <2>3
  <2> QED
    BY <2>2, <2>3
<1>17. ASSUME NEW m \in 1..n
       PROVE  \E i \in 1..n : at[i] = m
  <2> HIDE DEF at
  <2>1. CASE m = 1
    BY <1>10, <1>14, <2>1
  <2>2. CASE m # 1 /\ m \in above
    <3>1. m \div 2 \in above /\ C(m \div 2) = m /\ m \div 2 \in 1..n
      BY <1>10, <1>11, <1>12, <2>2
    <3>2. m \div 2 # L
      BY <1>2, <1>6, <1>10, <1>11, <2>2
    <3> QED
      BY <1>14, <3>1, <3>2
  <2>3. CASE m \notin above
    BY <1>14, <2>3
  <2> QED
    BY <2>1, <2>2, <2>3
<1>18. Rearranges(E, g, h)
  <2>1. \A i, j \in 1..n : at[i] = at[j] => i = j
    <3> HIDE DEF at
    <3> QED
      BY <1>16
  <2> HIDE DEF at, g
  <2> QED
    BY <1>15, <1>17, <2>1, Rearranged, Zenon DEF n
<1>19. /\ \A i \in 1..n : i # L /\ i \in above => g[i] = h[C(i)]
       /\ \A i \in 1..n : i \notin above => g[i] = h[i]
       /\ g[L] = h[1]
  BY <1>10, <1>11 DEF above
<1>20. Len(g) = n
  BY <1>18 DEF Rearranges, n
<1> HIDE DEF at, g
<1>21. ASSUME NEW i \in 2..n
       PROVE  ~Lt(less, g[i], g[i \div 2])
  <2> DEFINE p == i \div 2
  <2>1. i \in 1..n /\ p \in 1..n /\ p < i /\ i # 1
    BY <1>2, <1>6
  <2>2. p # 1 => ~Lt(less, h[i], h[p])
    BY <1>7
  <2>3. C(p) <= n /\ ~Lt(less, h[i], h[C(p)]) /\ C(p) \in 1..n
    BY <1>2, <1>3, <2>1
  <2>4. CASE i \in above
    <3>1. p \in above /\ p # L /\ C(p) = i /\ Lt(less, h[i], h[1])
      BY <1>2, <1>10, <1>11, <2>1, <2>4
    <3>2. g[p] = h[i]
      BY <1>19, <2>1, <3>1
    <3> HIDE DEF p
    <3>3. CASE i = L
      <4>1. g[i] = h[1]
        BY <1>19, <3>3
      <4> QED
        BY <1>2, <2>1, <3>1, <3>2, <4>1 DEF p, Weak
    <3>4. CASE i # L
      <4>1. g[i] = h[C(i)] /\ C(i) \in above /\ C(i) \in 2..n
        <5>1. g[i] = h[C(i)] /\ C(i) \in above /\ C(i) \in 1..n
          BY <1>11, <1>12, <1>19, <2>1, <2>4, <3>4
        <5>2. C(i) # 1
          BY <1>3, <2>1
        <5> QED
          BY <1>2, <5>1, <5>2
      <4>2. C(i) \div 2 = i
        BY <1>3, <2>1
      <4>3. ~Lt(less, h[C(i)], h[i])
        BY <1>7, <2>1, <4>1, <4>2
      <4> QED
        BY <3>2, <4>1, <4>3 DEF p
    <3> QED
      BY <3>3, <3>4
  <2>5. CASE i \notin above
    <3>1. g[i] = h[i]
      BY <1>19, <2>1, <2>5
    <3> HIDE DEF p
    <3>2. CASE p = L
      <4>1. g[p] = h[1] /\ ~Lt(less, h[C(p)], h[1])
        BY <1>13, <1>19, <2>3, <3>2
      <4> QED
        BY <1>2, <2>1, <2>3, <3>1, <4>1 DEF p, Weak
    <3>3. CASE p \in above /\ p # L
      <4>1. g[p] = h[C(p)]
        BY <1>19, <2>1, <3>3
      <4> QED
        BY <2>3, <3>1, <4>1 DEF p
    <3>4. CASE p \notin above
      <4>1. g[p] = h[p] /\ p # 1
        BY <1>11, <1>19, <2>1, <3>4
      <4> QED
        BY <2>2, <3>1, <4>1 DEF p
    <3> QED
      BY <3>2, <3>3, <3>4
  <2> QED
    BY <2>4, <2>5
<1>22. Heap(g, less)
  BY <1>20, <1>21 DEF Heap, HeapFrom
<1> QED
  BY <1>1, <1>18, <1>22

-----------------------------------------------------------------------------
(* What a queue keeps.                                                     *)

QueueTyped ==
    /\ key \in [Element -> Ranks] /\ max_size \in Sizes
    /\ heap \in Seq(Element) /\ Len(heap) <= max_size
    /\ out \in SUBSET (Element \ Queue!ToSet(heap))

QueueInv ==
    QueueTyped /\ Distinct(heap) /\ Heap(heap, Queue!Less_Than)

\* The pairs with the first less than the second.
Worse == {p \in Element \X Element : Queue!Less_Than[p[1], p[2]]}

LEMMA LessIs ==
    ASSUME QueueConstantsOK, key \in [Element -> Ranks]
    PROVE  /\ Weak(Element, Queue!Less_Than)
           /\ \A a, b \in Element :
                  <<a, b>> \in Worse <=> Lt(Queue!Less_Than, a, b)
<1>1. \A a, b \in Element : Lt(Queue!Less_Than, a, b) <=> key[a] < key[b]
  BY Zenon DEF Lt, Queue!Less_Than
<1>2. \A a \in Element : key[a] \in Int
  BY DEF QueueConstantsOK
<1>3. \A a, b \in Element : Lt(Queue!Less_Than, a, b) \in BOOLEAN
  <2>1. ASSUME NEW a \in Element, NEW b \in Element
        PROVE  Lt(Queue!Less_Than, a, b) = (key[a] < key[b])
    BY Zenon DEF Lt, Queue!Less_Than
  <2>2. \A a, b \in Element : (key[a] < key[b]) \in BOOLEAN
    BY <1>2
  <2> QED
    BY <2>1, <2>2, Zenon
<1>4. Weak(Element, Queue!Less_Than)
  BY <1>1, <1>2, <1>3 DEF Weak
<1>5. ASSUME NEW a \in Element, NEW b \in Element
      PROVE  <<a, b>> \in Worse <=> Lt(Queue!Less_Than, a, b)
  BY Zenon DEF Worse, Lt
<1> QED
  BY <1>4, <1>5

LEMMA HeldCount ==
    ASSUME NEW E, NEW h \in Seq(E), Distinct(h)
    PROVE  Cardinality(Queue!ToSet(h)) = Len(h)
<1>1. Len(h) \in Nat /\ DOMAIN h = 1..Len(h)
  OBVIOUS
<1>2. Queue!ToSet(h) = {h[i] : i \in 1..Len(h)}
  BY <1>1 DEF Queue!ToSet
<1>3. h \in Bijection(1..Len(h), Queue!ToSet(h))
  <2>1. h \in [1..Len(h) -> Queue!ToSet(h)]
    BY <1>1, <1>2
  <2>2. \A i, j \in 1..Len(h) : h[i] = h[j] => i = j
    BY DEF Distinct
  <2>3. \A e \in Queue!ToSet(h) : \E i \in 1..Len(h) : h[i] = e
    BY <1>2
  <2> QED
    BY <1>1, <2>1, <2>2, <2>3, Zenon
       DEF Bijection, Injection, Surjection, IsInjective
<1>4. IsFiniteSet(1..Len(h)) /\ Cardinality(1..Len(h)) = Len(h)
  BY <1>1, FS_Interval
<1>5. ExistsBijection(1..Len(h), Queue!ToSet(h))
  BY <1>3 DEF ExistsBijection
<1> QED
  BY <1>4, <1>5, FS_Bijection

\* One and the same.
LEMMA BoundedCardinality ==
    \A S : Queue!Bounded!Cardinality(S) = Cardinality(S)
  BY Zenon DEF Queue!Bounded!Cardinality, Cardinality

LEMMA AbsorbIs ==
    ASSUME NEW E, NEW less, Weak(E, less), NEW h \in Seq(E), Heap(h, less),
           Distinct(h), NEW e \in E, e \notin Queue!ToSet(h)
    PROVE  LET g == Queue!S_up_heap(Append(h, e), less)
           IN  /\ g \in Seq(E) /\ Len(g) = Len(h) + 1
               /\ Queue!ToSet(g) = Queue!ToSet(h) \union {e}
               /\ Heap(g, less) /\ Distinct(g)
<1> DEFINE a == Append(h, e)
<1>1. /\ a \in Seq(E) /\ a # <<>> /\ Len(a) = Len(h) + 1
      /\ Len(h) \in Nat /\ a[Len(h) + 1] = e
      /\ \A i \in 1..Len(h) : a[i] = h[i]
      /\ DOMAIN a = 1..Len(a) /\ DOMAIN h = 1..Len(h)
  OBVIOUS
<1> HIDE DEF a
<1>2. \A i \in 2..(Len(a) - 1) : ~Lt(less, a[i], a[i \div 2])
  <2>1. \A i \in 2..(Len(a) - 1) :
            i \in 2..Len(h) /\ i \in 1..Len(h) /\ i \div 2 \in 1..Len(h)
    BY <1>1
  <2> QED
    BY <1>1, <2>1 DEF Heap, HeapFrom
<1>3. Queue!ToSet(a) = Queue!ToSet(h) \union {e}
  BY <1>1 DEF Queue!ToSet
<1>4. \A i \in 1..Len(h) : h[i] # e
  BY <1>1 DEF Queue!ToSet
<1>5. Distinct(a)
  BY <1>1, <1>4 DEF Distinct
<1>6. /\ Rearranges(E, Queue!S_up_heap(a, less), a)
      /\ Heap(Queue!S_up_heap(a, less), less)
  BY <1>1, <1>2, UpHeap
<1> QED
  BY <1>1, <1>3, <1>5, <1>6 DEF Rearranges, a

LEMMA ReplaceRootIs ==
    ASSUME NEW E, NEW less, Weak(E, less), NEW h \in Seq(E), Heap(h, less),
           Distinct(h), h # <<>>, NEW e \in E, e \notin Queue!ToSet(h)
    PROVE  LET g == Queue!S_down_heap([h EXCEPT ![1] = e], less)
           IN  /\ g \in Seq(E) /\ Len(g) = Len(h)
               /\ Queue!ToSet(g) = (Queue!ToSet(h) \ {h[1]}) \union {e}
               /\ Heap(g, less) /\ Distinct(g)
<1> DEFINE a == [h EXCEPT ![1] = e]
<1>1. /\ a \in Seq(E) /\ a # <<>> /\ Len(a) = Len(h)
      /\ Len(h) \in Nat /\ 1 \in 1..Len(h) /\ a[1] = e
      /\ \A i \in 1..Len(h) : i # 1 => a[i] = h[i]
      /\ DOMAIN a = 1..Len(h) /\ DOMAIN h = 1..Len(h)
  OBVIOUS
<1> HIDE DEF a
<1>2. HeapFrom(a, less, 2)
  <2>1. \A i \in 2..Len(h) :
            /\ i \in 1..Len(h) /\ i # 1
            /\ i \div 2 >= 2 =>
                   i \div 2 \in 1..Len(h) /\ i \div 2 # 1 /\ i \div 2 >= 1
    BY <1>1
  <2> QED
    BY <1>1, <2>1 DEF Heap, HeapFrom
<1>3. \A i \in 1..Len(h) : h[i] # e /\ (h[i] = h[1] => i = 1)
  BY <1>1 DEF Queue!ToSet, Distinct
<1>4. Queue!ToSet(a) = (Queue!ToSet(h) \ {h[1]}) \union {e}
  BY <1>1, <1>3 DEF Queue!ToSet
<1>5. Distinct(a)
  BY <1>1, <1>3 DEF Distinct
<1>6. /\ Rearranges(E, Queue!S_down_heap(a, less), a)
      /\ Heap(Queue!S_down_heap(a, less), less)
  BY <1>1, <1>2, DownHeap
<1> QED
  BY <1>1, <1>4, <1>5, <1>6 DEF Rearranges, a

LEMMA PopIs ==
    ASSUME NEW E, NEW less, Weak(E, less), NEW h \in Seq(E), Heap(h, less),
           Distinct(h), h # <<>>
    PROVE  LET g == Queue!Pop(h, less)
           IN  /\ g \in Seq(E) /\ Len(g) = Len(h) - 1
               /\ Queue!ToSet(g) = Queue!ToSet(h) \ {h[1]}
               /\ Heap(g, less) /\ Distinct(g)
<1> DEFINE n == Len(h)
           a == [i \in 1..(n - 1) |-> IF i = 1 THEN h[n] ELSE h[i]]
<1>1. /\ n \in Nat /\ n > 0 /\ DOMAIN h = 1..n
      /\ \A i \in 1..n : h[i] \in E
  OBVIOUS
<1>2. /\ a \in Seq(E) /\ Len(a) = n - 1 /\ DOMAIN a = 1..(n - 1)
      /\ \A i \in 1..(n - 1) : i # 1 => a[i] = h[i]
      /\ n > 1 => a[1] = h[n]
  <2>1. \A i \in 1..(n - 1) :
            (IF i = 1 THEN h[n] ELSE h[i]) \in E
    BY <1>1
  <2>2. a \in Seq(E) /\ Len(a) = n - 1
    BY <1>1, <2>1
  <2> QED
    BY <1>1, <2>2
<1>3. a \in Seq(E) /\ Len(a) = n - 1 /\ DOMAIN a = 1..(n - 1)
  BY <1>2
<1>4. Queue!Pop(h, less) = Queue!S_down_heap(a, less)
  BY Zenon DEF Queue!Pop, Queue!Last
<1> HIDE DEF a, n
<1>5. \A i \in 1..n : h[i] = h[1] => i = 1
  BY <1>1 DEF Distinct, n
<1>6. \A i, j \in 1..n : h[i] = h[j] => i = j
  BY DEF Distinct, n
<1>7. CASE n = 1
  <2>1. a = <<>>
    BY <1>3, <1>7
  <2>2. Queue!S_down_heap(a, less) = <<>>
    <3>1. Len(<<>>) = 0 /\ 1..0 = {}
      OBVIOUS
    <3>2. DOMAIN Queue!S_down_heap(<<>>, less) = {}
      BY <3>1, Zenon DEF Queue!S_down_heap
    <3> QED
      BY <2>1, <3>2 DEF Queue!S_down_heap
  <2>3. Queue!ToSet(h) = {h[1]}
    BY <1>1, <1>7 DEF Queue!ToSet
  <2>4. Queue!ToSet(<<>>) = {}
    BY DEF Queue!ToSet
  <2> QED
    BY <1>4, <1>7, <2>2, <2>3, <2>4 DEF Heap, HeapFrom, Distinct, n
<1>8. CASE n > 1
  <2>1. a # <<>> /\ 1 \in 1..(n - 1) /\ a[1] = h[n]
    BY <1>1, <1>2, <1>3, <1>8
  <2>2. \A i \in 2..(n - 1) : a[i] = h[i]
    BY <1>1, <1>2, <1>3
  <2>3. HeapFrom(a, less, 2)
    <3>1. \A i \in 2..Len(a) :
              /\ i \in 2..(n - 1) /\ i \in 2..n
              /\ i \div 2 >= 2 => i \div 2 \in 2..(n - 1) /\ i \div 2 >= 1
      BY <1>1, <1>3
    <3>2. \A i \in 2..n : i \div 2 >= 1 => ~Lt(less, h[i], h[i \div 2])
      BY DEF Heap, HeapFrom, n
    <3> QED
      BY <2>2, <3>1, <3>2 DEF HeapFrom
  <2>4. Distinct(a)
    <3>1. ASSUME NEW i \in 1..(n - 1), NEW j \in 1..(n - 1), a[i] = a[j]
          PROVE  i = j
      <4>1. \A k \in 2..(n - 1) : a[k] # h[n]
        BY <1>1, <1>6, <2>2
      <4>2. CASE i = 1 \/ j = 1
        BY <1>1, <2>1, <3>1, <4>1, <4>2
      <4>3. CASE i # 1 /\ j # 1
        BY <1>1, <1>6, <2>2, <3>1, <4>3
      <4> QED
        BY <4>2, <4>3
    <3> QED
      BY <1>3, <3>1 DEF Distinct
  <2>5. Queue!ToSet(a) = Queue!ToSet(h) \ {h[1]}
    <3>1. Queue!ToSet(a) = {a[i] : i \in 1..(n - 1)}
      BY <1>3 DEF Queue!ToSet
    <3>2. Queue!ToSet(h) = {h[i] : i \in 1..n}
      BY <1>1 DEF Queue!ToSet
    <3>3. ASSUME NEW i \in 1..(n - 1)
          PROVE  a[i] \in Queue!ToSet(h) \ {h[1]}
      <4>1. CASE i = 1
        BY <1>1, <1>5, <1>8, <2>1, <3>2, <4>1
      <4>2. CASE i # 1
        BY <1>1, <1>5, <2>2, <3>2, <4>2
      <4> QED
        BY <4>1, <4>2
    <3>4. ASSUME NEW i \in 1..n, h[i] # h[1]
          PROVE  h[i] \in Queue!ToSet(a)
      <4>1. CASE i = n
        BY <2>1, <3>1, <4>1
      <4>2. CASE i # n
        <5>1. i \in 2..(n - 1) /\ i \in 1..(n - 1)
          BY <1>1, <3>4, <4>2
        <5> QED
          BY <2>2, <3>1, <5>1
      <4> QED
        BY <4>1, <4>2
    <3> QED
      BY <3>1, <3>2, <3>3, <3>4
  <2>6. /\ Rearranges(E, Queue!S_down_heap(a, less), a)
        /\ Heap(Queue!S_down_heap(a, less), less)
    BY <1>3, <2>1, <2>3, DownHeap
  <2> QED
    BY <1>3, <1>4, <2>4, <2>5, <2>6 DEF Rearranges, n
<1> QED
  BY <1>1, <1>7, <1>8

LEMMA QueueInitially ==
    ASSUME QueueConstantsOK, Queue!Init
    PROVE  QueueInv /\ Queue!Bounded!Init
<1>1. /\ key \in [Element -> Ranks] /\ max_size \in Sizes
      /\ heap = <<>> /\ out = {} /\ Sizes \subseteq Nat
  BY DEF Queue!Init, QueueConstantsOK
<1>2. Queue!ToSet(heap) = {}
  BY <1>1 DEF Queue!ToSet
<1>3. QueueTyped
  BY <1>1 DEF QueueTyped
<1>4. QueueInv
  BY <1>1, <1>3 DEF QueueInv, Distinct, Heap, HeapFrom
<1> QED
  BY <1>1, <1>2, <1>4 DEF Queue!Bounded!Init

\* What the invariant says of the elements and their order.
LEMMA QueueFacts ==
    ASSUME QueueConstantsOK, QueueInv
    PROVE  /\ Weak(Element, Queue!Less_Than)
           /\ max_size \in Nat /\ heap \in Seq(Element) /\ Len(heap) \in Nat
           /\ Queue!ToSet(heap) \subseteq Element
           /\ Cardinality(Queue!ToSet(heap)) = Len(heap)
           /\ heap # <<>> => heap[1] \in Queue!ToSet(heap)
           /\ \A x \in Queue!ToSet(heap) :
                  ~Lt(Queue!Less_Than, x, heap[1])
<1>1. /\ QueueTyped /\ Distinct(heap) /\ Heap(heap, Queue!Less_Than)
      /\ heap \in Seq(Element)
  BY DEF QueueInv, QueueTyped
<1>2. Weak(Element, Queue!Less_Than)
  BY <1>1, LessIs DEF QueueTyped
<1>3. Queue!ToSet(heap) = {heap[i] : i \in 1..Len(heap)}
  BY <1>1 DEF Queue!ToSet
<1>4. \A i \in 1..Len(heap) : ~Lt(Queue!Less_Than, heap[i], heap[1])
  BY <1>1, <1>2, RootIsLeast
<1>5. Cardinality(Queue!ToSet(heap)) = Len(heap)
  BY <1>1, HeldCount
<1>6. max_size \in Nat /\ Len(heap) \in Nat
  BY <1>1 DEF QueueTyped, QueueConstantsOK
<1>7. \A i \in 1..Len(heap) : heap[i] \in Element
  BY <1>1
<1>8. heap # <<>> => 1 \in 1..Len(heap)
  BY <1>1
<1> HIDE DEF QueueInv
<1> QED
  BY <1>1, <1>2, <1>3, <1>4, <1>5, <1>6, <1>7, <1>8

LEMMA PutIs ==
    ASSUME QueueConstantsOK, QueueInv, NEW e \in Element, Queue!Put(e)
    PROVE  QueueInv' /\ Queue!Bounded!Step
<1> DEFINE less == Queue!Less_Than
           held == Queue!ToSet(heap)
           j == Queue!Jostle(heap, max_size, e, less)
<1>1. /\ e \notin held \union out /\ heap' = j.heap
      /\ out' = out \union Queue!ToSet(j.out)
      /\ key' = key /\ max_size' = max_size
  BY DEF Queue!Put
<1>2. /\ Weak(Element, less) /\ max_size \in Nat /\ heap \in Seq(Element)
      /\ Len(heap) \in Nat /\ held \subseteq Element
      /\ Cardinality(held) = Len(heap)
      /\ heap # <<>> => heap[1] \in held
      /\ \A x \in held : ~Lt(less, x, heap[1])
  BY QueueFacts
<1>3. /\ QueueTyped /\ Distinct(heap) /\ Heap(heap, less)
      /\ key \in [Element -> Ranks]
  BY DEF QueueInv, QueueTyped
<1>4. /\ Queue!Less_Than' = Queue!Less_Than /\ Worse' = Worse
  BY <1>1 DEF Queue!Less_Than, Worse
<1>5. \A a, b \in Element : <<a, b>> \in Worse <=> Lt(less, a, b)
  BY <1>3, LessIs
<1>6. CASE Len(heap) < max_size
  <2>1. /\ j.heap = Queue!S_up_heap(Append(heap, e), less)
        /\ j.out = <<>>
    BY <1>6 DEF Queue!Jostle
  <2>2. Queue!ToSet(<<>>) = {}
    BY DEF Queue!ToSet
  <2> HIDE DEF j, less
  <2>3. /\ heap' \in Seq(Element) /\ Len(heap') = Len(heap) + 1
        /\ Queue!ToSet(heap') = held \union {e}
        /\ Heap(heap', less) /\ Distinct(heap')
    BY <1>1, <1>2, <1>3, <2>1, AbsorbIs
  <2>4. out' = out
    BY <1>1, <2>1, <2>2
  <2>5. QueueInv'
    BY <1>1, <1>2, <1>3, <1>4, <1>6, <2>3, <2>4 DEF QueueInv, QueueTyped, less
  <2>6. Queue!Bounded!Fits
    BY <1>2, <1>6, BoundedCardinality DEF Queue!Bounded!Fits
  <2>7. Queue!Bounded!Absorb(e)
    BY <2>3, <2>4, <2>6 DEF Queue!Bounded!Absorb
  <2> QED
    BY <1>1, <1>4, <2>5, <2>7, Zenon
       DEF Queue!Bounded!Step, Queue!Bounded!Next, Worse
<1>7. CASE /\ ~(Len(heap) < max_size) /\ Len(heap) > 0
           /\ ~Lt(less, e, heap[1])
  <2>1. /\ j.heap = Queue!S_down_heap([heap EXCEPT ![1] = e], less)
        /\ j.out = <<heap[1]>>
    <3>1. j = [heap |-> Queue!S_down_heap([heap EXCEPT ![1] = e], less),
               out |-> <<heap[1]>>]
      BY <1>7, Zenon DEF Queue!Jostle, Lt
    <3> HIDE DEF j
    <3> QED
      BY <3>1
  <2>2. Queue!ToSet(<<heap[1]>>) = {heap[1]}
    BY DEF Queue!ToSet
  <2>3. heap # <<>>
    BY <1>7
  <2> HIDE DEF j, less
  <2>4. /\ heap' \in Seq(Element) /\ Len(heap') = Len(heap)
        /\ Queue!ToSet(heap') = (held \ {heap[1]}) \union {e}
        /\ Heap(heap', less) /\ Distinct(heap')
    <3>1. e \notin Queue!ToSet(heap) /\ heap \in Seq(Element)
      BY <1>1, <1>2
    <3>2. heap' = Queue!S_down_heap([heap EXCEPT ![1] = e], less)
      BY <1>1, <2>1
    <3>3. LET g == Queue!S_down_heap([heap EXCEPT ![1] = e], less)
          IN  /\ g \in Seq(Element) /\ Len(g) = Len(heap)
              /\ Queue!ToSet(g) = (Queue!ToSet(heap) \ {heap[1]}) \union {e}
              /\ Heap(g, less) /\ Distinct(g)
      BY <1>2, <1>3, <2>3, <3>1, ReplaceRootIs
    <3> QED
      BY <3>2, <3>3
  <2>5. out' = out \union {heap[1]}
    BY <1>1, <2>1, <2>2
  <2>6. QueueInv'
    BY <1>1, <1>2, <1>3, <1>4, <2>3, <2>4, <2>5
       DEF QueueInv, QueueTyped, less
  <2>7. ~Queue!Bounded!Fits
    BY <1>2, <1>7, BoundedCardinality DEF Queue!Bounded!Fits
  <2>8. /\ \A x \in held : <<x, heap[1]>> \notin Worse
        /\ <<e, heap[1]>> \notin Worse
    BY <1>2, <1>5, <1>7, <2>3
  <2>9. Queue!Bounded!Replace(e, heap[1])
    BY <2>4, <2>5, <2>7, <2>8, Zenon
       DEF Queue!Bounded!Replace, Queue!Bounded!IsLeast, Worse
  <2> QED
    BY <1>1, <1>2, <1>4, <2>3, <2>6, <2>9, Zenon
       DEF Queue!Bounded!Step, Queue!Bounded!Next, Worse
<1>8. CASE /\ ~(Len(heap) < max_size)
           /\ ~(Len(heap) > 0 /\ ~Lt(less, e, heap[1]))
  <2>1. j.heap = heap /\ j.out = <<e>>
    <3>1. j = [heap |-> heap, out |-> <<e>>]
      BY <1>8, Zenon DEF Queue!Jostle, Lt
    <3> HIDE DEF j
    <3> QED
      BY <3>1
  <2>2. Queue!ToSet(<<e>>) = {e}
    BY DEF Queue!ToSet
  <2> HIDE DEF j, less
  <2>3. heap' = heap /\ out' = out \union {e}
    BY <1>1, <2>1, <2>2
  <2>4. QueueInv'
    BY <1>1, <1>2, <1>3, <1>4, <2>3 DEF QueueInv, QueueTyped, less
  <2>5. ~Queue!Bounded!Fits
    BY <1>2, <1>8, BoundedCardinality DEF Queue!Bounded!Fits
  <2>6. \A x \in held : <<e, x>> \in Worse
    <3>1. ASSUME NEW x \in held
          PROVE  Lt(less, e, x)
      <4>1. heap # <<>>
        BY <3>1 DEF Queue!ToSet
      <4>2. Lt(less, e, heap[1]) /\ heap[1] \in Element
        BY <1>2, <1>8, <4>1
      <4> QED
        BY <1>2, <3>1, <4>2 DEF Weak
    <3> QED
      BY <1>2, <1>5, <3>1
  <2>7. Queue!Bounded!Refuse(e)
    BY <2>3, <2>5, <2>6, Zenon DEF Queue!Bounded!Refuse, Worse
  <2> QED
    BY <1>1, <1>4, <2>4, <2>7, Zenon
       DEF Queue!Bounded!Step, Queue!Bounded!Next, Worse
<1> QED
  BY <1>6, <1>7, <1>8

LEMMA PopLeastIs ==
    ASSUME QueueConstantsOK, QueueInv, Queue!PopLeast
    PROVE  QueueInv' /\ Queue!Bounded!Step
<1> DEFINE less == Queue!Less_Than
           held == Queue!ToSet(heap)
<1>1. /\ heap # <<>> /\ heap' = Queue!Pop(heap, less)
      /\ key' = key /\ max_size' = max_size /\ out' = out
  BY DEF Queue!PopLeast
<1>2. /\ Weak(Element, less) /\ max_size \in Nat /\ heap \in Seq(Element)
      /\ Len(heap) \in Nat /\ held \subseteq Element
      /\ heap # <<>> => heap[1] \in held
      /\ \A x \in held : ~Lt(less, x, heap[1])
  BY QueueFacts
<1>3. /\ QueueTyped /\ Distinct(heap) /\ Heap(heap, less)
      /\ key \in [Element -> Ranks]
  BY DEF QueueInv, QueueTyped
<1>4. /\ Queue!Less_Than' = Queue!Less_Than /\ Worse' = Worse
  BY <1>1 DEF Queue!Less_Than, Worse
<1>5. \A a, b \in Element : <<a, b>> \in Worse <=> Lt(less, a, b)
  BY <1>3, LessIs
<1> HIDE DEF less
<1>6. /\ heap' \in Seq(Element) /\ Len(heap') = Len(heap) - 1
      /\ Queue!ToSet(heap') = held \ {heap[1]}
      /\ Heap(heap', less) /\ Distinct(heap')
  BY <1>1, <1>2, <1>3, PopIs
<1>7. QueueInv'
  BY <1>1, <1>2, <1>3, <1>4, <1>6 DEF QueueInv, QueueTyped, less
<1>8. \A x \in held : <<x, heap[1]>> \notin Worse
  BY <1>1, <1>2, <1>5
<1>9. Queue!Bounded!Take(heap[1])
  BY <1>1, <1>6, <1>8, Zenon
     DEF Queue!Bounded!Take, Queue!Bounded!IsLeast, Worse
<1> QED
  BY <1>1, <1>2, <1>4, <1>7, <1>9, Zenon
     DEF Queue!Bounded!Step, Queue!Bounded!Next, Worse

LEMMA PopAllIs ==
    ASSUME QueueConstantsOK, QueueInv, Queue!PopAll
    PROVE  QueueInv' /\ Queue!Bounded!Step
<1>1. /\ heap' = <<>> /\ out' = {}
      /\ key' = key /\ max_size' = max_size
  BY DEF Queue!PopAll
<1>2. Queue!ToSet(<<>>) = {}
  BY DEF Queue!ToSet
<1>3. Worse' = Worse
  BY <1>1 DEF Queue!Less_Than, Worse
<1>4. max_size \in Nat /\ QueueTyped
  BY DEF QueueInv, QueueTyped, QueueConstantsOK
<1>5. QueueInv'
  BY <1>1, <1>2, <1>4 DEF QueueInv, QueueTyped, Distinct, Heap, HeapFrom
<1>6. Queue!Bounded!Empty
  BY <1>1, <1>2, Zenon DEF Queue!Bounded!Empty
<1> QED
  BY <1>1, <1>3, <1>5, <1>6, Zenon
     DEF Queue!Bounded!Step, Queue!Bounded!Next, Worse

LEMMA QueueStill ==
    ASSUME QueueInv, UNCHANGED Queue!vars
    PROVE  QueueInv' /\ Queue!Bounded!Step
<1>1. key' = key /\ max_size' = max_size /\ heap' = heap /\ out' = out
  BY DEF Queue!vars
<1>2. Worse' = Worse /\ Queue!Less_Than' = Queue!Less_Than
  BY <1>1 DEF Queue!Less_Than, Worse
<1>3. Queue!ToSet(heap)' = Queue!ToSet(heap)
  BY <1>1
<1>4. QueueInv'
  BY <1>1, <1>2 DEF QueueInv, QueueTyped
<1> QED
  BY <1>1, <1>2, <1>3, <1>4, Zenon
     DEF Queue!Bounded!Step, Queue!Bounded!vars, Worse

LEMMA QueueSteps ==
    ASSUME QueueConstantsOK, QueueInv, [Queue!Next]_(Queue!vars)
    PROVE  QueueInv' /\ Queue!Bounded!Step
<1>1. ASSUME NEW e \in Element, Queue!Put(e)
      PROVE  QueueInv' /\ Queue!Bounded!Step
  BY <1>1, PutIs
<1>2. CASE Queue!PopLeast
  BY <1>2, PopLeastIs
<1>3. CASE Queue!PopAll
  BY <1>3, PopAllIs
<1>4. CASE UNCHANGED Queue!vars
  BY <1>4, QueueStill
<1> QED
  BY <1>1, <1>2, <1>3, <1>4, Zenon DEF Queue!Next

LEMMA QueueInvariant ==
    ASSUME QueueConstantsOK
    PROVE  Queue!Spec => []QueueInv
<1>1. Queue!Init => QueueInv
  BY QueueInitially
<1>2. QueueInv /\ [Queue!Next]_(Queue!vars) => QueueInv'
  BY QueueSteps
<1> QED
  BY <1>1, <1>2, PTL DEF Queue!Spec

\* The best of what a queue was offered since it was last emptied stays in it,
\* for any number of elements, any keys, equal ones among them, and any maximum.
THEOREM QueuesKeepTheBest ==
    ASSUME QueueConstantsOK
    PROVE  Queue!Spec => Queue!KeepsTheBest
<1>1. Queue!Init => QueueInv /\ Queue!Bounded!Init
  BY QueueInitially
<1>2. QueueInv /\ [Queue!Next]_(Queue!vars) => QueueInv' /\ Queue!Bounded!Step
  BY QueueSteps
<1> QED
  BY <1>1, <1>2, PTL
     DEF Queue!Spec, Queue!KeepsTheBest, Queue!Bounded!Spec,
         Queue!Bounded!Step

-----------------------------------------------------------------------------
(* In order.                                                               *)

\* What is left is left in one way.
LEMMA PoppedIs ==
    ASSUME NEW h \in Seq(Element), NEW less
    PROVE  \A n \in 0..Len(h) : Queue!Popped(h, less)[n] =
               IF n = 0 THEN h
               ELSE Queue!Pop(Queue!Popped(h, less)[n - 1], less)
<1> DEFINE P(x) == Queue!Pop(x, less)
           F(m, g) == [n \in 0..m |-> IF n = 0 THEN h ELSE P(g[n - 1])]
           Some(m) == \E g : g = F(m, g)
           T == {m \in Nat : ~Some(m)}
<1> HIDE DEF P
<1>1. Some(0)
  <2> DEFINE g == [n \in 0..0 |-> h]
  <2>1. g = F(0, g)
    OBVIOUS
  <2> QED
    BY <2>1
<1>2. ASSUME NEW m \in Nat, Some(m)
      PROVE  Some(m + 1)
  <2>1. PICK f : f = F(m, f)
    BY <1>2
  <2> DEFINE g == [n \in 0..(m + 1) |-> IF n <= m THEN f[n] ELSE P(f[m])]
  <2>2. \A n \in 0..m : f[n] = IF n = 0 THEN h ELSE P(f[n - 1])
    BY <2>1
  <2>3. ASSUME NEW n \in 0..(m + 1)
        PROVE  g[n] = IF n = 0 THEN h ELSE P(g[n - 1])
    <3>1. CASE n = 0
      BY <2>2, <3>1
    <3>2. CASE n # 0 /\ n <= m
      <4>1. n \in 0..m /\ n - 1 \in 0..m /\ n - 1 \in 0..(m + 1)
        BY <3>2
      <4>2. g[n] = f[n] /\ g[n - 1] = f[n - 1]
        BY <4>1
      <4> HIDE DEF g
      <4> QED
        BY <2>2, <3>2, <4>1, <4>2
    <3>3. CASE n = m + 1
      <4>1. n - 1 = m /\ m \in 0..(m + 1) /\ n # 0 /\ ~(n <= m)
        BY <3>3
      <4>2. g[n] = P(f[m]) /\ g[m] = f[m]
        BY <4>1
      <4> HIDE DEF g
      <4> QED
        BY <4>1, <4>2
    <3> QED
      BY <3>1, <3>2, <3>3
  <2>4. g = [n \in 0..(m + 1) |-> g[n]]
    OBVIOUS
  <2> HIDE DEF g
  <2>5. g = F(m + 1, g)
    BY <2>3, <2>4, Zenon
  <2> QED
    BY <2>5
<1> HIDE DEF Some
<1>3. T = {}
  <2> SUFFICES ASSUME T # {}
               PROVE  FALSE
    OBVIOUS
  <2>1. PICK m \in T : \A k \in T : m <= k
    BY Least
  <2>2. m \in Nat /\ m # 0 /\ ~Some(m)
    BY <1>1
  <2>3. m - 1 \in Nat /\ m - 1 \notin T
    BY <2>1, <2>2
  <2>4. Some((m - 1) + 1)
    BY <1>2, <2>3
  <2> QED
    BY <2>2, <2>4
<1>4. \E g : g = F(Len(h), g)
  <2>1. Some(Len(h))
    BY <1>3
  <2> QED
    BY <2>1 DEF Some
<1>5. Queue!Popped(h, less) = CHOOSE g : g = F(Len(h), g)
  BY DEF Queue!Popped, P
<1>6. Queue!Popped(h, less) = F(Len(h), Queue!Popped(h, less))
  BY <1>4, <1>5, Zenon
<1> QED
  BY <1>6, Zenon DEF P

\* After n calls, a heap of what is left of it, and nothing is lost.
LeftAfter(h, less, n) ==
    LET left == Queue!Popped(h, less)
    IN  /\ left[n] \in Seq(Element) /\ Len(left[n]) = Len(h) - n
        /\ Heap(left[n], less) /\ Distinct(left[n])
        /\ Queue!ToSet(left[n]) \subseteq Queue!ToSet(h)
        /\ \A k \in 0..n : Queue!ToSet(left[n]) \subseteq Queue!ToSet(left[k])
        /\ \A e \in Queue!ToSet(h) :
               \/ e \in Queue!ToSet(left[n])
               \/ \E k \in 0..(n - 1) : e = left[k][1]

LEMMA LeftIs ==
    ASSUME NEW less, Weak(Element, less), NEW h \in Seq(Element),
           Heap(h, less), Distinct(h)
    PROVE  \A n \in 0..Len(h) : LeftAfter(h, less, n)
<1> DEFINE left == Queue!Popped(h, less)
           T == {n \in 0..Len(h) : ~LeftAfter(h, less, n)}
<1>1. left[0] = h
  BY PoppedIs
<1>2. LeftAfter(h, less, 0)
  BY <1>1 DEF LeftAfter
<1>3. ASSUME NEW n \in Nat, n < Len(h), LeftAfter(h, less, n)
      PROVE  LeftAfter(h, less, n + 1)
  <2> DEFINE g == left[n]
             r == left[n + 1]
  <2>1. r = Queue!Pop(g, less)
    <3>1. n + 1 \in 0..Len(h) /\ n + 1 # 0 /\ (n + 1) - 1 = n
      BY <1>3
    <3> QED
      BY <3>1, PoppedIs
  <2>2. /\ g \in Seq(Element) /\ Len(g) = Len(h) - n
        /\ Heap(g, less) /\ Distinct(g)
        /\ Queue!ToSet(g) \subseteq Queue!ToSet(h)
        /\ \A k \in 0..n : Queue!ToSet(g) \subseteq Queue!ToSet(left[k])
        /\ \A e \in Queue!ToSet(h) :
               e \in Queue!ToSet(g) \/ \E k \in 0..(n - 1) : e = left[k][1]
    BY <1>3 DEF LeftAfter
  <2>3. g # <<>>
    BY <1>3, <2>2
  <2> HIDE DEF left
  <2>4. /\ r \in Seq(Element) /\ Len(r) = Len(g) - 1
        /\ Queue!ToSet(r) = Queue!ToSet(g) \ {g[1]}
        /\ Heap(r, less) /\ Distinct(r)
    BY <2>1, <2>2, <2>3, PopIs
  <2>5. Len(r) = Len(h) - (n + 1)
    BY <2>2, <2>4
  <2>6. ASSUME NEW k \in 0..(n + 1)
        PROVE  Queue!ToSet(r) \subseteq Queue!ToSet(left[k])
    <3>1. CASE k = n + 1
      BY <3>1
    <3>2. CASE k # n + 1
      <4>1. k \in 0..n
        BY <3>2
      <4> QED
        BY <2>2, <2>4, <4>1
    <3> QED
      BY <3>1, <3>2
  <2>7. ASSUME NEW e \in Queue!ToSet(h), e \notin Queue!ToSet(r)
        PROVE  \E k \in 0..((n + 1) - 1) : e = left[k][1]
    <3>1. CASE e = g[1]
      <4>1. n \in 0..((n + 1) - 1)
        OBVIOUS
      <4> QED
        BY <3>1, <4>1
    <3>2. CASE e # g[1]
      <4>1. PICK k \in 0..(n - 1) : e = left[k][1]
        BY <2>2, <2>4, <2>7, <3>2
      <4>2. k \in 0..((n + 1) - 1)
        OBVIOUS
      <4> QED
        BY <4>1, <4>2
    <3> QED
      BY <3>1, <3>2
  <2> QED
    BY <2>2, <2>4, <2>5, <2>6, <2>7, Zenon DEF LeftAfter, left
<1>4. T = {}
  <2> SUFFICES ASSUME T # {}
               PROVE  FALSE
    OBVIOUS
  <2>1. T \in SUBSET Nat
    OBVIOUS
  <2>2. PICK m \in T : \A k \in T : m <= k
    BY <2>1, Least
  <2>3. m \in 0..Len(h) /\ m # 0 /\ ~LeftAfter(h, less, m)
    BY <1>2
  <2>4. m - 1 \in Nat /\ m - 1 < Len(h) /\ m - 1 \in 0..Len(h)
    BY <2>3
  <2>5. m - 1 \notin T
    BY <2>2, <2>3
  <2>6. LeftAfter(h, less, (m - 1) + 1)
    BY <1>3, <2>4, <2>5
  <2> QED
    BY <2>3, <2>6
<1> QED
  BY <1>4

LEMMA PoppedInOrder ==
    ASSUME QueueConstantsOK, QueueInv
    PROVE  Queue!PopsInOrder
<1> DEFINE less == Queue!Less_Than
           n == Len(heap)
           left == Queue!Popped(heap, less)
           seq == Queue!Pop_All(heap, less)
           held == Queue!ToSet(heap)
<1>1. /\ Weak(Element, less) /\ heap \in Seq(Element) /\ n \in Nat
      /\ held \subseteq Element /\ Cardinality(held) = n
  BY QueueFacts
<1>2. Distinct(heap) /\ Heap(heap, less) /\ key \in [Element -> Ranks]
  BY DEF QueueInv, QueueTyped
<1>3. seq = [i \in 1..n |-> left[n - i][1]]
  BY DEF Queue!Pop_All
<1>4. \A a, b \in Element : <<a, b>> \in Worse <=> Lt(less, a, b)
  BY <1>2, LessIs
<1>5. \A k \in 0..n : LeftAfter(heap, less, k)
  BY <1>1, <1>2, LeftIs
<1> HIDE DEF seq, less, n
<1>6. ASSUME NEW k \in 0..(n - 1)
      PROVE  /\ left[k][1] \in Queue!ToSet(left[k])
             /\ left[k][1] \in held /\ left[k][1] \in Element
             /\ \A x \in Queue!ToSet(left[k]) : ~Lt(less, x, left[k][1])
  <2>1. /\ left[k] \in Seq(Element) /\ Len(left[k]) = n - k
        /\ Heap(left[k], less)
        /\ Queue!ToSet(left[k]) \subseteq held
    BY <1>1, <1>5 DEF LeftAfter, n
  <2>2. Queue!ToSet(left[k]) = {left[k][i] : i \in 1..Len(left[k])}
    BY <2>1 DEF Queue!ToSet
  <2>3. 1 \in 1..Len(left[k])
    BY <1>1, <2>1
  <2>4. \A i \in 1..Len(left[k]) : ~Lt(less, left[k][i], left[k][1])
    BY <1>1, <2>1, RootIsLeast
  <2> QED
    BY <1>1, <2>1, <2>2, <2>3, <2>4
<1>7. \A i \in 1..n : n - i \in 0..(n - 1) /\ seq[i] = left[n - i][1]
  BY <1>1, <1>3
<1>8. Len(seq) = n
  BY <1>1, <1>3
<1>9. {seq[i] : i \in 1..Len(seq)} = held
  <2>1. ASSUME NEW e \in held
        PROVE  \E i \in 1..n : e = seq[i]
    <3>1. Queue!ToSet(left[n]) = {}
      <4>1. left[n] \in Seq(Element) /\ Len(left[n]) = 0
        BY <1>1, <1>5 DEF LeftAfter, n
      <4> QED
        BY <4>1 DEF Queue!ToSet
    <3>2. PICK k \in 0..(n - 1) : e = left[k][1]
      BY <1>1, <1>5, <3>1 DEF LeftAfter
    <3>3. n - k \in 1..n /\ n - (n - k) = k
      BY <1>1
    <3> QED
      BY <1>7, <3>2, <3>3
  <2>2. ASSUME NEW i \in 1..n
        PROVE  seq[i] \in held
    BY <1>6, <1>7
  <2> QED
    BY <1>8, <2>1, <2>2
<1>10. ASSUME NEW i \in 1..n, NEW j \in 1..n, i < j
       PROVE  <<seq[i], seq[j]>> \notin Worse
  <2>1. n - i \in 0..(n - 1) /\ n - j \in 0..(n - 1) /\ n - j \in 0..(n - i)
    BY <1>1, <1>10
  <2>2. left[n - i][1] \in Queue!ToSet(left[n - j])
    <3>1. n - i \in 0..n
      BY <1>1, <2>1
    <3>2. Queue!ToSet(left[n - i]) \subseteq Queue!ToSet(left[n - j])
      BY <1>5, <2>1, <3>1 DEF LeftAfter
    <3> QED
      BY <1>6, <2>1, <3>2
  <2>3. /\ ~Lt(less, left[n - i][1], left[n - j][1])
        /\ left[n - i][1] \in Element /\ left[n - j][1] \in Element
    BY <1>6, <2>1, <2>2
  <2> QED
    BY <1>4, <1>7, <2>3
<1>11. Len(seq) = Queue!Bounded!Cardinality(held)
  BY <1>1, <1>8, BoundedCardinality
<1> QED
  BY <1>8, <1>9, <1>10, <1>11, Zenon
     DEF Queue!PopsInOrder, Queue!Bounded!InOrder, Worse, seq, less

\* Pop_All gives back what a queue holds, each element once, the best one
\* first, whatever the calls that built the heap.
THEOREM QueuesPopInOrder ==
    ASSUME QueueConstantsOK
    PROVE  Queue!Spec => []Queue!PopsInOrder
<1>1. QueueInv => Queue!PopsInOrder
  BY PoppedInOrder
<1> QED
  BY <1>1, QueueInvariant, PTL

-----------------------------------------------------------------------------
(* Matchers.                                                               *)

CONSTANTS DocMax, Offset, Kinds, MaxKids, Again
VARIABLES kind, matcher, asked, cur

Tree == INSTANCE Matchers WITH m <- matcher

\* The classes that visit what they should: a SeriesMatcher may miss a document
\* and an exhausted BitVecMatcher begins anew, as two findings show.
MatcherConstantsOK ==
    /\ DocMax \in Nat /\ Offset \in Nat /\ MaxKids \in Nat
    /\ Kinds \subseteq {"and", "or", "scorer", "not", "reqopt", "bits",
                        "range", "filter"}
    /\ "bits" \notin Again

-----------------------------------------------------------------------------
(* Loops.                                                                  *)

\* The k-th turn leads from what there may be before it to what after it.
Turns(N, T, step) == \A k \in 1..N : \A y \in T[k - 1] : step[k][y] \in T[k]

Run(N, T, x, step) ==
    \E g : /\ g = [n \in 0..N |-> g[n]]
           /\ g[0] = x
           /\ \A n \in 1..N : g[n - 1] \in T[n - 1] /\ g[n] = step[n][g[n - 1]]

LEMMA Upwards ==
    ASSUME NEW N \in Nat, NEW T, 0 \in T,
           \A n \in 0..(N - 1) : n \in T => n + 1 \in T
    PROVE  \A n \in 0..N : n \in T
<1> DEFINE U == {n \in 0..N : n \notin T}
<1> SUFFICES ASSUME U # {}
             PROVE  FALSE
  OBVIOUS
<1>1. PICK m \in U : \A n \in U : m <= n
  <2>1. U \in SUBSET Nat
    OBVIOUS
  <2> QED
    BY <2>1, Least
<1>2. m \in 0..N /\ m # 0 /\ m \notin T
  OBVIOUS
<1>3. m - 1 \in 0..(N - 1) /\ m - 1 \in 0..N /\ (m - 1) + 1 = m
  BY <1>2
<1>4. m - 1 \notin U
  BY <1>1, <1>2
<1> QED
  BY <1>2, <1>3, <1>4

\* A loop has a run.
LEMMA RunsOn ==
    ASSUME NEW N \in Nat, NEW T, NEW x \in T[0], NEW step, Turns(N, T, step)
    PROVE  Run(N, T, x, step)
<1> DEFINE Good(m, g) ==
               /\ g = [n \in 0..m |-> g[n]]
               /\ g[0] = x /\ g[m] \in T[m]
               /\ \A n \in 1..m : /\ g[n - 1] \in T[n - 1]
                                  /\ g[n] = step[n][g[n - 1]]
           G == {m \in 0..N : \E g : Good(m, g)}
<1>1. 0 \in G
  <2> DEFINE g == [n \in 0..0 |-> x]
  <2>1. 0 \in 0..N /\ Good(0, g)
    OBVIOUS
  <2> HIDE DEF g, Good
  <2> QED
    BY <2>1
<1>2. ASSUME NEW m \in 0..(N - 1), m \in G
      PROVE  m + 1 \in G
  <2>1. PICK f : Good(m, f)
    BY <1>2
  <2> DEFINE y == step[m + 1][f[m]]
             g == [n \in 0..(m + 1) |-> IF n <= m THEN f[n] ELSE y]
  <2>2. y \in T[m + 1]
    <3>1. m + 1 \in 1..N /\ (m + 1) - 1 = m
      OBVIOUS
    <3> QED
      BY <2>1, <3>1 DEF Turns
  <2>3. g = [n \in 0..(m + 1) |-> g[n]] /\ g[0] = x /\ g[m + 1] = y
    BY <2>1
  <2>4. ASSUME NEW n \in 1..(m + 1)
        PROVE  g[n - 1] \in T[n - 1] /\ g[n] = step[n][g[n - 1]]
    <3>1. CASE n <= m
      <4>1. n \in 1..m /\ n \in 0..(m + 1) /\ n - 1 \in 0..(m + 1)
            /\ n - 1 <= m
        BY <3>1
      <4>2. g[n] = f[n] /\ g[n - 1] = f[n - 1]
        BY <3>1, <4>1
      <4> HIDE DEF g
      <4> QED
        BY <2>1, <4>1, <4>2
    <3>2. CASE n = m + 1
      <4>1. n - 1 = m /\ m \in 0..(m + 1) /\ n \in 0..(m + 1) /\ ~(n <= m)
        BY <3>2
      <4>2. g[n] = y /\ g[m] = f[m]
        BY <4>1
      <4> HIDE DEF g
      <4> QED
        BY <2>1, <4>1, <4>2
    <3> QED
      BY <3>1, <3>2
  <2>5. m + 1 \in 0..N
    OBVIOUS
  <2>6. Good(m + 1, g)
    <3> HIDE DEF g, y
    <3> QED
      BY <2>2, <2>3, <2>4
  <2> HIDE DEF g, Good
  <2> QED
    BY <2>5, <2>6
<1>3. N \in G
  <2>1. \A n \in 0..N : n \in G
    <3> HIDE DEF G
    <3> QED
      BY <1>1, <1>2, Upwards
  <2> QED
    BY <2>1
<1>4. PICK g : Good(N, g)
  BY <1>3
<1> QED
  BY <1>4 DEF Run

-----------------------------------------------------------------------------
(* Children.                                                               *)

DocSets == SUBSET (1..DocMax)

KidSet == [docs : DocSets, cur : Nat \union {-1}, legal : BOOLEAN]

\* A child over documents D, which has been called as it must be.
KidOf(D, k) ==
    /\ k \in KidSet /\ k.docs = D /\ k.legal
    /\ k.cur \in D \union {0, -1}

\* c is the first of M from t on, or the end.
Finds(M, t, c) ==
    \/ c = -1 /\ \A d \in M : d < t
    \/ c \in M /\ c >= t /\ \A d \in M : d >= t => d >= c

\* What found says.
Place(found) == IF found = 0 THEN -1 ELSE found

LEMMA MinimumIs ==
    ASSUME NEW S \in SUBSET Nat, S # {}
    PROVE  Tree!Min(S) \in S /\ \A y \in S : Tree!Min(S) <= y
<1>1. PICK x \in S : \A y \in S : x <= y
  BY Least
<1>2. Tree!Min(S) \in S /\ \A y \in S : Tree!Min(S) <= y
  BY <1>1, Zenon DEF Tree!Min
<1> QED
  BY <1>2

LEMMA FirstIs ==
    ASSUME DocMax \in Nat, NEW M \in DocSets, NEW t \in Int
    PROVE  /\ Tree!FirstFrom(M, t) \in 0..DocMax
           /\ Finds(M, t, Place(Tree!FirstFrom(M, t)))
<1> DEFINE S == {d \in M : d >= t}
<1>1. Tree!FirstFrom(M, t) =
          IF \E d \in M : d >= t THEN Tree!Min(S) ELSE 0
  BY Zenon DEF Tree!FirstFrom
<1>2. CASE \E d \in M : d >= t
  <2>1. S \in SUBSET Nat /\ S # {}
    <3>1. \A d \in M : d \in Nat
      BY DEF DocSets
    <3>2. PICK d \in M : d >= t
      BY <1>2
    <3> QED
      BY <3>1, <3>2
  <2>2. Tree!Min(S) \in S /\ \A y \in S : Tree!Min(S) <= y
    BY <2>1, MinimumIs
  <2> DEFINE x == Tree!Min(S)
  <2>3. x \in M /\ x >= t /\ x \in 1..DocMax
    BY <2>2 DEF DocSets
  <2>4. \A d \in M : d >= t => d >= x
    <3> SUFFICES ASSUME NEW d \in M, d >= t
                 PROVE  d >= x
      OBVIOUS
    <3>1. d \in S /\ d \in Nat
      BY DEF DocSets
    <3> HIDE DEF S
    <3> QED
      BY <2>2, <2>3, <3>1
  <2> HIDE DEF x
  <2>5. Tree!FirstFrom(M, t) = x
    BY <1>1, <1>2 DEF x
  <2> QED
    BY <2>3, <2>4, <2>5 DEF Finds, Place
<1>3. CASE ~\E d \in M : d >= t
  <2>1. Tree!FirstFrom(M, t) = 0
    BY <1>1, <1>3
  <2>2. \A d \in M : d < t
    BY <1>3 DEF DocSets
  <2> QED
    BY <2>1, <2>2 DEF Finds, Place
<1> QED
  BY <1>2, <1>3

\* A child that is moved on.
LEMMA MovedIs ==
    ASSUME DocMax \in Nat, NEW D \in DocSets, NEW k, KidOf(D, k), NEW t \in Int
    PROVE  LET n == Tree!Moved(k, t)
           IN  /\ n \in KidSet /\ n.docs = D /\ n.cur \in D \union {0, -1}
               /\ k.cur = -1 => n = k
               /\ k.cur # -1 => Finds(D, t, n.cur)
               /\ k.cur = -1 \/ t > k.cur => KidOf(D, n)
               /\ Tree!Answer(n) = IF n.cur = -1 THEN 0 ELSE n.cur
<1> DEFINE d == Tree!FirstFrom(k.docs, t)
           n == Tree!Moved(k, t)
<1>1. /\ k \in KidSet /\ k.docs = D /\ k.legal /\ k.cur \in D \union {0, -1}
      /\ k.cur \in Int
  BY DEF KidOf, KidSet
<1>2. d \in 0..DocMax /\ Finds(D, t, Place(d))
  BY <1>1, FirstIs
<1>3. n = IF k.cur = -1 THEN k
          ELSE [k EXCEPT !.cur = Place(d),
                         !.legal = k.legal /\ t > k.cur]
  BY DEF Tree!Moved, Tree!Exhausted, Place
<1> HIDE DEF d, n
<1>4. Place(d) \in D \union {-1}
  BY <1>2 DEF Finds
<1>5. Place(d) \in Nat \union {-1}
  BY <1>2 DEF Place
<1>6. CASE k.cur = -1
  <2>1. n = k
    BY <1>3, <1>6
  <2>2. Tree!Answer(k) = 0
    BY <1>6 DEF Tree!Answer, Tree!Exhausted
  <2> QED
    BY <1>1, <1>6, <2>1, <2>2 DEF KidOf, n
<1>7. CASE k.cur # -1
  <2>1. n = [docs |-> D, cur |-> Place(d), legal |-> t > k.cur]
    <3>1. (k.legal /\ t > k.cur) = (t > k.cur)
      BY <1>1
    <3>2. n = [k EXCEPT !.cur = Place(d), !.legal = t > k.cur]
      BY <1>3, <1>7, <3>1, Zenon
    <3> QED
      BY <1>1, <3>2 DEF KidSet
  <2>2. (t > k.cur) \in BOOLEAN
    BY <1>1
  <2>3. n \in KidSet
    BY <1>5, <2>1, <2>2 DEF KidSet
  <2>4. /\ n.docs = D /\ n.cur = Place(d) /\ n.legal = (t > k.cur)
    BY <2>1
  <2>5. Tree!Answer(n) = IF n.cur = -1 THEN 0 ELSE n.cur
    BY DEF Tree!Answer, Tree!Exhausted
  <2>6. n.cur \in D \union {0, -1} /\ Finds(D, t, n.cur)
    BY <1>2, <1>4, <2>4
  <2>7. t > k.cur => KidOf(D, n)
    BY <2>3, <2>4, <2>6 DEF KidOf
  <2> QED
    BY <1>7, <2>3, <2>4, <2>5, <2>6, <2>7 DEF n
<1> QED
  BY <1>6, <1>7

-----------------------------------------------------------------------------
(* Matchers without children.                                              *)

\* The call for target t of a matcher at c of the documents M returned r.
Reaches(M, c, t, r) ==
    IF c = -1 THEN Place(r.found) = -1 ELSE Finds(M, t, Place(r.found))

Childless == [docs : DocSets, doc_id : Int, found : 0..DocMax, kids : {<<>>}]

BitsInv(D, x, c) ==
    x \in Childless /\ x.docs = D /\ (c # -1 => x.doc_id = c)

TestedInv(D, x, c) ==
    /\ x \in Childless /\ x.docs = D
    /\ x.doc_id = IF c = -1 THEN DocMax ELSE c

LEMMA BitsIs ==
    ASSUME DocMax \in Nat, NEW D \in DocSets, NEW x, NEW c, c # -1,
           BitsInv(D, x, c), NEW t \in Int
    PROVE  LET r == Tree!AdvanceBitVec(x, t)
           IN  Reaches(D, c, t, r) /\ BitsInv(D, r, Place(r.found))
<1> DEFINE d == Tree!FirstFrom(D, t)
           r == Tree!AdvanceBitVec(x, t)
<1>1. d \in 0..DocMax /\ Finds(D, t, Place(d))
  BY FirstIs
<1>2. x \in Childless /\ x.docs = D
  BY DEF BitsInv
<1>3. r = [x EXCEPT !.doc_id = IF d = 0 THEN -1 ELSE d, !.found = d]
  BY <1>2 DEF Tree!AdvanceBitVec
<1> HIDE DEF d, r
<1>4. r = [docs |-> D, doc_id |-> Place(d), found |-> d, kids |-> <<>>]
  BY <1>2, <1>3 DEF Childless, Place
<1>5. r \in Childless /\ r.docs = D /\ r.doc_id = Place(d) /\ r.found = d
  BY <1>1, <1>4 DEF Childless, Place
<1> QED
  BY <1>1, <1>5 DEF Reaches, BitsInv, r

LEMMA TestedIs ==
    ASSUME DocMax \in Nat, NEW D \in DocSets, NEW x \in Childless, x.docs = D
    PROVE  LET r == Tree!NextTested(x)
           IN  /\ Finds(D, x.doc_id + 1, Place(r.found))
               /\ TestedInv(D, r, Place(r.found))
<1> DEFINE d == Tree!FirstFrom(D, x.doc_id + 1)
           r == Tree!NextTested(x)
<1>1. x.doc_id + 1 \in Int
  BY DEF Childless
<1>2. d \in 0..DocMax /\ Finds(D, x.doc_id + 1, Place(d))
  BY <1>1, FirstIs
<1>3. r = [x EXCEPT !.doc_id = IF d = 0 THEN DocMax ELSE d, !.found = d]
  BY DEF Tree!NextTested
<1> HIDE DEF d, r
<1>4. r = [docs |-> D, doc_id |-> IF d = 0 THEN DocMax ELSE d, found |-> d,
           kids |-> <<>>]
  BY <1>3 DEF Childless
<1>5. /\ r \in Childless /\ r.docs = D /\ r.found = d
      /\ r.doc_id = IF d = 0 THEN DocMax ELSE d
  BY <1>2, <1>4 DEF Childless
<1>6. r.doc_id = IF Place(d) = -1 THEN DocMax ELSE Place(d)
  BY <1>2, <1>5 DEF Place
<1> QED
  BY <1>2, <1>5, <1>6 DEF TestedInv, r

LEMMA NextTestedIs ==
    ASSUME DocMax \in Nat, NEW D \in DocSets, NEW x, NEW c \in Nat \union {-1},
           TestedInv(D, x, c)
    PROVE  LET r == Tree!NextTested(x)
           IN  /\ Reaches(D, c, c + 1, r)
               /\ TestedInv(D, r, Place(r.found))
<1> DEFINE r == Tree!NextTested(x)
<1>1. x \in Childless /\ x.docs = D /\ x.doc_id = IF c = -1 THEN DocMax ELSE c
  BY DEF TestedInv
<1>2. Finds(D, x.doc_id + 1, Place(r.found)) /\ TestedInv(D, r, Place(r.found))
  BY <1>1, TestedIs
<1> HIDE DEF r
<1>3. \A d \in D : d \in 1..DocMax
  BY DEF DocSets
<1>4. c = -1 => Place(r.found) = -1
  BY <1>1, <1>2, <1>3 DEF Finds
<1> QED
  BY <1>1, <1>2, <1>4 DEF Reaches, r

LEMMA AdvanceTestedIs ==
    ASSUME DocMax \in Nat, NEW D \in DocSets, NEW x, NEW c \in Nat,
           TestedInv(D, x, c), NEW t \in Nat
    PROVE  LET r == Tree!AdvanceTested(x, t)
           IN  /\ Reaches(D, c, t, r)
               /\ TestedInv(D, r, Place(r.found))
<1> DEFINE y == [x EXCEPT !.doc_id = t - 1]
           r == Tree!NextTested(y)
<1>1. x \in Childless /\ x.docs = D
  BY DEF TestedInv
<1>2. y \in Childless /\ y.docs = D /\ y.doc_id + 1 = t
  BY <1>1 DEF Childless
<1>3. Tree!AdvanceTested(x, t) = r
  BY DEF Tree!AdvanceTested
<1> HIDE DEF y
<1>4. Finds(D, t, Place(r.found)) /\ TestedInv(D, r, Place(r.found))
  BY <1>2, TestedIs
<1> HIDE DEF r
<1> QED
  BY <1>3, <1>4 DEF Reaches

-----------------------------------------------------------------------------
(* Advance by Next.                                                        *)

\* After Next, none that is wanted has been passed; and after k more turns the
\* loop is over or as far on.
Stepping(D, t, k) ==
    {y \in Childless :
        /\ TestedInv(D, y, Place(y.found))
        /\ y.found = 0 => \A d \in D : d < t
        /\ y.found # 0 => y.found \in D /\ \A d \in D : d >= t => d >= y.found
        /\ y.found = 0 \/ y.found >= t \/ y.found > k}

Stepped(t, y) ==
    IF y.found = 0 \/ y.found >= t THEN y ELSE Tree!NextTested(y)

LEMMA SteppedIs ==
    ASSUME DocMax \in Nat, NEW D \in DocSets, NEW t \in Nat, NEW k \in Nat,
           NEW y \in Stepping(D, t, k)
    PROVE  Stepped(t, y) \in Stepping(D, t, k + 1)
<1>1. /\ y \in Childless /\ TestedInv(D, y, Place(y.found))
      /\ y.found = 0 => \A d \in D : d < t
      /\ y.found # 0 => y.found \in D /\ \A d \in D : d >= t => d >= y.found
      /\ y.found = 0 \/ y.found >= t \/ y.found > k
      /\ y.found \in 0..DocMax
  BY DEF Stepping, Childless
<1>2. CASE y.found = 0 \/ y.found >= t
  BY <1>1, <1>2 DEF Stepping, Stepped
<1>3. CASE ~(y.found = 0 \/ y.found >= t)
  <2> DEFINE r == Tree!NextTested(y)
  <2>1. y.docs = D /\ y.doc_id = y.found
    BY <1>1, <1>3 DEF TestedInv, Place
  <2>2. Finds(D, y.found + 1, Place(r.found))
        /\ TestedInv(D, r, Place(r.found))
    BY <1>1, <2>1, TestedIs
  <2>3. Stepped(t, y) = r
    BY <1>3 DEF Stepped
  <2> HIDE DEF r
  <2>4. r \in Childless /\ r.found \in 0..DocMax
    BY <2>2 DEF TestedInv, Childless
  <2>5. \A d \in D : d \in Nat
    BY DEF DocSets
  <2>6. r.found = 0 => \A d \in D : d < t
    BY <1>1, <1>3, <2>2, <2>5 DEF Finds, Place
  <2>7. r.found # 0 => /\ r.found \in D /\ r.found > y.found
                       /\ \A d \in D : d >= t => d >= r.found
    BY <1>1, <1>3, <2>2, <2>4, <2>5 DEF Finds, Place
  <2>8. r.found = 0 \/ r.found > k + 1
    BY <1>1, <1>3, <2>4, <2>7
  <2> QED
    BY <2>2, <2>3, <2>4, <2>6, <2>7, <2>8 DEF Stepping
<1> QED
  BY <1>2, <1>3

LEMMA ByNextIs ==
    ASSUME DocMax \in Nat, NEW D \in DocSets, NEW x, NEW c \in Nat,
           TestedInv(D, x, c), NEW t \in Nat, t > c
    PROVE  LET r == Tree!AdvanceByNext(x, t)
           IN  /\ Reaches(D, c, t, r)
               /\ TestedInv(D, r, Place(r.found))
<1> DEFINE N == DocMax
           T == [k \in 0..N |-> Stepping(D, t, k)]
           start == Tree!NextTested(x)
           S == UNION {Stepping(D, t, k) : k \in 0..N}
           step == [k \in 1..N |-> [y \in S |-> Stepped(t, y)]]
           F(f) == [k \in 0..N |-> IF k = 0 THEN start
                                   ELSE Stepped(t, f[k - 1])]
           after == CHOOSE f : f = F(f)
<1>1. N \in Nat /\ \A d \in D : d \in 1..DocMax
  BY DEF DocSets
<1>2. start \in T[0]
  <2>1. Reaches(D, c, c + 1, start) /\ TestedInv(D, start, Place(start.found))
    BY NextTestedIs
  <2> HIDE DEF start
  <2>2. start \in Childless /\ start.found \in 0..DocMax
    BY <2>1 DEF TestedInv, Childless
  <2>3. start.found = 0 => \A d \in D : d < t
    BY <1>1, <2>1 DEF Reaches, Finds, Place
  <2>4. start.found # 0 => /\ start.found \in D /\ start.found > 0
                           /\ \A d \in D : d >= t => d >= start.found
    BY <1>1, <2>1, <2>2 DEF Reaches, Finds, Place
  <2>5. start \in Stepping(D, t, 0)
    BY <2>1, <2>2, <2>3, <2>4 DEF Stepping
  <2> QED
    BY <1>1, <2>5
<1> HIDE DEF start, N
<1>3. ASSUME NEW k \in 0..(N - 1), NEW y \in T[k]
      PROVE  Stepped(t, y) \in T[k + 1] /\ y \in S
  <2>1. k \in 0..N /\ k + 1 \in 0..N /\ k \in Nat
    BY <1>1
  <2>2. y \in Stepping(D, t, k)
    BY <1>3, <2>1
  <2> QED
    BY <1>1, <2>1, <2>2, SteppedIs DEF N
<1>4. Run(N, T, start, step)
  <2>1. Turns(N, T, step)
    <3>1. ASSUME NEW k \in 1..N, NEW y \in T[k - 1]
          PROVE  step[k][y] \in T[k]
      <4>1. k - 1 \in 0..(N - 1) /\ (k - 1) + 1 = k
        BY <1>1
      <4>2. Stepped(t, y) \in T[k] /\ y \in S
        BY <1>3, <3>1, <4>1
      <4> HIDE DEF T, S
      <4> QED
        BY <4>2
    <3> HIDE DEF T, step
    <3> QED
      BY <3>1 DEF Turns
  <2> HIDE DEF T, step
  <2> QED
    BY <1>1, <1>2, <2>1, RunsOn, Zenon
<1> HIDE DEF T, S
<1>5. PICK g : /\ g = [j \in 0..N |-> g[j]] /\ g[0] = start
               /\ \A j \in 1..N : g[j - 1] \in T[j - 1]
                                  /\ g[j] = step[j][g[j - 1]]
  BY <1>4, Zenon DEF Run
<1>6. g = F(g)
  <2>1. ASSUME NEW j \in 0..N
        PROVE  g[j] = IF j = 0 THEN start ELSE Stepped(t, g[j - 1])
    <3>1. CASE j = 0
      BY <1>5, <3>1
    <3>2. CASE j # 0
      <4>1. j \in 1..N /\ j - 1 \in 0..(N - 1)
        BY <1>1, <3>2
      <4>2. g[j - 1] \in S /\ g[j] = step[j][g[j - 1]]
        BY <1>3, <1>5, <4>1
      <4> QED
        BY <3>2, <4>2
    <3> QED
      BY <3>1, <3>2
  <2> HIDE DEF step
  <2> QED
    BY <1>5, <2>1
<1>7. after = F(after)
  <2>1. \E f : f = F(f)
    BY <1>6
  <2> QED
    BY <2>1, Zenon
<1> HIDE DEF after
<1>8. \A k \in 0..N : after[k] = IF k = 0 THEN start
                                 ELSE Stepped(t, after[k - 1])
  BY <1>7
<1>9. after[N] \in T[N]
  <2> DEFINE U == {k \in 0..N : after[k] \in T[k]}
  <2>1. 0 \in U
    BY <1>1, <1>2, <1>8
  <2>2. ASSUME NEW k \in 0..(N - 1), k \in U
        PROVE  k + 1 \in U
    <3>1. k + 1 \in 0..N /\ k + 1 # 0 /\ (k + 1) - 1 = k
      BY <1>1
    <3>2. after[k + 1] = Stepped(t, after[k])
      BY <1>8, <3>1
    <3> QED
      BY <1>3, <2>2, <3>1, <3>2
  <2>3. \A k \in 0..N : k \in U
    <3> HIDE DEF U
    <3> QED
      BY <1>1, <2>1, <2>2, Upwards
  <2> QED
    BY <1>1, <2>3
<1> DEFINE r == after[N]
<1>10. Tree!AdvanceByNext(x, t) = r
  BY Zenon DEF Tree!AdvanceByNext, Tree!Repeat, Stepped, after, N, start
<1>11. r \in Stepping(D, t, N)
  BY <1>1, <1>9 DEF T
<1> HIDE DEF r
<1>12. /\ TestedInv(D, r, Place(r.found))
       /\ r.found = 0 => \A d \in D : d < t
       /\ r.found # 0 => r.found \in D /\ \A d \in D : d >= t => d >= r.found
       /\ r.found = 0 \/ r.found >= t \/ r.found > DocMax
       /\ r.found \in 0..DocMax
  BY <1>11 DEF Stepping, Childless, N
<1>13. Reaches(D, c, t, r)
  BY <1>1, <1>12 DEF Reaches, Finds, Place
<1> QED
  BY <1>10, <1>12, <1>13

-----------------------------------------------------------------------------
(* NOTMatcher.                                                             *)

NotSet == [kids : [1..1 -> KidSet], doc_id : Nat, next_negation : Nat,
           found : Nat]

\* The negated matcher is at next_negation, and has nothing on the way there.
Ahead(D, x) == \A d \in D : d >= x.doc_id => d >= x.next_negation

NotOK(D, x) ==
    /\ x \in NotSet /\ KidOf(D, x.kids[1])
    /\ x.next_negation = IF x.kids[1].cur = -1 THEN DocMax + 1
                         ELSE x.kids[1].cur
    /\ \A d \in D : d > x.doc_id => d >= x.next_negation

NotInv(D, x, c) ==
    NotOK(D, x) /\ x.doc_id = IF c = -1 THEN DocMax ELSE c

LEMMA CountUpIs ==
    ASSUME DocMax \in Nat, NEW D \in DocSets, NEW x, NotOK(D, x),
           x.doc_id <= DocMax
    PROVE  LET r == Tree!CountUp(x)
           IN  /\ NotOK(D, r) /\ Ahead(D, r) /\ r.doc_id = x.doc_id + 1
               /\ r.doc_id <= r.next_negation
<1> DEFINE id == x.doc_id + 1
           k == x.kids[1]
           n == Tree!Moved(k, id)
           r == Tree!CountUp(x)
<1>1. /\ x \in NotSet /\ KidOf(D, k) /\ x.kids \in [1..1 -> KidSet]
      /\ x.next_negation = IF k.cur = -1 THEN DocMax + 1 ELSE k.cur
      /\ \A d \in D : d > x.doc_id => d >= x.next_negation
      /\ x.doc_id \in Nat /\ x.next_negation \in Nat /\ x.found \in Nat
      /\ k.cur \in Int
  BY DEF NotOK, NotSet, KidOf, KidSet
<1>2. \A d \in D : d \in 1..DocMax
  BY DEF DocSets
<1>3. CASE x.next_negation < id
  <2>1. k.cur # -1 /\ id > k.cur /\ id \in Int
    BY <1>1, <1>3
  <2>2. KidOf(D, n) /\ Finds(D, id, n.cur)
        /\ Tree!Answer(n) = IF n.cur = -1 THEN 0 ELSE n.cur
    BY <1>1, <2>1, MovedIs
  <2>3. n \in KidSet /\ n.cur \in D \union {0, -1}
    BY <2>2 DEF KidOf
  <2> DEFINE m == Tree!AdvanceKid(x, 1, id)
             nn == IF Tree!Answer(n) = 0 THEN DocMax + 1 ELSE Tree!Answer(n)
  <2>4. m = [x EXCEPT !.kids = [x.kids EXCEPT ![1] = n]]
    BY DEF Tree!AdvanceKid
  <2>5. m.kids[1] = n /\ [x.kids EXCEPT ![1] = n] \in [1..1 -> KidSet]
    BY <1>1, <2>3, <2>4 DEF NotSet
  <2>6. r = [m EXCEPT !.doc_id = id, !.next_negation = nn]
    <3>1. r = [m EXCEPT !.doc_id = id,
                 !.next_negation = IF Tree!Answer(m.kids[1]) = 0
                                   THEN DocMax + 1
                                   ELSE Tree!Answer(m.kids[1])]
      BY <1>3, Zenon DEF Tree!CountUp
    <3> HIDE DEF m
    <3> QED
      BY <2>5, <3>1
  <2> HIDE DEF n, k, r, id
  <2>7. r = [kids |-> [x.kids EXCEPT ![1] = n], doc_id |-> id,
             next_negation |-> nn, found |-> x.found]
    BY <1>1, <2>4, <2>6 DEF NotSet
  <2> HIDE DEF nn
  <2>8. /\ r.kids = [x.kids EXCEPT ![1] = n] /\ r.kids[1] = n
        /\ r.doc_id = id /\ r.next_negation = nn
    BY <1>1, <2>7
  <2>9. nn = IF n.cur = -1 THEN DocMax + 1 ELSE n.cur
    BY <1>2, <2>1, <2>2, <2>3 DEF nn, Finds, id
  <2>10. nn \in Nat /\ id \in Nat /\ id <= nn
    BY <1>1, <1>2, <2>2, <2>3, <2>9 DEF Finds, id
  <2>11. r \in NotSet
    BY <1>1, <2>5, <2>7, <2>10 DEF NotSet
  <2>12. \A d \in D : d >= id => d >= nn
    BY <1>1, <1>2, <2>2, <2>9 DEF Finds, id
  <2> QED
    BY <1>1, <1>2, <2>2, <2>8, <2>9, <2>10, <2>11, <2>12
       DEF NotOK, Ahead, r, id
<1>4. CASE ~(x.next_negation < id)
  <2>1. r = [x EXCEPT !.doc_id = id]
    BY <1>4 DEF Tree!CountUp
  <2> HIDE DEF r, k
  <2>2. /\ r \in NotSet /\ r.kids = x.kids /\ r.doc_id = id
        /\ r.next_negation = x.next_negation
    BY <1>1, <2>1 DEF NotSet
  <2>3. \A d \in D : d >= id => d >= x.next_negation
    BY <1>1, <1>2
  <2>4. id <= x.next_negation
    BY <1>1, <1>4
  <2>5. NotOK(D, r) /\ Ahead(D, r)
    BY <1>1, <1>2, <2>2, <2>3 DEF NotOK, Ahead, k
  <2> QED
    BY <2>2, <2>4, <2>5 DEF r
<1> QED
  BY <1>3, <1>4

\* Since the target all are negated, and after k more turns the loop is over or
\* as far on.
Counting(D, t, k) ==
    {y \in NotSet :
        /\ NotOK(D, y) /\ Ahead(D, y)
        /\ y.doc_id >= t /\ y.doc_id <= DocMax + 1
        /\ y.doc_id <= y.next_negation
        /\ \A d \in t..(y.doc_id - 1) : d \in D
        /\ \/ y.doc_id > DocMax \/ y.doc_id # y.next_negation
           \/ y.doc_id >= t + k}

CountedUp(y) ==
    IF y.doc_id > DocMax \/ y.doc_id # y.next_negation THEN y
    ELSE Tree!CountUp(y)

LEMMA CountedIs ==
    ASSUME DocMax \in Nat, NEW D \in DocSets, NEW t \in Nat, t > 0,
           NEW k \in Nat, NEW y \in Counting(D, t, k)
    PROVE  CountedUp(y) \in Counting(D, t, k + 1)
<1>1. /\ y \in NotSet /\ NotOK(D, y) /\ Ahead(D, y) /\ y.doc_id >= t
      /\ y.doc_id <= DocMax + 1 /\ y.doc_id <= y.next_negation
      /\ \A d \in t..(y.doc_id - 1) : d \in D
      /\ \/ y.doc_id > DocMax \/ y.doc_id # y.next_negation
         \/ y.doc_id >= t + k
      /\ y.doc_id \in Nat /\ y.next_negation \in Nat
  BY DEF Counting, NotSet
<1>2. CASE y.doc_id > DocMax \/ y.doc_id # y.next_negation
  BY <1>1, <1>2 DEF Counting, CountedUp
<1>3. CASE ~(y.doc_id > DocMax \/ y.doc_id # y.next_negation)
  <2> DEFINE r == Tree!CountUp(y)
  <2>1. y.doc_id <= DocMax /\ y.doc_id = y.next_negation
    BY <1>1, <1>3
  <2>2. /\ NotOK(D, r) /\ Ahead(D, r) /\ r.doc_id = y.doc_id + 1
        /\ r.doc_id <= r.next_negation
    BY <1>1, <2>1, CountUpIs
  <2>3. CountedUp(y) = r
    BY <1>3 DEF CountedUp
  <2> HIDE DEF r
  <2>4. y.doc_id \in D
    <3>1. /\ y.kids[1].cur \in D \union {0, -1}
          /\ y.next_negation = IF y.kids[1].cur = -1 THEN DocMax + 1
                               ELSE y.kids[1].cur
      BY <1>1 DEF NotOK, KidOf
    <3> QED
      BY <1>1, <2>1, <3>1
  <2>5. \A d \in t..(r.doc_id - 1) : d \in D
    BY <1>1, <2>2, <2>4
  <2>6. r \in NotSet
    BY <2>2 DEF NotOK
  <2>7. r.doc_id >= t /\ r.doc_id <= DocMax + 1 /\ r.doc_id >= t + (k + 1)
    BY <1>1, <1>3, <2>1, <2>2
  <2> QED
    BY <2>2, <2>3, <2>5, <2>6, <2>7 DEF Counting
<1> QED
  BY <1>2, <1>3

LEMMA CountedOn ==
    ASSUME DocMax \in Nat, NEW D \in DocSets, NEW t \in Nat, t > 0,
           NEW start \in Counting(D, t, 0)
    PROVE  (CHOOSE f : f = [k \in 0..DocMax |->
                IF k = 0 THEN start ELSE CountedUp(f[k - 1])])[DocMax]
               \in Counting(D, t, DocMax)
<1> DEFINE N == DocMax
           T == [k \in 0..N |-> Counting(D, t, k)]
           S == UNION {Counting(D, t, k) : k \in 0..N}
           step == [k \in 1..N |-> [y \in S |-> CountedUp(y)]]
           F(f) == [k \in 0..N |-> IF k = 0 THEN start
                                   ELSE CountedUp(f[k - 1])]
           after == CHOOSE f : f = F(f)
<1>1. N \in Nat
  OBVIOUS
<1>2. start \in T[0]
  BY <1>1
<1> HIDE DEF N
<1>3. ASSUME NEW k \in 0..(N - 1), NEW y \in T[k]
      PROVE  CountedUp(y) \in T[k + 1] /\ y \in S
  <2>1. k \in 0..N /\ k + 1 \in 0..N /\ k \in Nat
    BY <1>1
  <2>2. y \in Counting(D, t, k)
    BY <1>3, <2>1
  <2> QED
    BY <1>1, <2>1, <2>2, CountedIs DEF N
<1>4. Run(N, T, start, step)
  <2>1. Turns(N, T, step)
    <3>1. ASSUME NEW k \in 1..N, NEW y \in T[k - 1]
          PROVE  step[k][y] \in T[k]
      <4>1. k - 1 \in 0..(N - 1) /\ (k - 1) + 1 = k
        BY <1>1
      <4>2. CountedUp(y) \in T[k] /\ y \in S
        BY <1>3, <3>1, <4>1
      <4> HIDE DEF T, S
      <4> QED
        BY <4>2
    <3> HIDE DEF T, step
    <3> QED
      BY <3>1 DEF Turns
  <2> HIDE DEF T, step
  <2> QED
    BY <1>1, <1>2, <2>1, RunsOn, Zenon
<1> HIDE DEF T, S
<1>5. PICK g : /\ g = [j \in 0..N |-> g[j]] /\ g[0] = start
               /\ \A j \in 1..N : g[j - 1] \in T[j - 1]
                                  /\ g[j] = step[j][g[j - 1]]
  BY <1>4, Zenon DEF Run
<1>6. g = F(g)
  <2>1. ASSUME NEW j \in 0..N
        PROVE  g[j] = IF j = 0 THEN start ELSE CountedUp(g[j - 1])
    <3>1. CASE j = 0
      BY <1>5, <3>1
    <3>2. CASE j # 0
      <4>1. j \in 1..N /\ j - 1 \in 0..(N - 1)
        BY <1>1, <3>2
      <4>2. g[j - 1] \in S /\ g[j] = step[j][g[j - 1]]
        BY <1>3, <1>5, <4>1
      <4> QED
        BY <3>2, <4>2
    <3> QED
      BY <3>1, <3>2
  <2> HIDE DEF step
  <2> QED
    BY <1>5, <2>1
<1>7. after = F(after)
  <2>1. \E f : f = F(f)
    BY <1>6
  <2> QED
    BY <2>1, Zenon
<1> HIDE DEF after
<1>8. \A k \in 0..N : after[k] = IF k = 0 THEN start
                                 ELSE CountedUp(after[k - 1])
  BY <1>7
<1>9. after[N] \in T[N]
  <2> DEFINE U == {k \in 0..N : after[k] \in T[k]}
  <2>1. 0 \in U
    BY <1>1, <1>2, <1>8
  <2>2. ASSUME NEW k \in 0..(N - 1), k \in U
        PROVE  k + 1 \in U
    <3>1. k + 1 \in 0..N /\ k + 1 # 0 /\ (k + 1) - 1 = k
      BY <1>1
    <3>2. after[k + 1] = CountedUp(after[k])
      BY <1>8, <3>1
    <3> QED
      BY <1>3, <2>2, <3>1, <3>2
  <2>3. \A k \in 0..N : k \in U
    <3> HIDE DEF U
    <3> QED
      BY <1>1, <2>1, <2>2, Upwards
  <2> QED
    BY <1>1, <2>3
<1> QED
  BY <1>1, <1>9 DEF T, N, after

LEMMA NotIs ==
    ASSUME DocMax \in Nat, NEW D \in DocSets, NEW x, NotOK(D, x),
           x.doc_id <= DocMax
    PROVE  LET r == Tree!NextNOT(x)
           IN  /\ Finds((1..DocMax) \ D, x.doc_id + 1, Place(r.found))
               /\ NotInv(D, r, Place(r.found))
<1> DEFINE t == x.doc_id + 1
           M == (1..DocMax) \ D
           start == Tree!CountUp(x)
           n == (CHOOSE f : f = [k \in 0..DocMax |->
                    IF k = 0 THEN start ELSE CountedUp(f[k - 1])])[DocMax]
           r == Tree!NextNOT(x)
<1>1. t \in Nat /\ t > 0 /\ t <= DocMax + 1
  BY DEF NotOK, NotSet
<1>2. r = IF n.doc_id > DocMax THEN [n EXCEPT !.doc_id = DocMax, !.found = 0]
          ELSE [n EXCEPT !.found = n.doc_id]
  BY Zenon DEF Tree!NextNOT, Tree!Repeat, CountedUp
<1>3. start \in Counting(D, t, 0)
  <2>1. /\ NotOK(D, start) /\ Ahead(D, start) /\ start.doc_id = t
        /\ start.doc_id <= start.next_negation
    BY CountUpIs
  <2> HIDE DEF start, t
  <2>2. start \in NotSet
    BY <2>1 DEF NotOK
  <2>3. \A d \in t..(start.doc_id - 1) : d \in D
    BY <1>1, <2>1
  <2> QED
    BY <1>1, <2>1, <2>2, <2>3 DEF Counting
<1> HIDE DEF t, start
<1>4. n \in Counting(D, t, DocMax)
  BY <1>1, <1>3, CountedOn
<1> HIDE DEF n, r
<1>5. /\ n \in NotSet /\ NotOK(D, n) /\ Ahead(D, n) /\ n.doc_id >= t
      /\ n.doc_id <= DocMax + 1 /\ n.doc_id <= n.next_negation
      /\ \A d \in t..(n.doc_id - 1) : d \in D
      /\ \/ n.doc_id > DocMax \/ n.doc_id # n.next_negation
         \/ n.doc_id >= t + DocMax
      /\ n.doc_id \in Nat /\ n.next_negation \in Nat /\ n.found \in Nat
  BY <1>4 DEF Counting, NotSet
<1>6. \A d \in D : d \in 1..DocMax
  BY DEF DocSets
<1>7. /\ KidOf(D, n.kids[1])
      /\ n.next_negation = IF n.kids[1].cur = -1 THEN DocMax + 1
                           ELSE n.kids[1].cur
      /\ \A d \in D : d > n.doc_id => d >= n.next_negation
      /\ \A d \in D : d >= n.doc_id => d >= n.next_negation
  BY <1>5 DEF NotOK, Ahead
<1>8. CASE n.doc_id > DocMax
  <2>1. r = [n EXCEPT !.doc_id = DocMax, !.found = 0]
    BY <1>2, <1>8
  <2>2. r = [kids |-> n.kids, doc_id |-> DocMax,
             next_negation |-> n.next_negation, found |-> 0]
    BY <1>5, <2>1 DEF NotSet
  <2>3. /\ r.kids = n.kids /\ r.doc_id = DocMax /\ r.found = 0
        /\ r.next_negation = n.next_negation /\ r \in NotSet
    BY <1>5, <2>2 DEF NotSet
  <2>4. \A d \in D : d > DocMax => d >= n.next_negation
    BY <1>6
  <2>5. NotInv(D, r, -1)
    BY <1>7, <2>3, <2>4 DEF NotInv, NotOK
  <2>6. \A d \in M : d < t
    BY <1>1, <1>5, <1>8
  <2>7. Place(r.found) = -1
    BY <2>3 DEF Place
  <2> QED
    BY <2>5, <2>6, <2>7 DEF Finds, r, t
<1>9. CASE ~(n.doc_id > DocMax)
  <2>1. r = [n EXCEPT !.found = n.doc_id]
    BY <1>2, <1>9
  <2>2. r = [kids |-> n.kids, doc_id |-> n.doc_id,
             next_negation |-> n.next_negation, found |-> n.doc_id]
    BY <1>5, <2>1 DEF NotSet
  <2>3. /\ r.kids = n.kids /\ r.doc_id = n.doc_id /\ r.found = n.doc_id
        /\ r.next_negation = n.next_negation /\ r \in NotSet
    BY <1>5, <2>2 DEF NotSet
  <2>4. NotOK(D, r)
    BY <1>7, <2>3 DEF NotOK
  <2>5. n.doc_id \in 1..DocMax /\ n.doc_id # n.next_negation
    BY <1>1, <1>5, <1>9
  <2>6. n.doc_id \in M
    BY <1>5, <1>7, <2>5
  <2>7. \A d \in M : d >= t => d >= n.doc_id
    BY <1>1, <1>5
  <2>8. Place(r.found) = n.doc_id /\ n.doc_id # -1
    BY <2>3, <2>5 DEF Place
  <2>9. Finds(M, t, n.doc_id)
    BY <1>5, <2>6, <2>7 DEF Finds
  <2> QED
    BY <2>3, <2>4, <2>8, <2>9 DEF NotInv, r, t
<1> QED
  BY <1>8, <1>9

LEMMA NextNotIs ==
    ASSUME DocMax \in Nat, NEW D \in DocSets, NEW x, NEW c \in Nat \union {-1},
           NotInv(D, x, c), c <= DocMax
    PROVE  LET r == Tree!NextNOT(x)
           IN  /\ Reaches((1..DocMax) \ D, c, c + 1, r)
               /\ NotInv(D, r, Place(r.found))
<1> DEFINE r == Tree!NextNOT(x)
           M == (1..DocMax) \ D
<1>1. NotOK(D, x) /\ x.doc_id = IF c = -1 THEN DocMax ELSE c
  BY DEF NotInv
<1>2. x.doc_id <= DocMax
  BY <1>1
<1>3. Finds(M, x.doc_id + 1, Place(r.found)) /\ NotInv(D, r, Place(r.found))
  BY <1>1, <1>2, NotIs
<1> HIDE DEF r
<1>4. c = -1 => Place(r.found) = -1
  BY <1>1, <1>3 DEF Finds
<1> QED
  BY <1>1, <1>3, <1>4 DEF Reaches, r

LEMMA AdvanceNotIs ==
    ASSUME DocMax \in Nat, NEW D \in DocSets, NEW x, NEW c \in Nat,
           NotInv(D, x, c), NEW t \in Nat, t > c, t <= DocMax + 1
    PROVE  LET r == Tree!AdvanceNOT(x, t)
           IN  /\ Reaches((1..DocMax) \ D, c, t, r)
               /\ NotInv(D, r, Place(r.found))
<1> DEFINE y == [x EXCEPT !.doc_id = t - 1]
           r == Tree!NextNOT(y)
           M == (1..DocMax) \ D
<1>1. x \in NotSet /\ NotOK(D, x) /\ x.doc_id = c
  BY DEF NotInv, NotOK
<1>2. y = [kids |-> x.kids, doc_id |-> t - 1,
           next_negation |-> x.next_negation, found |-> x.found]
  BY <1>1 DEF NotSet
<1>3. Tree!AdvanceNOT(x, t) = r
  BY DEF Tree!AdvanceNOT
<1> HIDE DEF y
<1>4. /\ y \in NotSet /\ y.doc_id = t - 1 /\ y.kids = x.kids
      /\ y.next_negation = x.next_negation
  BY <1>1, <1>2 DEF NotSet
<1>5. \A d \in D : d \in 1..DocMax
  BY DEF DocSets
<1>6. NotOK(D, y)
  BY <1>1, <1>4, <1>5 DEF NotOK
<1>7. y.doc_id <= DocMax /\ y.doc_id + 1 = t
  BY <1>4
<1>8. Finds(M, y.doc_id + 1, Place(r.found)) /\ NotInv(D, r, Place(r.found))
  BY <1>6, <1>7, NotIs
<1> HIDE DEF r
<1> QED
  BY <1>3, <1>7, <1>8 DEF Reaches

-----------------------------------------------------------------------------
(* RequiredOptionalMatcher.                                                *)

\* A child at place has not passed any of M from t on.
Since(M, t, place) ==
    IF place = -1 THEN \A d \in M : d < t ELSE \A d \in M : d >= t => d >= place

ReqSet == [kids : [1..2 -> KidSet], first : BOOLEAN, gone : BOOLEAN,
           scores : SUBSET {1, 2}, found : Nat]

\* The required matcher is at the document; the optional one has not been asked
\* or has not passed it; and the scores are true of it.
ReqInv(D, x, c) ==
    /\ x \in ReqSet /\ D \in [1..2 -> DocSets]
    /\ KidOf(D[1], x.kids[1]) /\ x.kids[1].cur = c
    /\ KidOf(D[2], x.kids[2])
    /\ x.first => x.kids[2].cur = 0
    /\ x.gone = (x.kids[2].cur = -1)
    /\ c # -1 => Since(D[2], c, x.kids[2].cur)
    /\ x.scores # {} /\ c > 0 => (2 \in x.scores <=> c \in D[2])

LEMMA ReqMoves ==
    ASSUME DocMax \in Nat, NEW D, NEW x, NEW c \in Nat \union {-1},
           ReqInv(D, x, c), NEW t \in Nat, c = -1 \/ t > c
    PROVE  LET r == Tree!AdvanceReqOpt(x, t)
           IN  Reaches(D[1], c, t, r) /\ ReqInv(D, r, Place(r.found))
<1> DEFINE k == x.kids[1]
           n == Tree!Moved(k, t)
           m == Tree!AdvanceKid(x, 1, t)
           r == Tree!AdvanceReqOpt(x, t)
<1>1. /\ x \in ReqSet /\ x.kids \in [1..2 -> KidSet]
      /\ D[1] \in DocSets /\ D[2] \in DocSets /\ KidOf(D[1], k) /\ k.cur = c
      /\ KidOf(D[2], x.kids[2]) /\ D \in [1..2 -> DocSets]
      /\ x.first => x.kids[2].cur = 0
      /\ x.gone = (x.kids[2].cur = -1)
      /\ c # -1 => Since(D[2], c, x.kids[2].cur)
  BY DEF ReqInv, ReqSet
<1>2. /\ KidOf(D[1], n) /\ n \in KidSet /\ n.cur \in D[1] \union {0, -1}
      /\ k.cur = -1 => n = k
      /\ k.cur # -1 => Finds(D[1], t, n.cur)
      /\ Tree!Answer(n) = IF n.cur = -1 THEN 0 ELSE n.cur
  BY <1>1, MovedIs
<1>3. m = [x EXCEPT !.kids = [x.kids EXCEPT ![1] = n]]
  BY DEF Tree!AdvanceKid
<1>4. m.kids[1] = n /\ [x.kids EXCEPT ![1] = n] \in [1..2 -> KidSet]
  BY <1>1, <1>2, <1>3 DEF ReqSet
<1>5. r = [m EXCEPT !.found = Tree!Answer(n), !.scores = {}]
  BY <1>4 DEF Tree!AdvanceReqOpt
<1> HIDE DEF n, r
<1>6. Tree!Answer(n) \in Nat
  <2>1. \A d \in D[1] : d \in 1..DocMax
    BY <1>1 DEF DocSets
  <2> QED
    BY <1>2, <2>1
<1>7. r = [kids |-> [x.kids EXCEPT ![1] = n], first |-> x.first,
           gone |-> x.gone, scores |-> {}, found |-> Tree!Answer(n)]
  BY <1>1, <1>3, <1>5 DEF ReqSet
<1> HIDE DEF m, k
<1>8. /\ r.kids[1] = n /\ r.kids[2] = x.kids[2] /\ r.first = x.first
      /\ r.gone = x.gone /\ r.scores = {} /\ r.found = Tree!Answer(n)
      /\ r \in ReqSet
  BY <1>1, <1>4, <1>6, <1>7 DEF ReqSet
<1>9. Place(r.found) = n.cur
  <2>1. \A d \in D[1] : d \in 1..DocMax
    BY <1>1 DEF DocSets
  <2>2. n.cur # 0
    <3>1. c # -1 => t > 0
      OBVIOUS
    <3> QED
      BY <1>1, <1>2, <2>1, <3>1 DEF Finds, KidOf
  <2> QED
    BY <1>2, <1>8, <2>2 DEF Place
<1>10. Reaches(D[1], c, t, r)
  BY <1>1, <1>2, <1>9 DEF Reaches
<1>11. n.cur # -1 => Since(D[2], n.cur, x.kids[2].cur)
  <2> SUFFICES ASSUME n.cur # -1
               PROVE  Since(D[2], n.cur, x.kids[2].cur)
    OBVIOUS
  <2>1. c # -1 /\ Finds(D[1], t, n.cur)
    BY <1>1, <1>2
  <2>2. \A d \in D[1] : d \in Nat
    BY <1>1 DEF DocSets
  <2>3. n.cur \in Nat /\ n.cur >= c
    BY <2>1, <2>2 DEF Finds
  <2>4. \A d \in D[2] : d \in Nat
    BY <1>1 DEF DocSets
  <2> QED
    BY <1>1, <2>1, <2>3, <2>4 DEF Since
<1>12. ReqInv(D, r, n.cur)
  BY <1>1, <1>2, <1>8, <1>11 DEF ReqInv
<1> QED
  BY <1>9, <1>10, <1>12 DEF r

LEMMA NextReqIs ==
    ASSUME DocMax \in Nat, NEW D, NEW x, NEW c \in Nat \union {-1},
           ReqInv(D, x, c)
    PROVE  LET r == Tree!NextReqOpt(x)
           IN  Reaches(D[1], c, c + 1, r) /\ ReqInv(D, r, Place(r.found))
<1>1. x.kids[1].cur = c /\ c + 1 \in Nat /\ c + 1 > c
  BY DEF ReqInv
<1>2. Tree!NextReqOpt(x) = Tree!AdvanceReqOpt(x, c + 1)
  BY <1>1 DEF Tree!NextReqOpt
<1> QED
  BY <1>1, <1>2, ReqMoves

LEMMA ScoreReqIs ==
    ASSUME DocMax \in Nat, NEW D, NEW x, NEW c \in Nat, c > 0,
           ReqInv(D, x, c)
    PROVE  ReqInv(D, Tree!ScoreReqOpt(x), c)
<1> DEFINE k == x.kids[2]
           n == Tree!Moved(k, c)
           m == Tree!AdvanceKid(x, 2, c)
           moves == ~x.gone /\ (x.first \/ k.cur < c)
           there == IF moves THEN n ELSE k
           r == Tree!ScoreReqOpt(x)
<1>1. /\ x \in ReqSet /\ x.kids \in [1..2 -> KidSet]
      /\ D[1] \in DocSets /\ D[2] \in DocSets
      /\ KidOf(D[1], x.kids[1]) /\ x.kids[1].cur = c
      /\ KidOf(D[2], k) /\ D \in [1..2 -> DocSets] /\ k \in KidSet
      /\ x.first => k.cur = 0
      /\ x.gone = (k.cur = -1)
      /\ Since(D[2], c, k.cur) /\ k.cur \in D[2] \union {0, -1}
  BY DEF ReqInv, ReqSet, KidOf
<1>2. (\A d \in D[2] : d \in 1..DocMax) /\ k.cur \in Int
  BY <1>1 DEF DocSets
<1>3. moves => /\ KidOf(D[2], n) /\ n \in KidSet /\ Finds(D[2], c, n.cur)
               /\ k.cur # -1
  <2> SUFFICES ASSUME moves
               PROVE  /\ KidOf(D[2], n) /\ n \in KidSet
                      /\ Finds(D[2], c, n.cur) /\ k.cur # -1
    OBVIOUS
  <2>1. k.cur # -1 /\ c > k.cur
    BY <1>1, <1>2
  <2> QED
    BY <1>1, <2>1, MovedIs
<1>4. /\ m = [x EXCEPT !.kids = [x.kids EXCEPT ![2] = n]]
      /\ moves => m.kids[2] = n
  BY <1>1 DEF Tree!AdvanceKid, ReqSet
<1> DEFINE y == IF moves THEN m ELSE x
<1>5. r = [y EXCEPT !.first = FALSE,
                    !.gone = y.gone \/ y.kids[2].cur = -1,
                    !.scores = IF y.kids[2].cur = c THEN {1, 2} ELSE {1}]
  BY <1>1, Zenon DEF Tree!ScoreReqOpt, Tree!At, Tree!Exhausted
<1> HIDE DEF n, r, moves, k
<1>6. y = [x EXCEPT !.kids = [x.kids EXCEPT ![2] = there]]
      /\ y.kids[2] = there
  BY <1>1, <1>4 DEF ReqSet, k
<1> HIDE DEF m, y
<1>7. /\ there \in KidSet /\ KidOf(D[2], there)
      /\ there.cur \in D[2] \union {0, -1}
  BY <1>1, <1>3 DEF KidOf
<1>8. y.gone = x.gone /\ (x.gone \/ there.cur = -1) = (there.cur = -1)
  <2>1. y.gone = x.gone
    BY <1>1, <1>6 DEF ReqSet
  <2>2. x.gone = (k.cur = -1) /\ x.gone \in BOOLEAN
    BY <1>1 DEF ReqSet
  <2>3. x.gone => there = k
    BY <2>2 DEF moves
  <2> QED
    BY <2>1, <2>2, <2>3
<1>9. Since(D[2], c, there.cur) /\ (there.cur = c <=> c \in D[2])
  <2>1. CASE moves
    BY <1>2, <1>3, <2>1 DEF Finds, Since
  <2>2. CASE ~moves
    <3>1. k.cur = -1 \/ (k.cur # -1 /\ ~x.first /\ k.cur >= c)
      BY <1>1, <1>2, <2>2 DEF moves, ReqSet
    <3> QED
      BY <1>1, <1>2, <2>2, <3>1 DEF Since
  <2> QED
    BY <2>1, <2>2
<1> HIDE DEF there
<1> DEFINE gone == there.cur = -1
           scores == IF there.cur = c THEN {1, 2} ELSE {1}
<1>10. r = [y EXCEPT !.first = FALSE, !.gone = gone, !.scores = scores]
  BY <1>5, <1>6, <1>8
<1>11. gone \in BOOLEAN /\ scores \in SUBSET {1, 2}
       /\ (2 \in scores <=> c \in D[2])
  BY <1>9
<1> HIDE DEF gone, scores
<1>12. r = [kids |-> [x.kids EXCEPT ![2] = there], first |-> FALSE,
            gone |-> gone, scores |-> scores, found |-> x.found]
  BY <1>1, <1>6, <1>10 DEF ReqSet
<1>13. /\ r \in ReqSet /\ r.kids[1] = x.kids[1] /\ r.kids[2] = there
       /\ r.first = FALSE /\ r.gone = gone /\ r.scores = scores
  BY <1>1, <1>7, <1>11, <1>12 DEF ReqSet
<1> QED
  BY <1>1, <1>7, <1>9, <1>11, <1>13 DEF ReqInv, gone, r

-----------------------------------------------------------------------------
(* ANDMatcher.                                                             *)

Common(n, D) == {d \in 1..DocMax : \A i \in 1..n : d \in D[i]}

\* The children over the documents D.
KidsOf(n, D, kids) ==
    kids \in [1..n -> KidSet] /\ \A i \in 1..n : KidOf(D[i], kids[i])

AndSet(n) == [kids : [1..n -> KidSet], first_time : BOOLEAN, found : Nat,
              more : BOOLEAN]

\* In a round that has begun at h, the first i children have been scooted up:
\* no document is passed that all have from t on.
Scooting(n, D, t, h, i) ==
    {s \in [m : AndSet(n), highest : 0..DocMax, target : Nat] :
        /\ KidsOf(n, D, s.m.kids) /\ ~s.m.first_time /\ s.target >= t
        /\ ~s.m.more => \A d \in Common(n, D) : d < t
        /\ s.m.more =>
            /\ \A j \in 1..n : s.m.kids[j].cur \in D[j]
            /\ \A d \in Common(n, D) : d >= t =>
                  /\ d >= s.highest /\ d >= s.target
                  /\ \A j \in 1..n : d >= s.m.kids[j].cur
            /\ s.highest >= h
            /\ i > 0 => s.highest >= s.target
            /\ \A j \in 1..i : /\ s.m.kids[j].cur >= h
                               /\ s.m.kids[j].cur <= s.highest}

LEMMA HigherIs ==
    \A a, b \in Int : Tree!Max({a, b}) = IF a >= b THEN a ELSE b
<1> SUFFICES ASSUME NEW a \in Int, NEW b \in Int
             PROVE  Tree!Max({a, b}) = IF a >= b THEN a ELSE b
  OBVIOUS
<1> DEFINE c == IF a >= b THEN a ELSE b
<1>1. c \in {a, b} /\ \A y \in {a, b} : c >= y
  OBVIOUS
<1>2. \A x \in {a, b} : (\A y \in {a, b} : x >= y) => x = c
  OBVIOUS
<1> HIDE DEF c
<1>3. Tree!Max({a, b}) \in {a, b} /\ \A y \in {a, b} : Tree!Max({a, b}) >= y
  BY <1>1, Zenon DEF Tree!Max
<1>4. Tree!Max({a, b}) = c
  BY <1>2, <1>3
<1> QED
  BY <1>4 DEF c

LEMMA ScootOneIs ==
    ASSUME DocMax \in Nat, NEW n \in Nat, NEW D \in [1..n -> DocSets],
           NEW t \in Nat, NEW h \in Nat, NEW i \in 1..n,
           NEW s \in Scooting(n, D, t, h, i - 1)
    PROVE  Tree!ScootOne(s, i) \in Scooting(n, D, t, h, i)
<1> DEFINE m == s.m
           k == m.kids[i]
           hi == IF s.highest >= k.cur THEN s.highest ELSE k.cur
           to == IF s.target >= hi THEN s.target ELSE hi
           moved == Tree!Moved(k, to)
           found == Tree!Answer(moved)
           r == Tree!ScootOne(s, i)
<1>1. /\ s \in [m : AndSet(n), highest : 0..DocMax, target : Nat]
      /\ m \in AndSet(n) /\ m.kids \in [1..n -> KidSet]
      /\ m.first_time = FALSE /\ m.found \in Nat /\ m.more \in BOOLEAN
      /\ s.highest \in 0..DocMax /\ s.target \in Nat
      /\ \A j \in 1..n : KidOf(D[j], m.kids[j])
      /\ k \in KidSet /\ k.cur \in Int /\ s.target >= t
  BY DEF Scooting, AndSet, KidsOf, KidSet
<1>2. /\ ~m.more => \A d \in Common(n, D) : d < t
      /\ m.more =>
            /\ \A j \in 1..n : m.kids[j].cur \in D[j]
            /\ \A d \in Common(n, D) : d >= t =>
                  /\ d >= s.highest /\ d >= s.target
                  /\ \A j \in 1..n : d >= m.kids[j].cur
            /\ s.highest >= h
            /\ \A j \in 1..(i - 1) : /\ m.kids[j].cur >= h
                                     /\ m.kids[j].cur <= s.highest
  BY DEF Scooting
<1>3. /\ \A j \in 1..n : \A d \in D[j] : d \in 1..DocMax
      /\ \A d \in Common(n, D) : d \in 1..DocMax /\ d \in D[i]
      /\ D[i] \in DocSets
  BY DEF DocSets, Common
<1>4. r = IF ~m.more THEN s
          ELSE IF k.cur >= to THEN [m |-> m, highest |-> hi, target |-> to]
          ELSE LET a == Tree!AdvanceKid(m, i, to)
               IN  [m |-> [a EXCEPT !.more = Tree!Answer(a.kids[i]) # 0],
                    highest |-> Tree!Answer(a.kids[i]), target |-> to]
  <2>1. s.highest \in Int /\ s.target \in Int /\ hi \in Int
    BY <1>1
  <2> HIDE DEF hi, to, k
  <2>2. Tree!Max({s.highest, k.cur}) = hi
    BY <1>1, <2>1, HigherIs, Zenon DEF hi
  <2>3. Tree!Max({s.target, hi}) = to
    BY <2>1, HigherIs, Zenon DEF to
  <2> QED
    BY <2>2, <2>3, Zenon DEF Tree!ScootOne, Tree!At, k
<1> HIDE DEF r
<1>5. CASE ~m.more
  <2>1. r = s
    BY <1>4, <1>5
  <2> QED
    BY <1>1, <1>2, <1>5, <2>1 DEF Scooting, KidsOf, r
<1>6. CASE m.more /\ k.cur >= to
  <2>1. r = [m |-> m, highest |-> hi, target |-> to]
    BY <1>4, <1>6
  <2>2. k.cur \in 1..DocMax /\ k.cur = hi /\ hi = to /\ to >= s.target
        /\ k.cur >= s.highest
    BY <1>1, <1>2, <1>3, <1>6
  <2>3. r \in [m : AndSet(n), highest : 0..DocMax, target : Nat]
    BY <1>1, <2>1, <2>2
  <2>4. r.m = m /\ r.highest = k.cur /\ r.target = k.cur
    BY <2>1, <2>2
  <2> HIDE DEF hi, to
  <2>5. \A j \in 1..n : m.kids[j].cur \in Int
    BY <1>2, <1>3, <1>6
  <2>6. \A j \in 1..i : m.kids[j].cur >= h /\ m.kids[j].cur <= k.cur
    <3>1. ASSUME NEW j \in 1..(i - 1)
          PROVE  m.kids[j].cur >= h /\ m.kids[j].cur <= k.cur
      <4>1. j \in 1..n /\ m.kids[j].cur >= h /\ m.kids[j].cur <= s.highest
        BY <1>2, <1>6
      <4> HIDE DEF k
      <4> QED
        BY <1>1, <2>2, <2>5, <4>1
    <3>2. k.cur >= h
      BY <1>1, <1>2, <1>6, <2>2
    <3>3. \A j \in 1..i : j \in 1..(i - 1) \/ j = i
      OBVIOUS
    <3> QED
      BY <2>2, <3>1, <3>2, <3>3
  <2>7. \A d \in Common(n, D) : d >= t =>
            d >= k.cur /\ \A j \in 1..n : d >= m.kids[j].cur
    BY <1>2, <1>6
  <2>8. k.cur >= h /\ k.cur >= t
    BY <1>1, <1>2, <1>6, <2>2
  <2> HIDE DEF m, k
  <2> QED
    BY <1>1, <1>2, <1>6, <2>2, <2>3, <2>4, <2>6, <2>7, <2>8
       DEF Scooting, KidsOf, r
<1>7. CASE m.more /\ ~(k.cur >= to)
  <2> DEFINE kids == [m.kids EXCEPT ![i] = moved]
             a == Tree!AdvanceKid(m, i, to)
             more == found # 0
  <2>1. /\ k.cur \in 1..DocMax /\ k.cur # -1 /\ to > k.cur /\ to \in Nat
        /\ to >= s.target /\ to >= s.highest /\ k.cur < to
    BY <1>1, <1>2, <1>3, <1>7
  <2>2. /\ KidOf(D[i], moved) /\ moved \in KidSet
        /\ Finds(D[i], to, moved.cur)
        /\ found = IF moved.cur = -1 THEN 0 ELSE moved.cur
    <3> HIDE DEF to
    <3> QED
      BY <1>1, <1>3, <2>1, MovedIs
  <2>3. a = [m EXCEPT !.kids = kids] /\ kids \in [1..n -> KidSet]
        /\ kids[i] = moved /\ \A j \in 1..n : j # i => kids[j] = m.kids[j]
    BY <1>1, <2>2 DEF Tree!AdvanceKid, AndSet
  <2>4. a.kids[i] = moved
    BY <1>1, <2>3 DEF AndSet
  <2>5. r = [m |-> [a EXCEPT !.more = more], highest |-> found, target |-> to]
    BY <1>4, <1>7, <2>4
  <2> HIDE DEF moved, a, kids, found, more
  <2>6. a \in AndSet(n) /\ a.kids = kids /\ a.first_time = FALSE
    <3>1. m \in AndSet(n) /\ m.first_time = FALSE
      BY <1>1
    <3> HIDE DEF m, k
    <3> QED
      BY <2>3, <3>1 DEF AndSet
  <2>7. more \in BOOLEAN /\ found \in 0..DocMax
    BY <1>3, <2>2 DEF Finds, more
  <2> DEFINE rm == [a EXCEPT !.more = more]
  <2>8. /\ rm \in AndSet(n) /\ rm.kids = kids /\ rm.first_time = FALSE
        /\ rm.more = more
    BY <2>6, <2>7 DEF AndSet
  <2> HIDE DEF to
  <2>9. /\ r \in [m : AndSet(n), highest : 0..DocMax, target : Nat]
        /\ r.m = rm /\ r.highest = found /\ r.target = to
    <3>1. r = [m |-> rm, highest |-> found, target |-> to]
      BY <2>5
    <3> HIDE DEF rm
    <3> QED
      BY <2>1, <2>7, <2>8, <3>1
  <2>10. rm.kids = kids /\ rm.first_time = FALSE /\ rm.more = more
    BY <2>8
  <2> HIDE DEF rm
  <2>11. KidsOf(n, D, kids)
    BY <1>1, <2>2, <2>3 DEF KidsOf
  <2>12. \A d \in Common(n, D) : d >= t =>
             d >= to /\ \A j \in 1..n : d >= m.kids[j].cur
    BY <1>1, <1>2, <1>3, <1>7, <2>1 DEF to, hi
  <2>13. ASSUME ~more
         PROVE  \A d \in Common(n, D) : d < t
    <3>1. moved.cur = -1
      BY <1>3, <2>2, <2>13 DEF Finds, more
    <3>2. \A d \in D[i] : d < to
      BY <1>3, <2>1, <2>2, <3>1 DEF Finds
    <3> QED
      BY <1>3, <2>1, <2>12, <3>2
  <2>14. ASSUME more
         PROVE  /\ moved.cur = found /\ found \in D[i] /\ found >= to
                /\ \A d \in D[i] : d >= to => d >= found
    BY <1>3, <2>2, <2>14 DEF Finds, more
  <2>15. more =>
            /\ \A j \in 1..n : kids[j].cur \in D[j]
            /\ \A d \in Common(n, D) : d >= t =>
                  /\ d >= found /\ d >= to
                  /\ \A j \in 1..n : d >= kids[j].cur
            /\ found >= h
            /\ found >= to
            /\ \A j \in 1..i : kids[j].cur >= h /\ kids[j].cur <= found
    <3> SUFFICES ASSUME more
                 PROVE  /\ \A j \in 1..n : kids[j].cur \in D[j]
                        /\ \A d \in Common(n, D) : d >= t =>
                              /\ d >= found /\ d >= to
                              /\ \A j \in 1..n : d >= kids[j].cur
                        /\ found >= h
                        /\ found >= to
                        /\ \A j \in 1..i : /\ kids[j].cur >= h
                                           /\ kids[j].cur <= found
      OBVIOUS
    <3>1. \A j \in 1..n : kids[j].cur \in D[j]
      <4> HIDE DEF m, k
      <4> QED
        BY <1>2, <1>7, <2>3, <2>14
    <3>2. \A d \in Common(n, D) : d >= t =>
              /\ d >= found /\ d >= to
              /\ \A j \in 1..n : d >= kids[j].cur
      <4> HIDE DEF m, k
      <4> QED
        BY <1>3, <2>3, <2>12, <2>14
    <3>3. found >= h /\ found >= s.highest
      BY <1>1, <1>2, <1>7, <2>1, <2>7, <2>14
    <3>4. ASSUME NEW j \in 1..i
          PROVE  kids[j].cur >= h /\ kids[j].cur <= found
      <4>1. CASE j = i
        BY <2>3, <2>7, <2>14, <3>3, <4>1
      <4>2. CASE j # i
        <5>1. j \in 1..(i - 1) /\ j \in 1..n
          BY <4>2
        <5>2. kids[j] = m.kids[j] /\ m.kids[j].cur \in Int
          BY <1>2, <1>3, <1>7, <2>3, <4>2, <5>1
        <5>3. m.kids[j].cur >= h /\ m.kids[j].cur <= s.highest
          BY <1>2, <1>7, <5>1
        <5> HIDE DEF m
        <5> QED
          BY <1>1, <2>7, <3>3, <5>2, <5>3
      <4> QED
        BY <4>1, <4>2
    <3> QED
      BY <2>14, <3>1, <3>2, <3>3, <3>4
  <2>16. to >= t
    BY <1>1, <2>1
  <2> HIDE DEF m, k
  <2> QED
    BY <2>9, <2>10, <2>11, <2>13, <2>15, <2>16 DEF Scooting, r
<1> QED
  BY <1>5, <1>6, <1>7

LEMMA ScootedOn ==
    ASSUME DocMax \in Nat, NEW n \in Nat, NEW D \in [1..n -> DocSets],
           NEW t \in Nat, NEW h \in Nat,
           NEW start \in Scooting(n, D, t, h, 0)
    PROVE  (CHOOSE f : f = [k \in 0..n |->
                IF k = 0 THEN start ELSE Tree!ScootOne(f[k - 1], k)])[n]
               \in Scooting(n, D, t, h, n)
<1> DEFINE N == n
           T == [k \in 0..N |-> Scooting(n, D, t, h, k)]
           S == UNION {Scooting(n, D, t, h, k) : k \in 0..N}
           step == [k \in 1..N |-> [y \in S |-> Tree!ScootOne(y, k)]]
           F(f) == [k \in 0..N |-> IF k = 0 THEN start
                                   ELSE Tree!ScootOne(f[k - 1], k)]
           after == CHOOSE f : f = F(f)
<1>1. N \in Nat
  OBVIOUS
<1>2. start \in T[0]
  BY <1>1
<1> HIDE DEF N
<1>3. ASSUME NEW k \in 0..(N - 1), NEW y \in T[k]
      PROVE  Tree!ScootOne(y, k + 1) \in T[k + 1] /\ y \in S
  <2>1. k \in 0..N /\ k + 1 \in 0..N /\ k \in Nat
    BY <1>1
  <2>2. y \in Scooting(n, D, t, h, k)
    BY <1>3, <2>1
  <2>3. k + 1 \in 1..n /\ (k + 1) - 1 = k
    BY <1>1 DEF N
  <2> QED
    BY <1>1, <2>1, <2>2, <2>3, ScootOneIs DEF N
<1>4. Run(N, T, start, step)
  <2>1. Turns(N, T, step)
    <3>1. ASSUME NEW k \in 1..N, NEW y \in T[k - 1]
          PROVE  step[k][y] \in T[k]
      <4>1. k - 1 \in 0..(N - 1) /\ (k - 1) + 1 = k
        BY <1>1
      <4>2. Tree!ScootOne(y, k) \in T[k] /\ y \in S
        BY <1>3, <3>1, <4>1
      <4> HIDE DEF T, S
      <4> QED
        BY <4>2
    <3> HIDE DEF T, step
    <3> QED
      BY <3>1 DEF Turns
  <2> HIDE DEF T, step
  <2> QED
    BY <1>1, <1>2, <2>1, RunsOn, Zenon
<1> HIDE DEF T, S
<1>5. PICK g : /\ g = [j \in 0..N |-> g[j]] /\ g[0] = start
               /\ \A j \in 1..N : g[j - 1] \in T[j - 1]
                                  /\ g[j] = step[j][g[j - 1]]
  BY <1>4, Zenon DEF Run
<1>6. g = F(g)
  <2>1. ASSUME NEW j \in 0..N
        PROVE  g[j] = IF j = 0 THEN start ELSE Tree!ScootOne(g[j - 1], j)
    <3>1. CASE j = 0
      BY <1>5, <3>1
    <3>2. CASE j # 0
      <4>1. j \in 1..N /\ j - 1 \in 0..(N - 1)
        BY <1>1, <3>2
      <4>2. g[j - 1] \in S /\ g[j] = step[j][g[j - 1]]
        BY <1>3, <1>5, <4>1
      <4> QED
        BY <3>2, <4>2
    <3> QED
      BY <3>1, <3>2
  <2> HIDE DEF step
  <2> QED
    BY <1>5, <2>1
<1>7. after = F(after)
  <2>1. \E f : f = F(f)
    BY <1>6
  <2> QED
    BY <2>1, Zenon
<1> HIDE DEF after
<1>8. \A k \in 0..N : after[k] = IF k = 0 THEN start
                                 ELSE Tree!ScootOne(after[k - 1], k)
  BY <1>7
<1>9. after[N] \in T[N]
  <2> DEFINE U == {k \in 0..N : after[k] \in T[k]}
  <2>1. 0 \in U
    BY <1>1, <1>2, <1>8
  <2>2. ASSUME NEW k \in 0..(N - 1), k \in U
        PROVE  k + 1 \in U
    <3>1. k + 1 \in 0..N /\ k + 1 # 0 /\ (k + 1) - 1 = k
      BY <1>1
    <3>2. after[k + 1] = Tree!ScootOne(after[k], k + 1)
      BY <1>8, <3>1
    <3> QED
      BY <1>3, <2>2, <3>1, <3>2
  <2>3. \A k \in 0..N : k \in U
    <3> HIDE DEF U
    <3> QED
      BY <1>1, <2>1, <2>2, Upwards
  <2> QED
    BY <1>1, <2>3
<1> QED
  BY <1>1, <1>9 DEF T, N, after

LEMMA ScootAllIs ==
    ASSUME DocMax \in Nat, NEW n \in Nat, n > 0, NEW D \in [1..n -> DocSets],
           NEW t \in Nat, NEW h \in Nat, NEW s \in Scooting(n, D, t, h, 0)
    PROVE  Tree!ScootAll(s) \in Scooting(n, D, t, h, n)
<1>1. Len(s.m.kids) = n
  <2>1. s.m.kids \in [1..n -> KidSet]
    BY DEF Scooting, AndSet
  <2> QED
    BY <2>1
<1>2. Tree!ScootAll(s) = (CHOOSE f : f = [k \in 0..n |->
          IF k = 0 THEN s ELSE Tree!ScootOne(f[k - 1], k)])[n]
  BY <1>1, Zenon DEF Tree!ScootAll
<1> QED
  BY <1>2, ScootedOn

\* After k more rounds, the children agree or the highest is as far on.
Reconciling(n, D, t, k) ==
    {s \in Scooting(n, D, t, 0, n) :
        s.m.more => \/ \A i \in 1..n : s.m.kids[i].cur = s.highest
                    \/ s.highest > k}

Reconciled(s) ==
    IF ~s.m.more \/ (Tree!Agreed(s) /\ s.highest >= s.target) THEN s
    ELSE Tree!ScootAll(s)

LEMMA ReconciledIs ==
    ASSUME DocMax \in Nat, NEW n \in Nat, n > 0, NEW D \in [1..n -> DocSets],
           NEW t \in Nat, NEW k \in Nat, NEW s \in Reconciling(n, D, t, k)
    PROVE  Reconciled(s) \in Reconciling(n, D, t, k + 1)
<1>1. /\ s \in Scooting(n, D, t, 0, n)
      /\ s.m.more => \/ \A i \in 1..n : s.m.kids[i].cur = s.highest
                     \/ s.highest > k
  BY DEF Reconciling
<1>2. /\ s.m.kids \in [1..n -> KidSet] /\ s.highest \in Nat
      /\ DOMAIN s.m.kids = 1..n
  BY <1>1 DEF Scooting, AndSet
<1>3. Tree!Agreed(s) <=> \A i \in 1..n : s.m.kids[i].cur = s.highest
  BY <1>2 DEF Tree!Agreed, Tree!At
<1>4. s.m.more => s.highest >= s.target
  BY <1>1 DEF Scooting
<1>5. CASE ~s.m.more \/ \A i \in 1..n : s.m.kids[i].cur = s.highest
  <2>1. Reconciled(s) = s
    BY <1>3, <1>4, <1>5 DEF Reconciled
  <2> QED
    BY <1>1, <1>5, <2>1 DEF Reconciling
<1>6. CASE ~(~s.m.more \/ \A i \in 1..n : s.m.kids[i].cur = s.highest)
  <2> DEFINE r == Tree!ScootAll(s)
             h == s.highest
  <2>1. Reconciled(s) = r
    BY <1>3, <1>6 DEF Reconciled
  <2>2. s \in Scooting(n, D, t, h, 0)
    <3>1. s.highest >= s.highest
      BY <1>2
    <3> QED
      BY <1>1, <3>1 DEF Scooting
  <2>3. r \in Scooting(n, D, t, h, n)
    BY <1>2, <2>2, ScootAllIs
  <2> HIDE DEF r
  <2>4. /\ r.highest \in 0..DocMax /\ KidsOf(n, D, r.m.kids)
        /\ r.m.more => /\ r.highest >= h
                       /\ \A j \in 1..n : /\ r.m.kids[j].cur >= h
                                          /\ r.m.kids[j].cur <= r.highest
    BY <2>3 DEF Scooting
  <2>5. \A j \in 1..n : r.m.kids[j].cur \in Int
    BY <2>4 DEF KidsOf, KidSet
  <2>6. r \in Scooting(n, D, t, 0, n)
    <3>1. h >= 0 /\ r.m.more => r.highest >= 0
      BY <1>2, <2>4
    <3>2. r.m.more => \A j \in 1..n : r.m.kids[j].cur >= 0
      BY <1>2, <2>4, <2>5
    <3> HIDE DEF h
    <3> QED
      BY <2>3, <2>4, <3>1, <3>2 DEF Scooting
  <2>7. r.m.more => \/ \A j \in 1..n : r.m.kids[j].cur = r.highest
                    \/ r.highest > k + 1
    <3>1. CASE r.highest = h
      BY <1>2, <2>4, <2>5, <3>1
    <3>2. CASE r.highest # h
      BY <1>1, <1>2, <1>6, <2>4, <3>2
    <3> QED
      BY <3>1, <3>2
  <2> QED
    BY <2>1, <2>6, <2>7 DEF Reconciling
<1> QED
  BY <1>5, <1>6

LEMMA ReconciledOn ==
    ASSUME DocMax \in Nat, NEW n \in Nat, n > 0, NEW D \in [1..n -> DocSets],
           NEW t \in Nat,
           NEW start \in Reconciling(n, D, t, 0)
    PROVE  (CHOOSE f : f = [k \in 0..DocMax |->
                IF k = 0 THEN start ELSE Reconciled(f[k - 1])])[DocMax]
               \in Reconciling(n, D, t, DocMax)
<1> DEFINE N == DocMax
           T == [k \in 0..N |-> Reconciling(n, D, t, k)]
           S == UNION {Reconciling(n, D, t, k) : k \in 0..N}
           step == [k \in 1..N |-> [y \in S |-> Reconciled(y)]]
           F(f) == [k \in 0..N |-> IF k = 0 THEN start
                                   ELSE Reconciled(f[k - 1])]
           after == CHOOSE f : f = F(f)
<1>1. N \in Nat
  OBVIOUS
<1>2. start \in T[0]
  BY <1>1
<1> HIDE DEF N
<1>3. ASSUME NEW k \in 0..(N - 1), NEW y \in T[k]
      PROVE  Reconciled(y) \in T[k + 1] /\ y \in S
  <2>1. k \in 0..N /\ k + 1 \in 0..N /\ k \in Nat
    BY <1>1
  <2>2. y \in Reconciling(n, D, t, k)
    BY <1>3, <2>1
  <2> QED
    BY <1>1, <2>1, <2>2, ReconciledIs DEF N
<1>4. Run(N, T, start, step)
  <2>1. Turns(N, T, step)
    <3>1. ASSUME NEW k \in 1..N, NEW y \in T[k - 1]
          PROVE  step[k][y] \in T[k]
      <4>1. k - 1 \in 0..(N - 1) /\ (k - 1) + 1 = k
        BY <1>1
      <4>2. Reconciled(y) \in T[k] /\ y \in S
        BY <1>3, <3>1, <4>1
      <4> HIDE DEF T, S
      <4> QED
        BY <4>2
    <3> HIDE DEF T, step
    <3> QED
      BY <3>1 DEF Turns
  <2> HIDE DEF T, step
  <2> QED
    BY <1>1, <1>2, <2>1, RunsOn, Zenon
<1> HIDE DEF T, S
<1>5. PICK g : /\ g = [j \in 0..N |-> g[j]] /\ g[0] = start
               /\ \A j \in 1..N : g[j - 1] \in T[j - 1]
                                  /\ g[j] = step[j][g[j - 1]]
  BY <1>4, Zenon DEF Run
<1>6. g = F(g)
  <2>1. ASSUME NEW j \in 0..N
        PROVE  g[j] = IF j = 0 THEN start ELSE Reconciled(g[j - 1])
    <3>1. CASE j = 0
      BY <1>5, <3>1
    <3>2. CASE j # 0
      <4>1. j \in 1..N /\ j - 1 \in 0..(N - 1)
        BY <1>1, <3>2
      <4>2. g[j - 1] \in S /\ g[j] = step[j][g[j - 1]]
        BY <1>3, <1>5, <4>1
      <4> QED
        BY <3>2, <4>2
    <3> QED
      BY <3>1, <3>2
  <2> HIDE DEF step
  <2> QED
    BY <1>5, <2>1
<1>7. after = F(after)
  <2>1. \E f : f = F(f)
    BY <1>6
  <2> QED
    BY <2>1, Zenon
<1> HIDE DEF after
<1>8. \A k \in 0..N : after[k] = IF k = 0 THEN start
                                 ELSE Reconciled(after[k - 1])
  BY <1>7
<1>9. after[N] \in T[N]
  <2> DEFINE U == {k \in 0..N : after[k] \in T[k]}
  <2>1. 0 \in U
    BY <1>1, <1>2, <1>8
  <2>2. ASSUME NEW k \in 0..(N - 1), k \in U
        PROVE  k + 1 \in U
    <3>1. k + 1 \in 0..N /\ k + 1 # 0 /\ (k + 1) - 1 = k
      BY <1>1
    <3>2. after[k + 1] = Reconciled(after[k])
      BY <1>8, <3>1
    <3> QED
      BY <1>3, <2>2, <3>1, <3>2
  <2>3. \A k \in 0..N : k \in U
    <3> HIDE DEF U
    <3> QED
      BY <1>1, <2>1, <2>2, Upwards
  <2> QED
    BY <1>1, <2>3
<1> QED
  BY <1>1, <1>9 DEF T, N, after

AndOK(n, D, x) ==
    /\ x \in AndSet(n) /\ D \in [1..n -> DocSets] /\ KidsOf(n, D, x.kids)

\* The children are at the document, or each at its first.
AndInv(n, D, x, c) ==
    /\ AndOK(n, D, x)
    /\ x.more /\ x.first_time =>
           c = 0 /\ \A i \in 1..n : Finds(D[i], 1, x.kids[i].cur)
    /\ x.more => \A i \in 1..n : x.kids[i].cur \in D[i]
    /\ x.more /\ ~x.first_time => c > 0 /\ \A i \in 1..n : x.kids[i].cur = c
    /\ ~x.more => c = -1 \/ (c = 0 /\ Common(n, D) = {})

LEMMA ReconcileIs ==
    ASSUME DocMax \in Nat, NEW n \in Nat, n > 0, NEW D \in [1..n -> DocSets],
           NEW t \in Nat, NEW s \in Scooting(n, D, t, 0, 0), t > 0
    PROVE  LET r == Tree!Reconcile(s)
           IN  /\ Finds(Common(n, D), t, Place(r.found))
               /\ AndInv(n, D, r, Place(r.found))
<1> DEFINE start == Tree!ScootAll(s)
           last == (CHOOSE f : f = [k \in 0..DocMax |->
                       IF k = 0 THEN start ELSE Reconciled(f[k - 1])])[DocMax]
           found == IF last.m.more THEN last.highest ELSE 0
           r == Tree!Reconcile(s)
<1>1. r = [last.m EXCEPT !.found = found]
  BY Zenon DEF Tree!Reconcile, Tree!Repeat, Reconciled
<1>2. start \in Reconciling(n, D, t, 0)
  <2>1. start \in Scooting(n, D, t, 0, n)
    BY ScootAllIs
  <2> HIDE DEF start
  <2>2. start.m.more => start.highest > 0
    <3> SUFFICES ASSUME start.m.more
                 PROVE  start.highest > 0
      OBVIOUS
    <3>1. 1 \in 1..n /\ D[1] \in DocSets
      OBVIOUS
    <3>2. /\ start.m.kids[1].cur \in D[1] /\ start.highest \in 0..DocMax
          /\ start.m.kids[1].cur <= start.highest
      BY <2>1, <3>1 DEF Scooting
    <3>3. start.m.kids[1].cur \in 1..DocMax
      BY <3>1, <3>2 DEF DocSets
    <3> QED
      BY <3>2, <3>3
  <2> QED
    BY <2>1, <2>2 DEF Reconciling
<1> HIDE DEF start
<1>3. last \in Reconciling(n, D, t, DocMax)
  BY <1>2, ReconciledOn
<1> HIDE DEF last, r
<1> DEFINE m == last.m
<1>4. /\ m \in AndSet(n) /\ last.highest \in 0..DocMax /\ last.target \in Nat
      /\ KidsOf(n, D, m.kids) /\ ~m.first_time /\ last.target >= t
      /\ ~m.more => \A d \in Common(n, D) : d < t
      /\ m.more =>
            /\ \A j \in 1..n : m.kids[j].cur \in D[j]
            /\ \A d \in Common(n, D) : d >= t => d >= last.highest
            /\ last.highest >= last.target
            /\ \/ \A i \in 1..n : m.kids[i].cur = last.highest
               \/ last.highest > DocMax
  BY <1>3 DEF Reconciling, Scooting
<1> HIDE DEF m
<1>5. r = [m EXCEPT !.found = found] /\ found \in Nat
  BY <1>1, <1>4 DEF m
<1> HIDE DEF found
<1>6. /\ r \in AndSet(n) /\ r.kids = m.kids /\ r.first_time = m.first_time
      /\ r.more = m.more /\ r.found = found
  BY <1>4, <1>5 DEF AndSet
<1>7. CASE m.more
  <2>1. found = last.highest /\ \A i \in 1..n : m.kids[i].cur = found
    BY <1>4, <1>7 DEF found, m
  <2>2. found > 0 /\ Place(found) = found /\ found >= t
    BY <1>4, <1>7, <2>1 DEF Place
  <2>3. found \in Common(n, D)
    BY <1>4, <1>7, <2>1, <2>2 DEF Common
  <2>4. Finds(Common(n, D), t, found)
    BY <1>4, <1>7, <2>1, <2>2, <2>3 DEF Finds
  <2>5. AndInv(n, D, r, found)
    BY <1>4, <1>6, <1>7, <2>1, <2>2 DEF AndInv, AndOK
  <2> QED
    BY <1>6, <2>2, <2>4, <2>5 DEF r
<1>8. CASE ~m.more
  <2>1. found = 0 /\ Place(found) = -1
    BY <1>8 DEF found, m, Place
  <2>2. Finds(Common(n, D), t, -1)
    BY <1>4, <1>8 DEF Finds
  <2>3. AndInv(n, D, r, -1)
    BY <1>4, <1>6, <1>8 DEF AndInv, AndOK
  <2> QED
    BY <1>6, <2>1, <2>2, <2>3 DEF r
<1> QED
  BY <1>7, <1>8

LEMMA AndEnds ==
    ASSUME DocMax \in Nat, NEW n \in Nat, n > 0, NEW D, NEW x,
           NEW c \in Nat \union {-1}, AndInv(n, D, x, c), ~x.more, NEW t \in Nat
    PROVE  LET r == [x EXCEPT !.found = 0]
           IN  /\ Reaches(Common(n, D), c, t, r)
               /\ AndInv(n, D, r, Place(r.found))
<1> DEFINE r == [x EXCEPT !.found = 0]
<1>1. /\ x \in AndSet(n) /\ D \in [1..n -> DocSets] /\ KidsOf(n, D, x.kids)
      /\ c = -1 \/ Common(n, D) = {}
  BY DEF AndInv, AndOK
<1>2. r \in AndSet(n) /\ r.kids = x.kids /\ r.more = x.more /\ r.found = 0
  BY <1>1 DEF AndSet
<1> HIDE DEF r
<1>3. AndInv(n, D, r, -1)
  BY <1>1, <1>2 DEF AndInv, AndOK
<1>4. Place(r.found) = -1
  BY <1>2 DEF Place
<1>5. Reaches(Common(n, D), c, t, r)
  BY <1>1, <1>4 DEF Reaches, Finds
<1> QED
  BY <1>3, <1>4, <1>5 DEF r

LEMMA AdvanceAndIs ==
    ASSUME DocMax \in Nat, NEW n \in Nat, n > 0, NEW D, NEW x,
           NEW c \in Nat, AndInv(n, D, x, c), NEW t \in Nat, t > c
    PROVE  LET r == Tree!AdvanceAND(x, t)
           IN  /\ Reaches(Common(n, D), c, t, r)
               /\ AndInv(n, D, r, Place(r.found))
<1> DEFINE C == Common(n, D)
           r == Tree!AdvanceAND(x, t)
           first == [x EXCEPT !.first_time = FALSE]
           k == x.kids[1]
           moved == Tree!Moved(k, t)
           m == Tree!AdvanceKid(x, 1, t)
           found == Tree!Answer(moved)
<1>1. /\ x \in AndSet(n) /\ x.kids \in [1..n -> KidSet] /\ 1 \in 1..n
      /\ D \in [1..n -> DocSets] /\ KidsOf(n, D, x.kids)
      /\ D[1] \in DocSets /\ KidOf(D[1], k) /\ x.more \in BOOLEAN
      /\ x.first_time \in BOOLEAN
  BY DEF AndInv, AndOK, KidsOf, AndSet
<1>2. /\ x.more /\ x.first_time =>
             c = 0 /\ \A i \in 1..n : Finds(D[i], 1, x.kids[i].cur)
      /\ x.more => \A i \in 1..n : x.kids[i].cur \in D[i]
      /\ x.more /\ ~x.first_time => c > 0 /\ \A i \in 1..n : x.kids[i].cur = c
  BY DEF AndInv
<1>3. /\ \A i \in 1..n : \A d \in D[i] : d \in 1..DocMax
      /\ \A d \in C : d \in 1..DocMax /\ \A i \in 1..n : d \in D[i]
  BY <1>1 DEF DocSets, Common
<1>4. CASE ~x.more
  <2>1. r = [x EXCEPT !.found = 0]
    BY <1>4, Zenon DEF Tree!AdvanceAND
  <2> DEFINE e == [x EXCEPT !.found = 0]
  <2>2. c \in Nat \union {-1}
    OBVIOUS
  <2>3. Reaches(C, c, t, e) /\ AndInv(n, D, e, Place(e.found))
    BY <1>4, <2>2, AndEnds
  <2> HIDE DEF r, C, e
  <2>4. r = e
    BY <2>1 DEF e
  <2> QED
    BY <2>3, <2>4 DEF r, C
<1>5. CASE x.more /\ x.first_time
  <2> DEFINE s == [m |-> first, highest |-> 0, target |-> t]
  <2>1. r = Tree!Reconcile(s)
    BY <1>5, Zenon DEF Tree!AdvanceAND
  <2>2. first \in AndSet(n) /\ first.first_time = FALSE
        /\ first.kids = x.kids /\ first.more = x.more
    BY <1>1 DEF AndSet
  <2> HIDE DEF first
  <2>3. /\ s \in [m : AndSet(n), highest : 0..DocMax, target : Nat]
        /\ s.m = first /\ s.highest = 0 /\ s.target = t
    BY <2>2
  <2>4. \A j \in 1..n : x.kids[j].cur \in D[j]
    BY <1>2, <1>5
  <2>5. \A d \in C : d >= t =>
            d >= 0 /\ \A j \in 1..n : d >= x.kids[j].cur
    BY <1>2, <1>3, <1>5, <2>4 DEF Finds
  <2> HIDE DEF s, C
  <2>6. s \in Scooting(n, D, t, 0, 0)
    <3>1. /\ KidsOf(n, D, s.m.kids) /\ ~s.m.first_time /\ s.target >= t
          /\ s.m.more /\ s.highest >= 0
      <4>1. KidsOf(n, D, s.m.kids) /\ ~s.m.first_time /\ s.m.more
        BY <1>1, <1>5, <2>2, <2>3, Zenon
      <4>2. s.target >= t /\ s.highest >= 0
        BY <2>3
      <4> QED
        BY <4>1, <4>2
    <3>2. \A j \in 1..n : s.m.kids[j].cur \in D[j]
      BY <2>2, <2>3, <2>4
    <3>3. \A d \in C : d >= t =>
              /\ d >= s.highest /\ d >= s.target
              /\ \A j \in 1..n : d >= s.m.kids[j].cur
      BY <2>2, <2>3, <2>5
    <3>4. \A j \in 1..0 : FALSE
      OBVIOUS
    <3> QED
      BY <2>3, <3>1, <3>2, <3>3, <3>4 DEF Scooting, C
  <2>7. Finds(C, t, Place(r.found)) /\ AndInv(n, D, r, Place(r.found))
    <3>1. t > 0
      OBVIOUS
    <3> HIDE DEF r, C
    <3> QED
      BY <1>1, <2>1, <2>6, <3>1, ReconcileIs, Zenon DEF C
  <2> HIDE DEF r, C
  <2> QED
    BY <2>7 DEF Reaches, r, C
<1>6. CASE x.more /\ ~x.first_time
  <2> DEFINE kids == [x.kids EXCEPT ![1] = moved]
             s == [m |-> m, highest |-> found, target |-> t]
  <2>1. c # -1 /\ k.cur = c /\ t > k.cur /\ \A i \in 1..n : x.kids[i].cur = c
    BY <1>1, <1>2, <1>6
  <2>2. /\ KidOf(D[1], moved) /\ moved \in KidSet /\ Finds(D[1], t, moved.cur)
        /\ found = IF moved.cur = -1 THEN 0 ELSE moved.cur
    BY <1>1, <2>1, MovedIs
  <2>3. m = [x EXCEPT !.kids = kids] /\ kids \in [1..n -> KidSet]
        /\ kids[1] = moved /\ \A j \in 1..n : j # 1 => kids[j] = x.kids[j]
    BY <1>1, <2>2 DEF Tree!AdvanceKid, AndSet
  <2> HIDE DEF moved, m, kids
  <2>4. /\ m \in AndSet(n) /\ m.kids = kids /\ m.first_time = FALSE
        /\ m.more = TRUE
    BY <1>1, <1>6, <2>3 DEF AndSet
  <2>5. m.kids[1] = moved
    BY <2>3, <2>4
  <2>6. KidsOf(n, D, kids)
    BY <1>1, <2>2, <2>3 DEF KidsOf
  <2>7. r = IF found = 0 THEN [m EXCEPT !.more = FALSE, !.found = 0]
            ELSE Tree!Reconcile(s)
    BY <1>6, <2>5, Zenon DEF Tree!AdvanceAND, m, found
  <2> HIDE DEF found, r
  <2>8. CASE found = 0
    <3>1. r = [m EXCEPT !.more = FALSE, !.found = 0]
      BY <2>7, <2>8
    <3>2. r \in AndSet(n) /\ r.kids = kids /\ r.more = FALSE /\ r.found = 0
      BY <2>4, <3>1 DEF AndSet
    <3>3. AndInv(n, D, r, -1)
      BY <1>1, <2>6, <3>2 DEF AndInv, AndOK
    <3>4. moved.cur = -1
      BY <1>1, <1>3, <2>2, <2>8 DEF Finds
    <3>5. \A d \in C : d < t
      BY <1>1, <1>3, <2>2, <3>4 DEF Finds
    <3>6. Place(r.found) = -1
      BY <3>2 DEF Place
    <3> HIDE DEF C
    <3> QED
      BY <3>3, <3>5, <3>6 DEF Reaches, Finds, r, C
  <2>9. CASE found # 0
    <3>1. moved.cur = found /\ found \in D[1] /\ found >= t
          /\ \A d \in D[1] : d >= t => d >= found
      BY <1>1, <1>3, <2>2, <2>9 DEF Finds
    <3>2. found \in 0..DocMax
      BY <1>1, <1>3, <3>1
    <3>3. /\ s \in [m : AndSet(n), highest : 0..DocMax, target : Nat]
          /\ s.m = m /\ s.highest = found /\ s.target = t
      BY <2>4, <3>2
    <3> HIDE DEF s
    <3>4. \A j \in 1..n : kids[j].cur \in D[j]
      BY <1>2, <1>6, <2>3, <3>1
    <3>5. \A d \in C : d >= t =>
              d >= found /\ \A j \in 1..n : d >= kids[j].cur
      BY <1>1, <1>3, <2>1, <2>3, <3>1
    <3>6. s \in Scooting(n, D, t, 0, 0)
      BY <2>4, <2>6, <3>2, <3>3, <3>4, <3>5 DEF Scooting
    <3>7. t > 0 /\ r = Tree!Reconcile(s)
      BY <2>7, <2>9
    <3> HIDE DEF C
    <3>8. Finds(C, t, Place(r.found)) /\ AndInv(n, D, r, Place(r.found))
      BY <1>1, <3>6, <3>7, ReconcileIs, Zenon DEF C
    <3> QED
      BY <3>8 DEF Reaches, r, C
  <2> QED
    BY <2>8, <2>9
<1> QED
  BY <1>4, <1>5, <1>6

LEMMA NextAndIs ==
    ASSUME DocMax \in Nat, NEW n \in Nat, n > 0, NEW D, NEW x,
           NEW c \in Nat \union {-1}, AndInv(n, D, x, c)
    PROVE  LET r == Tree!NextAND(x)
           IN  /\ Reaches(Common(n, D), c, c + 1, r)
               /\ AndInv(n, D, r, Place(r.found))
<1>1. CASE ~x.more
  <2>1. Tree!NextAND(x) = [x EXCEPT !.found = 0]
    BY <1>1, Zenon DEF Tree!NextAND, Tree!AdvanceAND
  <2> DEFINE e == [x EXCEPT !.found = 0]
  <2>2. c + 1 \in Nat
    OBVIOUS
  <2>3. Reaches(Common(n, D), c, c + 1, e) /\ AndInv(n, D, e, Place(e.found))
    BY <1>1, <2>2, AndEnds
  <2> HIDE DEF e
  <2>4. Tree!NextAND(x) = e
    BY <2>1 DEF e
  <2> QED
    BY <2>3, <2>4
<1>2. CASE x.more
  <2>1. /\ c \in Nat /\ 1 \in 1..n
        /\ x.first_time => c = 0
        /\ ~x.first_time => x.kids[1].cur = c
    BY <1>2 DEF AndInv
  <2>2. Tree!NextAND(x) = Tree!AdvanceAND(x, c + 1)
    <3>1. x.first_time => c + 1 = 1
      BY <2>1
    <3> QED
      BY <1>2, <2>1, <3>1, Zenon DEF Tree!NextAND, Tree!At
  <2>3. c + 1 \in Nat /\ c + 1 > c
    OBVIOUS
  <2> QED
    BY <2>1, <2>2, <2>3, AdvanceAndIs, Zenon
<1> QED
  BY <1>1, <1>2

LEMMA NewAndIs ==
    ASSUME DocMax \in Nat, NEW n \in Nat, n > 0, NEW D \in [1..n -> DocSets]
    PROVE  AndInv(n, D, Tree!NewAND(D), 0)
<1> DEFINE kids == [i \in 1..n |-> Tree!Moved(Tree!NewKid(D[i]), 1)]
           more == \A i \in 1..n : Tree!Answer(kids[i]) # 0
           x == Tree!NewAND(D)
<1>1. ASSUME NEW i \in 1..n
      PROVE  /\ kids[i] \in KidSet /\ KidOf(D[i], kids[i])
             /\ Finds(D[i], 1, kids[i].cur)
             /\ Tree!Answer(kids[i]) = 0 <=> kids[i].cur = -1
  <2> DEFINE k == Tree!NewKid(D[i])
             m == Tree!Moved(k, 1)
  <2>1. D[i] \in DocSets /\ KidOf(D[i], k) /\ k.cur = 0
    BY DEF Tree!NewKid, KidOf, KidSet
  <2> HIDE DEF k
  <2>2. k.cur # -1 /\ 1 > k.cur /\ 1 \in Int
    BY <2>1
  <2>3. /\ KidOf(D[i], m) /\ m \in KidSet /\ Finds(D[i], 1, m.cur)
        /\ Tree!Answer(m) = IF m.cur = -1 THEN 0 ELSE m.cur
    BY <2>1, <2>2, MovedIs
  <2> HIDE DEF m
  <2>4. kids[i] = m
    BY DEF k, m
  <2>5. Tree!Answer(m) = 0 <=> m.cur = -1
    BY <2>1, <2>3 DEF Finds, DocSets
  <2> HIDE DEF kids
  <2> QED
    BY <2>3, <2>4, <2>5
<1>2. kids \in [1..n -> KidSet] /\ KidsOf(n, D, kids)
  <2> HIDE DEF kids
  <2>1. kids = [i \in 1..n |-> kids[i]]
    BY DEF kids
  <2> QED
    BY <1>1, <2>1 DEF KidsOf
<1>3. DOMAIN D = 1..n /\ DOMAIN kids = 1..n /\ kids # <<>>
  <2>1. 1 \in DOMAIN kids
    OBVIOUS
  <2> QED
    BY <2>1
<1>4. x = [kids |-> kids, first_time |-> TRUE, found |-> 0,
           more |-> kids # <<>> /\ more]
  BY <1>3, Zenon DEF Tree!NewAND
<1>5. (kids # <<>> /\ more) = more /\ more \in BOOLEAN
  <2> HIDE DEF kids
  <2> QED
    BY <1>3
<1> HIDE DEF kids, x, more
<1>6. x = [kids |-> kids, first_time |-> TRUE, found |-> 0, more |-> more]
  BY <1>4, <1>5, Zenon
<1>7. /\ x \in AndSet(n) /\ x.kids = kids /\ x.first_time = TRUE
      /\ x.more = more
  BY <1>2, <1>5, <1>6 DEF AndSet
<1>8. more => \A i \in 1..n : kids[i].cur \in D[i]
  BY <1>1 DEF Finds, more
<1>9. ~more => Common(n, D) = {}
  <2> SUFFICES ASSUME ~more
               PROVE  Common(n, D) = {}
    OBVIOUS
  <2>1. PICK i \in 1..n : Tree!Answer(kids[i]) = 0
    BY DEF more
  <2>2. \A d \in D[i] : d < 1
    BY <1>1, <2>1 DEF Finds, DocSets
  <2> QED
    BY <2>2 DEF Common, DocSets
<1>10. AndOK(n, D, x)
  BY <1>2, <1>7 DEF AndOK
<1> QED
  BY <1>1, <1>7, <1>8, <1>9, <1>10 DEF AndInv, x

-----------------------------------------------------------------------------
(* ORMatcher and ORScorer: the heap.                                       *)

AtDoc(i, doc) == [kid |-> i, doc |-> doc]

LiveKids(n, kids) == {i \in 1..n : kids[i].cur # -1}

\* The heap has each child that is not exhausted, at its document.
Heaped(n, D, kids, h) ==
    /\ D \in [1..n -> DocSets] /\ KidsOf(n, D, kids)
    /\ h \in Seq(Tree!Entries) /\ Heap(h, Tree!LessDoc) /\ Distinct(h)
    /\ Queue!ToSet(h) = {AtDoc(i, kids[i].cur) : i \in LiveKids(n, kids)}

\* Those that have not got to t.
Behind(n, kids, t) == {i \in LiveKids(n, kids) : kids[i].cur < t}

SinceAll(n, D, t, kids) == \A i \in 1..n : Since(D[i], t, kids[i].cur)

LEMMA DocOrder ==
    /\ \A a, b \in Tree!Entries : Lt(Tree!LessDoc, a, b) = (a.doc < b.doc)
    /\ Weak(Tree!Entries, Tree!LessDoc)
<1>1. ASSUME NEW a \in Tree!Entries, NEW b \in Tree!Entries
      PROVE  Lt(Tree!LessDoc, a, b) = (a.doc < b.doc)
  <2>1. <<a, b>> \in Tree!Entries \X Tree!Entries
    OBVIOUS
  <2>2. Tree!LessDoc[<<a, b>>] = (<<a, b>>[1].doc < <<a, b>>[2].doc)
    BY <2>1, Zenon DEF Tree!LessDoc
  <2>3. Lt(Tree!LessDoc, a, b) = Tree!LessDoc[<<a, b>>]
    BY Zenon DEF Lt
  <2>4. <<a, b>>[1] = a /\ <<a, b>>[2] = b
    OBVIOUS
  <2> QED
    BY <2>2, <2>3, <2>4, Zenon
<1>2. \A a \in Tree!Entries : a.doc \in Nat
  BY DEF Tree!Entries
<1>3. ASSUME NEW a \in Tree!Entries, NEW b \in Tree!Entries
      PROVE  (a.doc < b.doc) \in BOOLEAN
  BY <1>2
<1>4. \A a, b \in Tree!Entries : Lt(Tree!LessDoc, a, b) \in BOOLEAN
  BY <1>1, <1>3, Zenon
<1>5. \A a, b \in Tree!Entries : Lt(Tree!LessDoc, a, b) <=> a.doc < b.doc
  BY <1>1, Zenon
<1>6. Weak(Tree!Entries, Tree!LessDoc)
  BY <1>2, <1>4, <1>5 DEF Weak
<1> QED
  BY <1>1, <1>6

LEMMA KidFacts ==
    ASSUME DocMax \in Nat, NEW n \in Nat, NEW D \in [1..n -> DocSets],
           NEW kids, KidsOf(n, D, kids), NEW i \in 1..n
    PROVE  /\ kids[i] \in KidSet /\ KidOf(D[i], kids[i]) /\ D[i] \in DocSets
           /\ kids[i].cur \in D[i] \union {0, -1}
           /\ kids[i].cur \in (0..DocMax) \union {-1}
           /\ \A d \in D[i] : d \in 1..DocMax
  BY DEF KidsOf, KidOf, DocSets

LEMMA EntryIs ==
    \A i, d : AtDoc(i, d).kid = i /\ AtDoc(i, d).doc = d
  BY DEF AtDoc

LEMMA TopIs ==
    ASSUME DocMax \in Nat, NEW n \in Nat, NEW D, NEW kids, NEW h,
           Heaped(n, D, kids, h)
    PROVE  /\ h = <<>> <=> \A i \in 1..n : kids[i].cur = -1
           /\ h # <<>> =>
                  /\ h[1].kid \in LiveKids(n, kids)
                  /\ h[1] = AtDoc(h[1].kid, kids[h[1].kid].cur)
                  /\ h[1].doc = kids[h[1].kid].cur /\ h[1].doc \in 0..DocMax
                  /\ \A i \in LiveKids(n, kids) : kids[i].cur >= h[1].doc
<1>1. /\ D \in [1..n -> DocSets] /\ KidsOf(n, D, kids)
      /\ h \in Seq(Tree!Entries) /\ Heap(h, Tree!LessDoc)
      /\ Queue!ToSet(h) = {AtDoc(i, kids[i].cur) : i \in LiveKids(n, kids)}
  BY DEF Heaped
<1>2. DOMAIN h = 1..Len(h) /\ Len(h) \in Nat
      /\ Queue!ToSet(h) = {h[j] : j \in 1..Len(h)}
  BY <1>1 DEF Queue!ToSet
<1>3. /\ h = <<>> <=> Len(h) = 0
      /\ h = <<>> <=> Queue!ToSet(h) = {}
  <2>1. h \in Seq(Tree!Entries)
    BY <1>1
  <2>2. h = <<>> <=> Len(h) = 0
    BY <2>1
  <2>3. Queue!ToSet(h) = {} <=> Len(h) = 0
    <3>1. Len(h) = 0 => 1..Len(h) = {}
      OBVIOUS
    <3>2. Len(h) # 0 => 1 \in 1..Len(h)
      BY <1>2
    <3>3. Len(h) # 0 => h[1] \in Queue!ToSet(h)
      BY <1>2, <3>2
    <3>4. Len(h) = 0 => Queue!ToSet(h) = {}
      BY <1>2, <3>1
    <3> QED
      BY <3>3, <3>4
  <2> QED
    BY <2>2, <2>3
<1>4. Queue!ToSet(h) = {} <=> LiveKids(n, kids) = {}
  BY <1>1
<1>5. h = <<>> <=> \A i \in 1..n : kids[i].cur = -1
  BY <1>3, <1>4 DEF LiveKids
<1>6. ASSUME h # <<>>
      PROVE  /\ h[1].kid \in LiveKids(n, kids)
             /\ h[1] = AtDoc(h[1].kid, kids[h[1].kid].cur)
             /\ h[1].doc = kids[h[1].kid].cur /\ h[1].doc \in 0..DocMax
             /\ \A i \in LiveKids(n, kids) : kids[i].cur >= h[1].doc
  <2>1. 1 \in 1..Len(h) /\ h[1] \in Queue!ToSet(h)
    BY <1>2, <1>3, <1>6
  <2>2. PICK i \in LiveKids(n, kids) : h[1] = AtDoc(i, kids[i].cur)
    BY <1>1, <2>1
  <2>3. h[1].kid = i /\ h[1].doc = kids[i].cur
    BY <2>2, EntryIs
  <2>4. i \in 1..n /\ kids[i].cur # -1
    BY DEF LiveKids
  <2>5. kids[i].cur \in 0..DocMax
    BY <1>1, <2>4, KidFacts
  <2>6. ASSUME NEW j \in LiveKids(n, kids)
        PROVE  kids[j].cur >= h[1].doc
    <3>1. AtDoc(j, kids[j].cur) \in Queue!ToSet(h)
      BY <1>1
    <3>2. PICK k \in 1..Len(h) : h[k] = AtDoc(j, kids[j].cur)
      BY <1>2, <3>1
    <3>3. ~Lt(Tree!LessDoc, h[k], h[1])
      BY <1>1, DocOrder, RootIsLeast
    <3>4. h[k] \in Tree!Entries /\ h[1] \in Tree!Entries
      BY <1>1, <2>1
    <3>5. ~(h[k].doc < h[1].doc)
      BY <3>3, <3>4, DocOrder, Zenon
    <3>6. h[k].doc = kids[j].cur
      BY <3>2, EntryIs
    <3>7. j \in 1..n /\ kids[j].cur # -1
      BY DEF LiveKids
    <3>8. kids[j].cur \in 0..DocMax
      BY <1>1, <3>7, KidFacts
    <3> QED
      BY <2>3, <2>5, <3>5, <3>6, <3>8
  <2> QED
    BY <2>2, <2>3, <2>5, <2>6
<1> QED
  BY <1>5, <1>6

LEMMA SameHeaps ==
    \A h, less : /\ Tree!S_down_heap(h, less) = Queue!S_down_heap(h, less)
                 /\ Tree!S_up_heap(h, less) = Queue!S_up_heap(h, less)
                 /\ Tree!Pop(h, less) = Queue!Pop(h, less)
<1>1. \A h, less : Tree!S_down_heap(h, less) = Queue!S_down_heap(h, less)
  BY Zenon DEF Tree!S_down_heap, Queue!S_down_heap, Tree!LesserChild,
     Queue!LesserChild, Tree!Max, Queue!Max, Tree!Ancestry, Queue!Ancestry
<1>2. \A h, less : Tree!S_up_heap(h, less) = Queue!S_up_heap(h, less)
  BY Zenon DEF Tree!S_up_heap, Queue!S_up_heap, Tree!Last, Queue!Last,
     Tree!Max, Queue!Max, Tree!Ancestry, Queue!Ancestry
<1>3. \A h, less : Tree!Pop(h, less) = Queue!Pop(h, less)
  BY <1>1, Zenon DEF Tree!Pop, Queue!Pop, Tree!Last, Queue!Last
<1> QED
  BY <1>1, <1>2, <1>3

\* Only the first element is replaced, and it goes.
LEMMA PopHeedless ==
    ASSUME NEW E, NEW h \in Seq(E), h # <<>>, NEW e \in E, NEW less
    PROVE  Queue!Pop([h EXCEPT ![1] = e], less) = Queue!Pop(h, less)
<1> DEFINE g == [h EXCEPT ![1] = e]
           n == Len(h)
           a(f) == [i \in 1..(Len(f) - 1) |->
                       IF i = 1 THEN Queue!Last(f) ELSE f[i]]
<1>1. g \in Seq(E) /\ Len(g) = n /\ n \in Nat /\ n > 0
      /\ \A i \in 2..n : g[i] = h[i]
  OBVIOUS
<1>2. Queue!Last(g) = g[n] /\ Queue!Last(h) = h[n]
  BY <1>1 DEF Queue!Last
<1> HIDE DEF g
<1>3. a(g) = a(h)
  <2>1. ASSUME NEW i \in 1..(n - 1)
        PROVE  (IF i = 1 THEN Queue!Last(g) ELSE g[i])
                   = (IF i = 1 THEN Queue!Last(h) ELSE h[i])
    <3>1. n \in 2..n /\ (i # 1 => i \in 2..n)
      BY <1>1
    <3> QED
      BY <1>1, <1>2, <3>1
  <2> QED
    BY <1>1, <2>1
<1>4. Queue!Pop(g, less) = Queue!S_down_heap(a(g), less)
  BY Zenon DEF Queue!Pop
<1>5. Queue!Pop(h, less) = Queue!S_down_heap(a(h), less)
  BY Zenon DEF Queue!Pop
<1> HIDE DEF a
<1> QED
  BY <1>3, <1>4, <1>5 DEF g

LEMMA RootGives ==
    ASSUME NEW h \in Seq(Tree!Entries), Heap(h, Tree!LessDoc), Distinct(h),
           h # <<>>, NEW e \in Tree!Entries, e \notin Queue!ToSet(h),
           NEW g, g = Queue!S_down_heap([h EXCEPT ![1] = e], Tree!LessDoc)
    PROVE  /\ g \in Seq(Tree!Entries)
           /\ Queue!ToSet(g) = (Queue!ToSet(h) \ {h[1]}) \union {e}
           /\ Heap(g, Tree!LessDoc) /\ Distinct(g)
<1> DEFINE E == Tree!Entries
           less == Tree!LessDoc
<1>1. Weak(E, less)
  BY DocOrder
<1> HIDE DEF E, less
<1>2. h \in Seq(E) /\ e \in E /\ Heap(h, less)
  BY DEF E, less
<1>3. LET r == Queue!S_down_heap([h EXCEPT ![1] = e], less)
      IN  /\ r \in Seq(E) /\ Len(r) = Len(h)
          /\ Queue!ToSet(r) = (Queue!ToSet(h) \ {h[1]}) \union {e}
          /\ Heap(r, less) /\ Distinct(r)
  BY <1>1, <1>2, ReplaceRootIs
<1> QED
  BY <1>3 DEF E, less

\* The top child is moved on, and the heap follows.
TopMoved(kids, h, t) ==
    [kids EXCEPT ![h[1].kid] = Tree!Moved(kids[h[1].kid], t)]

Resettled(kids, h, t) ==
    Tree!S_adjust_root(
        [h EXCEPT ![1].doc = Tree!Answer(TopMoved(kids, h, t)[h[1].kid])])

\* A turn of the top child: it is behind no more.
TurnGives(n, D, kids, h, t, top, K, H) ==
    /\ top \in Behind(n, kids, t) /\ kids[top].cur = h[1].doc
    /\ Heaped(n, D, K, H) /\ SinceAll(n, D, t, K)
    /\ K[top].cur = -1 \/ K[top].cur >= t
    /\ Finds(D[top], t, K[top].cur)
    /\ \A i \in 1..n : i # top => K[i] = kids[i]
    /\ Behind(n, K, t) = Behind(n, kids, t) \ {top}

LEMMA TurnIs ==
    ASSUME DocMax \in Nat, NEW n \in Nat, NEW D, NEW kids, NEW h,
           Heaped(n, D, kids, h), h # <<>>, NEW t \in Nat, h[1].doc < t,
           SinceAll(n, D, t, kids)
    PROVE  TurnGives(n, D, kids, h, t, h[1].kid, TopMoved(kids, h, t),
                     Resettled(kids, h, t))
<1> DEFINE top == h[1].kid
           moved == Tree!Moved(kids[top], t)
           K == [kids EXCEPT ![top] = moved]
           d == Tree!Answer(moved)
           e == AtDoc(top, d)
           H == Tree!S_adjust_root([h EXCEPT ![1].doc = Tree!Answer(K[top])])
<1>0. K = TopMoved(kids, h, t) /\ H = Resettled(kids, h, t)
  BY DEF TopMoved, Resettled
<1>1. /\ D \in [1..n -> DocSets] /\ KidsOf(n, D, kids)
      /\ kids \in [1..n -> KidSet]
      /\ h \in Seq(Tree!Entries) /\ Heap(h, Tree!LessDoc) /\ Distinct(h)
      /\ Queue!ToSet(h) = {AtDoc(i, kids[i].cur) : i \in LiveKids(n, kids)}
  BY DEF Heaped, KidsOf
<1>2. /\ top \in LiveKids(n, kids) /\ h[1] = AtDoc(top, kids[top].cur)
      /\ h[1].doc = kids[top].cur /\ h[1].doc \in 0..DocMax
  BY TopIs
<1>3. top \in 1..n /\ kids[top].cur # -1
  BY <1>2 DEF LiveKids
<1>4. /\ KidOf(D[top], kids[top]) /\ D[top] \in DocSets
      /\ \A x \in D[top] : x \in 1..DocMax
  BY <1>1, <1>3, KidFacts
<1>5. t > kids[top].cur /\ t > 0
  BY <1>2
<1>6. /\ KidOf(D[top], moved) /\ moved \in KidSet /\ Finds(D[top], t, moved.cur)
      /\ d = IF moved.cur = -1 THEN 0 ELSE moved.cur
  BY <1>3, <1>4, <1>5, MovedIs
<1> HIDE DEF top, moved, d
<1>7. K \in [1..n -> KidSet] /\ K[top] = moved
      /\ \A i \in 1..n : i # top => K[i] = kids[i]
  BY <1>1, <1>3, <1>6
<1> HIDE DEF K
<1>8. KidsOf(n, D, K)
  BY <1>1, <1>6, <1>7 DEF KidsOf
<1>9. moved.cur = -1 \/ (moved.cur \in 1..DocMax /\ moved.cur >= t)
  BY <1>4, <1>6 DEF Finds
<1>10. d \in Nat /\ (d = 0 <=> moved.cur = -1) /\ (d # 0 => d = moved.cur)
  BY <1>6, <1>9
<1>11. Since(D[top], t, moved.cur)
  BY <1>4, <1>6 DEF Finds, Since
<1>12. SinceAll(n, D, t, K)
  BY <1>7, <1>11 DEF SinceAll
<1>13. top \in Behind(n, kids, t)
  BY <1>2, <1>5 DEF Behind
<1>14. Behind(n, K, t) = Behind(n, kids, t) \ {top}
  <2>1. top \notin Behind(n, K, t)
    BY <1>7, <1>9 DEF Behind, LiveKids
  <2>2. ASSUME NEW i \in 1..n, i # top
        PROVE  i \in Behind(n, K, t) <=> i \in Behind(n, kids, t)
    BY <1>7, <2>2 DEF Behind, LiveKids
  <2>3. Behind(n, K, t) \subseteq 1..n /\ Behind(n, kids, t) \subseteq 1..n
    BY DEF Behind, LiveKids
  <2> QED
    BY <2>1, <2>2, <2>3
<1>15. e \in Tree!Entries /\ e.doc = d /\ h[1] \in Tree!Entries
       /\ DOMAIN h = 1..Len(h) /\ 1 \in 1..Len(h) /\ Len(h) \in Nat
  <2>1. top \in Nat /\ kids[top].cur \in Nat
    BY <1>2, <1>3
  <2> QED
    BY <1>1, <1>2, <1>10, <2>1 DEF AtDoc, Tree!Entries
<1>16. [h EXCEPT ![1].doc = Tree!Answer(K[top])] = [h EXCEPT ![1] = e]
  <2>1. [h EXCEPT ![1].doc = d] = [h EXCEPT ![1] = [h[1] EXCEPT !.doc = d]]
    OBVIOUS
  <2>2. [h[1] EXCEPT !.doc = d] = e
    BY <1>2 DEF AtDoc
  <2> QED
    BY <1>7, <2>1, <2>2 DEF d
<1> DEFINE g == [h EXCEPT ![1] = e]
<1>17. g[1] = e /\ g \in Seq(Tree!Entries) /\ Head(g) = e
  <2>1. g \in Seq(Tree!Entries) /\ g[1] = e
    BY <1>1, <1>15
  <2>2. Head(g) = g[1]
    BY <2>1
  <2> QED
    BY <2>1, <2>2
<1>18. H = IF d # 0 THEN Queue!S_down_heap(g, Tree!LessDoc)
           ELSE Queue!Pop(g, Tree!LessDoc)
  <2>1. H = Tree!S_adjust_root(g)
    BY <1>16
  <2> HIDE DEF g
  <2> QED
    BY <1>15, <1>17, <2>1, SameHeaps, Zenon DEF Tree!S_adjust_root
<1>19. \A i \in LiveKids(n, kids) :
           AtDoc(i, kids[i].cur) = h[1] <=> i = top
  BY <1>2, EntryIs
<1>20. /\ H \in Seq(Tree!Entries) /\ Heap(H, Tree!LessDoc) /\ Distinct(H)
       /\ Queue!ToSet(H) = {AtDoc(i, K[i].cur) : i \in LiveKids(n, K)}
  <2> DEFINE Rest == {AtDoc(i, kids[i].cur) : i \in LiveKids(n, kids) \ {top}}
  <2>1. Queue!ToSet(h) \ {h[1]} = Rest
    BY <1>1, <1>19
  <2>2. \A i \in 1..n : i # top =>
            (i \in LiveKids(n, kids) <=> i \in LiveKids(n, K))
    BY <1>7 DEF LiveKids
  <2>3. LiveKids(n, K) \subseteq 1..n /\ LiveKids(n, kids) \subseteq 1..n
        /\ (top \in LiveKids(n, K) <=> d # 0)
    BY <1>3, <1>7, <1>10 DEF LiveKids
  <2>4. LiveKids(n, kids) \ {top} = LiveKids(n, K) \ {top}
    BY <2>2, <2>3
  <2>5. Rest = {AtDoc(i, K[i].cur) : i \in LiveKids(n, K) \ {top}}
    <3>1. \A i \in LiveKids(n, K) \ {top} : K[i] = kids[i]
      BY <1>7, <2>3
    <3> QED
      BY <2>4, <3>1
  <2>6. CASE d # 0
    <3>1. e \notin Queue!ToSet(h)
      <4> SUFFICES ASSUME e \in Queue!ToSet(h)
                   PROVE  FALSE
        OBVIOUS
      <4>1. PICK i \in LiveKids(n, kids) : e = AtDoc(i, kids[i].cur)
        BY <1>1
      <4>2. i = top /\ d = kids[i].cur
        BY <4>1, EntryIs
      <4> QED
        BY <1>5, <1>9, <1>10, <2>6, <4>2
    <3>2. H = Queue!S_down_heap(g, Tree!LessDoc)
      BY <1>18, <2>6
    <3>3. /\ H \in Seq(Tree!Entries)
          /\ Queue!ToSet(H) = (Queue!ToSet(h) \ {h[1]}) \union {e}
          /\ Heap(H, Tree!LessDoc) /\ Distinct(H)
      <4> HIDE DEF H, e
      <4>1. /\ h \in Seq(Tree!Entries) /\ Heap(h, Tree!LessDoc) /\ Distinct(h)
            /\ e \in Tree!Entries
        BY <1>1, <1>15
      <4> QED
        BY <3>1, <3>2, <4>1, RootGives
    <3>4. e = AtDoc(top, K[top].cur) /\ top \in LiveKids(n, K)
      BY <1>7, <1>10, <2>3, <2>6
    <3>5. {AtDoc(i, K[i].cur) : i \in LiveKids(n, K)}
              = {AtDoc(i, K[i].cur) : i \in LiveKids(n, K) \ {top}}
                    \union {AtDoc(top, K[top].cur)}
      BY <3>4
    <3> HIDE DEF Rest, H, e
    <3> QED
      BY <2>1, <2>5, <3>3, <3>4, <3>5
  <2>7. CASE d = 0
    <3>1. H = Queue!Pop(h, Tree!LessDoc)
      <4>1. H = Queue!Pop(g, Tree!LessDoc)
        BY <1>18, <2>7
      <4> HIDE DEF H, e
      <4> QED
        BY <1>1, <1>15, <4>1, PopHeedless
    <3>2. /\ H \in Seq(Tree!Entries)
          /\ Queue!ToSet(H) = Queue!ToSet(h) \ {h[1]}
          /\ Heap(H, Tree!LessDoc) /\ Distinct(H)
      <4> HIDE DEF H
      <4> QED
        BY <1>1, <3>1, DocOrder, PopIs
    <3>3. LiveKids(n, K) \ {top} = LiveKids(n, K)
      BY <2>3, <2>7
    <3> HIDE DEF Rest, H
    <3> QED
      BY <2>1, <2>5, <3>2, <3>3
  <2> QED
    BY <2>6, <2>7
<1> HIDE DEF H
<1>21. Heaped(n, D, K, H)
  BY <1>1, <1>8, <1>20 DEF Heaped
<1>22. TurnGives(n, D, kids, h, t, top, K, H)
  BY <1>2, <1>6, <1>7, <1>9, <1>12, <1>13, <1>14, <1>21 DEF TurnGives
<1> QED
  BY <1>0, <1>22 DEF top

-----------------------------------------------------------------------------
(* ORMatcher and ORScorer: the loops.                                      *)

OrSet(n) == [kids : [1..n -> KidSet], found : Nat, heap : Seq(Tree!Entries)]

ScorerSet(n) == [kids : [1..n -> KidSet], found : Nat,
                 heap : Seq(Tree!Entries), doc_id : Nat, scores : SUBSET (1..n)]

\* The same matcher but for its children and the heap.
Alike(n, x, y) ==
    \/ x \in OrSet(n) /\ y \in OrSet(n)
    \/ /\ x \in ScorerSet(n) /\ y \in ScorerSet(n)
       /\ y.doc_id = x.doc_id /\ y.scores = x.scores

LEMMA TopSets ==
    ASSUME NEW n \in Nat, NEW x \in OrSet(n) \union ScorerSet(n), NEW t \in Nat,
           TopMoved(x.kids, x.heap, t) \in [1..n -> KidSet],
           Resettled(x.kids, x.heap, t) \in Seq(Tree!Entries)
    PROVE  LET r == Tree!SI_top_advance(x, t)
           IN  /\ r.kids = TopMoved(x.kids, x.heap, t)
               /\ r.heap = Resettled(x.kids, x.heap, t) /\ Alike(n, x, r)
<1> DEFINE K == TopMoved(x.kids, x.heap, t)
           H == Resettled(x.kids, x.heap, t)
           top == x.heap[1].kid
           r == Tree!SI_top_advance(x, t)
           y == [x EXCEPT !.kids = K]
<1>1. K \in [1..n -> KidSet] /\ H \in Seq(Tree!Entries)
  OBVIOUS
<1>2. Tree!AdvanceKid(x, top, t) = y
  BY DEF Tree!AdvanceKid, TopMoved
<1>3. r = [y EXCEPT !.heap = Tree!S_adjust_root(
                                  [y.heap EXCEPT ![1].doc =
                                       Tree!Answer(y.kids[top])])]
  BY <1>2, Zenon DEF Tree!SI_top_advance
<1>4. H = Tree!S_adjust_root([x.heap EXCEPT ![1].doc = Tree!Answer(K[top])])
  BY Zenon DEF Resettled
<1> HIDE DEF K, H, top, r
<1>5. CASE x \in OrSet(n)
  <2>1. y \in OrSet(n) /\ y.kids = K /\ y.heap = x.heap
    BY <1>1, <1>5 DEF OrSet
  <2> HIDE DEF y
  <2>2. r = [y EXCEPT !.heap = H]
    BY <1>3, <1>4, <2>1
  <2>3. r \in OrSet(n) /\ r.kids = K /\ r.heap = H
    BY <1>1, <2>1, <2>2 DEF OrSet
  <2> QED
    BY <1>5, <2>3 DEF Alike, r, K, H
<1>6. CASE x \in ScorerSet(n)
  <2>1. /\ y \in ScorerSet(n) /\ y.kids = K /\ y.heap = x.heap
        /\ y.doc_id = x.doc_id /\ y.scores = x.scores
    BY <1>1, <1>6 DEF ScorerSet
  <2> HIDE DEF y
  <2>2. r = [y EXCEPT !.heap = H]
    BY <1>3, <1>4, <2>1
  <2>3. /\ r \in ScorerSet(n) /\ r.kids = K /\ r.heap = H
        /\ r.doc_id = y.doc_id /\ r.scores = y.scores
    BY <1>1, <2>1, <2>2 DEF ScorerSet
  <2> QED
    BY <1>6, <2>1, <2>3 DEF Alike, r, K, H
<1> QED
  BY <1>5, <1>6

LEMMA BehindCount ==
    ASSUME NEW n \in Nat, NEW kids, NEW t
    PROVE  /\ IsFiniteSet(Behind(n, kids, t))
           /\ Cardinality(Behind(n, kids, t)) \in Nat
           /\ Cardinality(Behind(n, kids, t)) <= n
           /\ Cardinality(Behind(n, kids, t)) = 0 <=> Behind(n, kids, t) = {}
<1>1. Behind(n, kids, t) \subseteq 1..n
  BY DEF Behind, LiveKids
<1>2. IsFiniteSet(1..n) /\ Cardinality(1..n) = n
  BY FS_Interval
<1>3. /\ IsFiniteSet(Behind(n, kids, t))
      /\ Cardinality(Behind(n, kids, t)) <= n
  BY <1>1, <1>2, FS_Subset
<1> QED
  BY <1>3, FS_CardinalityType, FS_EmptySet

LEMMA TopMoves ==
    ASSUME DocMax \in Nat, NEW n \in Nat, NEW D,
           NEW x \in OrSet(n) \union ScorerSet(n),
           Heaped(n, D, x.kids, x.heap), x.heap # <<>>, NEW t \in Nat,
           x.heap[1].doc < t, SinceAll(n, D, t, x.kids)
    PROVE  LET r == Tree!SI_top_advance(x, t)
           IN  /\ Alike(n, x, r)
               /\ TurnGives(n, D, x.kids, x.heap, t, x.heap[1].kid,
                            r.kids, r.heap)
               /\ Cardinality(Behind(n, r.kids, t))
                      = Cardinality(Behind(n, x.kids, t)) - 1
<1> DEFINE kids == x.kids
           h == x.heap
           top == h[1].kid
           K == TopMoved(kids, h, t)
           H == Resettled(kids, h, t)
           r == Tree!SI_top_advance(x, t)
<1>1. TurnGives(n, D, kids, h, t, top, K, H)
  BY TurnIs
<1> HIDE DEF K, H, r
<1>2. K \in [1..n -> KidSet] /\ H \in Seq(Tree!Entries)
  BY <1>1 DEF TurnGives, Heaped, KidsOf
<1>3. r.kids = K /\ r.heap = H /\ Alike(n, x, r)
  BY <1>2, TopSets DEF K, H, r
<1>4. Cardinality(Behind(n, K, t)) = Cardinality(Behind(n, kids, t)) - 1
  <2>1. /\ top \in Behind(n, kids, t)
        /\ Behind(n, K, t) = Behind(n, kids, t) \ {top}
    BY <1>1 DEF TurnGives
  <2> DEFINE B == Behind(n, kids, t)
  <2>2. IsFiniteSet(B) /\ top \in B
    BY <2>1, BehindCount
  <2> HIDE DEF B, top
  <2>3. Cardinality(B \ {top}) = Cardinality(B) - 1
    BY <2>2, FS_RemoveElement
  <2> QED
    BY <2>1, <2>3 DEF B
<1> QED
  BY <1>1, <1>3, <1>4 DEF r

\* After k more turns, no more than n - k are behind.
Raising(n, D, t, x, k) ==
    {y \in OrSet(n) \union ScorerSet(n) :
        /\ Alike(n, x, y) /\ Heaped(n, D, y.kids, y.heap)
        /\ SinceAll(n, D, t, y.kids)
        /\ \/ y.heap = <<>> \/ y.heap[1].doc >= t
           \/ Cardinality(Behind(n, y.kids, t)) <= n - k}

Raised(t, y) ==
    IF y.heap = <<>> \/ Tree!TopDoc(y) >= t THEN y
    ELSE Tree!SI_top_advance(y, t)

LEMMA RaisedIs ==
    ASSUME DocMax \in Nat, NEW n \in Nat, NEW D, NEW t \in Nat, NEW x,
           NEW k \in Nat, NEW y \in Raising(n, D, t, x, k)
    PROVE  Raised(t, y) \in Raising(n, D, t, x, k + 1)
<1>1. /\ y \in OrSet(n) \union ScorerSet(n)
      /\ Alike(n, x, y) /\ Heaped(n, D, y.kids, y.heap)
      /\ SinceAll(n, D, t, y.kids)
      /\ \/ y.heap = <<>> \/ y.heap[1].doc >= t
         \/ Cardinality(Behind(n, y.kids, t)) <= n - k
  BY DEF Raising
<1>2. y.heap # <<>> => Tree!TopDoc(y) = y.heap[1].doc
  BY DEF Tree!TopDoc
<1>3. CASE y.heap = <<>> \/ y.heap[1].doc >= t
  BY <1>1, <1>2, <1>3 DEF Raising, Raised
<1>4. CASE ~(y.heap = <<>> \/ y.heap[1].doc >= t)
  <2> DEFINE r == Tree!SI_top_advance(y, t)
  <2>1. Raised(t, y) = r
    BY <1>2, <1>4 DEF Raised
  <2>2. y.heap[1].doc \in Nat
    <3>1. Heaped(n, D, y.kids, y.heap) /\ y.heap # <<>>
      BY <1>1, <1>4
    <3>2. y.heap[1].doc \in 0..DocMax
      BY <3>1, TopIs
    <3> QED
      BY <3>2
  <2>3. y.heap # <<>> /\ y.heap[1].doc < t
    BY <1>4, <2>2
  <2>4. /\ Alike(n, y, r)
        /\ TurnGives(n, D, y.kids, y.heap, t, y.heap[1].kid, r.kids, r.heap)
        /\ Cardinality(Behind(n, r.kids, t))
               = Cardinality(Behind(n, y.kids, t)) - 1
    <3>1. /\ Heaped(n, D, y.kids, y.heap) /\ SinceAll(n, D, t, y.kids)
          /\ y \in OrSet(n) \union ScorerSet(n)
      BY <1>1
    <3> QED
      BY <2>3, <3>1, TopMoves
  <2> HIDE DEF r
  <2>5. Heaped(n, D, r.kids, r.heap) /\ SinceAll(n, D, t, r.kids)
    BY <2>4 DEF TurnGives
  <2>6. Cardinality(Behind(n, r.kids, t)) <= n - (k + 1)
    BY <1>1, <1>4, <2>4, BehindCount
  <2>7. Alike(n, x, r) /\ r \in OrSet(n) \union ScorerSet(n)
    <3>1. \A z \in OrSet(n) : z \notin ScorerSet(n)
      BY DEF OrSet, ScorerSet
    <3> QED
      BY <1>1, <2>4, <3>1 DEF Alike
  <2> QED
    BY <2>1, <2>5, <2>6, <2>7 DEF Raising
<1> QED
  BY <1>3, <1>4

LEMMA RaisedOn ==
    ASSUME DocMax \in Nat, NEW n \in Nat, NEW D, NEW t \in Nat, NEW x,
           NEW start \in Raising(n, D, t, x, 0)
    PROVE  (CHOOSE f : f = [k \in 0..n |->
                IF k = 0 THEN start ELSE Raised(t, f[k - 1])])[n]
               \in Raising(n, D, t, x, n)
<1> DEFINE N == n
           T == [k \in 0..N |-> Raising(n, D, t, x, k)]
           S == UNION {Raising(n, D, t, x, k) : k \in 0..N}
           step == [k \in 1..N |-> [y \in S |-> Raised(t, y)]]
           F(f) == [k \in 0..N |-> IF k = 0 THEN start
                                   ELSE Raised(t, f[k - 1])]
           after == CHOOSE f : f = F(f)
<1>1. N \in Nat
  OBVIOUS
<1>2. start \in T[0]
  BY <1>1
<1> HIDE DEF N
<1>3. ASSUME NEW k \in 0..(N - 1), NEW y \in T[k]
      PROVE  Raised(t, y) \in T[k + 1] /\ y \in S
  <2>1. k \in 0..N /\ k + 1 \in 0..N /\ k \in Nat
    BY <1>1
  <2>2. y \in Raising(n, D, t, x, k)
    BY <1>3, <2>1
  <2> QED
    BY <1>1, <2>1, <2>2, RaisedIs DEF N
<1>4. Run(N, T, start, step)
  <2>1. Turns(N, T, step)
    <3>1. ASSUME NEW k \in 1..N, NEW y \in T[k - 1]
          PROVE  step[k][y] \in T[k]
      <4>1. k - 1 \in 0..(N - 1) /\ (k - 1) + 1 = k
        BY <1>1
      <4>2. Raised(t, y) \in T[k] /\ y \in S
        BY <1>3, <3>1, <4>1
      <4> HIDE DEF T, S
      <4> QED
        BY <4>2
    <3> HIDE DEF T, step
    <3> QED
      BY <3>1 DEF Turns
  <2> HIDE DEF T, step
  <2> QED
    BY <1>1, <1>2, <2>1, RunsOn, Zenon
<1> HIDE DEF T, S
<1>5. PICK g : /\ g = [j \in 0..N |-> g[j]] /\ g[0] = start
               /\ \A j \in 1..N : g[j - 1] \in T[j - 1]
                                  /\ g[j] = step[j][g[j - 1]]
  BY <1>4, Zenon DEF Run
<1>6. g = F(g)
  <2>1. ASSUME NEW j \in 0..N
        PROVE  g[j] = IF j = 0 THEN start ELSE Raised(t, g[j - 1])
    <3>1. CASE j = 0
      BY <1>5, <3>1
    <3>2. CASE j # 0
      <4>1. j \in 1..N /\ j - 1 \in 0..(N - 1)
        BY <1>1, <3>2
      <4>2. g[j - 1] \in S /\ g[j] = step[j][g[j - 1]]
        BY <1>3, <1>5, <4>1
      <4> QED
        BY <3>2, <4>2
    <3> QED
      BY <3>1, <3>2
  <2> HIDE DEF step
  <2> QED
    BY <1>5, <2>1
<1>7. after = F(after)
  <2>1. \E f : f = F(f)
    BY <1>6
  <2> QED
    BY <2>1, Zenon
<1> HIDE DEF after
<1>8. \A k \in 0..N : after[k] = IF k = 0 THEN start
                                 ELSE Raised(t, after[k - 1])
  BY <1>7
<1>9. after[N] \in T[N]
  <2> DEFINE U == {k \in 0..N : after[k] \in T[k]}
  <2>1. 0 \in U
    BY <1>1, <1>2, <1>8
  <2>2. ASSUME NEW k \in 0..(N - 1), k \in U
        PROVE  k + 1 \in U
    <3>1. k + 1 \in 0..N /\ k + 1 # 0 /\ (k + 1) - 1 = k
      BY <1>1
    <3>2. after[k + 1] = Raised(t, after[k])
      BY <1>8, <3>1
    <3> QED
      BY <1>3, <2>2, <3>1, <3>2
  <2>3. \A k \in 0..N : k \in U
    <3> HIDE DEF U
    <3> QED
      BY <1>1, <2>1, <2>2, Upwards
  <2> QED
    BY <1>1, <2>3
<1> QED
  BY <1>1, <1>9 DEF T, N, after

\* None is behind t any more.
Risen(n, D, t, y) ==
    /\ Heaped(n, D, y.kids, y.heap) /\ SinceAll(n, D, t, y.kids)
    /\ y.heap = <<>> \/ y.heap[1].doc >= t

LEMMA RaisingEnds ==
    ASSUME DocMax \in Nat, NEW n \in Nat, NEW D, NEW t \in Nat, NEW x,
           NEW y \in Raising(n, D, t, x, n)
    PROVE  Alike(n, x, y) /\ Risen(n, D, t, y)
<1>1. /\ Alike(n, x, y) /\ Heaped(n, D, y.kids, y.heap)
      /\ SinceAll(n, D, t, y.kids)
      /\ \/ y.heap = <<>> \/ y.heap[1].doc >= t
         \/ Cardinality(Behind(n, y.kids, t)) <= n - n
  BY DEF Raising
<1>2. ASSUME y.heap # <<>>, ~(y.heap[1].doc >= t)
      PROVE  FALSE
  <2> DEFINE top == y.heap[1].kid
  <2>1. /\ top \in LiveKids(n, y.kids) /\ y.heap[1].doc = y.kids[top].cur
        /\ y.heap[1].doc \in 0..DocMax
    BY <1>1, <1>2, TopIs
  <2> HIDE DEF top
  <2>2. top \in Behind(n, y.kids, t)
    BY <1>2, <2>1 DEF Behind
  <2>3. Cardinality(Behind(n, y.kids, t)) = 0
    BY <1>1, <1>2, BehindCount
  <2> QED
    BY <2>2, <2>3, BehindCount
<1> QED
  BY <1>1, <1>2 DEF Risen

LEMMA SinceLater ==
    ASSUME DocMax \in Nat, NEW n \in Nat, NEW D, NEW kids, KidsOf(n, D, kids),
           D \in [1..n -> DocSets], NEW t \in Nat, SinceAll(n, D, t, kids),
           NEW u \in Nat, t <= u
    PROVE  SinceAll(n, D, u, kids)
<1> SUFFICES ASSUME NEW i \in 1..n
             PROVE  Since(D[i], u, kids[i].cur)
  BY DEF SinceAll
<1>1. Since(D[i], t, kids[i].cur)
  BY DEF SinceAll
<1>2. \A d \in D[i] : d \in 1..DocMax
  BY KidFacts
<1> QED
  BY <1>1, <1>2 DEF Since

\* A loop that raises the top to t may begin anywhere.
LEMMA RaisingBegins ==
    ASSUME NEW n \in Nat, NEW D, NEW t,
           NEW x \in OrSet(n) \union ScorerSet(n),
           NEW y \in OrSet(n) \union ScorerSet(n), Alike(n, x, y),
           Heaped(n, D, y.kids, y.heap), SinceAll(n, D, t, y.kids)
    PROVE  y \in Raising(n, D, t, x, 0)
<1>1. /\ Cardinality(Behind(n, y.kids, t)) \in Nat
      /\ Cardinality(Behind(n, y.kids, t)) <= n
  BY BehindCount
<1> QED
  BY <1>1 DEF Raising

LEMMA AlikeIs ==
    ASSUME NEW n \in Nat, NEW x, NEW y, Alike(n, x, y)
    PROVE  /\ x \in OrSet(n) => y \in OrSet(n)
           /\ x \in ScorerSet(n) => /\ y \in ScorerSet(n)
                                    /\ y.doc_id = x.doc_id
                                    /\ y.scores = x.scores
           /\ x \in OrSet(n) \union ScorerSet(n)
           /\ y \in OrSet(n) \union ScorerSet(n)
<1>1. \A z \in OrSet(n) : z \notin ScorerSet(n)
  BY DEF OrSet, ScorerSet
<1> QED
  BY <1>1 DEF Alike

\* A turn of NextPast.
Passed(last, y) ==
    IF y.heap = <<>> \/ Tree!TopDoc(y) # last THEN y ELSE Tree!SI_top_next(y)

NoneBefore(last, y) == y.heap = <<>> \/ y.heap[1].doc >= last

Passing(n, D, last, x, k) ==
    {y \in Raising(n, D, last + 1, x, k) : NoneBefore(last, y)}

\* To move on from the last document is to advance past it.
LEMMA NextIsAdvance ==
    ASSUME DocMax \in Nat, NEW n \in Nat, NEW D, NEW y,
           Heaped(n, D, y.kids, y.heap), y.heap # <<>>
    PROVE  Tree!SI_top_next(y) = Tree!SI_top_advance(y, y.heap[1].doc + 1)
<1>1. y.heap[1].doc = y.kids[y.heap[1].kid].cur
  BY TopIs
<1> QED
  BY <1>1 DEF Tree!SI_top_next

LEMMA NoneBeforeStill ==
    ASSUME DocMax \in Nat, NEW n \in Nat, NEW D, NEW kids, NEW h,
           NEW last \in Nat, Heaped(n, D, kids, h), h # <<>>, h[1].doc = last,
           NEW K, NEW H, TurnGives(n, D, kids, h, last + 1, h[1].kid, K, H)
    PROVE  H = <<>> \/ H[1].doc >= last
<1> SUFFICES ASSUME H # <<>>
             PROVE  H[1].doc >= last
  OBVIOUS
<1> DEFINE i == H[1].kid
           top == h[1].kid
<1>1. /\ Heaped(n, D, K, H)
      /\ K[top].cur = -1 \/ K[top].cur >= last + 1
      /\ \A j \in 1..n : j # top => K[j] = kids[j]
  BY DEF TurnGives
<1>2. /\ i \in LiveKids(n, K) /\ H[1].doc = K[i].cur
      /\ H[1].doc \in 0..DocMax
  BY <1>1, TopIs
<1>3. \A j \in LiveKids(n, kids) : kids[j].cur >= last
  BY TopIs
<1>4. i \in 1..n /\ K[i].cur # -1
  BY <1>2 DEF LiveKids
<1> HIDE DEF i, top
<1>5. CASE i = top
  BY <1>1, <1>2, <1>4, <1>5
<1>6. CASE i # top
  <2>1. K[i] = kids[i] /\ i \in LiveKids(n, kids)
    BY <1>1, <1>4, <1>6 DEF LiveKids
  <2> QED
    BY <1>2, <1>3, <2>1
<1> QED
  BY <1>5, <1>6

LEMMA PassedIs ==
    ASSUME DocMax \in Nat, NEW n \in Nat, NEW D, NEW last \in Nat, NEW x,
           NEW k \in Nat, NEW y \in Passing(n, D, last, x, k)
    PROVE  Passed(last, y) \in Passing(n, D, last, x, k + 1)
<1> DEFINE t == last + 1
<1>1. /\ y \in Raising(n, D, t, x, k) /\ NoneBefore(last, y)
      /\ y \in OrSet(n) \union ScorerSet(n) /\ t \in Nat
      /\ Heaped(n, D, y.kids, y.heap) /\ SinceAll(n, D, t, y.kids)
  BY DEF Passing, Raising
<1>2. Raised(t, y) \in Raising(n, D, t, x, k + 1)
  BY <1>1, RaisedIs
<1>3. y.heap # <<>> => /\ Tree!TopDoc(y) = y.heap[1].doc
                       /\ y.heap[1].doc \in 0..DocMax
  BY <1>1, TopIs DEF Tree!TopDoc
<1>4. CASE y.heap = <<>> \/ y.heap[1].doc # last
  <2>1. Raised(t, y) = y /\ Passed(last, y) = y
    BY <1>1, <1>3, <1>4 DEF Raised, Passed, NoneBefore
  <2> QED
    BY <1>1, <1>2, <2>1 DEF Passing
<1>5. CASE y.heap # <<>> /\ y.heap[1].doc = last
  <2> DEFINE r == Tree!SI_top_advance(y, t)
  <2>1. Tree!SI_top_next(y) = r
    BY <1>1, <1>5, NextIsAdvance
  <2>2. Raised(t, y) = r /\ Passed(last, y) = r
    BY <1>3, <1>5, <2>1 DEF Raised, Passed
  <2>3. y.heap # <<>> /\ y.heap[1].doc < t
    BY <1>5
  <2> HIDE DEF t
  <2>4. TurnGives(n, D, y.kids, y.heap, t, y.heap[1].kid, r.kids, r.heap)
    BY <1>1, <2>3, TopMoves
  <2> HIDE DEF r
  <2>5. TurnGives(n, D, y.kids, y.heap, last + 1, y.heap[1].kid,
                  r.kids, r.heap)
    BY <2>4 DEF t
  <2>6. NoneBefore(last, r)
    BY <1>1, <1>5, <2>5, NoneBeforeStill DEF NoneBefore
  <2> QED
    BY <1>2, <2>2, <2>6 DEF Passing, t
<1> QED
  BY <1>4, <1>5

LEMMA PassedOn ==
    ASSUME DocMax \in Nat, NEW n \in Nat, NEW D, NEW last \in Nat, NEW x,
           NEW start \in Passing(n, D, last, x, 0)
    PROVE  (CHOOSE f : f = [k \in 0..n |->
                IF k = 0 THEN start ELSE Passed(last, f[k - 1])])[n]
               \in Passing(n, D, last, x, n)
<1> DEFINE N == n
           T == [k \in 0..N |-> Passing(n, D, last, x, k)]
           S == UNION {Passing(n, D, last, x, k) : k \in 0..N}
           step == [k \in 1..N |-> [y \in S |-> Passed(last, y)]]
           F(f) == [k \in 0..N |-> IF k = 0 THEN start
                                   ELSE Passed(last, f[k - 1])]
           after == CHOOSE f : f = F(f)
<1>1. N \in Nat
  OBVIOUS
<1>2. start \in T[0]
  BY <1>1
<1> HIDE DEF N
<1>3. ASSUME NEW k \in 0..(N - 1), NEW y \in T[k]
      PROVE  Passed(last, y) \in T[k + 1] /\ y \in S
  <2>1. k \in 0..N /\ k + 1 \in 0..N /\ k \in Nat
    BY <1>1
  <2>2. y \in Passing(n, D, last, x, k)
    BY <1>3, <2>1
  <2> QED
    BY <1>1, <2>1, <2>2, PassedIs DEF N
<1>4. Run(N, T, start, step)
  <2>1. Turns(N, T, step)
    <3>1. ASSUME NEW k \in 1..N, NEW y \in T[k - 1]
          PROVE  step[k][y] \in T[k]
      <4>1. k - 1 \in 0..(N - 1) /\ (k - 1) + 1 = k
        BY <1>1
      <4>2. Passed(last, y) \in T[k] /\ y \in S
        BY <1>3, <3>1, <4>1
      <4> HIDE DEF T, S
      <4> QED
        BY <4>2
    <3> HIDE DEF T, step
    <3> QED
      BY <3>1 DEF Turns
  <2> HIDE DEF T, step
  <2> QED
    BY <1>1, <1>2, <2>1, RunsOn, Zenon
<1> HIDE DEF T, S
<1>5. PICK g : /\ g = [j \in 0..N |-> g[j]] /\ g[0] = start
               /\ \A j \in 1..N : g[j - 1] \in T[j - 1]
                                  /\ g[j] = step[j][g[j - 1]]
  BY <1>4, Zenon DEF Run
<1>6. g = F(g)
  <2>1. ASSUME NEW j \in 0..N
        PROVE  g[j] = IF j = 0 THEN start ELSE Passed(last, g[j - 1])
    <3>1. CASE j = 0
      BY <1>5, <3>1
    <3>2. CASE j # 0
      <4>1. j \in 1..N /\ j - 1 \in 0..(N - 1)
        BY <1>1, <3>2
      <4>2. g[j - 1] \in S /\ g[j] = step[j][g[j - 1]]
        BY <1>3, <1>5, <4>1
      <4> QED
        BY <3>2, <4>2
    <3> QED
      BY <3>1, <3>2
  <2> HIDE DEF step
  <2> QED
    BY <1>5, <2>1
<1>7. after = F(after)
  <2>1. \E f : f = F(f)
    BY <1>6
  <2> QED
    BY <2>1, Zenon
<1> HIDE DEF after
<1>8. \A k \in 0..N : after[k] = IF k = 0 THEN start
                                 ELSE Passed(last, after[k - 1])
  BY <1>7
<1>9. after[N] \in T[N]
  <2> DEFINE U == {k \in 0..N : after[k] \in T[k]}
  <2>1. 0 \in U
    BY <1>1, <1>2, <1>8
  <2>2. ASSUME NEW k \in 0..(N - 1), k \in U
        PROVE  k + 1 \in U
    <3>1. k + 1 \in 0..N /\ k + 1 # 0 /\ (k + 1) - 1 = k
      BY <1>1
    <3>2. after[k + 1] = Passed(last, after[k])
      BY <1>8, <3>1
    <3> QED
      BY <1>3, <2>2, <3>1, <3>2
  <2>3. \A k \in 0..N : k \in U
    <3> HIDE DEF U
    <3> QED
      BY <1>1, <2>1, <2>2, Upwards
  <2> QED
    BY <1>1, <2>3
<1> QED
  BY <1>1, <1>9 DEF T, N, after

-----------------------------------------------------------------------------
(* ORMatcher.                                                              *)

AnyOf(n, D) == UNION {D[i] : i \in 1..n}

\* The documents from t on begin at the top.
LEMMA TopFinds ==
    ASSUME DocMax \in Nat, NEW n \in Nat, NEW D, NEW t \in Nat, t > 0, NEW y,
           Risen(n, D, t, y)
    PROVE  /\ y.heap = <<>> => Finds(AnyOf(n, D), t, -1)
           /\ y.heap # <<>> => /\ y.heap[1].doc \in 1..DocMax
                               /\ y.heap[1].doc >= t
                               /\ Finds(AnyOf(n, D), t, y.heap[1].doc)
<1>1. /\ Heaped(n, D, y.kids, y.heap) /\ SinceAll(n, D, t, y.kids)
      /\ y.heap = <<>> \/ y.heap[1].doc >= t
      /\ D \in [1..n -> DocSets] /\ KidsOf(n, D, y.kids)
  BY DEF Risen, Heaped
<1>2. \A d : d \in AnyOf(n, D) <=> \E i \in 1..n : d \in D[i]
  BY DEF AnyOf
<1>3. ASSUME y.heap = <<>>
      PROVE  Finds(AnyOf(n, D), t, -1)
  <2>1. \A i \in 1..n : y.kids[i].cur = -1
    BY <1>1, <1>3, TopIs
  <2>2. ASSUME NEW d \in AnyOf(n, D)
        PROVE  d < t
    <3>1. PICK i \in 1..n : d \in D[i]
      BY <1>2
    <3>2. Since(D[i], t, y.kids[i].cur) /\ y.kids[i].cur = -1
      BY <1>1, <2>1 DEF SinceAll
    <3> QED
      BY <3>1, <3>2 DEF Since
  <2> QED
    BY <2>2 DEF Finds
<1>4. ASSUME y.heap # <<>>
      PROVE  /\ y.heap[1].doc \in 1..DocMax /\ y.heap[1].doc >= t
             /\ Finds(AnyOf(n, D), t, y.heap[1].doc)
  <2> DEFINE top == y.heap[1].kid
             c == y.heap[1].doc
  <2>1. /\ top \in LiveKids(n, y.kids) /\ c = y.kids[top].cur
        /\ c \in 0..DocMax
        /\ \A i \in LiveKids(n, y.kids) : y.kids[i].cur >= c
    BY <1>1, <1>4, TopIs
  <2>2. c >= t
    BY <1>1, <1>4
  <2> HIDE DEF top, c
  <2>3. top \in 1..n /\ c # 0 /\ c # -1
    BY <2>1, <2>2 DEF LiveKids
  <2>4. c \in D[top]
    <3>1. y.kids[top].cur \in D[top] \union {0, -1}
      BY <1>1, <2>3, KidFacts
    <3> QED
      BY <2>1, <2>3, <3>1
  <2>5. ASSUME NEW d \in AnyOf(n, D), d >= t
        PROVE  d >= c
    <3>1. PICK i \in 1..n : d \in D[i]
      BY <1>2
    <3>2. /\ Since(D[i], t, y.kids[i].cur) /\ d \in 1..DocMax
          /\ y.kids[i].cur \in (0..DocMax) \union {-1}
      BY <1>1, <3>1, KidFacts DEF SinceAll
    <3>3. y.kids[i].cur # -1 /\ d >= y.kids[i].cur
      BY <2>5, <3>1, <3>2 DEF Since
    <3>4. y.kids[i].cur >= c
      BY <2>1, <3>3 DEF LiveKids
    <3> QED
      BY <2>1, <3>2, <3>3, <3>4
  <2>6. c \in AnyOf(n, D)
    BY <1>2, <2>3, <2>4
  <2>7. Finds(AnyOf(n, D), t, c)
    BY <2>2, <2>5, <2>6 DEF Finds
  <2>8. c \in 1..DocMax
    BY <2>1, <2>3
  <2> QED
    BY <2>2, <2>7, <2>8 DEF c
<1> QED
  BY <1>3, <1>4

\* The top of the heap is the document.
OrInv(n, D, x, c) ==
    /\ x \in OrSet(n) /\ Heaped(n, D, x.kids, x.heap)
    /\ x.heap = <<>> <=> c = -1
    /\ x.heap # <<>> => x.heap[1].doc = c /\ SinceAll(n, D, c, x.kids)

LEMMA OrGives ==
    ASSUME DocMax \in Nat, NEW n \in Nat, NEW D, NEW t \in Nat, t > 0, NEW y,
           y \in OrSet(n), Risen(n, D, t, y)
    PROVE  LET r == [y EXCEPT !.found = Tree!TopDoc(y)]
           IN  /\ Finds(AnyOf(n, D), t, Place(r.found))
               /\ OrInv(n, D, r, Place(r.found))
<1> DEFINE found == Tree!TopDoc(y)
           r == [y EXCEPT !.found = found]
<1>1. found = IF y.heap = <<>> THEN 0 ELSE y.heap[1].doc
  BY DEF Tree!TopDoc
<1>2. y.heap # <<>> => y.heap[1].doc \in 1..DocMax /\ y.heap[1].doc >= t
  BY TopFinds
<1>3. Place(found) = IF y.heap = <<>> THEN -1 ELSE y.heap[1].doc
  BY <1>1, <1>2 DEF Place
<1>4. Finds(AnyOf(n, D), t, Place(found))
  BY <1>3, TopFinds
<1>5. found \in Nat
  BY <1>1, <1>2
<1> HIDE DEF found
<1>6. r \in OrSet(n) /\ r.kids = y.kids /\ r.heap = y.heap /\ r.found = found
  BY <1>5 DEF OrSet
<1> HIDE DEF r
<1>7. /\ Heaped(n, D, y.kids, y.heap) /\ SinceAll(n, D, t, y.kids)
      /\ D \in [1..n -> DocSets] /\ KidsOf(n, D, y.kids)
  BY DEF Risen, Heaped
<1>8. y.heap # <<>> => SinceAll(n, D, y.heap[1].doc, y.kids)
  <2> SUFFICES ASSUME y.heap # <<>>
               PROVE  SinceAll(n, D, y.heap[1].doc, y.kids)
    OBVIOUS
  <2> DEFINE u == y.heap[1].doc
  <2>1. u \in Nat /\ t <= u
    BY <1>2
  <2> HIDE DEF u
  <2>2. SinceAll(n, D, u, y.kids)
    BY <1>7, <2>1, SinceLater
  <2> QED
    BY <2>2 DEF u
<1>9. y.heap # <<>> => y.heap[1].doc # -1
  BY <1>2
<1>10. OrInv(n, D, r, Place(found))
  BY <1>3, <1>6, <1>7, <1>8, <1>9 DEF OrInv
<1> QED
  BY <1>4, <1>6, <1>10 DEF r, found

LEMMA OrEnds ==
    ASSUME NEW n \in Nat, NEW D, NEW x, OrInv(n, D, x, -1), NEW t
    PROVE  LET r == [x EXCEPT !.found = 0]
           IN  Reaches(AnyOf(n, D), -1, t, r) /\ OrInv(n, D, r, Place(r.found))
<1> DEFINE r == [x EXCEPT !.found = 0]
<1>1. x \in OrSet(n) /\ Heaped(n, D, x.kids, x.heap) /\ x.heap = <<>>
  BY DEF OrInv
<1>2. r \in OrSet(n) /\ r.kids = x.kids /\ r.heap = x.heap /\ r.found = 0
  BY <1>1 DEF OrSet
<1> HIDE DEF r
<1>3. Place(r.found) = -1
  BY <1>2 DEF Place
<1>4. OrInv(n, D, r, -1)
  BY <1>1, <1>2 DEF OrInv
<1> QED
  BY <1>3, <1>4 DEF Reaches, r

LEMMA AdvanceOrIs ==
    ASSUME DocMax \in Nat, NEW n \in Nat, NEW D, NEW x, NEW c \in Nat,
           OrInv(n, D, x, c), NEW t \in Nat, t > c
    PROVE  LET r == Tree!AdvanceOR(x, t)
           IN  Reaches(AnyOf(n, D), c, t, r) /\ OrInv(n, D, r, Place(r.found))
<1> DEFINE start == Tree!SI_top_advance(x, t)
           y == (CHOOSE f : f = [k \in 0..n |->
                    IF k = 0 THEN start ELSE Raised(t, f[k - 1])])[n]
           r == Tree!AdvanceOR(x, t)
           e == [y EXCEPT !.found = Tree!TopDoc(y)]
<1>1. /\ x \in OrSet(n) /\ Heaped(n, D, x.kids, x.heap) /\ x.heap # <<>>
      /\ x.heap[1].doc = c /\ SinceAll(n, D, c, x.kids)
      /\ D \in [1..n -> DocSets] /\ KidsOf(n, D, x.kids)
      /\ x \in OrSet(n) \union ScorerSet(n)
  BY DEF OrInv, Heaped
<1>2. Len(x.kids) = n
  <2>1. x.kids \in [1..n -> KidSet]
    BY <1>1 DEF KidsOf
  <2> QED
    BY <2>1
<1>3. r = e
  BY <1>1, <1>2, Zenon DEF Tree!AdvanceOR, Tree!Repeat, Raised
<1>4. c <= t /\ x.heap[1].doc < t /\ t > 0
  BY <1>1
<1>5. SinceAll(n, D, t, x.kids)
  BY <1>1, <1>4, SinceLater
<1>6. /\ Alike(n, x, start)
      /\ Heaped(n, D, start.kids, start.heap) /\ SinceAll(n, D, t, start.kids)
  BY <1>1, <1>4, <1>5, TopMoves DEF TurnGives
<1> HIDE DEF start
<1>7. start \in OrSet(n) \union ScorerSet(n)
  BY <1>6, AlikeIs
<1>8. start \in Raising(n, D, t, x, 0)
  BY <1>1, <1>6, <1>7, RaisingBegins
<1>9. y \in Raising(n, D, t, x, n)
  BY <1>8, RaisedOn
<1> HIDE DEF y
<1>10. Alike(n, x, y) /\ Risen(n, D, t, y)
  BY <1>9, RaisingEnds
<1>11. y \in OrSet(n)
  BY <1>1, <1>10, AlikeIs
<1>12. Finds(AnyOf(n, D), t, Place(e.found)) /\ OrInv(n, D, e, Place(e.found))
  BY <1>4, <1>10, <1>11, OrGives
<1> HIDE DEF r, e
<1> QED
  BY <1>3, <1>12 DEF Reaches, r

LEMMA NextPastIs ==
    ASSUME DocMax \in Nat, NEW n \in Nat, NEW D,
           NEW x \in OrSet(n), Heaped(n, D, x.kids, x.heap), x.heap # <<>>,
           SinceAll(n, D, x.heap[1].doc, x.kids)
    PROVE  LET last == x.heap[1].doc
               r == Tree!NextPast(x, last)
           IN  /\ Finds(AnyOf(n, D), last + 1, Place(r.found))
               /\ OrInv(n, D, r, Place(r.found))
<1> DEFINE last == x.heap[1].doc
           t == last + 1
           start == Tree!SI_top_next(x)
           y == (CHOOSE f : f = [k \in 0..n |->
                    IF k = 0 THEN start ELSE Passed(last, f[k - 1])])[n]
           r == Tree!NextPast(x, last)
           e == [y EXCEPT !.found = Tree!TopDoc(y)]
<1>1. /\ D \in [1..n -> DocSets] /\ KidsOf(n, D, x.kids)
      /\ x \in OrSet(n) \union ScorerSet(n)
  BY DEF Heaped
<1>2. Len(x.kids) = n
  <2>1. x.kids \in [1..n -> KidSet]
    BY <1>1 DEF KidsOf
  <2> QED
    BY <2>1
<1>3. r = e
  BY <1>2, Zenon DEF Tree!NextPast, Tree!Repeat, Passed
<1>4. last \in 0..DocMax
  BY TopIs
<1>5. last \in Nat /\ t \in Nat /\ last <= t /\ x.heap[1].doc < t /\ t > 0
  BY <1>4
<1>6. SinceAll(n, D, t, x.kids)
  <2>1. SinceAll(n, D, last, x.kids)
    OBVIOUS
  <2> HIDE DEF last, t
  <2> QED
    BY <1>1, <1>5, <2>1, SinceLater
<1>7. start = Tree!SI_top_advance(x, t)
  BY NextIsAdvance
<1>8. /\ Alike(n, x, start)
      /\ TurnGives(n, D, x.kids, x.heap, t, x.heap[1].kid,
                   start.kids, start.heap)
  <2> HIDE DEF t, start, last
  <2> QED
    BY <1>1, <1>5, <1>6, <1>7, TopMoves
<1> HIDE DEF start
<1>9. Heaped(n, D, start.kids, start.heap) /\ SinceAll(n, D, t, start.kids)
  BY <1>8 DEF TurnGives
<1>10. NoneBefore(last, start)
  BY <1>5, <1>8, NoneBeforeStill DEF NoneBefore
<1>11. start \in OrSet(n) \union ScorerSet(n)
  BY <1>8, AlikeIs
<1> HIDE DEF t
<1>12. start \in Raising(n, D, t, x, 0)
  BY <1>1, <1>8, <1>9, <1>11, RaisingBegins
<1> HIDE DEF last
<1>13. start \in Passing(n, D, last, x, 0)
  BY <1>10, <1>12 DEF Passing, t
<1>14. y \in Passing(n, D, last, x, n)
  BY <1>5, <1>13, PassedOn
<1> HIDE DEF y
<1>15. y \in Raising(n, D, t, x, n)
  BY <1>14 DEF Passing, t
<1>16. Alike(n, x, y) /\ Risen(n, D, t, y)
  BY <1>5, <1>15, RaisingEnds
<1>17. y \in OrSet(n)
  BY <1>16, AlikeIs
<1>18. Finds(AnyOf(n, D), t, Place(e.found)) /\ OrInv(n, D, e, Place(e.found))
  BY <1>5, <1>16, <1>17, OrGives
<1> HIDE DEF r, e
<1> QED
  BY <1>3, <1>18 DEF r, t, last

LEMMA NextOrIs ==
    ASSUME DocMax \in Nat, NEW n \in Nat, NEW D, NEW x,
           NEW c \in Nat \union {-1}, OrInv(n, D, x, c)
    PROVE  LET r == Tree!NextOR(x)
           IN  /\ Reaches(AnyOf(n, D), c, c + 1, r)
               /\ OrInv(n, D, r, Place(r.found))
<1>1. CASE c = -1
  <2> DEFINE e == [x EXCEPT !.found = 0]
  <2>1. x.heap = <<>>
    BY <1>1 DEF OrInv
  <2>2. Tree!NextOR(x) = e
    BY <2>1 DEF Tree!NextOR
  <2>3. OrInv(n, D, x, -1)
    BY <1>1
  <2>4. Reaches(AnyOf(n, D), -1, c + 1, e) /\ OrInv(n, D, e, Place(e.found))
    BY <2>3, OrEnds
  <2> HIDE DEF e
  <2> QED
    BY <1>1, <2>2, <2>4
<1>2. CASE c # -1
  <2>1. /\ x \in OrSet(n) /\ Heaped(n, D, x.kids, x.heap) /\ x.heap # <<>>
        /\ x.heap[1].doc = c /\ SinceAll(n, D, x.heap[1].doc, x.kids)
    BY <1>2 DEF OrInv
  <2> DEFINE r == Tree!NextPast(x, x.heap[1].doc)
  <2>2. Tree!NextOR(x) = r
    BY <2>1 DEF Tree!NextOR, Tree!TopDoc
  <2>3. /\ Finds(AnyOf(n, D), x.heap[1].doc + 1, Place(r.found))
        /\ OrInv(n, D, r, Place(r.found))
    BY <2>1, NextPastIs
  <2> HIDE DEF r
  <2> QED
    BY <1>2, <2>1, <2>2, <2>3 DEF Reaches
<1> QED
  BY <1>1, <1>2

\* The heap of the first k children, before any is asked.
Growing(k) ==
    {h \in Seq(Tree!Entries) :
        /\ Heap(h, Tree!LessDoc) /\ Distinct(h)
        /\ Queue!ToSet(h) = {AtDoc(i, 0) : i \in 1..k}}

Grown(k, h) ==
    Tree!S_up_heap(Append(h, [kid |-> k, doc |-> 0]), Tree!LessDoc)

LEMMA GrownIs ==
    ASSUME NEW k \in Nat, NEW y \in Growing(k)
    PROVE  Grown(k + 1, y) \in Growing(k + 1)
<1> DEFINE E == Tree!Entries
           less == Tree!LessDoc
           e == AtDoc(k + 1, 0)
           g == Queue!S_up_heap(Append(y, e), less)
<1>1. Grown(k + 1, y) = g
  BY SameHeaps, Zenon DEF Grown, AtDoc
<1>2. e \in E
  BY DEF AtDoc, Tree!Entries
<1>3. Queue!ToSet(y) = {AtDoc(i, 0) : i \in 1..k}
  BY DEF Growing
<1>4. e \notin Queue!ToSet(y)
  <2> SUFFICES ASSUME NEW i \in 1..k, AtDoc(i, 0) = AtDoc(k + 1, 0)
               PROVE  FALSE
    BY <1>3
  <2>1. i = k + 1
    BY EntryIs
  <2> QED
    BY <2>1
<1>5. Weak(E, less) /\ y \in Seq(E) /\ Heap(y, less) /\ Distinct(y)
  BY DocOrder DEF Growing
<1> HIDE DEF E, less, e
<1>6. /\ g \in Seq(E) /\ Queue!ToSet(g) = Queue!ToSet(y) \union {e}
      /\ Heap(g, less) /\ Distinct(g)
  BY <1>2, <1>4, <1>5, AbsorbIs
<1> HIDE DEF g
<1>7. Queue!ToSet(g) = {AtDoc(i, 0) : i \in 1..(k + 1)}
  <2>1. 1..(k + 1) = (1..k) \union {k + 1}
    OBVIOUS
  <2> QED
    BY <1>3, <1>6, <2>1 DEF e
<1> QED
  BY <1>1, <1>6, <1>7 DEF Growing, E, less

LEMMA GrownOn ==
    ASSUME NEW n \in Nat,
           NEW start \in Growing(0)
    PROVE  (CHOOSE f : f = [k \in 0..n |->
                IF k = 0 THEN start ELSE Grown(k, f[k - 1])])[n]
               \in Growing(n)
<1> DEFINE N == n
           T == [k \in 0..N |-> Growing(k)]
           S == UNION {Growing(k) : k \in 0..N}
           step == [k \in 1..N |-> [y \in S |-> Grown(k, y)]]
           F(f) == [k \in 0..N |-> IF k = 0 THEN start
                                   ELSE Grown(k, f[k - 1])]
           after == CHOOSE f : f = F(f)
<1>1. N \in Nat
  OBVIOUS
<1>2. start \in T[0]
  BY <1>1
<1> HIDE DEF N
<1>3. ASSUME NEW k \in 0..(N - 1), NEW y \in T[k]
      PROVE  Grown(k + 1, y) \in T[k + 1] /\ y \in S
  <2>1. k \in 0..N /\ k + 1 \in 0..N /\ k \in Nat
    BY <1>1
  <2>2. y \in Growing(k)
    BY <1>3, <2>1
  <2> QED
    BY <1>1, <2>1, <2>2, GrownIs DEF N
<1>4. Run(N, T, start, step)
  <2>1. Turns(N, T, step)
    <3>1. ASSUME NEW k \in 1..N, NEW y \in T[k - 1]
          PROVE  step[k][y] \in T[k]
      <4>1. k - 1 \in 0..(N - 1) /\ (k - 1) + 1 = k
        BY <1>1
      <4>2. Grown(k, y) \in T[k] /\ y \in S
        BY <1>3, <3>1, <4>1
      <4> HIDE DEF T, S
      <4> QED
        BY <4>2
    <3> HIDE DEF T, step
    <3> QED
      BY <3>1 DEF Turns
  <2> HIDE DEF T, step
  <2> QED
    BY <1>1, <1>2, <2>1, RunsOn, Zenon
<1> HIDE DEF T, S
<1>5. PICK g : /\ g = [j \in 0..N |-> g[j]] /\ g[0] = start
               /\ \A j \in 1..N : g[j - 1] \in T[j - 1]
                                  /\ g[j] = step[j][g[j - 1]]
  BY <1>4, Zenon DEF Run
<1>6. g = F(g)
  <2>1. ASSUME NEW j \in 0..N
        PROVE  g[j] = IF j = 0 THEN start ELSE Grown(j, g[j - 1])
    <3>1. CASE j = 0
      BY <1>5, <3>1
    <3>2. CASE j # 0
      <4>1. j \in 1..N /\ j - 1 \in 0..(N - 1)
        BY <1>1, <3>2
      <4>2. g[j - 1] \in S /\ g[j] = step[j][g[j - 1]]
        BY <1>3, <1>5, <4>1
      <4> QED
        BY <3>2, <4>2
    <3> QED
      BY <3>1, <3>2
  <2> HIDE DEF step
  <2> QED
    BY <1>5, <2>1
<1>7. after = F(after)
  <2>1. \E f : f = F(f)
    BY <1>6
  <2> QED
    BY <2>1, Zenon
<1> HIDE DEF after
<1>8. \A k \in 0..N : after[k] = IF k = 0 THEN start
                                 ELSE Grown(k, after[k - 1])
  BY <1>7
<1>9. after[N] \in T[N]
  <2> DEFINE U == {k \in 0..N : after[k] \in T[k]}
  <2>1. 0 \in U
    BY <1>1, <1>2, <1>8
  <2>2. ASSUME NEW k \in 0..(N - 1), k \in U
        PROVE  k + 1 \in U
    <3>1. k + 1 \in 0..N /\ k + 1 # 0 /\ (k + 1) - 1 = k
      BY <1>1
    <3>2. after[k + 1] = Grown(k + 1, after[k])
      BY <1>8, <3>1
    <3> QED
      BY <1>3, <2>2, <3>1, <3>2
  <2>3. \A k \in 0..N : k \in U
    <3> HIDE DEF U
    <3> QED
      BY <1>1, <2>1, <2>2, Upwards
  <2> QED
    BY <1>1, <2>3
<1> QED
  BY <1>1, <1>9 DEF T, N, after

LEMMA NewOrIs ==
    ASSUME DocMax \in Nat, NEW n \in Nat, n > 0, NEW D \in [1..n -> DocSets]
    PROVE  OrInv(n, D, Tree!NewOR(D), 0)
<1> DEFINE kids == [i \in 1..n |-> Tree!NewKid(D[i])]
           start == <<>>
           h == (CHOOSE f : f = [k \in 0..n |->
                       IF k = 0 THEN start ELSE Grown(k, f[k - 1])])[n]
           x == Tree!NewOR(D)
<1>1. Len(D) = n /\ DOMAIN D = 1..n
  OBVIOUS
<1>2. x = [kids |-> kids, found |-> 0, heap |-> h]
  BY <1>1, Zenon DEF Tree!NewOR, Grown
<1>3. start \in Growing(0)
  <2>1. 1..0 = {} /\ Len(start) = 0 /\ DOMAIN start = {}
    OBVIOUS
  <2>2. start \in Seq(Tree!Entries)
    OBVIOUS
  <2>3. Heap(start, Tree!LessDoc) /\ Distinct(start)
    BY <2>1 DEF Heap, HeapFrom, Distinct
  <2>4. Queue!ToSet(start) = {}
    BY <2>1 DEF Queue!ToSet
  <2>5. {AtDoc(i, 0) : i \in 1..0} = {}
    BY <2>1
  <2> QED
    BY <2>2, <2>3, <2>4, <2>5 DEF Growing
<1> HIDE DEF start
<1>4. h \in Growing(n)
  BY <1>3, GrownOn
<1> HIDE DEF h, x
<1>5. ASSUME NEW i \in 1..n
      PROVE  KidOf(D[i], kids[i]) /\ kids[i].cur = 0 /\ kids[i] \in KidSet
  BY DEF Tree!NewKid, KidOf, KidSet
<1>6. kids \in [1..n -> KidSet]
  BY <1>5
<1> HIDE DEF kids
<1>7. KidsOf(n, D, kids)
  BY <1>5, <1>6 DEF KidsOf
<1>8. LiveKids(n, kids) = 1..n
  BY <1>5 DEF LiveKids
<1>9. Heaped(n, D, kids, h)
  <2>1. \A i \in 1..n : AtDoc(i, kids[i].cur) = AtDoc(i, 0)
    BY <1>5
  <2>2. {AtDoc(i, kids[i].cur) : i \in 1..n} = {AtDoc(i, 0) : i \in 1..n}
    BY <2>1
  <2> QED
    BY <1>4, <1>7, <1>8, <2>2 DEF Heaped, Growing
<1>10. x \in OrSet(n) /\ x.kids = kids /\ x.heap = h
  BY <1>2, <1>4, <1>6 DEF OrSet, Growing
<1>11. h # <<>>
  <2>1. AtDoc(1, 0) \in {AtDoc(i, 0) : i \in 1..n}
    OBVIOUS
  <2>2. AtDoc(1, 0) \in Queue!ToSet(h)
    BY <1>4, <2>1 DEF Growing
  <2> HIDE DEF kids
  <2>3. Queue!ToSet(<<>>) = {}
    <3>1. Len(<<>>) = 0 /\ DOMAIN <<>> = {}
      OBVIOUS
    <3> QED
      BY <3>1 DEF Queue!ToSet
  <2> QED
    BY <2>2, <2>3, Zenon
<1>12. h[1].doc = 0
  <2>1. h[1].kid \in LiveKids(n, kids) /\ h[1].doc = kids[h[1].kid].cur
    BY <1>9, <1>11, TopIs
  <2> QED
    BY <1>5, <1>8, <2>1
<1>13. SinceAll(n, D, 0, kids)
  BY <1>5 DEF SinceAll, Since
<1> QED
  BY <1>9, <1>10, <1>11, <1>12, <1>13 DEF OrInv, x

-----------------------------------------------------------------------------
(* ORScorer.                                                               *)

\* The children that were at a and are past it have been scored.
Scored(n, D, a, kids, scores) ==
    \A i \in 1..n : i \in scores <=> a \in D[i] /\ kids[i].cur # a

\* After k more turns, no more than n - k are still at a.
Gathering(n, D, a, k) ==
    {y \in ScorerSet(n) :
        /\ y.doc_id = a /\ Heaped(n, D, y.kids, y.heap)
        /\ SinceAll(n, D, a + 1, y.kids) /\ NoneBefore(a, y)
        /\ Scored(n, D, a, y.kids, y.scores)
        /\ \/ y.heap = <<>> \/ y.heap[1].doc >= a + 1
           \/ Cardinality(Behind(n, y.kids, a + 1)) <= n - k}

Gathered(y) ==
    IF y.heap = <<>> \/ Tree!TopDoc(y) # y.doc_id THEN y ELSE Tree!ScoreTop(y)

LEMMA ScoreTopIs ==
    ASSUME DocMax \in Nat, NEW n \in Nat, NEW D, NEW a \in Nat, a > 0,
           NEW k \in Nat, NEW y \in Gathering(n, D, a, k), y.heap # <<>>,
           y.heap[1].doc = a
    PROVE  Tree!ScoreTop(y) \in Gathering(n, D, a, k + 1)
<1> DEFINE top == y.heap[1].kid
           t == a + 1
           x == [y EXCEPT !.scores = @ \union {top}]
           r == Tree!SI_top_advance(x, t)
<1>1. /\ y \in ScorerSet(n) /\ y.doc_id = a /\ Heaped(n, D, y.kids, y.heap)
      /\ SinceAll(n, D, t, y.kids) /\ NoneBefore(a, y)
      /\ Scored(n, D, a, y.kids, y.scores)
      /\ Cardinality(Behind(n, y.kids, t)) <= n - k
  <2>1. ~(y.heap = <<>> \/ y.heap[1].doc >= a + 1)
    OBVIOUS
  <2> QED
    BY <2>1 DEF Gathering
<1>2. /\ top \in LiveKids(n, y.kids) /\ y.kids[top].cur = a
      /\ D \in [1..n -> DocSets] /\ KidsOf(n, D, y.kids)
  <2>1. top \in LiveKids(n, y.kids) /\ y.heap[1].doc = y.kids[top].cur
    BY <1>1, TopIs
  <2> HIDE DEF top
  <2>2. D \in [1..n -> DocSets] /\ KidsOf(n, D, y.kids)
    BY <1>1 DEF Heaped
  <2> QED
    BY <2>1, <2>2
<1>3. top \in 1..n
  BY <1>2 DEF LiveKids
<1>4. a \in D[top]
  <2>1. y.kids[top].cur \in D[top] \union {0, -1}
    BY <1>2, <1>3, KidFacts
  <2> QED
    BY <1>2, <2>1
<1> HIDE DEF top
<1>5. /\ x \in ScorerSet(n) /\ x.kids = y.kids /\ x.heap = y.heap
      /\ x.doc_id = a /\ x.scores = y.scores \union {top}
  BY <1>1, <1>3 DEF ScorerSet
<1>6. Tree!ScoreTop(y) = r
  <2>1. Tree!ScoreTop(y) = Tree!SI_top_next(x)
    BY Zenon DEF Tree!ScoreTop, top
  <2> HIDE DEF x
  <2>2. Heaped(n, D, x.kids, x.heap) /\ x.heap # <<>>
    BY <1>1, <1>5
  <2>3. Tree!SI_top_next(x) = Tree!SI_top_advance(x, x.heap[1].doc + 1)
    BY <2>2, NextIsAdvance
  <2> QED
    BY <1>5, <2>1, <2>3
<1> HIDE DEF x
<1>7. /\ Heaped(n, D, x.kids, x.heap) /\ x.heap # <<>> /\ t \in Nat
      /\ x.heap[1].doc < t /\ SinceAll(n, D, t, x.kids)
      /\ x \in OrSet(n) \union ScorerSet(n)
  BY <1>1, <1>5
<1> HIDE DEF t
<1>8. /\ Alike(n, x, r)
      /\ TurnGives(n, D, x.kids, x.heap, t, x.heap[1].kid, r.kids, r.heap)
      /\ Cardinality(Behind(n, r.kids, t))
             = Cardinality(Behind(n, x.kids, t)) - 1
  BY <1>7, TopMoves
<1> HIDE DEF r
<1>9. /\ r \in ScorerSet(n) /\ r.doc_id = a
      /\ r.scores = y.scores \union {top}
  BY <1>5, <1>8, AlikeIs
<1>10. TurnGives(n, D, y.kids, y.heap, t, top, r.kids, r.heap)
  BY <1>5, <1>8 DEF top
<1>11. NoneBefore(a, r)
  <2>1. TurnGives(n, D, y.kids, y.heap, a + 1, y.heap[1].kid, r.kids, r.heap)
    BY <1>10 DEF t, top
  <2> QED
    BY <1>1, <2>1, NoneBeforeStill DEF NoneBefore
<1>12. /\ Heaped(n, D, r.kids, r.heap) /\ SinceAll(n, D, t, r.kids)
       /\ r.kids[top].cur = -1 \/ r.kids[top].cur >= t
       /\ \A i \in 1..n : i # top => r.kids[i] = y.kids[i]
  BY <1>10 DEF TurnGives
<1>13. Scored(n, D, a, r.kids, r.scores)
  <2> SUFFICES ASSUME NEW i \in 1..n
               PROVE  i \in r.scores <=> a \in D[i] /\ r.kids[i].cur # a
    BY DEF Scored
  <2>1. CASE i = top
    <3>1. r.kids[top].cur # a
      BY <1>12 DEF t
    <3> QED
      BY <1>4, <1>9, <2>1, <3>1
  <2>2. CASE i # top
    BY <1>1, <1>9, <1>12, <2>2 DEF Scored
  <2> QED
    BY <2>1, <2>2
<1>14. Cardinality(Behind(n, r.kids, t)) <= n - (k + 1)
  <2>1. Cardinality(Behind(n, y.kids, t)) \in Nat
    BY BehindCount
  <2> QED
    BY <1>1, <1>5, <1>8, <2>1
<1> QED
  BY <1>6, <1>9, <1>11, <1>12, <1>13, <1>14 DEF Gathering, t

LEMMA GatheredIs ==
    ASSUME DocMax \in Nat, NEW n \in Nat, NEW D, NEW a \in Nat, a > 0,
           NEW k \in Nat, NEW y \in Gathering(n, D, a, k)
    PROVE  Gathered(y) \in Gathering(n, D, a, k + 1)
<1>1. /\ y.doc_id = a /\ Heaped(n, D, y.kids, y.heap) /\ NoneBefore(a, y)
  BY DEF Gathering
<1>2. y.heap # <<>> => /\ Tree!TopDoc(y) = y.heap[1].doc
                       /\ y.heap[1].doc \in 0..DocMax
  BY <1>1, TopIs DEF Tree!TopDoc
<1>3. CASE y.heap = <<>> \/ y.heap[1].doc # a
  <2>1. Gathered(y) = y
    BY <1>1, <1>2, <1>3 DEF Gathered
  <2>2. y.heap = <<>> \/ y.heap[1].doc >= a + 1
    BY <1>1, <1>2, <1>3 DEF NoneBefore
  <2> QED
    BY <2>1, <2>2 DEF Gathering
<1>4. CASE y.heap # <<>> /\ y.heap[1].doc = a
  <2>1. Gathered(y) = Tree!ScoreTop(y)
    BY <1>1, <1>2, <1>4 DEF Gathered
  <2> QED
    BY <1>4, <2>1, ScoreTopIs
<1> QED
  BY <1>3, <1>4

LEMMA GatheredOn ==
    ASSUME DocMax \in Nat, NEW n \in Nat, NEW D, NEW a \in Nat, a > 0,
           NEW start \in Gathering(n, D, a, 0)
    PROVE  (CHOOSE f : f = [k \in 0..n |->
                IF k = 0 THEN start ELSE Gathered(f[k - 1])])[n]
               \in Gathering(n, D, a, n)
<1> DEFINE N == n
           T == [k \in 0..N |-> Gathering(n, D, a, k)]
           S == UNION {Gathering(n, D, a, k) : k \in 0..N}
           step == [k \in 1..N |-> [y \in S |-> Gathered(y)]]
           F(f) == [k \in 0..N |-> IF k = 0 THEN start
                                   ELSE Gathered(f[k - 1])]
           after == CHOOSE f : f = F(f)
<1>1. N \in Nat
  OBVIOUS
<1>2. start \in T[0]
  BY <1>1
<1> HIDE DEF N
<1>3. ASSUME NEW k \in 0..(N - 1), NEW y \in T[k]
      PROVE  Gathered(y) \in T[k + 1] /\ y \in S
  <2>1. k \in 0..N /\ k + 1 \in 0..N /\ k \in Nat
    BY <1>1
  <2>2. y \in Gathering(n, D, a, k)
    BY <1>3, <2>1
  <2> QED
    BY <1>1, <2>1, <2>2, GatheredIs DEF N
<1>4. Run(N, T, start, step)
  <2>1. Turns(N, T, step)
    <3>1. ASSUME NEW k \in 1..N, NEW y \in T[k - 1]
          PROVE  step[k][y] \in T[k]
      <4>1. k - 1 \in 0..(N - 1) /\ (k - 1) + 1 = k
        BY <1>1
      <4>2. Gathered(y) \in T[k] /\ y \in S
        BY <1>3, <3>1, <4>1
      <4> HIDE DEF T, S
      <4> QED
        BY <4>2
    <3> HIDE DEF T, step
    <3> QED
      BY <3>1 DEF Turns
  <2> HIDE DEF T, step
  <2> QED
    BY <1>1, <1>2, <2>1, RunsOn, Zenon
<1> HIDE DEF T, S
<1>5. PICK g : /\ g = [j \in 0..N |-> g[j]] /\ g[0] = start
               /\ \A j \in 1..N : g[j - 1] \in T[j - 1]
                                  /\ g[j] = step[j][g[j - 1]]
  BY <1>4, Zenon DEF Run
<1>6. g = F(g)
  <2>1. ASSUME NEW j \in 0..N
        PROVE  g[j] = IF j = 0 THEN start ELSE Gathered(g[j - 1])
    <3>1. CASE j = 0
      BY <1>5, <3>1
    <3>2. CASE j # 0
      <4>1. j \in 1..N /\ j - 1 \in 0..(N - 1)
        BY <1>1, <3>2
      <4>2. g[j - 1] \in S /\ g[j] = step[j][g[j - 1]]
        BY <1>3, <1>5, <4>1
      <4> QED
        BY <3>2, <4>2
    <3> QED
      BY <3>1, <3>2
  <2> HIDE DEF step
  <2> QED
    BY <1>5, <2>1
<1>7. after = F(after)
  <2>1. \E f : f = F(f)
    BY <1>6
  <2> QED
    BY <2>1, Zenon
<1> HIDE DEF after
<1>8. \A k \in 0..N : after[k] = IF k = 0 THEN start
                                 ELSE Gathered(after[k - 1])
  BY <1>7
<1>9. after[N] \in T[N]
  <2> DEFINE U == {k \in 0..N : after[k] \in T[k]}
  <2>1. 0 \in U
    BY <1>1, <1>2, <1>8
  <2>2. ASSUME NEW k \in 0..(N - 1), k \in U
        PROVE  k + 1 \in U
    <3>1. k + 1 \in 0..N /\ k + 1 # 0 /\ (k + 1) - 1 = k
      BY <1>1
    <3>2. after[k + 1] = Gathered(after[k])
      BY <1>8, <3>1
    <3> QED
      BY <1>3, <2>2, <3>1, <3>2
  <2>3. \A k \in 0..N : k \in U
    <3> HIDE DEF U
    <3> QED
      BY <1>1, <2>1, <2>2, Upwards
  <2> QED
    BY <1>1, <2>3
<1> QED
  BY <1>1, <1>9 DEF T, N, after

\* All the children are past the document, and its scores are kept.
ScorerInv(n, D, x, c) ==
    /\ x \in ScorerSet(n) /\ Heaped(n, D, x.kids, x.heap)
    /\ IF c = -1 THEN x.heap = <<>>
       ELSE x.doc_id = c /\ Risen(n, D, c + 1, x)
    /\ c > 0 => x.scores = {i \in 1..n : c \in D[i]}

LEMMA GatheringEnds ==
    ASSUME DocMax \in Nat, NEW n \in Nat, NEW D, NEW a \in Nat, a > 0,
           NEW y \in Gathering(n, D, a, n)
    PROVE  Risen(n, D, a + 1, y) /\ y.scores = {i \in 1..n : a \in D[i]}
<1> DEFINE t == a + 1
<1>1. /\ y \in ScorerSet(n) /\ Heaped(n, D, y.kids, y.heap)
      /\ SinceAll(n, D, t, y.kids) /\ Scored(n, D, a, y.kids, y.scores)
      /\ \/ y.heap = <<>> \/ y.heap[1].doc >= t
         \/ Cardinality(Behind(n, y.kids, t)) <= n - n
      /\ D \in [1..n -> DocSets] /\ KidsOf(n, D, y.kids) /\ t \in Nat
  BY DEF Gathering, Heaped
<1>2. y \in Raising(n, D, t, y, n)
  BY <1>1 DEF Raising, Alike
<1> HIDE DEF t
<1>3. Risen(n, D, t, y)
  BY <1>1, <1>2, RaisingEnds
<1>4. ASSUME NEW i \in 1..n
      PROVE  y.kids[i].cur # a
  <2>1. CASE y.heap = <<>>
    BY <1>1, <2>1, TopIs
  <2>2. CASE y.heap # <<>>
    <3> SUFFICES ASSUME y.kids[i].cur = a
                 PROVE  FALSE
      OBVIOUS
    <3>1. i \in LiveKids(n, y.kids)
      BY DEF LiveKids
    <3>2. y.heap[1].doc \in 0..DocMax /\ a >= y.heap[1].doc
      BY <1>1, <2>2, <3>1, TopIs
    <3>3. y.heap[1].doc >= t
      BY <1>3, <2>2 DEF Risen
    <3> QED
      BY <3>2, <3>3 DEF t
  <2> QED
    BY <2>1, <2>2
<1>5. y.scores \subseteq 1..n
  BY <1>1 DEF ScorerSet
<1>6. y.scores = {i \in 1..n : a \in D[i]}
  BY <1>1, <1>4, <1>5 DEF Scored
<1> QED
  BY <1>3, <1>6 DEF t

\* Before any child is scored.
LEMMA GatheringBegins ==
    ASSUME DocMax \in Nat, NEW n \in Nat, NEW D, NEW t \in Nat, t > 0,
           NEW x \in ScorerSet(n), Risen(n, D, t, x), x.heap # <<>>
    PROVE  [x EXCEPT !.doc_id = x.heap[1].doc, !.scores = {}]
               \in Gathering(n, D, x.heap[1].doc, 0)
<1> DEFINE a == x.heap[1].doc
           m == [x EXCEPT !.doc_id = a, !.scores = {}]
<1>1. /\ Heaped(n, D, x.kids, x.heap) /\ SinceAll(n, D, t, x.kids)
      /\ D \in [1..n -> DocSets] /\ KidsOf(n, D, x.kids)
  BY DEF Risen, Heaped
<1>2. a \in 1..DocMax /\ a >= t
  BY TopFinds
<1>3. \A i \in LiveKids(n, x.kids) : x.kids[i].cur >= a
  BY <1>1, TopIs
<1> HIDE DEF a
<1>4. /\ m \in ScorerSet(n) /\ m.kids = x.kids /\ m.heap = x.heap
      /\ m.doc_id = a /\ m.scores = {}
  <2> DEFINE y == [x EXCEPT !.doc_id = a]
  <2>1. y \in ScorerSet(n) /\ y.kids = x.kids /\ y.heap = x.heap /\ y.doc_id = a
    BY <1>2 DEF ScorerSet
  <2>2. m = [y EXCEPT !.scores = {}]
    OBVIOUS
  <2> HIDE DEF y, m
  <2>3. {} \in SUBSET (1..n)
    OBVIOUS
  <2> QED
    BY <2>1, <2>2, <2>3 DEF ScorerSet
<1> HIDE DEF m
<1>5. a \in Nat /\ a + 1 \in Nat /\ t <= a /\ t <= a + 1
  BY <1>2
<1>6. SinceAll(n, D, a, x.kids) /\ SinceAll(n, D, a + 1, x.kids)
  BY <1>1, <1>5, SinceLater
<1>7. ASSUME NEW i \in 1..n, a \in D[i]
      PROVE  x.kids[i].cur = a
  <2>1. Since(D[i], a, x.kids[i].cur)
    BY <1>6 DEF SinceAll
  <2>2. x.kids[i].cur \in (0..DocMax) \union {-1}
    BY <1>1, KidFacts
  <2>3. x.kids[i].cur # -1 /\ a >= x.kids[i].cur
    BY <1>5, <1>7, <2>1 DEF Since
  <2>4. x.kids[i].cur >= a
    BY <1>3, <2>3 DEF LiveKids
  <2> QED
    BY <1>5, <2>2, <2>3, <2>4
<1>8. Scored(n, D, a, m.kids, m.scores)
  BY <1>4, <1>7 DEF Scored
<1>9. NoneBefore(a, m)
  BY <1>4, <1>5 DEF NoneBefore, a
<1>10. /\ Cardinality(Behind(n, m.kids, a + 1)) \in Nat
       /\ Cardinality(Behind(n, m.kids, a + 1)) <= n - 0
  BY BehindCount
<1>11. m \in Gathering(n, D, a, 0)
  BY <1>1, <1>4, <1>6, <1>8, <1>9, <1>10 DEF Gathering
<1> QED
  BY <1>11 DEF m, a

LEMMA GatherIs ==
    ASSUME DocMax \in Nat, NEW n \in Nat, NEW D, NEW a \in Nat, a > 0,
           NEW m \in Gathering(n, D, a, 0), m.heap # <<>>, m.heap[1].doc = a
    PROVE  LET r == Tree!GatherScores(m)
           IN  ScorerInv(n, D, r, a) /\ r.found = a
<1> DEFINE start == Tree!ScoreTop(m)
           y == (CHOOSE f : f = [k \in 0..n |->
                    IF k = 0 THEN start ELSE Gathered(f[k - 1])])[n]
           r == Tree!GatherScores(m)
<1>1. Len(m.kids) = n /\ m.doc_id = a
  <2>1. m.kids \in [1..n -> KidSet] /\ m.doc_id = a
    BY DEF Gathering, ScorerSet
  <2> QED
    BY <2>1
<1>2. r = [y EXCEPT !.found = a]
  BY <1>1, Zenon DEF Tree!GatherScores, Tree!Repeat, Gathered
<1>3. start \in Gathering(n, D, a, 0 + 1)
  BY ScoreTopIs
<1> HIDE DEF start
<1>4. start \in Gathering(n, D, a, 0)
  <2>1. /\ Cardinality(Behind(n, start.kids, a + 1)) \in Nat
        /\ Cardinality(Behind(n, start.kids, a + 1)) <= n
    BY BehindCount
  <2> QED
    BY <1>3, <2>1 DEF Gathering
<1>5. y \in Gathering(n, D, a, n)
  BY <1>4, GatheredOn
<1> HIDE DEF y, r
<1>6. /\ y \in ScorerSet(n) /\ y.doc_id = a /\ Heaped(n, D, y.kids, y.heap)
  BY <1>5 DEF Gathering
<1>7. Risen(n, D, a + 1, y) /\ y.scores = {i \in 1..n : a \in D[i]}
  BY <1>5, GatheringEnds
<1>8. /\ r \in ScorerSet(n) /\ r.kids = y.kids /\ r.heap = y.heap
      /\ r.doc_id = a /\ r.scores = y.scores /\ r.found = a
  BY <1>2, <1>6 DEF ScorerSet
<1>9. ScorerInv(n, D, r, a)
  BY <1>6, <1>7, <1>8 DEF ScorerInv, Risen
<1> QED
  BY <1>8, <1>9 DEF r

LEMMA ScorerEnds ==
    ASSUME NEW n \in Nat, NEW D, NEW x \in ScorerSet(n),
           Heaped(n, D, x.kids, x.heap), x.heap = <<>>
    PROVE  LET r == [x EXCEPT !.found = 0]
           IN  Place(r.found) = -1 /\ ScorerInv(n, D, r, -1)
<1> DEFINE r == [x EXCEPT !.found = 0]
<1>1. /\ r \in ScorerSet(n) /\ r.kids = x.kids /\ r.heap = x.heap
      /\ r.found = 0
  BY DEF ScorerSet
<1> HIDE DEF r
<1>2. Place(r.found) = -1 /\ ~(-1 > 0)
  BY <1>1 DEF Place
<1>3. ScorerInv(n, D, r, -1)
  BY <1>1, <1>2 DEF ScorerInv
<1> QED
  BY <1>2, <1>3 DEF r

LEMMA AfterIs ==
    ASSUME DocMax \in Nat, NEW n \in Nat, NEW D, NEW t \in Nat, t > 0,
           NEW x \in ScorerSet(n), Risen(n, D, t, x)
    PROVE  LET r == Tree!S_advance_after_current(x)
           IN  /\ Finds(AnyOf(n, D), t, Place(r.found))
               /\ ScorerInv(n, D, r, Place(r.found))
<1> DEFINE r == Tree!S_advance_after_current(x)
<1>1. Heaped(n, D, x.kids, x.heap)
  BY DEF Risen
<1>2. CASE x.heap = <<>>
  <2> DEFINE e == [x EXCEPT !.found = 0]
  <2>1. r = e
    BY <1>2 DEF Tree!S_advance_after_current
  <2>2. Place(e.found) = -1 /\ ScorerInv(n, D, e, -1)
    BY <1>1, <1>2, ScorerEnds
  <2>3. Finds(AnyOf(n, D), t, -1)
    BY <1>2, TopFinds
  <2> HIDE DEF e, r
  <2> QED
    BY <2>1, <2>2, <2>3 DEF r
<1>3. CASE x.heap # <<>>
  <2> DEFINE a == x.heap[1].doc
             m == [x EXCEPT !.doc_id = a, !.scores = {}]
             g == Tree!GatherScores(m)
  <2>1. r = g
    BY <1>3 DEF Tree!S_advance_after_current, Tree!TopDoc
  <2>2. /\ a \in 1..DocMax /\ Finds(AnyOf(n, D), t, a)
    BY <1>3, TopFinds
  <2>3. m \in Gathering(n, D, a, 0)
    BY <1>3, GatheringBegins
  <2>4. m.heap = x.heap
    BY DEF ScorerSet
  <2>5. m.heap # <<>> /\ m.heap[1].doc = a /\ a \in Nat /\ a > 0
    BY <1>3, <2>2, <2>4
  <2> HIDE DEF m, a
  <2>6. ScorerInv(n, D, g, a) /\ g.found = a
    BY <2>3, <2>5, GatherIs
  <2>7. Place(a) = a
    BY <2>5 DEF Place
  <2> HIDE DEF g, r
  <2> QED
    BY <2>1, <2>2, <2>6, <2>7 DEF r
<1> QED
  BY <1>2, <1>3

LEMMA NextScorerIs ==
    ASSUME DocMax \in Nat, NEW n \in Nat, NEW D, NEW x,
           NEW c \in Nat \union {-1}, ScorerInv(n, D, x, c)
    PROVE  LET r == Tree!S_advance_after_current(x)
           IN  /\ Reaches(AnyOf(n, D), c, c + 1, r)
               /\ ScorerInv(n, D, r, Place(r.found))
<1> DEFINE r == Tree!S_advance_after_current(x)
<1>1. x \in ScorerSet(n) /\ Heaped(n, D, x.kids, x.heap)
  BY DEF ScorerInv
<1>2. CASE c = -1
  <2> DEFINE e == [x EXCEPT !.found = 0]
  <2>1. x.heap = <<>>
    BY <1>2 DEF ScorerInv
  <2>2. r = e
    BY <2>1 DEF Tree!S_advance_after_current
  <2>3. Place(e.found) = -1 /\ ScorerInv(n, D, e, -1)
    BY <1>1, <2>1, ScorerEnds
  <2> HIDE DEF e, r
  <2> QED
    BY <1>2, <2>2, <2>3 DEF r, Reaches
<1>3. CASE c # -1
  <2>1. Risen(n, D, c + 1, x) /\ c + 1 \in Nat /\ c + 1 > 0
    BY <1>3 DEF ScorerInv
  <2>2. /\ Finds(AnyOf(n, D), c + 1, Place(r.found))
        /\ ScorerInv(n, D, r, Place(r.found))
    BY <1>1, <2>1, AfterIs
  <2> HIDE DEF r
  <2> QED
    BY <1>3, <2>2 DEF r, Reaches
<1> QED
  BY <1>2, <1>3

LEMMA AdvanceScorerIs ==
    ASSUME DocMax \in Nat, NEW n \in Nat, NEW D, NEW x, NEW c \in Nat,
           ScorerInv(n, D, x, c), NEW t \in Nat, t > c
    PROVE  LET r == Tree!AdvanceScorer(x, t)
           IN  /\ Reaches(AnyOf(n, D), c, t, r)
               /\ ScorerInv(n, D, r, Place(r.found))
<1> DEFINE r == Tree!AdvanceScorer(x, t)
           y == (CHOOSE f : f = [k \in 0..n |->
                    IF k = 0 THEN x ELSE Raised(t, f[k - 1])])[n]
<1>1. /\ x \in ScorerSet(n) /\ Heaped(n, D, x.kids, x.heap)
      /\ x.doc_id = c /\ Risen(n, D, c + 1, x)
      /\ SinceAll(n, D, c + 1, x.kids) /\ x.kids \in [1..n -> KidSet]
      /\ D \in [1..n -> DocSets] /\ KidsOf(n, D, x.kids)
      /\ x \in OrSet(n) \union ScorerSet(n)
  BY DEF ScorerInv, Risen, Heaped, KidsOf
<1>2. c + 1 \in Nat /\ c + 1 <= t /\ t > 0
  OBVIOUS
<1>3. CASE x.heap = <<>>
  <2> DEFINE e == [x EXCEPT !.found = 0]
  <2>1. r = e
    BY <1>3 DEF Tree!AdvanceScorer
  <2>2. Place(e.found) = -1 /\ ScorerInv(n, D, e, -1)
    BY <1>1, <1>3, ScorerEnds
  <2>3. Risen(n, D, t, x)
    <3>1. SinceAll(n, D, t, x.kids)
      BY <1>1, <1>2, SinceLater
    <3> QED
      BY <1>1, <1>3, <3>1 DEF Risen
  <2>4. Finds(AnyOf(n, D), t, -1)
    BY <1>2, <1>3, <2>3, TopFinds
  <2> HIDE DEF e, r
  <2> QED
    BY <2>1, <2>2, <2>4 DEF r, Reaches
<1>4. CASE x.heap # <<>>
  <2>1. Len(x.kids) = n
    BY <1>1
  <2>2. ~(t <= x.doc_id)
    BY <1>1
  <2>3. r = Tree!S_advance_after_current(y)
    BY <1>4, <2>1, <2>2, Zenon DEF Tree!AdvanceScorer, Tree!Repeat, Raised
  <2>4. SinceAll(n, D, t, x.kids)
    BY <1>1, <1>2, SinceLater
  <2>5. Alike(n, x, x)
    BY <1>1 DEF Alike
  <2>6. x \in Raising(n, D, t, x, 0)
    BY <1>1, <2>4, <2>5, RaisingBegins
  <2>7. y \in Raising(n, D, t, x, n)
    BY <2>6, RaisedOn
  <2> HIDE DEF y, r
  <2>8. Alike(n, x, y) /\ Risen(n, D, t, y)
    BY <2>7, RaisingEnds
  <2>9. y \in ScorerSet(n)
    BY <1>1, <2>8, AlikeIs
  <2> DEFINE s == Tree!S_advance_after_current(y)
  <2>10. /\ Finds(AnyOf(n, D), t, Place(s.found))
         /\ ScorerInv(n, D, s, Place(s.found))
    BY <1>2, <2>8, <2>9, AfterIs
  <2> HIDE DEF s
  <2>11. r = s
    BY <2>3 DEF s
  <2> QED
    BY <2>10, <2>11 DEF r, Reaches
<1> QED
  BY <1>3, <1>4

\* An ORScorer is begun past 0.
LEMMA NewScorerIs ==
    ASSUME DocMax \in Nat, NEW n \in Nat, n > 0, NEW D \in [1..n -> DocSets]
    PROVE  ScorerInv(n, D, Tree!NewScorer(D), 0)
<1> DEFINE o == Tree!NewOR(D)
           m == Tree!NextOR(o)
           x == Tree!NewScorer(D)
           c == Place(m.found)
<1>1. OrInv(n, D, o, 0)
  BY NewOrIs
<1>2. x = [kids |-> m.kids, heap |-> m.heap, found |-> 0, doc_id |-> 0,
           scores |-> {}]
  BY DEF Tree!NewScorer
<1> HIDE DEF o
<1>3. 0 \in Nat \union {-1}
  OBVIOUS
<1>4. Reaches(AnyOf(n, D), 0, 0 + 1, m) /\ OrInv(n, D, m, c)
  BY <1>1, <1>3, NextOrIs
<1> HIDE DEF m, c, x
<1>5. /\ m \in OrSet(n) /\ Heaped(n, D, m.kids, m.heap)
      /\ m.heap = <<>> <=> c = -1
      /\ m.heap # <<>> => m.heap[1].doc = c /\ SinceAll(n, D, c, m.kids)
      /\ Finds(AnyOf(n, D), 1, c)
      /\ D \in [1..n -> DocSets] /\ KidsOf(n, D, m.kids)
  BY <1>4 DEF OrInv, Reaches, Heaped, c
<1>6. /\ x \in ScorerSet(n) /\ x.kids = m.kids /\ x.heap = m.heap
      /\ x.doc_id = 0
  BY <1>2, <1>5 DEF OrSet, ScorerSet
<1>7. \A d : d \in AnyOf(n, D) <=> \E i \in 1..n : d \in D[i]
  BY DEF AnyOf
<1>8. ASSUME NEW i \in 1..n
      PROVE  Since(D[i], 1, m.kids[i].cur)
  <2>1. \A d \in D[i] : d \in 1..DocMax /\ d \in AnyOf(n, D)
    BY <1>5, <1>7, KidFacts
  <2>2. CASE c = -1
    <3>1. D[i] = {}
      BY <1>5, <2>1, <2>2 DEF Finds
    <3> QED
      BY <3>1 DEF Since
  <2>3. CASE c # -1
    <3>1. Since(D[i], c, m.kids[i].cur)
      BY <1>5, <2>3 DEF SinceAll
    <3>2. \A d \in D[i] : d >= c
      BY <1>5, <2>1, <2>3 DEF Finds
    <3>3. c \in Int /\ c >= 1
      BY <1>5, <1>7, <2>3, KidFacts DEF Finds
    <3>4. \A d \in D[i] : ~(d < c)
      BY <2>1, <3>2, <3>3
    <3> QED
      BY <2>1, <3>1, <3>2, <3>3, <3>4 DEF Since
  <2> QED
    BY <2>2, <2>3
<1>9. SinceAll(n, D, 1, m.kids)
  BY <1>8 DEF SinceAll
<1>10. m.heap = <<>> \/ m.heap[1].doc >= 1
  BY <1>5 DEF Finds
<1>11. 0 + 1 = 1 /\ ~(0 > 0) /\ 0 # -1
  OBVIOUS
<1>12. Risen(n, D, 0 + 1, x)
  BY <1>5, <1>6, <1>9, <1>10, <1>11 DEF Risen
<1> QED
  BY <1>5, <1>6, <1>11, <1>12 DEF ScorerInv, x

-----------------------------------------------------------------------------
(* All the classes.                                                        *)

Called == {"and", "or", "scorer", "not", "reqopt", "bits", "range", "filter"}

\* A matcher of class k over the documents D of its n children, at document c.
Holds(k, n, D, x, c) ==
    /\ n \in Tree!Arity(k) /\ D \in [1..n -> DocSets]
    /\ k = "and" => AndInv(n, D, x, c)
    /\ k = "or" => OrInv(n, D, x, c)
    /\ k = "scorer" => ScorerInv(n, D, x, c)
    /\ k = "not" => NotInv(D[1], x, c)
    /\ k = "reqopt" => ReqInv(D, x, c)
    /\ k = "bits" => BitsInv(D[1], x, c)
    /\ k \in {"range", "filter"} => TestedInv(D[1], x, c)

\* The documents that match.
MatchedBy(k, n, D) ==
    CASE k = "and" -> Common(n, D)
      [] k \in {"or", "scorer"} -> AnyOf(n, D)
      [] k = "not" -> (1..DocMax) \ D[1]
      [] k \in {"reqopt", "bits", "range", "filter"} -> D[1]

\* What Next and Advance are for a class.
NextOf(k, x) ==
    CASE k = "and"    -> Tree!NextAND(x)
      [] k = "or"     -> Tree!NextOR(x)
      [] k = "scorer" -> Tree!S_advance_after_current(x)
      [] k = "not"    -> Tree!NextNOT(x)
      [] k = "reqopt" -> Tree!NextReqOpt(x)
      [] k = "series" -> Tree!NextSeries(x)
      [] k = "bits"   -> Tree!NextBitVec(x)
      [] k \in {"range", "filter"} -> Tree!NextTested(x)

AdvanceOf(k, x, t) ==
    CASE k = "and"    -> Tree!AdvanceAND(x, t)
      [] k = "or"     -> Tree!AdvanceOR(x, t)
      [] k = "scorer" -> Tree!AdvanceScorer(x, t)
      [] k = "not"    -> Tree!AdvanceNOT(x, t)
      [] k = "reqopt" -> Tree!AdvanceReqOpt(x, t)
      [] k = "series" -> Tree!AdvanceSeries(x, t)
      [] k = "bits"   -> Tree!AdvanceBitVec(x, t)
      [] k = "range"  -> Tree!AdvanceTested(x, t)
      [] k = "filter" -> Tree!AdvanceByNext(x, t)

LEMMA Arities ==
    ASSUME MatcherConstantsOK, NEW k \in Called, NEW n \in Tree!Arity(k)
    PROVE  /\ n \in Nat /\ n > 0 /\ 1 \in 1..n
           /\ k \in {"not", "bits", "range", "filter"} => n = 1
           /\ k = "reqopt" => n = 2
<1>1. MaxKids \in Nat
  BY DEF MatcherConstantsOK
<1>2. Tree!Arity(k) = IF k \in {"and", "or", "scorer"} THEN 1..MaxKids
                      ELSE IF k = "reqopt" THEN {2} ELSE {1}
  BY DEF Called, Tree!Arity
<1> QED
  BY <1>1, <1>2

LEMMA Methods ==
    \A x, t :
      /\ NextOf("and", x) = Tree!NextAND(x)
      /\ NextOf("or", x) = Tree!NextOR(x)
      /\ NextOf("scorer", x) = Tree!S_advance_after_current(x)
      /\ NextOf("not", x) = Tree!NextNOT(x)
      /\ NextOf("reqopt", x) = Tree!NextReqOpt(x)
      /\ NextOf("bits", x) = Tree!NextBitVec(x)
      /\ NextOf("range", x) = Tree!NextTested(x)
      /\ NextOf("filter", x) = Tree!NextTested(x)
      /\ AdvanceOf("and", x, t) = Tree!AdvanceAND(x, t)
      /\ AdvanceOf("or", x, t) = Tree!AdvanceOR(x, t)
      /\ AdvanceOf("scorer", x, t) = Tree!AdvanceScorer(x, t)
      /\ AdvanceOf("not", x, t) = Tree!AdvanceNOT(x, t)
      /\ AdvanceOf("reqopt", x, t) = Tree!AdvanceReqOpt(x, t)
      /\ AdvanceOf("bits", x, t) = Tree!AdvanceBitVec(x, t)
      /\ AdvanceOf("range", x, t) = Tree!AdvanceTested(x, t)
      /\ AdvanceOf("filter", x, t) = Tree!AdvanceByNext(x, t)
  BY DEF NextOf, AdvanceOf

LEMMA Matches ==
    \A n, D :
      /\ MatchedBy("and", n, D) = Common(n, D)
      /\ MatchedBy("or", n, D) = AnyOf(n, D)
      /\ MatchedBy("scorer", n, D) = AnyOf(n, D)
      /\ MatchedBy("not", n, D) = (1..DocMax) \ D[1]
      /\ MatchedBy("reqopt", n, D) = D[1]
      /\ MatchedBy("bits", n, D) = D[1]
      /\ MatchedBy("range", n, D) = D[1]
      /\ MatchedBy("filter", n, D) = D[1]
  BY DEF MatchedBy

LEMMA MatchesAreDocs ==
    ASSUME NEW k \in Called, NEW n \in Nat, 1 \in 1..n,
           NEW D \in [1..n -> DocSets]
    PROVE  MatchedBy(k, n, D) \subseteq 1..DocMax
<1>1. Common(n, D) \subseteq 1..DocMax
  BY DEF Common
<1>2. AnyOf(n, D) \subseteq 1..DocMax
  <2>1. \A i \in 1..n : D[i] \subseteq 1..DocMax
    BY DEF DocSets
  <2> QED
    BY <2>1 DEF AnyOf
<1>3. D[1] \subseteq 1..DocMax /\ (1..DocMax) \ D[1] \subseteq 1..DocMax
  BY DEF DocSets
<1> QED
  BY <1>1, <1>2, <1>3, Matches DEF Called

\* What a call leaves.
Done(k, n, D, c, t, r) ==
    Reaches(MatchedBy(k, n, D), c, t, r) /\ Holds(k, n, D, r, Place(r.found))

LEMMA NextReaches ==
    ASSUME MatcherConstantsOK, NEW k \in Called, NEW n, NEW D, NEW x,
           NEW c \in (0..DocMax) \union {-1}, Holds(k, n, D, x, c),
           c # -1 \/ k # "bits"
    PROVE  Done(k, n, D, c, c + 1, NextOf(k, x))
<1> DEFINE M == MatchedBy(k, n, D)
           r == NextOf(k, x)
<1>1. /\ n \in Tree!Arity(k) /\ D \in [1..n -> DocSets]
      /\ DocMax \in Nat /\ c \in Nat \union {-1} /\ c <= DocMax
  BY DEF Holds, MatcherConstantsOK
<1>2. /\ n \in Nat /\ n > 0 /\ 1 \in 1..n
      /\ D[1] \in DocSets
  BY <1>1, Arities
<1>3. CASE k = "and"
  <2> DEFINE s == Tree!NextAND(x)
  <2>1. AndInv(n, D, x, c)
    BY <1>3 DEF Holds
  <2>2. Reaches(Common(n, D), c, c + 1, s) /\ AndInv(n, D, s, Place(s.found))
    BY <1>1, <1>2, <2>1, NextAndIs
  <2>3. r = s /\ M = Common(n, D)
    BY <1>3, Methods, Matches
  <2> HIDE DEF r, s, M
  <2> QED
    BY <1>1, <1>3, <2>2, <2>3 DEF Done, Holds, r, M
<1>4. CASE k = "or"
  <2> DEFINE s == Tree!NextOR(x)
  <2>1. OrInv(n, D, x, c)
    BY <1>4 DEF Holds
  <2>2. Reaches(AnyOf(n, D), c, c + 1, s) /\ OrInv(n, D, s, Place(s.found))
    BY <1>1, <1>2, <2>1, NextOrIs
  <2>3. r = s /\ M = AnyOf(n, D)
    BY <1>4, Methods, Matches
  <2> HIDE DEF r, s, M
  <2> QED
    BY <1>1, <1>4, <2>2, <2>3 DEF Done, Holds, r, M
<1>5. CASE k = "scorer"
  <2> DEFINE s == Tree!S_advance_after_current(x)
  <2>1. ScorerInv(n, D, x, c)
    BY <1>5 DEF Holds
  <2>2. Reaches(AnyOf(n, D), c, c + 1, s) /\ ScorerInv(n, D, s, Place(s.found))
    BY <1>1, <1>2, <2>1, NextScorerIs
  <2>3. r = s /\ M = AnyOf(n, D)
    BY <1>5, Methods, Matches
  <2> HIDE DEF r, s, M
  <2> QED
    BY <1>1, <1>5, <2>2, <2>3 DEF Done, Holds, r, M
<1>6. CASE k = "not"
  <2> DEFINE s == Tree!NextNOT(x)
             N == (1..DocMax) \ D[1]
  <2>1. NotInv(D[1], x, c)
    BY <1>6 DEF Holds
  <2>2. Reaches(N, c, c + 1, s) /\ NotInv(D[1], s, Place(s.found))
    BY <1>1, <1>2, <2>1, NextNotIs
  <2>3. r = s /\ M = N
    BY <1>6, Methods, Matches
  <2> HIDE DEF r, s, M, N
  <2> QED
    BY <1>1, <1>6, <2>2, <2>3 DEF Done, Holds, r, M
<1>7. CASE k = "reqopt"
  <2> DEFINE s == Tree!NextReqOpt(x)
  <2>1. ReqInv(D, x, c)
    BY <1>7 DEF Holds
  <2>2. Reaches(D[1], c, c + 1, s) /\ ReqInv(D, s, Place(s.found))
    BY <1>1, <2>1, NextReqIs
  <2>3. r = s /\ M = D[1]
    BY <1>7, Methods, Matches
  <2> HIDE DEF r, s, M
  <2> QED
    BY <1>1, <1>7, <2>2, <2>3 DEF Done, Holds, r, M
<1>8. CASE k = "bits"
  <2> DEFINE s == Tree!AdvanceBitVec(x, c + 1)
  <2>1. BitsInv(D[1], x, c) /\ c # -1 /\ x.doc_id = c /\ c + 1 \in Int
    BY <1>1, <1>8 DEF Holds, BitsInv
  <2>2. Reaches(D[1], c, c + 1, s) /\ BitsInv(D[1], s, Place(s.found))
    BY <1>1, <1>2, <2>1, BitsIs
  <2>3. Tree!NextBitVec(x) = s
    BY <2>1 DEF Tree!NextBitVec
  <2>4. r = s /\ M = D[1]
    BY <1>8, <2>3, Methods, Matches
  <2> HIDE DEF r, s, M
  <2> QED
    BY <1>1, <1>8, <2>2, <2>4 DEF Done, Holds, r, M
<1>9. CASE k \in {"range", "filter"}
  <2> DEFINE s == Tree!NextTested(x)
  <2>1. TestedInv(D[1], x, c)
    BY <1>9 DEF Holds
  <2>2. Reaches(D[1], c, c + 1, s) /\ TestedInv(D[1], s, Place(s.found))
    BY <1>1, <1>2, <2>1, NextTestedIs
  <2>3. r = s /\ M = D[1]
    BY <1>9, Methods, Matches
  <2> HIDE DEF r, s, M
  <2> QED
    BY <1>1, <1>9, <2>2, <2>3 DEF Done, Holds, r, M
<1> QED
  BY <1>3, <1>4, <1>5, <1>6, <1>7, <1>8, <1>9 DEF Called

LEMMA AdvanceReaches ==
    ASSUME MatcherConstantsOK, NEW k \in Called, NEW n, NEW D, NEW x,
           NEW c \in 0..DocMax, Holds(k, n, D, x, c),
           NEW t \in (c + 1)..(DocMax + 1)
    PROVE  Done(k, n, D, c, t, AdvanceOf(k, x, t))
<1> DEFINE M == MatchedBy(k, n, D)
           r == AdvanceOf(k, x, t)
<1>1. /\ n \in Tree!Arity(k) /\ D \in [1..n -> DocSets] /\ DocMax \in Nat
  BY DEF Holds, MatcherConstantsOK
<1>2. /\ c \in Nat /\ c \in Nat \union {-1} /\ c # -1
      /\ t \in Nat /\ t \in Int /\ t > c /\ t <= DocMax + 1
  BY <1>1
<1>3. /\ n \in Nat /\ n > 0 /\ 1 \in 1..n
      /\ D[1] \in DocSets
  BY <1>1, Arities
<1>4. CASE k = "and"
  <2> DEFINE s == Tree!AdvanceAND(x, t)
  <2>1. AndInv(n, D, x, c)
    BY <1>4 DEF Holds
  <2>2. Reaches(Common(n, D), c, t, s) /\ AndInv(n, D, s, Place(s.found))
    BY <1>1, <1>2, <1>3, <2>1, AdvanceAndIs
  <2>3. r = s /\ M = Common(n, D)
    BY <1>4, Methods, Matches
  <2> HIDE DEF r, s, M
  <2> QED
    BY <1>1, <1>4, <2>2, <2>3 DEF Done, Holds, r, M
<1>5. CASE k = "or"
  <2> DEFINE s == Tree!AdvanceOR(x, t)
  <2>1. OrInv(n, D, x, c)
    BY <1>5 DEF Holds
  <2>2. Reaches(AnyOf(n, D), c, t, s) /\ OrInv(n, D, s, Place(s.found))
    BY <1>1, <1>2, <1>3, <2>1, AdvanceOrIs
  <2>3. r = s /\ M = AnyOf(n, D)
    BY <1>5, Methods, Matches
  <2> HIDE DEF r, s, M
  <2> QED
    BY <1>1, <1>5, <2>2, <2>3 DEF Done, Holds, r, M
<1>6. CASE k = "scorer"
  <2> DEFINE s == Tree!AdvanceScorer(x, t)
  <2>1. ScorerInv(n, D, x, c)
    BY <1>6 DEF Holds
  <2>2. Reaches(AnyOf(n, D), c, t, s) /\ ScorerInv(n, D, s, Place(s.found))
    BY <1>1, <1>2, <1>3, <2>1, AdvanceScorerIs
  <2>3. r = s /\ M = AnyOf(n, D)
    BY <1>6, Methods, Matches
  <2> HIDE DEF r, s, M
  <2> QED
    BY <1>1, <1>6, <2>2, <2>3 DEF Done, Holds, r, M
<1>7. CASE k = "not"
  <2> DEFINE s == Tree!AdvanceNOT(x, t)
             N == (1..DocMax) \ D[1]
  <2>1. NotInv(D[1], x, c)
    BY <1>7 DEF Holds
  <2>2. Reaches(N, c, t, s) /\ NotInv(D[1], s, Place(s.found))
    BY <1>1, <1>2, <1>3, <2>1, AdvanceNotIs
  <2>3. r = s /\ M = N
    BY <1>7, Methods, Matches
  <2> HIDE DEF r, s, M, N
  <2> QED
    BY <1>1, <1>7, <2>2, <2>3 DEF Done, Holds, r, M
<1>8. CASE k = "reqopt"
  <2> DEFINE s == Tree!AdvanceReqOpt(x, t)
  <2>1. ReqInv(D, x, c)
    BY <1>8 DEF Holds
  <2>2. Reaches(D[1], c, t, s) /\ ReqInv(D, s, Place(s.found))
    BY <1>1, <1>2, <2>1, ReqMoves
  <2>3. r = s /\ M = D[1]
    BY <1>8, Methods, Matches
  <2> HIDE DEF r, s, M
  <2> QED
    BY <1>1, <1>8, <2>2, <2>3 DEF Done, Holds, r, M
<1>9. CASE k = "bits"
  <2> DEFINE s == Tree!AdvanceBitVec(x, t)
  <2>1. BitsInv(D[1], x, c)
    BY <1>9 DEF Holds
  <2>2. Reaches(D[1], c, t, s) /\ BitsInv(D[1], s, Place(s.found))
    BY <1>1, <1>2, <1>3, <2>1, BitsIs
  <2>3. r = s /\ M = D[1]
    BY <1>9, Methods, Matches
  <2> HIDE DEF r, s, M
  <2> QED
    BY <1>1, <1>9, <2>2, <2>3 DEF Done, Holds, r, M
<1>10. CASE k = "range"
  <2> DEFINE s == Tree!AdvanceTested(x, t)
  <2>1. TestedInv(D[1], x, c)
    BY <1>10 DEF Holds
  <2>2. Reaches(D[1], c, t, s) /\ TestedInv(D[1], s, Place(s.found))
    BY <1>1, <1>2, <1>3, <2>1, AdvanceTestedIs
  <2>3. r = s /\ M = D[1]
    BY <1>10, Methods, Matches
  <2> HIDE DEF r, s, M
  <2> QED
    BY <1>1, <1>10, <2>2, <2>3 DEF Done, Holds, r, M
<1>11. CASE k = "filter"
  <2> DEFINE s == Tree!AdvanceByNext(x, t)
  <2>1. TestedInv(D[1], x, c)
    BY <1>11 DEF Holds
  <2>2. Reaches(D[1], c, t, s) /\ TestedInv(D[1], s, Place(s.found))
    BY <1>1, <1>2, <1>3, <2>1, ByNextIs
  <2>3. r = s /\ M = D[1]
    BY <1>11, Methods, Matches
  <2> HIDE DEF r, s, M
  <2> QED
    BY <1>1, <1>11, <2>2, <2>3 DEF Done, Holds, r, M
<1> QED
  BY <1>4, <1>5, <1>6, <1>7, <1>8, <1>9, <1>10, <1>11 DEF Called

LEMMA NewHolds ==
    ASSUME MatcherConstantsOK, NEW k \in Called, NEW n \in Tree!Arity(k),
           NEW D \in [1..n -> DocSets]
    PROVE  Holds(k, n, D, Tree!New(k, D), 0)
<1>1. DocMax \in Nat
  BY DEF MatcherConstantsOK
<1>2. /\ n \in Nat /\ n > 0 /\ 1 \in 1..n /\ D[1] \in DocSets
      /\ k \in {"not", "bits", "range", "filter"} => n = 1
      /\ k = "reqopt" => n = 2
  BY Arities
<1>3. /\ Tree!New("and", D) = Tree!NewAND(D)
      /\ Tree!New("or", D) = Tree!NewOR(D)
      /\ Tree!New("scorer", D) = Tree!NewScorer(D)
      /\ Tree!New("not", D) = Tree!NewNOT(D)
      /\ Tree!New("reqopt", D) = Tree!NewReqOpt(D)
      /\ Tree!New("bits", D) = Tree!NewBitVec(D)
      /\ Tree!New("range", D) = Tree!NewTested(D)
      /\ Tree!New("filter", D) = Tree!NewTested(D)
  BY DEF Tree!New
<1>4. ASSUME NEW M \in DocSets
      PROVE  /\ Tree!NewKid(M) \in KidSet /\ KidOf(M, Tree!NewKid(M))
             /\ Tree!NewKid(M).cur = 0
  BY DEF Tree!NewKid, KidOf, KidSet
<1>5. CASE k = "and"
  <2>1. AndInv(n, D, Tree!NewAND(D), 0)
    BY <1>1, <1>2, NewAndIs
  <2> QED
    BY <1>3, <1>5, <2>1 DEF Holds
<1>6. CASE k = "or"
  <2>1. OrInv(n, D, Tree!NewOR(D), 0)
    BY <1>1, <1>2, NewOrIs
  <2> QED
    BY <1>3, <1>6, <2>1 DEF Holds
<1>7. CASE k = "scorer"
  <2>1. ScorerInv(n, D, Tree!NewScorer(D), 0)
    BY <1>1, <1>2, NewScorerIs
  <2> QED
    BY <1>3, <1>7, <2>1 DEF Holds
<1>8. CASE k = "not"
  <2> DEFINE kid == Tree!NewKid(D[1])
             x == Tree!NewNOT(D)
  <2>1. x = [kids |-> <<kid>>, doc_id |-> 0, next_negation |-> 0, found |-> 0]
    BY DEF Tree!NewNOT
  <2>2. kid \in KidSet /\ KidOf(D[1], kid) /\ kid.cur = 0
    BY <1>2, <1>4
  <2> HIDE DEF kid, x
  <2>3. /\ x \in NotSet /\ x.kids[1] = kid /\ x.next_negation = 0
        /\ x.doc_id = 0
    BY <2>1, <2>2 DEF NotSet
  <2>4. \A d \in D[1] : d > 0 => d >= 0
    BY <1>2 DEF DocSets
  <2>5. NotInv(D[1], x, 0)
    BY <2>2, <2>3, <2>4 DEF NotInv, NotOK
  <2> QED
    BY <1>3, <1>8, <2>5 DEF Holds, x
<1>9. CASE k = "reqopt"
  <2> DEFINE kid1 == Tree!NewKid(D[1])
             kid2 == Tree!NewKid(D[2])
             x == Tree!NewReqOpt(D)
  <2>1. x = [kids |-> <<kid1, kid2>>, first |-> TRUE, gone |-> FALSE,
             scores |-> {}, found |-> 0]
    BY DEF Tree!NewReqOpt
  <2>2. n = 2 /\ D[2] \in DocSets
    BY <1>2, <1>9
  <2>3. /\ kid1 \in KidSet /\ KidOf(D[1], kid1) /\ kid1.cur = 0
        /\ kid2 \in KidSet /\ KidOf(D[2], kid2) /\ kid2.cur = 0
    BY <1>2, <1>4, <2>2
  <2> HIDE DEF kid1, kid2, x
  <2>4. <<kid1, kid2>> \in [1..2 -> KidSet]
    BY <2>3
  <2>5. /\ x \in ReqSet /\ x.kids[1] = kid1 /\ x.kids[2] = kid2
        /\ x.scores = {}
    BY <2>1, <2>4 DEF ReqSet
  <2>6. x.first /\ ~x.gone
    BY <2>1
  <2>7. x.gone = (x.kids[2].cur = -1)
    <3>1. ~(x.kids[2].cur = -1) /\ x.gone \in BOOLEAN
      BY <2>3, <2>5 DEF ReqSet
    <3> QED
      BY <2>6, <3>1
  <2>8. Since(D[2], 0, x.kids[2].cur)
    BY <2>3, <2>5 DEF Since
  <2>9. ReqInv(D, x, 0)
    BY <2>2, <2>3, <2>5, <2>7, <2>8 DEF ReqInv
  <2> QED
    BY <1>3, <1>9, <2>9 DEF Holds, x
<1>10. CASE k \in {"bits", "range", "filter"}
  <2> DEFINE x == [docs |-> D[1], doc_id |-> 0, found |-> 0, kids |-> <<>>]
  <2>1. Tree!New(k, D) = x
    BY <1>3, <1>10 DEF Tree!NewBitVec, Tree!NewTested
  <2>2. x \in Childless /\ x.docs = D[1] /\ x.doc_id = 0
    BY <1>1, <1>2 DEF Childless
  <2>3. BitsInv(D[1], x, 0) /\ TestedInv(D[1], x, 0)
    BY <2>2 DEF BitsInv, TestedInv
  <2> HIDE DEF x
  <2> QED
    BY <1>10, <2>1, <2>3 DEF Holds
<1> QED
  BY <1>5, <1>6, <1>7, <1>8, <1>9, <1>10 DEF Called

LEMMA ChildrenAre ==
    ASSUME MatcherConstantsOK, NEW k \in Called, NEW n, NEW D, NEW x, NEW c,
           Holds(k, n, D, x, c)
    PROVE  /\ k \in {"and", "or", "scorer", "not", "reqopt"} =>
                  KidsOf(n, D, x.kids) /\ DOMAIN x.kids = 1..n
           /\ k \in {"bits", "range", "filter"} =>
                  x.kids = <<>> /\ x.docs = D[1]
<1>1. /\ n \in Tree!Arity(k) /\ D \in [1..n -> DocSets]
  BY DEF Holds
<1>2. /\ k \in {"not", "bits", "range", "filter"} => n = 1
      /\ k = "reqopt" => n = 2
  BY <1>1, Arities
<1>3. ASSUME k \in {"bits", "range", "filter"}
      PROVE  x.kids = <<>> /\ x.docs = D[1]
  BY <1>3 DEF Holds, BitsInv, TestedInv, Childless
<1>4. ASSUME k \in {"and", "or", "scorer"}
      PROVE  KidsOf(n, D, x.kids)
  BY <1>4 DEF Holds, AndInv, AndOK, OrInv, ScorerInv, Heaped
<1>5. ASSUME k = "not"
      PROVE  KidsOf(n, D, x.kids)
  <2>1. x \in NotSet /\ KidOf(D[1], x.kids[1]) /\ n = 1
    BY <1>2, <1>5 DEF Holds, NotInv, NotOK
  <2> QED
    BY <2>1 DEF NotSet, KidsOf
<1>6. ASSUME k = "reqopt"
      PROVE  KidsOf(n, D, x.kids)
  <2>1. /\ x \in ReqSet /\ KidOf(D[1], x.kids[1]) /\ KidOf(D[2], x.kids[2])
        /\ n = 2
    BY <1>2, <1>6 DEF Holds, ReqInv
  <2> QED
    BY <2>1 DEF ReqSet, KidsOf
<1>7. KidsOf(n, D, x.kids) => DOMAIN x.kids = 1..n
  BY DEF KidsOf
<1> QED
  BY <1>3, <1>4, <1>5, <1>6, <1>7

\* The invariant: the matcher is at cur of the documents of some children.
MatcherInv ==
    /\ kind \in Kinds /\ cur \in (0..DocMax) \union {-1}
    /\ asked \in 0..(Offset + DocMax + 1)
    /\ \E n, D : Holds(kind, n, D, matcher, cur)

\* Matched, of any matcher.
MatchedOf(k, x) ==
    CASE k = "and" -> {d \in 1..DocMax : \A i \in DOMAIN x.kids :
                                           d \in x.kids[i].docs}
      [] k \in {"or", "scorer"} -> UNION {x.kids[i].docs : i \in DOMAIN x.kids}
      [] k = "not" -> (1..DocMax) \ x.kids[1].docs
      [] k = "reqopt" -> x.kids[1].docs
      [] k = "series" -> x.kids[1].docs
                             \union {Offset + d : d \in x.kids[2].docs}
      [] k \in {"bits", "range", "filter"} -> x.docs
      [] k = "collect" -> x.kids[1].docs \ x.kids[2].docs

LEMMA MatchedIs ==
    ASSUME MatcherConstantsOK, NEW k \in Called, NEW n, NEW D, NEW x, NEW c,
           Holds(k, n, D, x, c)
    PROVE  MatchedOf(k, x) = MatchedBy(k, n, D)
<1>1. /\ k \in {"and", "or", "scorer", "not", "reqopt"} =>
             /\ KidsOf(n, D, x.kids) /\ DOMAIN x.kids = 1..n
      /\ k \in {"bits", "range", "filter"} => x.docs = D[1]
  BY ChildrenAre
<1>2. n \in Nat /\ 1 \in 1..n
  BY Arities DEF Holds
<1>3. KidsOf(n, D, x.kids) => \A i \in 1..n : x.kids[i].docs = D[i]
  BY DEF KidsOf, KidOf
<1>4. CASE k = "and"
  <2>1. MatchedOf(k, x) = {d \in 1..DocMax : \A i \in DOMAIN x.kids :
                                              d \in x.kids[i].docs}
    BY <1>4 DEF MatchedOf
  <2>2. MatchedBy(k, n, D) = Common(n, D) /\ DOMAIN x.kids = 1..n
    BY <1>1, <1>4, Matches
  <2>3. \A i \in 1..n : x.kids[i].docs = D[i]
    BY <1>1, <1>3, <1>4
  <2> QED
    BY <2>1, <2>2, <2>3 DEF Common
<1>5. CASE k \in {"or", "scorer"}
  <2>1. MatchedOf(k, x) = UNION {x.kids[i].docs : i \in DOMAIN x.kids}
    BY <1>5 DEF MatchedOf
  <2>2. {x.kids[i].docs : i \in 1..n} = {D[i] : i \in 1..n}
    BY <1>1, <1>3, <1>5
  <2>3. MatchedBy(k, n, D) = AnyOf(n, D) /\ DOMAIN x.kids = 1..n
    BY <1>1, <1>5, Matches
  <2> QED
    BY <2>1, <2>2, <2>3, Zenon DEF AnyOf
<1>6. CASE k = "not"
  <2>1. MatchedOf(k, x) = (1..DocMax) \ x.kids[1].docs
    BY <1>6 DEF MatchedOf
  <2> QED
    BY <1>1, <1>2, <1>3, <1>6, <2>1, Matches
<1>7. CASE k = "reqopt"
  <2>1. MatchedOf(k, x) = x.kids[1].docs
    BY <1>7 DEF MatchedOf
  <2> QED
    BY <1>1, <1>2, <1>3, <1>7, <2>1, Matches
<1>8. CASE k \in {"bits", "range", "filter"}
  <2>1. MatchedOf(k, x) = x.docs
    BY <1>8 DEF MatchedOf
  <2> QED
    BY <1>1, <1>8, <2>1, Matches
<1> QED
  BY <1>4, <1>5, <1>6, <1>7, <1>8 DEF Called

LEMMA MatchedNow ==
    /\ Tree!Matched = MatchedOf(kind, matcher)
    /\ Tree!Matched' = MatchedOf(kind', matcher')
  BY Zenon DEF Tree!Matched, Tree!Kids, Tree!Docs, MatchedOf

\* Where a call leads is the first from its target on.
LEMMA FindsFirst ==
    ASSUME DocMax \in Nat, NEW t \in Int, NEW c,
           Tree!Matched \subseteq 1..DocMax, Finds(Tree!Matched, t, c)
    PROVE  Tree!Iterator!FirstFrom(t) = c /\ c \in (0..DocMax) \union {-1}
<1> DEFINE M == Tree!Matched
           S == {d \in M : d >= t}
           first == CHOOSE x \in S : \A y \in S : x <= y
<1>1. Tree!Iterator!FirstFrom(t) = IF \E d \in M : d >= t THEN first ELSE -1
  BY Zenon DEF Tree!Iterator!FirstFrom, Tree!Iterator!Min, Tree!Exhausted
<1>2. \A d \in M : d \in 1..DocMax
  OBVIOUS
<1>3. Finds(M, t, c)
  OBVIOUS
<1> HIDE DEF M
<1>4. CASE c = -1
  <2>1. ~(\E d \in M : d >= t)
    BY <1>2, <1>3, <1>4 DEF Finds
  <2> QED
    BY <1>1, <1>4, <2>1
<1>5. CASE c # -1
  <2>1. c \in S /\ \A y \in S : c <= y
    BY <1>2, <1>3, <1>5 DEF Finds
  <2>2. first \in S /\ \A y \in S : first <= y
    <3> HIDE DEF S
    <3> QED
      BY <2>1, Zenon
  <2>3. first = c
    <3> HIDE DEF first
    <3>1. first \in Int /\ c \in Int /\ first <= c /\ c <= first
      BY <1>2, <2>1, <2>2
    <3> QED
      BY <3>1
  <2>4. \E d \in M : d >= t
    BY <2>1
  <2> HIDE DEF first
  <2> QED
    BY <1>1, <1>2, <2>1, <2>3, <2>4
<1> QED
  BY <1>4, <1>5

LEMMA MatcherInitially ==
    ASSUME MatcherConstantsOK
    PROVE  Tree!Init => MatcherInv /\ Tree!Iterator!Init
<1> SUFFICES ASSUME Tree!Init
             PROVE  MatcherInv /\ Tree!Iterator!Init
  OBVIOUS
<1>1. /\ DocMax \in Nat /\ Offset \in Nat
      /\ \A k \in Kinds : k \in Called
  BY DEF MatcherConstantsOK, Called
<1>2. kind \in Kinds /\ asked = 0 /\ cur = 0
  BY DEF Tree!Init
<1>3. PICK n \in Tree!Arity(kind) :
          \E D \in [1..n -> SUBSET (1..DocMax)] : matcher = Tree!New(kind, D)
  BY DEF Tree!Init
<1> PICK D \in [1..n -> SUBSET (1..DocMax)] : matcher = Tree!New(kind, D)
  BY <1>3
<1>4. D \in [1..n -> DocSets]
  BY DEF DocSets
<1>5. Holds(kind, n, D, matcher, 0)
  BY <1>1, <1>2, <1>3, <1>4, NewHolds
<1>6. MatcherInv
  <2>1. cur \in (0..DocMax) \union {-1} /\ asked \in 0..(Offset + DocMax + 1)
    BY <1>1, <1>2
  <2> QED
    BY <1>2, <1>5, <2>1 DEF MatcherInv
<1>7. Tree!Matched \subseteq 1..(Offset + DocMax + 1)
  <2>1. n \in Nat /\ 1 \in 1..n /\ kind \in Called
    BY <1>1, <1>2, <1>3, Arities
  <2>2. MatchedBy(kind, n, D) \subseteq 1..DocMax
    BY <1>4, <2>1, MatchesAreDocs
  <2>3. Tree!Matched = MatchedBy(kind, n, D)
    BY <1>5, <2>1, MatchedIs, MatchedNow
  <2> QED
    BY <1>1, <2>2, <2>3
<1>8. Tree!Iterator!Init
  BY <1>2, <1>7, Zenon DEF Tree!Iterator!Init
<1> QED
  BY <1>6, <1>8

\* A step of the iterator, of which cur is where the call has led.
LEMMA CallIs ==
    ASSUME MatcherConstantsOK, MatcherInv, NEW n, NEW D,
           Holds(kind, n, D, matcher, cur), NEW t \in 1..(DocMax + 1), t > cur,
           NEW r, Done(kind, n, D, cur, t, r), Tree!Returned(t, r)
    PROVE  MatcherInv' /\ Tree!Iterator!MatcherStep
<1>1. /\ DocMax \in Nat /\ Offset \in Nat /\ kind \in Called /\ kind \in Kinds
      /\ cur \in (0..DocMax) \union {-1}
  BY DEF MatcherConstantsOK, Called, MatcherInv
<1>2. /\ matcher' = r /\ asked' = t /\ kind' = kind
      /\ cur' = Place(r.found)
  BY DEF Tree!Returned, Tree!Exhausted, Place
<1>3. /\ Reaches(MatchedBy(kind, n, D), cur, t, r)
      /\ Holds(kind, n, D, matcher', cur')
  BY <1>2 DEF Done
<1>4. Tree!Matched = MatchedBy(kind, n, D)
  BY <1>1, MatchedIs, MatchedNow
<1>5. Tree!Matched \subseteq 1..DocMax
  <2>1. n \in Nat /\ 1 \in 1..n /\ D \in [1..n -> DocSets]
    BY <1>1, Arities DEF Holds
  <2> QED
    BY <1>1, <1>4, <2>1, MatchesAreDocs
<1>6. Tree!Matched' = Tree!Matched
  <2>1. Holds(kind', n, D, matcher', cur') /\ kind' \in Called
    BY <1>1, <1>2, <1>3
  <2>2. Tree!Matched' = MatchedBy(kind', n, D)
    BY <2>1, MatchedIs, MatchedNow
  <2> QED
    BY <1>2, <1>4, <2>2
<1>7. t \in Int /\ t \in 1..(Offset + DocMax + 1)
  BY <1>1
<1>8. /\ cur' = IF cur = -1 THEN -1 ELSE Tree!Iterator!FirstFrom(t)
      /\ cur' \in (0..DocMax) \union {-1}
  <2>1. CASE cur = -1
    BY <1>2, <1>3, <2>1 DEF Reaches
  <2>2. CASE cur # -1
    <3>1. Finds(Tree!Matched, t, cur')
      BY <1>2, <1>3, <1>4, <2>2 DEF Reaches
    <3> QED
      BY <1>1, <1>5, <1>7, <2>2, <3>1, FindsFirst
  <2> QED
    BY <2>1, <2>2
<1>9. MatcherInv'
  <2>1. asked' \in 0..(Offset + DocMax + 1)
    BY <1>1, <1>2, <1>7
  <2> QED
    BY <1>1, <1>2, <1>3, <1>8, <2>1 DEF MatcherInv
<1>10. Tree!Iterator!Visit(t)
  BY <1>2, <1>6, <1>8, Zenon DEF Tree!Iterator!Visit, Tree!Exhausted
<1>11. Tree!Iterator!MatcherNext
  BY <1>7, <1>10, Zenon DEF Tree!Iterator!MatcherNext
<1> QED
  BY <1>9, <1>11, Zenon DEF Tree!Iterator!MatcherStep

LEMMA MatcherSteps ==
    ASSUME MatcherConstantsOK
    PROVE  MatcherInv /\ [Tree!Next]_(Tree!vars)
               => MatcherInv' /\ Tree!Iterator!MatcherStep
<1> SUFFICES ASSUME MatcherInv, [Tree!Next]_(Tree!vars)
             PROVE  MatcherInv' /\ Tree!Iterator!MatcherStep
  OBVIOUS
<1>1. /\ DocMax \in Nat /\ Offset \in Nat /\ kind \in Called /\ kind \in Kinds
      /\ cur \in (0..DocMax) \union {-1}
      /\ kind # "series" /\ kind # "collect" /\ "bits" \notin Again
  BY DEF MatcherConstantsOK, Called, MatcherInv
<1>2. PICK n, D : Holds(kind, n, D, matcher, cur)
  BY DEF MatcherInv
<1>3. CASE Tree!CallNext
  <2> DEFINE t == IF cur = -1 THEN 1 ELSE cur + 1
             r == NextOf(kind, matcher)
  <2>1. Tree!Returned(t, r) /\ (cur # -1 \/ kind \in Again)
    BY <1>3, Zenon DEF Tree!CallNext, Tree!Exhausted, NextOf
  <2>2. cur # -1 \/ kind # "bits"
    BY <1>1, <2>1
  <2>3. Done(kind, n, D, cur, cur + 1, r)
    BY <1>1, <1>2, <2>2, NextReaches
  <2> HIDE DEF r
  <2>4. Done(kind, n, D, cur, t, r)
    BY <2>3 DEF Done, Reaches
  <2>5. t \in 1..(DocMax + 1) /\ t > cur
    BY <1>1
  <2> HIDE DEF t
  <2> QED
    BY <1>2, <2>1, <2>4, <2>5, CallIs
<1>4. CASE Tree!CallAdvance
  <2>1. Tree!Highest = DocMax
    BY <1>1 DEF Tree!Highest
  <2>2. PICK t \in (cur + 1)..(DocMax + 1) :
            Tree!Returned(t, AdvanceOf(kind, matcher, t))
    BY <1>4, <2>1, Zenon DEF Tree!CallAdvance, AdvanceOf
  <2>3. cur # -1
    BY <1>4 DEF Tree!CallAdvance, Tree!Exhausted
  <2>4. cur \in 0..DocMax
    BY <1>1, <2>3
  <2> DEFINE r == AdvanceOf(kind, matcher, t)
  <2>5. Done(kind, n, D, cur, t, r)
    BY <1>1, <1>2, <2>4, AdvanceReaches
  <2>6. t \in 1..(DocMax + 1) /\ t > cur
    BY <1>1, <2>4
  <2>7. Tree!Returned(t, r)
    BY <2>2
  <2> HIDE DEF r
  <2> QED
    BY <1>2, <2>5, <2>6, <2>7, CallIs
<1>5. CASE Tree!CallScore
  <2>1. /\ kind = "reqopt" /\ cur > 0 /\ matcher' = Tree!ScoreReqOpt(matcher)
        /\ kind' = kind /\ asked' = asked /\ cur' = cur
    BY <1>5 DEF Tree!CallScore
  <2>2. cur \in Nat /\ ReqInv(D, matcher, cur)
    BY <1>1, <1>2, <2>1 DEF Holds
  <2>3. ReqInv(D, matcher', cur)
    BY <1>1, <2>1, <2>2, ScoreReqIs
  <2>4. Holds(kind, n, D, matcher', cur)
    BY <1>2, <2>1, <2>3 DEF Holds
  <2>5. Holds(kind', n, D, matcher', cur') /\ kind' \in Called
    BY <1>1, <2>1, <2>4
  <2>6. MatcherInv'
    BY <2>1, <2>5 DEF MatcherInv
  <2>7. Tree!Matched' = Tree!Matched
    <3>1. Tree!Matched' = MatchedBy(kind', n, D)
      BY <2>5, MatchedIs, MatchedNow
    <3>2. Tree!Matched = MatchedBy(kind, n, D)
      BY <1>1, <1>2, MatchedIs, MatchedNow
    <3> QED
      BY <2>1, <3>1, <3>2
  <2> QED
    BY <2>1, <2>6, <2>7, Zenon
       DEF Tree!Iterator!MatcherStep, Tree!Iterator!vars
<1>6. CASE Tree!CallCollect
  BY <1>1, <1>6 DEF Tree!CallCollect
<1>7. CASE UNCHANGED Tree!vars
  <2>1. /\ kind' = kind /\ matcher' = matcher /\ asked' = asked /\ cur' = cur
    BY <1>7 DEF Tree!vars
  <2>2. MatcherInv'
    BY <2>1 DEF MatcherInv
  <2>3. Tree!Matched' = Tree!Matched
    <3>1. Holds(kind', n, D, matcher', cur') /\ kind' \in Called
      BY <1>1, <1>2, <2>1
    <3>2. Tree!Matched' = MatchedBy(kind', n, D)
      BY <3>1, MatchedIs, MatchedNow
    <3>3. Tree!Matched = MatchedBy(kind, n, D)
      BY <1>1, <1>2, MatchedIs, MatchedNow
    <3> QED
      BY <2>1, <3>2, <3>3
  <2> QED
    BY <2>1, <2>2, <2>3, Zenon
       DEF Tree!Iterator!MatcherStep, Tree!Iterator!vars
<1> QED
  BY <1>3, <1>4, <1>5, <1>6, <1>7, Zenon DEF Tree!Next

LEMMA RightlyIs ==
    ASSUME MatcherConstantsOK, MatcherInv
    PROVE  Tree!CallsChildrenRightly /\ Tree!ScoresTheMatching /\ Tree!TypeOK
<1>1. /\ DocMax \in Nat /\ Offset \in Nat /\ kind \in Called /\ kind \in Kinds
      /\ cur \in (0..DocMax) \union {-1}
      /\ asked \in 0..(Offset + DocMax + 1) /\ kind # "series"
  BY DEF MatcherConstantsOK, Called, MatcherInv
<1>2. PICK n, D : Holds(kind, n, D, matcher, cur)
  BY DEF MatcherInv
<1>3. /\ kind \in {"and", "or", "scorer", "not", "reqopt"} =>
             /\ KidsOf(n, D, matcher.kids) /\ Tree!Kids = 1..n
      /\ kind \in {"bits", "range", "filter"} => matcher.kids = <<>>
  BY <1>1, <1>2, ChildrenAre DEF Tree!Kids
<1>4. /\ n \in Tree!Arity(kind) /\ D \in [1..n -> DocSets]
      /\ kind = "reqopt" => n = 2
  BY <1>1, <1>2, Arities DEF Holds
<1>5. ASSUME NEW i \in Tree!Kids
      PROVE  /\ i \in 1..n /\ KidOf(D[i], matcher.kids[i])
             /\ Tree!Docs(i) = D[i]
  <2>1. CASE kind \in {"and", "or", "scorer", "not", "reqopt"}
    BY <1>3, <1>5, <2>1 DEF KidsOf, KidOf, Tree!Docs
  <2>2. CASE kind \in {"bits", "range", "filter"}
    BY <1>3, <1>5, <2>2 DEF Tree!Kids
  <2> QED
    BY <1>1, <2>1, <2>2 DEF Called
<1>6. Tree!CallsChildrenRightly
  BY <1>5 DEF Tree!CallsChildrenRightly, KidOf
<1>7. kind = "scorer" /\ cur > 0 =>
          matcher.scores = {i \in Tree!Kids : cur \in Tree!Docs(i)}
  <2> SUFFICES ASSUME kind = "scorer", cur > 0
               PROVE  matcher.scores = {i \in Tree!Kids : cur \in Tree!Docs(i)}
    OBVIOUS
  <2>1. matcher.scores = {i \in 1..n : cur \in D[i]}
    BY <1>2 DEF Holds, ScorerInv
  <2>2. Tree!Kids = 1..n
    BY <1>3
  <2> QED
    BY <1>5, <2>1, <2>2
<1>8. kind = "reqopt" /\ cur > 0 /\ matcher.scores # {} =>
          (2 \in matcher.scores) = (cur \in Tree!Docs(2))
  <2> SUFFICES ASSUME kind = "reqopt", cur > 0, matcher.scores # {}
               PROVE  (2 \in matcher.scores) = (cur \in Tree!Docs(2))
    OBVIOUS
  <2>1. 2 \in matcher.scores <=> cur \in D[2]
    BY <1>2 DEF Holds, ReqInv
  <2>2. 2 \in Tree!Kids
    BY <1>3, <1>4
  <2>3. Tree!Docs(2) = D[2]
    BY <1>5, <2>2
  <2> QED
    BY <2>1, <2>3
<1>9. Tree!ScoresTheMatching
  BY <1>7, <1>8, Zenon DEF Tree!ScoresTheMatching
<1>10. Tree!TypeOK
  <2>1. ASSUME NEW i \in Tree!Kids
        PROVE  /\ matcher.kids[i].docs \subseteq 1..DocMax
               /\ matcher.kids[i].cur \in matcher.kids[i].docs \union {0, -1}
    BY <1>4, <1>5 DEF KidOf, DocSets
  <2>2. Tree!Highest = DocMax
    BY <1>1 DEF Tree!Highest
  <2>3. cur \in -1..Tree!Highest
    BY <1>1, <2>2
  <2> QED
    BY <1>1, <2>1, <2>3 DEF Tree!TypeOK, Tree!Exhausted
<1> QED
  BY <1>6, <1>9, <1>10

\* A matcher visits the documents that match by the set operation of its class,
\* all of them, each once, from any target on, over any number of children that
\* keep the promise of an iterator (ANDMatcher, ORMatcher, ORScorer, NOTMatcher,
\* RequiredOptionalMatcher, BitVecMatcher, RangeMatcher, FilterMatcher).
THEOREM MatchersVisitTheMatches ==
    ASSUME MatcherConstantsOK
    PROVE  Tree!Spec => Tree!VisitsTheMatches
<1>1. Tree!Init => MatcherInv /\ Tree!Iterator!Init
  BY MatcherInitially
<1>2. MatcherInv /\ [Tree!Next]_(Tree!vars)
          => MatcherInv' /\ Tree!Iterator!MatcherStep
  BY MatcherSteps
<1> QED
  BY <1>1, <1>2, PTL
     DEF Tree!Spec, Tree!VisitsTheMatches, Tree!Iterator!Matcher,
         Tree!Iterator!MatcherStep

\* It calls its children only with targets beyond where they are, as Matcher.cfh
\* asks, and the children it scores for a document are those that match it.
THEOREM MatchersCallRightly ==
    ASSUME MatcherConstantsOK
    PROVE  Tree!Spec => [](/\ Tree!CallsChildrenRightly
                           /\ Tree!ScoresTheMatching /\ Tree!TypeOK)
<1>1. Tree!Init => MatcherInv
  BY MatcherInitially
<1>2. MatcherInv /\ [Tree!Next]_(Tree!vars) => MatcherInv'
  BY MatcherSteps
<1>3. MatcherInv => /\ Tree!CallsChildrenRightly
                    /\ Tree!ScoresTheMatching /\ Tree!TypeOK
  BY RightlyIs
<1> QED
  BY <1>1, <1>2, <1>3, PTL DEF Tree!Spec
============================================================================
