----------------------- MODULE LockFreeRegistryProofs -----------------------
(***************************************************************************)
(* Proofs about LockFreeRegistry.tla: a key is linked once, and every call *)
(* takes effect at one moment, for all threads, keys and hash functions.   *)
(***************************************************************************)
EXTENDS LockFreeRegistry, FiniteSetTheorems, TLAPS

\* Every entry is in the bucket of its key.
WellHashed ==
    \A b \in Bucket : \A i \in 1..Len(chain[b]) : HashOf[chain[b][i].key] = b

\* What a thread under way knows: the entries before its slot have other keys.
ThreadInv(t) ==
    /\ pc[t] # "idle" => call[t] \in Call
    /\ pc[t] = "idle" => call[t] = None
    /\ pc[t] = "return" <=> answer[t] # None
    /\ pc[t] \in {"walk", "compare", "allocate", "swap"} =>
          /\ slot[t] <= Len(List(t)) + 1
          /\ \A i \in 1..(slot[t] - 1) : List(t)[i].key # call[t].key
    /\ pc[t] = "compare" => slot[t] <= Len(List(t))
    /\ pc[t] \in {"allocate", "swap"} => call[t].op = "register"
    /\ t \in holds => /\ pc[t] \in {"walk", "compare", "swap"}
                      /\ call[t].op = "register"

Inv ==
    /\ TypeOK
    /\ KeysUnique
    /\ WellHashed
    /\ \A t \in Thread : ThreadInv(t)

-----------------------------------------------------------------------------
\* The fields of a call, and the bucket it is about.
LEMMA CallType ==
    ASSUME NEW c \in Call
    PROVE  /\ c.op \in {"register", "fetch"}
           /\ c.key \in Key /\ c.value \in Value
           /\ HashOf[c.key] \in Bucket
           /\ c # None
BY HashAssumption, NoneAssumption DEF Call

LEMMA InitInv == Init => Inv
<1> SUFFICES ASSUME Init PROVE Inv
  OBVIOUS
<1>1. TypeOK
  BY DEF Init, TypeOK, PCs, Answers
<1>2. KeysUnique /\ WellHashed
  BY DEF Init, KeysUnique, WellHashed
<1>3. \A t \in Thread : ThreadInv(t)
  BY DEF Init, ThreadInv
<1> QED
  BY <1>1, <1>2, <1>3 DEF Inv

\* What Append does to a list.
LEMMA AppendFacts ==
    ASSUME NEW S, NEW list \in Seq(S), NEW x \in S
    PROVE  /\ Len(Append(list, x)) = Len(list) + 1
           /\ \A i \in 1..Len(list) : Append(list, x)[i] = list[i]
           /\ Append(list, x)[Len(list) + 1] = x
OBVIOUS

\* What a step of another thread leaves alone, and what it may do.
Unmoved(u) ==
    /\ pc'[u] = pc[u] /\ call'[u] = call[u] /\ slot'[u] = slot[u]
    /\ answer'[u] = answer[u] /\ (u \in holds' <=> u \in holds)

ListsGrow ==
    \A b \in Bucket :
        /\ Len(chain'[b]) >= Len(chain[b])
        /\ \A i \in 1..Len(chain[b]) : chain'[b][i] = chain[b][i]

LEMMA OthersKnow ==
    ASSUME Inv, TypeOK', ListsGrow, NEW u \in Thread, Unmoved(u)
    PROVE  ThreadInv(u)'
<1> USE DEF Unmoved
<1>1. /\ pc'[u] = pc[u] /\ call'[u] = call[u] /\ slot'[u] = slot[u]
      /\ answer'[u] = answer[u] /\ (u \in holds' <=> u \in holds)
  OBVIOUS
<1>2. ThreadInv(u)
  BY DEF Inv
<1>3. CASE pc[u] = "idle"
  BY <1>1, <1>2, <1>3 DEF ThreadInv
<1>4. CASE pc[u] = "return"
  BY <1>1, <1>2, <1>4 DEF ThreadInv
<1>5. CASE pc[u] \notin {"idle", "return"}
  <2>1. call[u] \in Call /\ HashOf[call[u].key] \in Bucket
    BY <1>2, <1>5, CallType DEF ThreadInv
  <2>2. /\ Len(List(u)') >= Len(List(u))
        /\ \A i \in 1..Len(List(u)) : List(u)'[i] = List(u)[i]
        /\ Len(List(u)) \in Nat /\ Len(List(u)') \in Nat
        /\ slot[u] \in Nat
    BY <2>1, <1>1 DEF List, Inv, TypeOK, ListsGrow
  <2>3. pc[u] \in {"walk", "compare", "allocate", "swap"}
    BY <1>5 DEF Inv, TypeOK, PCs
  <2> HIDE DEF List
  <2> QED
    BY <1>1, <1>2, <2>1, <2>2, <2>3 DEF ThreadInv
<1> QED
  BY <1>3, <1>4, <1>5

-----------------------------------------------------------------------------
(* One lemma per action: it preserves the invariant.                       *)

LEMMA BeginInv == ASSUME Inv, NEW t \in Thread, Begin(t) PROVE Inv'
<1>1. PICK c \in Call : call' = [call EXCEPT ![t] = c]
  BY DEF Begin
<1>2. TypeOK'
  BY <1>1 DEF Inv, TypeOK, Begin, Goto, PCs
<1>3. KeysUnique' /\ WellHashed'
  BY DEF Inv, KeysUnique, WellHashed, Begin
<1>4. ThreadInv(t)'
  <2>1. /\ pc'[t] = "walk" /\ call'[t] = c /\ slot'[t] = 1
        /\ answer'[t] = None /\ t \notin holds'
    BY <1>1 DEF Inv, TypeOK, Begin, Goto, ThreadInv
  <2> QED
    BY <2>1, <1>1, CallType DEF Inv, TypeOK, Begin, Goto, ThreadInv, List
<1>5. ASSUME NEW u \in Thread, u # t PROVE ThreadInv(u)'
  <2>1. Unmoved(u) /\ ListsGrow
    BY <1>1, <1>5 DEF Begin, Goto, Inv, TypeOK, Unmoved, ListsGrow
  <2> QED
    BY <1>2, <2>1, OthersKnow
<1> QED
  BY <1>2, <1>3, <1>4, <1>5 DEF Inv

LEMMA WalkInv == ASSUME Inv, NEW t \in Thread, Walk(t) PROVE Inv'
<1>1. TypeOK'
  BY DEF Inv, TypeOK, Walk, Goto, PCs, Answers
<1>2. KeysUnique' /\ WellHashed'
  BY DEF Inv, KeysUnique, WellHashed, Walk
<1>3. ThreadInv(t)'
  <2>1. List(t)' = List(t) /\ Len(List(t)) \in Nat /\ slot[t] \in Nat
    BY CallType DEF Walk, List, Inv, TypeOK, ThreadInv
  <2>2. ThreadInv(t) /\ call[t] \in Call
    BY DEF Inv, ThreadInv, Walk
  <2>3. "nothing" # None
    BY NoneAssumption
  <2> HIDE DEF List
  <2>4. CASE slot[t] <= Len(List(t))
    BY <2>1, <2>2, <2>4 DEF Inv, TypeOK, Walk, Goto, ThreadInv
  <2>5. CASE slot[t] > Len(List(t)) /\ call[t].op = "fetch"
    BY <2>1, <2>2, <2>3, <2>5 DEF Inv, TypeOK, Walk, Goto, ThreadInv
  <2>6. CASE slot[t] > Len(List(t)) /\ call[t].op # "fetch"
    BY <2>1, <2>2, <2>6, CallType DEF Inv, TypeOK, Walk, Goto, ThreadInv
  <2> QED
    BY <2>1, <2>4, <2>5, <2>6
<1>4. ASSUME NEW u \in Thread, u # t PROVE ThreadInv(u)'
  <2>1. Unmoved(u) /\ ListsGrow
    BY <1>4 DEF Walk, Goto, Inv, TypeOK, Unmoved, ListsGrow
  <2> QED
    BY <1>1, <2>1, OthersKnow
<1> QED
  BY <1>1, <1>2, <1>3, <1>4 DEF Inv

LEMMA CompareInv == ASSUME Inv, NEW t \in Thread, Compare(t) PROVE Inv'
<1> DEFINE e == List(t)[slot[t]]
<1>1. /\ ThreadInv(t) /\ call[t] \in Call /\ List(t) \in Seq(Entry)
      /\ slot[t] \in 1..Len(List(t))
  BY CallType DEF Inv, TypeOK, ThreadInv, Compare, List
<1>2. e \in Entry
  BY <1>1
<1>3. TypeOK'
  <2>1. e.value \in Value
    BY <1>2 DEF Entry
  <2> HIDE DEF e
  <2>2. CASE e.key = call[t].key
    <3>1. answer' \in [Thread -> Answers]
      BY <2>1, <2>2 DEF Inv, TypeOK, Compare, Answers, e
    <3>2. /\ pc' = [pc EXCEPT ![t] = "return"] /\ holds' = holds \ {t}
          /\ allocated' \in {allocated, allocated - 1}
          /\ UNCHANGED <<chain, call, slot>>
      BY <2>2 DEF Compare, Goto, e
    <3> QED
      BY <3>1, <3>2 DEF Inv, TypeOK, PCs
  <2>3. CASE e.key # call[t].key
    <3>1. /\ pc' = [pc EXCEPT ![t] = "walk"]
          /\ slot' = [slot EXCEPT ![t] = @ + 1]
          /\ UNCHANGED <<chain, call, answer, holds, allocated>>
      BY <2>3 DEF Compare, Goto, e
    <3> QED
      BY <3>1 DEF Inv, TypeOK, PCs
  <2> QED
    BY <2>2, <2>3
<1>4. KeysUnique' /\ WellHashed'
  BY DEF Inv, KeysUnique, WellHashed, Compare
<1>5. ThreadInv(t)'
  <2>1. List(t)' = List(t)
    BY DEF Compare, List
  <2>2. e.value # None /\ "refused" # None
    BY <1>2, NoneAssumption DEF Entry
  <2> HIDE DEF List
  <2>3. CASE e.key = call[t].key
    BY <1>1, <2>1, <2>2, <2>3 DEF Inv, TypeOK, Compare, Goto, ThreadInv
  <2>4. CASE e.key # call[t].key
    BY <1>1, <2>1, <2>4 DEF Inv, TypeOK, Compare, Goto, ThreadInv
  <2> QED
    BY <2>3, <2>4
<1>6. ASSUME NEW u \in Thread, u # t PROVE ThreadInv(u)'
  <2>1. Unmoved(u) /\ ListsGrow
    BY <1>6 DEF Compare, Goto, Inv, TypeOK, Unmoved, ListsGrow
  <2> QED
    BY <1>3, <2>1, OthersKnow
<1> QED
  BY <1>3, <1>4, <1>5, <1>6 DEF Inv

LEMMA AllocateInv == ASSUME Inv, NEW t \in Thread, Allocate(t) PROVE Inv'
<1>1. TypeOK'
  BY DEF Inv, TypeOK, Allocate, Goto, PCs
<1>2. KeysUnique' /\ WellHashed'
  BY DEF Inv, KeysUnique, WellHashed, Allocate
<1>3. ThreadInv(t)'
  <2>1. List(t)' = List(t) /\ ThreadInv(t)
    BY DEF Allocate, List, Inv
  <2> HIDE DEF List
  <2> QED
    BY <2>1 DEF Inv, TypeOK, Allocate, Goto, ThreadInv
<1>4. ASSUME NEW u \in Thread, u # t PROVE ThreadInv(u)'
  <2>1. Unmoved(u) /\ ListsGrow
    BY <1>4 DEF Allocate, Goto, Inv, TypeOK, Unmoved, ListsGrow
  <2> QED
    BY <1>1, <2>1, OthersKnow
<1> QED
  BY <1>1, <1>2, <1>3, <1>4 DEF Inv

\* The only step that changes a list.  The slot is the end of it, and the
\* thread has seen that no entry before has its key.
LEMMA SwapInv == ASSUME Inv, NEW t \in Thread, Swap(t) PROVE Inv'
<1> DEFINE b == HashOf[call[t].key]
           new == [key |-> call[t].key, value |-> call[t].value]
<1>1. /\ ThreadInv(t) /\ call[t] \in Call /\ b \in Bucket /\ new \in Entry
      /\ chain[b] \in Seq(Entry) /\ slot[t] \in Nat \ {0}
  BY CallType DEF Inv, TypeOK, ThreadInv, Swap, Entry
<1>4. new.key = call[t].key /\ List(t) = chain[b] /\ HashOf[new.key] = b
  BY DEF List
<1> HIDE DEF b, new
<1>2. CASE slot[t] = Len(chain[b]) + 1
  <2>1. /\ chain' = [chain EXCEPT ![b] = Append(chain[b], new)]
        /\ holds' = holds \ {t} /\ answer' = [answer EXCEPT ![t] = "registered"]
        /\ pc' = [pc EXCEPT ![t] = "return"]
        /\ UNCHANGED <<call, slot, allocated>>
    BY <1>2 DEF Swap, Goto, b, new
  <2>2. \A c \in Bucket : chain'[c] = IF c = b THEN Append(chain[b], new)
                                               ELSE chain[c]
    BY <2>1 DEF Inv, TypeOK
  <2>3. \A i \in 1..Len(chain[b]) : chain[b][i].key # new.key
    BY <1>1, <1>2, <1>4 DEF ThreadInv, Swap
  <2>4. TypeOK'
    BY <2>1, <1>1 DEF Inv, TypeOK, PCs, Answers
  <2>5. /\ Len(chain'[b]) = Len(chain[b]) + 1
        /\ \A i \in 1..Len(chain[b]) : chain'[b][i] = chain[b][i]
        /\ chain'[b][Len(chain[b]) + 1] = new
    <3>1. chain'[b] = Append(chain[b], new)
      BY <2>2, <1>1
    <3> QED
      BY ONLY <3>1, <1>1, AppendFacts
  <2>6. ListsGrow
    BY <2>2, <2>5, <1>1 DEF ListsGrow, Inv, TypeOK
  <2>7. KeysUnique'
    <3> SUFFICES ASSUME NEW c \in Bucket, NEW i \in 1..Len(chain'[c]),
                        NEW j \in 1..Len(chain'[c]),
                        chain'[c][i].key = chain'[c][j].key
                 PROVE  i = j
      BY DEF KeysUnique
    <3>1. CASE c # b
      BY <3>1, <2>2 DEF Inv, KeysUnique
    <3>2. CASE c = b
      <4>1. Len(chain[b]) \in Nat /\ i \in 1..(Len(chain[b]) + 1)
                                 /\ j \in 1..(Len(chain[b]) + 1)
        BY <3>2, <2>5, <1>1
      <4>2. CASE i <= Len(chain[b]) /\ j <= Len(chain[b])
        BY <4>1, <4>2, <3>2, <2>5, <1>1 DEF Inv, KeysUnique
      <4>3. CASE i = Len(chain[b]) + 1 /\ j <= Len(chain[b])
        BY <4>1, <4>3, <3>2, <2>3, <2>5
      <4>4. CASE i <= Len(chain[b]) /\ j = Len(chain[b]) + 1
        BY <4>1, <4>4, <3>2, <2>3, <2>5
      <4> QED
        BY <4>1, <4>2, <4>3, <4>4
    <3> QED
      BY <3>1, <3>2
  <2>8. WellHashed'
    <3> SUFFICES ASSUME NEW c \in Bucket, NEW i \in 1..Len(chain'[c])
                 PROVE  HashOf[chain'[c][i].key] = c
      BY DEF WellHashed
    <3>1. CASE c # b
      BY <3>1, <2>2 DEF Inv, WellHashed
    <3>2. CASE c = b
      BY <3>2, <2>5, <1>1, <1>4 DEF Inv, WellHashed
    <3> QED
      BY <3>1, <3>2
  <2>9. ThreadInv(t)'
    BY <2>1, <1>1, NoneAssumption DEF Inv, TypeOK, ThreadInv
  <2>10. ASSUME NEW u \in Thread, u # t PROVE ThreadInv(u)'
    <3>1. Unmoved(u)
      BY <2>1, <2>10 DEF Inv, TypeOK, Unmoved
    <3> QED
      BY <3>1, <2>4, <2>6, OthersKnow
  <2> QED
    BY <2>4, <2>7, <2>8, <2>9, <2>10 DEF Inv
<1>3. CASE slot[t] # Len(chain[b]) + 1
  <2>1. /\ pc' = [pc EXCEPT ![t] = "walk"]
        /\ UNCHANGED <<chain, holds, answer, call, slot, allocated>>
    BY <1>3 DEF Swap, Goto, b
  <2>2. TypeOK'
    BY <2>1 DEF Inv, TypeOK, PCs
  <2>3. KeysUnique' /\ WellHashed'
    BY <2>1 DEF Inv, KeysUnique, WellHashed
  <2>4. ThreadInv(t)'
    BY <2>1, <1>1 DEF Inv, TypeOK, ThreadInv, List, Swap
  <2>5. ASSUME NEW u \in Thread, u # t PROVE ThreadInv(u)'
    <3>1. Unmoved(u) /\ ListsGrow
      BY <2>1, <2>5 DEF Inv, TypeOK, Unmoved, ListsGrow
    <3> QED
      BY <3>1, <2>2, OthersKnow
  <2> QED
    BY <2>2, <2>3, <2>4, <2>5 DEF Inv
<1> QED
  BY <1>2, <1>3

LEMMA EndInv == ASSUME Inv, NEW t \in Thread, End(t) PROVE Inv'
<1>1. TypeOK'
  BY DEF Inv, TypeOK, End, Goto, PCs, Answers
<1>2. KeysUnique' /\ WellHashed'
  BY DEF Inv, KeysUnique, WellHashed, End
<1>3. ThreadInv(t)'
  BY DEF Inv, TypeOK, End, Goto, ThreadInv
<1>4. ASSUME NEW u \in Thread, u # t PROVE ThreadInv(u)'
  <2>1. Unmoved(u) /\ ListsGrow
    BY <1>4 DEF End, Goto, Inv, TypeOK, Unmoved, ListsGrow
  <2> QED
    BY <1>1, <2>1, OthersKnow
<1> QED
  BY <1>1, <1>2, <1>3, <1>4 DEF Inv

LEMMA StepInv == Inv /\ [Next]_vars => Inv'
<1>1. ASSUME Inv, Next PROVE Inv'
  BY <1>1, BeginInv, WalkInv, CompareInv, AllocateInv, SwapInv, EndInv
     DEF Next, Step
<1>2. ASSUME Inv, UNCHANGED vars PROVE Inv'
  BY <1>2 DEF vars, Inv, TypeOK, KeysUnique, WellHashed, ThreadInv, List
<1> QED
  BY <1>1, <1>2

\* Values keep their types.
THEOREM TypeCorrect == Spec => []TypeOK
<1>1. Inv => TypeOK
  BY DEF Inv
<1> QED
  BY <1>1, InitInv, StepInv, PTL DEF Spec

\* A key is linked once, for any number of threads and any hash function.
THEOREM OneEntryPerKey == Spec => []KeysUnique
<1>1. Inv => KeysUnique
  BY DEF Inv
<1> QED
  BY <1>1, InitInv, StepInv, PTL DEF Spec

-----------------------------------------------------------------------------
(* Memory: what is allocated is linked, or in the hands of one thread.     *)

\* A thread swaps what it has allocated.
SwapsItsOwn == \A t \in Thread : pc[t] = "swap" => t \in holds

\* The entries of the lists, as NothingLeaks counts them.
Linked == {e \in Bucket \X (1..Cardinality(Key)) : e[2] <= Len(chain[e[1]])}

MemoryInv ==
    /\ SwapsItsOwn
    /\ allocated = Cardinality(Linked) + Cardinality(holds)

\* No list is longer than there are keys, when no key is in it twice.
LEMMA ListsAreShort ==
    ASSUME IsFiniteSet(Key), NEW list \in Seq(Entry),
           \A i, j \in 1..Len(list) : list[i].key = list[j].key => i = j
    PROVE  Len(list) <= Cardinality(Key)
<1> DEFINE I == 1..Len(list)
           f == [i \in I |-> list[i].key]
<1>1. \A i \in I : list[i].key \in Key
  <2>1. \A i \in I : list[i] \in Entry
    OBVIOUS
  <2> QED
    BY <2>1 DEF Entry
<1>2. f \in [I -> Key]
  BY <1>1
<1>3. f \in Injection(I, Key)
  BY <1>2 DEF Injection, IsInjective
<1>4. Cardinality(I) <= Cardinality(Key)
  BY <1>3, FS_Injection
<1>5. Cardinality(I) = Len(list)
  BY FS_Interval
<1> QED
  BY <1>4, <1>5

\* Another entry at the end of a list is another entry.
LEMMA LinkedGrows ==
    ASSUME Inv, Inv', IsFiniteSet(Key), IsFiniteSet(Bucket),
           NEW b \in Bucket, NEW e \in Entry,
           chain' = [chain EXCEPT ![b] = Append(@, e)]
    PROVE  /\ IsFiniteSet(Linked)
           /\ Cardinality(Linked') = Cardinality(Linked) + 1
<1> DEFINE new == <<b, Len(chain[b]) + 1>>
<1>1. Cardinality(Key) \in Nat
  BY FS_CardinalityType
<1>2. IsFiniteSet(1..Cardinality(Key))
  BY <1>1, FS_Interval
<1>3. IsFiniteSet(Bucket \X (1..Cardinality(Key)))
  BY <1>2, FS_Product
<1>4. IsFiniteSet(Linked)
  BY <1>3, FS_Subset DEF Linked
<1>5. chain \in [Bucket -> Seq(Entry)]
  BY DEF Inv, TypeOK
<1>6. /\ Len(chain'[b]) = Len(chain[b]) + 1 /\ Len(chain[b]) \in Nat
      /\ \A c \in Bucket \ {b} : chain'[c] = chain[c]
  BY <1>5
<1>7. Len(chain'[b]) <= Cardinality(Key)
  <2>1. chain'[b] \in Seq(Entry)
    BY <1>5
  <2>2. \A i, j \in 1..Len(chain'[b]) :
           chain'[b][i].key = chain'[b][j].key => i = j
    BY DEF Inv, KeysUnique
  <2> QED
    BY <2>1, <2>2, ListsAreShort
<1>8. new \in Bucket \X (1..Cardinality(Key))
  BY <1>1, <1>6, <1>7
<1>9. new \notin Linked
  BY <1>6 DEF Linked
<1>10. Linked' = Linked \cup {new}
  <2>1. ASSUME NEW c \in Bucket, NEW i \in 1..Cardinality(Key)
        PROVE  i <= Len(chain'[c]) <=> i <= Len(chain[c]) \/ <<c, i>> = new
    BY <1>1, <1>6, <2>1
  <2> QED
    BY <1>8, <2>1 DEF Linked
<1> QED
  BY <1>4, <1>9, <1>10, FS_AddElement

LEMMA MemoryKept ==
    ASSUME IsFiniteSet(Thread), IsFiniteSet(Key), IsFiniteSet(Bucket),
           Inv, Inv', MemoryInv, [Next]_vars
    PROVE  MemoryInv'
<1>1. /\ pc \in [Thread -> PCs]
      /\ holds \subseteq Thread /\ holds' \subseteq Thread
      /\ \A t \in Thread : ThreadInv(t)
  BY DEF Inv, TypeOK
<1>2. IsFiniteSet(holds) /\ Cardinality(holds) \in Nat
  BY <1>1, FS_Subset, FS_CardinalityType
<1>3. ASSUME chain' = chain PROVE Linked' = Linked
  BY <1>3 DEF Linked
<1>4. IsFiniteSet(Linked) /\ Cardinality(Linked) \in Nat
  <2>1. IsFiniteSet(1..Cardinality(Key))
    BY FS_CardinalityType, FS_Interval
  <2>2. IsFiniteSet(Bucket \X (1..Cardinality(Key)))
    BY <2>1, FS_Product
  <2> QED
    BY <2>2, FS_Subset, FS_CardinalityType DEF Linked
<1>5. ASSUME NEW t \in Thread, Begin(t) PROVE MemoryInv'
  BY <1>1, <1>3, <1>5 DEF Begin, Goto, MemoryInv, SwapsItsOwn
<1>6. ASSUME NEW t \in Thread, Walk(t) PROVE MemoryInv'
  BY <1>1, <1>3, <1>6 DEF Walk, Goto, MemoryInv, SwapsItsOwn
<1>7. ASSUME NEW t \in Thread, Compare(t) PROVE MemoryInv'
  <2>1. Linked' = Linked
    BY <1>3, <1>7 DEF Compare
  <2>2. SwapsItsOwn'
    BY <1>1, <1>7 DEF Compare, Goto, MemoryInv, SwapsItsOwn
  <2>3. /\ Cardinality(holds \ {t}) = IF t \in holds THEN Cardinality(holds) - 1
                                                     ELSE Cardinality(holds)
    BY <1>2, FS_RemoveElement
  <2>4. CASE /\ holds' = holds \ {t}
             /\ allocated' = IF t \in holds THEN allocated - 1 ELSE allocated
    BY <1>2, <1>4, <2>1, <2>2, <2>3, <2>4 DEF MemoryInv
  <2>5. CASE UNCHANGED <<holds, allocated>>
    BY <2>1, <2>2, <2>5 DEF MemoryInv
  <2> QED
    BY <1>7, <2>4, <2>5 DEF Compare
<1>8. ASSUME NEW t \in Thread, Allocate(t) PROVE MemoryInv'
  <2>1. t \notin holds
    BY <1>1, <1>8 DEF Allocate, ThreadInv
  <2>2. SwapsItsOwn'
    BY <1>1, <1>8 DEF Allocate, Goto, MemoryInv, SwapsItsOwn
  <2>3. Cardinality(holds') = Cardinality(holds) + 1
    BY <1>2, <1>8, <2>1, FS_AddElement DEF Allocate
  <2>4. Linked' = Linked /\ allocated' = allocated + 1
    BY <1>3, <1>8 DEF Allocate
  <2> QED
    BY <1>2, <1>4, <2>2, <2>3, <2>4 DEF MemoryInv
<1>9. ASSUME NEW t \in Thread, Swap(t) PROVE MemoryInv'
  <2> DEFINE b == HashOf[call[t].key]
             e == [key |-> call[t].key, value |-> call[t].value]
  <2>1. t \in holds /\ call[t] \in Call
    BY <1>1, <1>9 DEF Swap, MemoryInv, SwapsItsOwn, ThreadInv
  <2>2. b \in Bucket /\ e \in Entry
    BY <2>1, CallType DEF Entry
  <2>3. SwapsItsOwn'
    BY <1>1, <1>9 DEF Swap, Goto, MemoryInv, SwapsItsOwn
  <2>4. CASE slot[t] = Len(chain[b]) + 1
    <3>1. /\ chain' = [chain EXCEPT ![b] = Append(@, e)]
          /\ holds' = holds \ {t} /\ allocated' = allocated
      BY <1>9, <2>4 DEF Swap
    <3>2. Cardinality(Linked') = Cardinality(Linked) + 1
      BY <2>2, <3>1, LinkedGrows
    <3>3. Cardinality(holds') = Cardinality(holds) - 1
      BY <1>2, <2>1, <3>1, FS_RemoveElement
    <3> QED
      BY <1>2, <1>4, <2>3, <3>1, <3>2, <3>3 DEF MemoryInv
  <2>5. CASE slot[t] # Len(chain[b]) + 1
    BY <1>3, <1>9, <2>3, <2>5 DEF Swap, MemoryInv
  <2> QED
    BY <2>4, <2>5
<1>10. ASSUME NEW t \in Thread, End(t) PROVE MemoryInv'
  BY <1>1, <1>3, <1>10 DEF End, Goto, MemoryInv, SwapsItsOwn
<1>11. CASE UNCHANGED vars
  BY <1>3, <1>11 DEF vars, MemoryInv, SwapsItsOwn
<1> QED
  BY <1>5, <1>6, <1>7, <1>8, <1>9, <1>10, <1>11 DEF Next, Step

\* However many threads lose a race, and whatever they were registering, each
\* entry in memory is linked or about to be.
THEOREM EveryEntryIsAccountedFor ==
    ASSUME IsFiniteSet(Thread), IsFiniteSet(Key), IsFiniteSet(Bucket)
    PROVE  Spec => []NothingLeaks
<1>1. Init => MemoryInv
  <2> SUFFICES ASSUME Init PROVE MemoryInv
    OBVIOUS
  <2>1. Linked = {}
    <3>1. \A b \in Bucket : Len(chain[b]) = 0
      BY DEF Init
    <3>2. \A i \in 1..Cardinality(Key) : i > 0
      BY FS_CardinalityType
    <3> QED
      BY <3>1, <3>2 DEF Linked
  <2> QED
    BY <2>1, FS_EmptySet DEF Init, MemoryInv, SwapsItsOwn
<1>2. Inv /\ Inv' /\ MemoryInv /\ [Next]_vars => MemoryInv'
  BY MemoryKept
<1>3. MemoryInv => NothingLeaks
  BY DEF MemoryInv, NothingLeaks, Linked
<1> QED
  BY <1>1, <1>2, <1>3, InitInv, StepInv, PTL DEF Spec

-----------------------------------------------------------------------------
(* The registry implements the atomic map.                                 *)

\* The value found under a key is that of its only entry.
LEMMA FoundHit ==
    ASSUME NEW list, NEW k, NEW i \in 1..Len(list), list[i].key = k,
           \A m, n \in 1..Len(list) : list[m].key = list[n].key => m = n
    PROVE  Found(list, k) = list[i].value
<1>1. PICK n \in 1..Len(list) :
         n = CHOOSE m \in 1..Len(list) : list[m].key = k
  OBVIOUS
<1>2. list[n].key = k
  BY <1>1
<1>3. n = i
  BY <1>2
<1> QED
  BY <1>1, <1>3 DEF Found

LEMMA RegisteredHit ==
    ASSUME Inv, NEW k \in Key, NEW i \in 1..Len(chain[HashOf[k]]),
           chain[HashOf[k]][i].key = k
    PROVE  Registered(k) = chain[HashOf[k]][i].value
<1>1. HashOf[k] \in Bucket
  BY HashAssumption
<1> DEFINE list == chain[HashOf[k]]
<1>2. \A m, n \in 1..Len(list) : list[m].key = list[n].key => m = n
  BY <1>1 DEF Inv, KeysUnique
<1> HIDE DEF list
<1>3. i \in 1..Len(list) /\ list[i].key = k
  BY DEF list
<1>4. Found(list, k) = list[i].value
  BY <1>2, <1>3, FoundHit
<1> QED
  BY <1>4 DEF Registered, list

LEMMA RegisteredHitNext ==
    ASSUME Inv', NEW k \in Key, NEW i \in 1..Len(chain'[HashOf[k]]),
           chain'[HashOf[k]][i].key = k
    PROVE  Registered(k)' = chain'[HashOf[k]][i].value
<1>1. HashOf[k] \in Bucket
  BY HashAssumption
<1> DEFINE list == chain'[HashOf[k]]
<1>2. \A m, n \in 1..Len(list) : list[m].key = list[n].key => m = n
  BY <1>1 DEF Inv, KeysUnique
<1> HIDE DEF list
<1>3. i \in 1..Len(list) /\ list[i].key = k
  BY DEF list
<1>4. Found(list, k) = list[i].value
  BY <1>2, <1>3, FoundHit
<1> QED
  BY <1>4 DEF Registered, list

LEMMA FoundMiss ==
    ASSUME NEW list, NEW k, \A i \in 1..Len(list) : list[i].key # k
    PROVE  Found(list, k) = None
BY DEF Found

LEMMA RegisteredMiss ==
    ASSUME NEW k \in Key,
           \A i \in 1..Len(chain[HashOf[k]]) : chain[HashOf[k]][i].key # k
    PROVE  Registered(k) = None
BY FoundMiss DEF Registered

LEMMA InitMaps == Init => Abstract!Init
<1> SUFFICES ASSUME Init PROVE Abstract!Init
  OBVIOUS
<1>1. \A k \in Key : Registered(k) = None
  BY HashAssumption DEF Init, Registered, Found
<1> QED
  BY <1>1 DEF Init, Abstract!Init

\* A step that leaves the lists alone leaves the map alone.
LEMMA SameMap ==
    ASSUME chain' = chain
    PROVE  [k \in Key |-> Registered(k)]' = [k \in Key |-> Registered(k)]
BY DEF Registered

LEMMA BeginMaps ==
    ASSUME Inv, NEW t \in Thread, Begin(t) PROVE Abstract!Begin(t)
<1>1. call[t] = None
  BY DEF Inv, ThreadInv, Begin
<1>2. [k \in Key |-> Registered(k)]' = [k \in Key |-> Registered(k)]
  BY SameMap DEF Begin
<1> QED
  BY <1>1, <1>2 DEF Begin, Abstract!Begin, Abstract!Call, Call

LEMMA WalkMaps ==
    ASSUME Inv, NEW t \in Thread, Walk(t)
    PROVE  Abstract!Act(t) \/ UNCHANGED Abstract!vars
<1>1. [k \in Key |-> Registered(k)]' = [k \in Key |-> Registered(k)]
  BY SameMap DEF Walk
<1>2. /\ ThreadInv(t) /\ call[t] \in Call /\ List(t) \in Seq(Entry)
      /\ slot[t] \in Nat /\ slot[t] <= Len(List(t)) + 1
      /\ call[t].key \in Key /\ answer[t] = None /\ call[t] # None
  BY CallType DEF Inv, TypeOK, ThreadInv, Walk, List
<1>3. CASE slot[t] > Len(List(t)) /\ call[t].op = "fetch"
  <2>1. slot[t] - 1 = Len(List(t))
    BY <1>2, <1>3
  <2>2. \A i \in 1..Len(List(t)) : List(t)[i].key # call[t].key
    BY <1>2, <2>1 DEF ThreadInv, Walk
  <2>3. Registered(call[t].key) = None
    BY <2>2, <1>2, RegisteredMiss DEF List
  <2>4. /\ answer' = [answer EXCEPT ![t] = "nothing"] /\ answer'[t] = "nothing"
        /\ UNCHANGED call
    BY <1>2, <1>3 DEF Walk, Inv, TypeOK
  <2> QED
    BY <1>1, <1>2, <1>3, <2>3, <2>4 DEF Abstract!Act, Abstract!Answer
<1>4. CASE ~(slot[t] > Len(List(t)) /\ call[t].op = "fetch")
  BY <1>1, <1>2, <1>4 DEF Walk, Abstract!vars
<1> QED
  BY <1>3, <1>4

LEMMA CompareMaps ==
    ASSUME Inv, NEW t \in Thread, Compare(t)
    PROVE  Abstract!Act(t) \/ UNCHANGED Abstract!vars
<1> DEFINE e == List(t)[slot[t]]
<1>1. [k \in Key |-> Registered(k)]' = [k \in Key |-> Registered(k)]
  BY SameMap DEF Compare
<1>2. /\ ThreadInv(t) /\ call[t] \in Call /\ List(t) \in Seq(Entry)
      /\ slot[t] \in 1..Len(List(t))
      /\ call[t].key \in Key /\ answer[t] = None /\ call[t] # None
  BY CallType DEF Inv, TypeOK, ThreadInv, Compare, List
<1>3. CASE e.key = call[t].key
  <2>1. Registered(call[t].key) = e.value
    BY <1>2, <1>3, RegisteredHit DEF List
  <2>2. e.value \in Value
    <3>1. e \in Entry
      BY <1>2
    <3> HIDE DEF e
    <3> QED
      BY <3>1 DEF Entry
  <2>3. e.value # None /\ e.value # "registered"
    BY <2>2, NoneAssumption, ValueAssumption
  <2>4. /\ answer' = [answer EXCEPT ![t] = IF call[t].op = "fetch" THEN e.value
                                                                ELSE "refused"]
        /\ UNCHANGED call
    BY <1>3 DEF Compare
  <2>5. call[t].op \in {"register", "fetch"}
    BY <1>2, CallType
  <2> HIDE DEF e
  <2>6. answer'[t] = IF call[t].op = "fetch" THEN e.value ELSE "refused"
    BY <2>4 DEF Inv, TypeOK
  <2>7. CASE call[t].op = "fetch"
    BY <1>1, <1>2, <2>1, <2>3, <2>4, <2>6, <2>7
       DEF Abstract!Act, Abstract!Answer
  <2>8. CASE call[t].op = "register"
    <3>1. [k \in Key |-> Registered(k)][call[t].key] # None
      BY <1>2, <2>1, <2>3
    <3>2. answer' = [answer EXCEPT ![t] = "refused"] /\ answer'[t] = "refused"
      BY <2>4, <2>6, <2>8
    <3> QED
      BY <1>1, <1>2, <2>4, <2>8, <3>1, <3>2 DEF Abstract!Act, Abstract!Answer
  <2> QED
    BY <2>5, <2>7, <2>8
<1>4. CASE e.key # call[t].key
  BY <1>1, <1>4 DEF Compare, Abstract!vars
<1> QED
  BY <1>3, <1>4

LEMMA SwapMaps ==
    ASSUME Inv, NEW t \in Thread, Swap(t)
    PROVE  Abstract!Act(t) \/ UNCHANGED Abstract!vars
<1> DEFINE k0 == call[t].key
           b == HashOf[k0]
           new == [key |-> k0, value |-> call[t].value]
<1>1. /\ ThreadInv(t) /\ call[t] \in Call /\ List(t) = chain[b]
      /\ b \in Bucket /\ chain[b] \in Seq(Entry) /\ new \in Entry
      /\ slot[t] \in Nat /\ k0 \in Key /\ call[t].op = "register"
      /\ answer[t] = None /\ call[t] # None
  BY CallType DEF Inv, TypeOK, ThreadInv, Swap, List, Entry
<1>2. CASE slot[t] = Len(chain[b]) + 1
  <2>1. slot[t] - 1 = Len(chain[b])
    BY <1>1, <1>2
  <2>2. \A i \in 1..Len(chain[b]) : chain[b][i].key # k0
    BY <1>1, <2>1 DEF ThreadInv, Swap
  <2>3. Registered(k0) = None
    BY <2>2, <1>1, RegisteredMiss
  <2>4. /\ answer' = [answer EXCEPT ![t] = "registered"] /\ UNCHANGED call
        /\ answer'[t] = "registered"
        /\ chain' = [chain EXCEPT ![b] = Append(chain[b], new)]
    BY <1>2 DEF Swap, Inv, TypeOK
  <2>5. Inv'
    BY SwapInv
  <2>6. chain'[b] = Append(chain[b], new)
    BY <2>4, <1>1 DEF Inv, TypeOK
  <2>7. /\ Len(chain'[b]) = Len(chain[b]) + 1 /\ Len(chain[b]) \in Nat
        /\ \A i \in 1..Len(chain[b]) : chain'[b][i] = chain[b][i]
        /\ chain'[b][Len(chain[b]) + 1] = new
    BY ONLY <2>6, <1>1, AppendFacts
  <2>8. new.key = k0 /\ new.value = call[t].value
    OBVIOUS
  <2> HIDE DEF new
  <2>9. Registered(k0)' = call[t].value
    <3>1. Len(chain[b]) + 1 \in 1..Len(chain'[b])
      BY <2>7
    <3>2. chain'[b][Len(chain[b]) + 1].key = k0
      BY <2>7, <2>8
    <3>3. HashOf[k0] = b
      OBVIOUS
    <3>4. PICK i \in 1..Len(chain'[b]) : i = Len(chain[b]) + 1
      BY <3>1
    <3>5. k0' = k0
      BY <2>4
    <3> HIDE DEF b, k0
    <3>6. ASSUME NEW k \in Key, k = k0
          PROVE  Registered(k)' = chain'[b][i].value
      BY <3>2, <3>3, <3>4, <3>6, <2>5, RegisteredHitNext
    <3> QED
      BY <3>4, <3>5, <3>6, <1>1, <2>7, <2>8 DEF Registered
  <2>10. ASSUME NEW k \in Key, k # k0 PROVE Registered(k)' = Registered(k)
    <3> DEFINE list == chain[HashOf[k]]
    <3>1. HashOf[k] \in Bucket
      BY HashAssumption
    <3>2. CASE HashOf[k] # b
      <4>1. chain'[HashOf[k]] = chain[HashOf[k]]
        BY <3>1, <3>2, <2>4 DEF Inv, TypeOK
      <4> QED
        BY <4>1 DEF Registered
    <3>3. CASE HashOf[k] = b /\ \E i \in 1..Len(list) : list[i].key = k
      <4>1. PICK i \in 1..Len(list) : list[i].key = k
        BY <3>3
      <4>2. Registered(k) = list[i].value
        BY <4>1, RegisteredHit
      <4>3. /\ i \in 1..Len(chain'[HashOf[k]])
            /\ chain'[HashOf[k]][i] = list[i]
        BY <4>1, <3>3, <2>7
      <4>4. Registered(k)' = chain'[HashOf[k]][i].value
        BY <4>1, <4>3, <2>5, RegisteredHitNext
      <4> QED
        BY <4>2, <4>3, <4>4
    <3>4. CASE HashOf[k] = b /\ ~\E i \in 1..Len(list) : list[i].key = k
      <4>1. Registered(k) = None
        BY <3>4, RegisteredMiss
      <4>2. ASSUME NEW i \in 1..Len(chain'[b]) PROVE chain'[b][i].key # k
        <5>1. i \in 1..Len(chain[b]) \/ i = Len(chain[b]) + 1
          BY <2>7
        <5> HIDE DEF b
        <5> QED
          BY <5>1, <2>7, <2>8, <2>10, <3>4
      <4>3. Registered(k)' = None
        BY <3>4, <4>2, FoundMiss DEF Registered
      <4> QED
        BY <4>1, <4>3
    <3> QED
      BY <3>2, <3>3, <3>4
  <2>11. [k \in Key |-> Registered(k)]'
            = [[k \in Key |-> Registered(k)] EXCEPT ![k0] = call[t].value]
    <3>1. k0' = k0
      BY <2>4
    <3> HIDE DEF k0
    <3>2. Found(chain'[HashOf[k0]], k0) = call[t].value
      BY <2>9, <3>1 DEF Registered
    <3>3. \A k \in Key : Found(chain'[HashOf[k]], k)
                            = IF k = k0 THEN call[t].value ELSE Registered(k)
      BY <3>2, <2>10 DEF Registered
    <3> QED
      BY <3>3, <1>1 DEF Registered
  <2> QED
    BY <1>1, <2>3, <2>4, <2>11 DEF Abstract!Act, Abstract!Answer
<1>3. CASE slot[t] # Len(chain[b]) + 1
  <2>1. UNCHANGED <<chain, call, answer>>
    BY <1>3 DEF Swap
  <2> QED
    BY <2>1, SameMap DEF Abstract!vars
<1> QED
  BY <1>2, <1>3

LEMMA EndMaps ==
    ASSUME Inv, NEW t \in Thread, End(t) PROVE Abstract!End(t)
<1>1. answer[t] # None
  BY DEF Inv, ThreadInv, End
<1>2. [k \in Key |-> Registered(k)]' = [k \in Key |-> Registered(k)]
  BY SameMap DEF End
<1> QED
  BY <1>1, <1>2 DEF End, Abstract!End

\* Each step is one of the atomic map, or nothing that it sees.
LEMMA StepMaps == Inv /\ [Next]_vars => [Abstract!Next]_(Abstract!vars)
<1>1. ASSUME Inv, NEW t \in Thread, Begin(t) \/ Step(t) \/ End(t)
      PROVE  [Abstract!Next]_(Abstract!vars)
  <2>1. CASE Allocate(t)
    BY <2>1, SameMap DEF Allocate, Abstract!vars
  <2> QED
    BY <1>1, <2>1, BeginMaps, WalkMaps, CompareMaps, SwapMaps, EndMaps
       DEF Step, Abstract!Next
<1>2. ASSUME UNCHANGED vars PROVE UNCHANGED Abstract!vars
  BY <1>2, SameMap DEF vars, Abstract!vars
<1> QED
  BY <1>1, <1>2 DEF Next

\* Every call takes effect at one moment between its start and its return, as
\* on a map that only one thread at a time touches.
THEOREM CallsAreAtomic == Spec => ImplementsRegistry
<1>1. Spec => []Inv
  BY InitInv, StepInv, PTL DEF Spec
<1> QED
  BY <1>1, InitMaps, StepMaps, PTL DEF Spec, ImplementsRegistry, Abstract!Spec
=============================================================================
