------------------------------- MODULE HashTable -------------------------------
(***************************************************************************)
(* Clownfish::Hash (Clownfish/Hash.c) and its HashIterator: a table with   *)
(* open addressing.  A key is looked for from its home slot on, up to an   *)
(* empty slot; a deleted entry leaves a tombstone, which is no empty slot. *)
(* The table is rebuilt, an entry at a time, when it has too many entries. *)
(***************************************************************************)
EXTENDS Integers, FiniteSets

CONSTANTS Keys, Values, Null,
          HashSum,          \* the hash sum of each key
          Empty, Tombstone, \* what the key of an entry may be instead
          InitialCapacity,  \* 16 in the code, or a larger power of two
          MaxCapacity,      \* no rebuild to more than this (SIZE_MAX)
          Iterating         \* whether there is a HashIterator

VARIABLES capacity,
          entries,    \* the slots
          size,
          threshold,  \* as many entries call for a rebuild
          old,        \* while rebuilding: the entries before, and
          tick,       \* the next of them to be moved (none: old is empty), and
          storing,    \* the pair to be stored after that
          result,     \* what the last call returned
          iter,       \* the HashIterator: its tick and capacity
          seen,       \* (history) how often it returned each key
          steady      \* (history) the keys that stayed there since it began

rebuild == <<old, tick, storing>>
table == <<capacity, entries, size, threshold>>
iteration == <<iter, seen, steady>>
vars == <<table, rebuild, result, iteration>>

Entry == [key : Keys \union {Empty, Tombstone}, value : Values \union {Null}]
NoEntry == [key |-> Empty, value |-> Null]

Slots == 0..(capacity - 1)
Limit(c) == (c \div 3) * 2

\* The n-th slot that is looked at for a key, from its home slot on.
Probe(k, n) == LET home == HashSum[k] % capacity
               IN  IF home + n < capacity THEN home + n ELSE home + n - capacity

\* The first of the slots with such a key, for which there has to be one.
FirstProbe(k, wanted) ==
    Probe(k, CHOOSE n \in Slots :
                 /\ entries[Probe(k, n)].key \in wanted
                 /\ \A i \in 0..(n - 1) :
                        entries[Probe(k, i)].key \notin wanted)

\* A mutant: a tombstone ends the search too.
FetchToTombstone(k) == FirstProbe(k, {k, Empty, Tombstone})

\* SI_fetch_entry: where the key is, or would be.
SI_fetch_entry(k) == FirstProbe(k, {k, Empty})

HasEntry(k) == entries[SI_fetch_entry(k)].key = k

Init ==
    /\ capacity = InitialCapacity
    /\ entries = [s \in Slots |-> NoEntry]
    /\ size = 0 /\ threshold = Limit(capacity)
    /\ old = <<>> /\ tick = 0 /\ storing = <<>>
    /\ result = <<"new">>
    /\ iter = [tick |-> -1, capacity |-> capacity]
    /\ seen = [k \in Keys |-> 0] /\ steady = {}

-----------------------------------------------------------------------------
(* S_do_store, in parts.                                                   *)

Replace(k, v) ==
    /\ entries' = [entries EXCEPT ![SI_fetch_entry(k)].value = v]
    /\ UNCHANGED <<capacity, size, threshold>>

\* The first empty slot or tombstone is taken.
Insert(k, v) ==
    LET s == FirstProbe(k, {Empty, Tombstone})
    IN  /\ entries' = [entries EXCEPT ![s] = [key |-> k, value |-> v]]
        /\ size' = size + 1
        /\ threshold' = IF entries[s].key = Tombstone THEN threshold + 1
                                                      ELSE threshold
        /\ UNCHANGED capacity

Rebuilding == storing # <<>>

StoreInPlace(k, v) ==
    /\ ~Rebuilding
    /\ \/ HasEntry(k) /\ Replace(k, v)
       \/ ~HasEntry(k) /\ size < threshold /\ Insert(k, v)
    /\ result' = <<"stored", k>>
    /\ UNCHANGED <<rebuild, iteration>>

\* SI_rebuild_hash up to its loop; it throws when the table is too large.
BeginRebuild(k, v) ==
    /\ ~Rebuilding /\ ~HasEntry(k) /\ size >= threshold
    /\ IF capacity > MaxCapacity \div 2
       THEN result' = <<"too large">> /\ UNCHANGED <<table, rebuild>>
       ELSE /\ capacity' = 2 * capacity
            /\ threshold' = Limit(capacity')
            /\ entries' = [s \in 0..(capacity' - 1) |-> NoEntry]
            /\ size' = 0
            /\ old' = entries /\ tick' = 0 /\ storing' = <<k, v>>
            /\ UNCHANGED result
    /\ UNCHANGED iteration

\* One turn of its loop: a store that never finds the key there, and never
\* calls for another rebuild (it would be stuck here).
RebuildStep ==
    /\ Rebuilding /\ tick \in DOMAIN old
    /\ LET e == old[tick]
       IN  IF e.key \notin {Empty, Tombstone}
           THEN ~HasEntry(e.key) /\ size < threshold /\ Insert(e.key, e.value)
           ELSE UNCHANGED table
    /\ tick' = tick + 1
    /\ UNCHANGED <<old, storing, result, iteration>>

\* The store that called for it goes on.
EndRebuild ==
    /\ Rebuilding /\ tick \notin DOMAIN old
    /\ Insert(storing[1], storing[2])
    /\ old' = <<>> /\ tick' = 0 /\ storing' = <<>>
    /\ result' = <<"stored", storing[1]>>
    /\ UNCHANGED iteration

Store == \E k \in Keys, v \in Values : StoreInPlace(k, v) \/ BeginRebuild(k, v)

-----------------------------------------------------------------------------
(* The other calls.                                                        *)

Fetch ==
    /\ ~Rebuilding
    /\ \E k \in Keys : result' = <<"value", k,
           IF HasEntry(k) THEN entries[SI_fetch_entry(k)].value ELSE Null>>
    /\ UNCHANGED <<table, rebuild, iteration>>

Has_Key ==
    /\ ~Rebuilding
    /\ \E k \in Keys : result' = <<"has", k, HasEntry(k)>>
    /\ UNCHANGED <<table, rebuild, iteration>>

DeleteEntry(k) ==
    /\ entries' = [entries EXCEPT ![SI_fetch_entry(k)] =
                       [key |-> Tombstone, value |-> Null]]
    /\ size' = size - 1 /\ threshold' = threshold - 1
    /\ UNCHANGED capacity

Delete ==
    /\ ~Rebuilding
    /\ \E k \in Keys :
          IF HasEntry(k)
          THEN /\ DeleteEntry(k)
               /\ result' = <<"deleted", k, entries[SI_fetch_entry(k)].value>>
               /\ steady' = steady \ {k}
          ELSE UNCHANGED <<table, steady>> /\ result' = <<"deleted", k, Null>>
    /\ UNCHANGED <<rebuild, iter, seen>>

Clear ==
    /\ ~Rebuilding
    /\ entries' = [s \in Slots |-> NoEntry]
    /\ size' = 0 /\ threshold' = Limit(capacity)
    /\ result' = <<"cleared">> /\ steady' = {}
    /\ UNCHANGED <<capacity, rebuild, iter, seen>>

Get_Size ==
    /\ ~Rebuilding
    /\ result' = <<"size", size>>
    /\ UNCHANGED <<table, rebuild, iteration>>

-----------------------------------------------------------------------------
(* A HashIterator, which sees the table as it is at each call.             *)

Live == {s \in Slots : entries[s].key \in Keys}

HashIter_new ==
    /\ Iterating /\ ~Rebuilding
    /\ iter' = [tick |-> -1, capacity |-> capacity]
    /\ seen' = [k \in Keys |-> 0] /\ steady' = {entries[s].key : s \in Live}
    /\ UNCHANGED <<table, rebuild, result>>

\* It throws when the capacity is another one than when it began.
HashIter_Next ==
    /\ Iterating /\ ~Rebuilding /\ iter.capacity = capacity
    /\ LET ahead == {s \in Live : s > iter.tick}
       IN  IF ahead = {}
           THEN iter' = [iter EXCEPT !.tick = capacity] /\ UNCHANGED seen
           ELSE \E s \in ahead :
                   /\ \A t \in ahead : s <= t
                   /\ iter' = [iter EXCEPT !.tick = s]
                   /\ seen' = [seen EXCEPT ![entries[s].key] = @ + 1]
    /\ UNCHANGED <<table, rebuild, result, steady>>

Next == \/ Store \/ RebuildStep \/ EndRebuild
        \/ Fetch \/ Has_Key \/ Delete \/ Clear \/ Get_Size
        \/ HashIter_new \/ HashIter_Next

Spec == Init /\ [][Next]_vars /\ WF_vars(RebuildStep \/ EndRebuild)

-----------------------------------------------------------------------------

Tombs == {s \in Slots : entries[s].key = Tombstone}

\* The slots of old that are still to be moved.
Unmoved == {s \in DOMAIN old : s >= tick /\ old[s].key \in Keys}

TypeOK ==
    /\ capacity \in Nat /\ capacity >= 3
    /\ entries \in [Slots -> Entry]
    /\ size \in Nat /\ threshold \in Nat
    /\ tick \in Nat
    /\ \/ old = <<>> /\ storing = <<>>
       \/ /\ old \in [0..(capacity \div 2 - 1) -> Entry]
          /\ capacity = 2 * (capacity \div 2) /\ tick <= capacity \div 2
          /\ storing \in Keys \X Values
    /\ seen \in [Keys -> Nat] /\ steady \subseteq Keys
    /\ iter \in [tick : Int, capacity : Nat] /\ iter.tick \in -1..iter.capacity

\* There is always an empty slot, so that every search comes to an end, also
\* while the table is rebuilt and when it is full of tombstones: the threshold
\* falls with each tombstone, and the entries stay below it.
SearchesEnd ==
    /\ size = Cardinality(Live)
    /\ threshold = Limit(capacity) - Cardinality(Tombs)
    /\ size <= threshold
    /\ \E s \in Slots : entries[s].key = Empty

\* A table that is being rebuilt has room for all that is moved and stored, so
\* that no rebuild begins within a rebuild.
NoRebuildWithin == Rebuilding => size + Cardinality(Unmoved) < threshold

\* The pairs in the table, and those still to be moved.
Pairs == {<<entries[s].key, entries[s].value>> : s \in Live}
             \union {<<old[s].key, old[s].value>> : s \in Unmoved}

\* The calls do what they would do to a set of pairs, one for each key,
\* whatever collides and whatever tombstones and rebuilds came between.
Map == INSTANCE KeyValues WITH pairs <- Pairs

ImplementsMap == Map!Spec

\* The keys that stay in the table while it is iterated over are returned once
\* each, no matter what is stored and deleted on the way.
IterationComplete ==
    iter.capacity = capacity =>
        \A k \in steady : /\ seen[k] <= 1
                          /\ iter.tick = capacity => seen[k] = 1

\* Every rebuild ends.
RebuildsEnd == Rebuilding ~> ~Rebuilding

\* "Allocate enough space to hold the requested number of elements without
\* triggering a rebuild" (Hash.c:64): as many as threshold allows at first.
NoNeedlessRebuild ==
    Rebuilding => size + Cardinality(Unmoved) >= Limit(InitialCapacity)
=============================================================================
