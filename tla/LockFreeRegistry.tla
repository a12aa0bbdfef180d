-------------------------- MODULE LockFreeRegistry --------------------------
(***************************************************************************)
(* Clownfish's LockFreeRegistry.c: a hash table whose buckets are linked   *)
(* lists that only grow, at their ends, by compare-and-swap.  Clownfish    *)
(* keeps its classes in one, for all threads of a process.                 *)
(*                                                                         *)
(* A list is the sequence of its entries, and the address of a slot is a   *)
(* position: the one after the last entry is the slot that holds NULL.     *)
(***************************************************************************)
EXTENDS Integers, Sequences, FiniteSets

CONSTANTS Thread,
          Key,     \* names; two keys are Equal when they are the same
          Value,   \* what is registered
          Bucket,  \* 0 .. capacity - 1, by any names
          HashOf,  \* HashOf[k]: the bucket of k
          None

ASSUME HashAssumption == HashOf \in [Key -> Bucket]
ASSUME NoneAssumption ==
    /\ None \notin Value
    /\ None \notin [op : {"register", "fetch"}, key : Key, value : Value]
    /\ None \notin {"registered", "refused", "nothing"}
ASSUME ValueAssumption == Value \cap {"registered", "refused", "nothing"} = {}

Call == [op : {"register", "fetch"}, key : Key, value : Value]
Entry == [key : Key, value : Value]
Answers == Value \cup {"registered", "refused", "nothing", None}

VARIABLES chain,     \* chain[b]: the linked list of bucket b
          pc,
          call,      \* what each thread is calling, or None
          slot,      \* the slot it has come to
          holds,     \* threads that have allocated an entry and not linked it
          answer,    \* what it is going to return
          allocated  \* how many entries there are in memory

vars == <<chain, pc, call, slot, holds, answer, allocated>>

PCs == {"idle", "walk", "compare", "allocate", "swap", "return"}

TypeOK ==
    /\ chain \in [Bucket -> Seq(Entry)]
    /\ pc \in [Thread -> PCs]
    /\ call \in [Thread -> Call \cup {None}]
    /\ slot \in [Thread -> Nat \ {0}]
    /\ holds \subseteq Thread
    /\ answer \in [Thread -> Answers]
    /\ allocated \in Int

Init ==
    /\ chain = [b \in Bucket |-> <<>>]
    /\ pc = [t \in Thread |-> "idle"]
    /\ call = [t \in Thread |-> None]
    /\ slot = [t \in Thread |-> 1]
    /\ holds = {}
    /\ answer = [t \in Thread |-> None]
    /\ allocated = 0

List(t) == chain[HashOf[call[t].key]]

Goto(t, label) == pc' = [pc EXCEPT ![t] = label]

-----------------------------------------------------------------------------
Begin(t) ==
    /\ pc[t] = "idle"
    /\ \E c \in Call : call' = [call EXCEPT ![t] = c]
    /\ slot' = [slot EXCEPT ![t] = 1]
    /\ Goto(t, "walk")
    /\ UNCHANGED <<chain, holds, answer, allocated>>

\* The slot is read: NULL ends the walk.
Walk(t) ==
    /\ pc[t] = "walk"
    /\ IF slot[t] <= Len(List(t))
       THEN Goto(t, "compare") /\ UNCHANGED answer
       ELSE IF call[t].op = "fetch"
       THEN Goto(t, "return") /\ answer' = [answer EXCEPT ![t] = "nothing"]
       ELSE /\ Goto(t, IF t \in holds THEN "swap" ELSE "allocate")
            /\ UNCHANGED answer
    /\ UNCHANGED <<chain, call, slot, holds, allocated>>

\* Mutant: the entry that is not needed any more is not freed.
CompareLeaks(t) ==
    /\ pc[t] = "compare"
    /\ IF List(t)[slot[t]].key = call[t].key
       THEN /\ answer' = [answer EXCEPT
                  ![t] = IF call[t].op = "fetch" THEN List(t)[slot[t]].value
                                                 ELSE "refused"]
            /\ Goto(t, "return")
            /\ holds' = holds \ {t}
            /\ UNCHANGED <<slot, allocated>>
       ELSE /\ slot' = [slot EXCEPT ![t] = @ + 1]
            /\ Goto(t, "walk")
            /\ UNCHANGED <<answer, holds, allocated>>
    /\ UNCHANGED <<chain, call>>

\* Mutant: slot is not moved on to the next pointer of the entry.
CompareStays(t) ==
    /\ pc[t] = "compare"
    /\ IF List(t)[slot[t]].key = call[t].key
       THEN /\ answer' = [answer EXCEPT
                  ![t] = IF call[t].op = "fetch" THEN List(t)[slot[t]].value
                                                 ELSE "refused"]
            /\ Goto(t, "return")
            /\ holds' = holds \ {t}
            /\ allocated' = IF t \in holds THEN allocated - 1 ELSE allocated
       ELSE /\ Goto(t, "walk")
            /\ UNCHANGED <<answer, holds, allocated>>
    /\ UNCHANGED <<chain, call, slot>>

\* The key of the entry is compared, whose key and value never change.
Compare(t) ==
    /\ pc[t] = "compare"
    /\ IF List(t)[slot[t]].key = call[t].key
       THEN /\ answer' = [answer EXCEPT
                  ![t] = IF call[t].op = "fetch" THEN List(t)[slot[t]].value
                                                 ELSE "refused"]
            /\ Goto(t, "return")
            /\ holds' = holds \ {t}
            /\ allocated' = IF t \in holds THEN allocated - 1 ELSE allocated
            /\ UNCHANGED slot
       ELSE /\ slot' = [slot EXCEPT ![t] = @ + 1]
            /\ Goto(t, "walk")
            /\ UNCHANGED <<answer, holds, allocated>>
    /\ UNCHANGED <<chain, call>>

Allocate(t) ==
    /\ pc[t] = "allocate"
    /\ holds' = holds \cup {t}
    /\ allocated' = allocated + 1
    /\ Goto(t, "swap")
    /\ UNCHANGED <<chain, call, slot, answer>>

\* Mutant: the version that is compiled out: test the slot, then write it; a
\* thread that comes between is not noticed, and its entry is overwritten.
SwapBlindly(t) ==
    LET b == HashOf[call[t].key] IN
    /\ pc[t] = "swap"
    /\ chain' = [chain EXCEPT ![b] =
                    Append(SubSeq(@, 1, slot[t] - 1),
                           [key |-> call[t].key, value |-> call[t].value])]
    /\ holds' = holds \ {t}
    /\ answer' = [answer EXCEPT ![t] = "registered"]
    /\ Goto(t, "return")
    /\ UNCHANGED <<call, slot, allocated>>

\* Atomic_cas_ptr: link the entry, or go on with whatever is there now.
Swap(t) ==
    LET b == HashOf[call[t].key] IN
    /\ pc[t] = "swap"
    /\ IF slot[t] = Len(chain[b]) + 1
       THEN /\ chain' = [chain EXCEPT ![b] =
                  Append(@, [key |-> call[t].key, value |-> call[t].value])]
            /\ holds' = holds \ {t}
            /\ answer' = [answer EXCEPT ![t] = "registered"]
            /\ Goto(t, "return")
       ELSE /\ Goto(t, "walk")
            /\ UNCHANGED <<chain, holds, answer>>
    /\ UNCHANGED <<call, slot, allocated>>

End(t) ==
    /\ pc[t] = "return"
    /\ Goto(t, "idle")
    /\ call' = [call EXCEPT ![t] = None]
    /\ answer' = [answer EXCEPT ![t] = None]
    /\ UNCHANGED <<chain, slot, holds, allocated>>

Step(t) == Walk(t) \/ Compare(t) \/ Allocate(t) \/ Swap(t)

Next == \E t \in Thread : Begin(t) \/ Step(t) \/ End(t)

Spec == Init /\ [][Next]_vars

\* Threads run on within a call.
LiveSpec == Spec /\ \A t \in Thread : WF_vars(Step(t))

-----------------------------------------------------------------------------
(* Properties.                                                             *)

\* However threads race, a key is linked once: no second value hides behind
\* the first.
KeysUnique ==
    \A b \in Bucket : \A i, j \in 1..Len(chain[b]) :
        chain[b][i].key = chain[b][j].key => i = j

\* Every entry in memory is in a list or in the hands of the thread that is
\* about to link it, races lost included.
NothingLeaks ==
    LET linked == {e \in Bucket \X (1..Cardinality(Key)) :
                      e[2] <= Len(chain[e[1]])}
    IN  allocated = Cardinality(linked) + Cardinality(holds)

\* A thread that loses the race for a slot again and again gets there, since
\* every such loss is an entry more and there are only so many keys.
CallsReturn ==
    \A t \in Thread : (pc[t] = "walk") ~> (pc[t] = "return")

\* Every call takes effect at one moment: the read of a NULL or of an equal
\* key, or the successful swap.
Found(list, k) ==
    IF \E i \in 1..Len(list) : list[i].key = k
    THEN list[CHOOSE i \in 1..Len(list) : list[i].key = k].value
    ELSE None

Registered(k) == Found(chain[HashOf[k]], k)

Abstract == INSTANCE Registry WITH map <- [k \in Key |-> Registered(k)]

ImplementsRegistry == Abstract!Spec
=============================================================================
