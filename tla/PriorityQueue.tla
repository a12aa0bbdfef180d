--------------------------- MODULE PriorityQueue ---------------------------
(***************************************************************************)
(* A PriorityQueue (Util/PriorityQueue.c) under any sequence of calls.     *)
(* Elements are distinct objects, and several may have the same key: those *)
(* are told apart by nothing but their place in the heap.                  *)
(***************************************************************************)
EXTENDS LucyUtil, FiniteSets

CONSTANTS Element,  \* the objects that are put in
          Keys,     \* what they are compared by
          Sizes     \* the maximum sizes tried, 0 among them

VARIABLES key,       \* key[e]: what Less_Than compares (an input)
          max_size,
          heap,      \* slots 1..size
          out        \* (history) what was refused or bumped since emptied

vars == <<key, max_size, heap, out>>

Less_Than == [p \in Element \X Element |-> key[p[1]] < key[p[2]]]

TypeOK ==
    /\ key \in [Element -> Keys]
    /\ max_size \in Sizes
    /\ heap \in BoundedSeq(Element, max_size)
    /\ out \in SUBSET (Element \ ToSet(heap))

Init ==
    /\ key \in [Element -> Keys]
    /\ max_size \in Sizes
    /\ heap = <<>> /\ out = {}

\* Insert and Jostle, which say whether, and which, element is left over.
\* An object is offered once (others may have the same key).
Put(e) ==
    LET j == Jostle(heap, max_size, e, Less_Than)
    IN  /\ e \notin ToSet(heap) \union out
        /\ heap' = j.heap
        /\ out' = out \union ToSet(j.out)
        /\ UNCHANGED <<key, max_size>>

PopLeast ==
    /\ heap # <<>>
    /\ heap' = Pop(heap, Less_Than)
    /\ UNCHANGED <<key, max_size, out>>

PopAll ==
    /\ heap' = <<>> /\ out' = {}
    /\ UNCHANGED <<key, max_size>>

Next == (\E e \in Element : Put(e)) \/ PopLeast \/ PopAll

Spec == Init /\ [][Next]_vars

-----------------------------------------------------------------------------

\* The heap holds what a bounded queue should: a full one gives up its least
\* element and only for one that is not less, one of size 0 takes nothing,
\* and no element is lost or doubled on the way up or down.
Bounded == INSTANCE TopSet WITH
    Bounds <- Sizes, bound <- max_size, held <- ToSet(heap),
    worse <- {p \in Element \X Element : Less_Than[p[1], p[2]]}

KeepsTheBest == Bounded!Spec

\* What is in the heap, taken out one by one, comes in order, whatever the
\* sequence of calls that built the heap.
PopsInOrder == Bounded!InOrder(Pop_All(heap, Less_Than))
=============================================================================
