------------------------------- MODULE SortedBag -------------------------------
(***************************************************************************)
(* What a SortExternal promises (Util/SortExternal.cfh): a bag of items    *)
(* is filled, flipped, and emptied in sort order.                          *)
(***************************************************************************)
EXTENDS Naturals

CONSTANT Items  \* numbers, in sort order

VARIABLES bag,      \* how many of each there are
          flipped,
          out       \* what the last call returned

vars == <<bag, flipped, out>>

Empty == \A i \in Items : bag[i] = 0

Lowest ==
    CHOOSE i \in Items : bag[i] > 0 /\ \A j \in Items : bag[j] > 0 => i <= j

Init == bag = [i \in Items |-> 0] /\ flipped = FALSE /\ out = <<"none">>

Feed == \E i \in Items :
    /\ ~flipped /\ bag' = [bag EXCEPT ![i] = @ + 1]
    /\ out' = <<"fed">> /\ UNCHANGED flipped

Flip == ~flipped /\ flipped' = TRUE /\ out' = <<"none">> /\ UNCHANGED bag

\* The next item, or NULL when there is none.
Peek == /\ flipped /\ UNCHANGED <<bag, flipped>>
        /\ out' = IF Empty THEN <<"NULL">> ELSE <<"item", Lowest>>

Fetch == /\ flipped /\ UNCHANGED flipped
         /\ IF Empty THEN out' = <<"NULL">> /\ UNCHANGED bag
            ELSE /\ out' = <<"item", Lowest>>
                 /\ bag' = [bag EXCEPT ![Lowest] = @ - 1]

\* Calls that move items about and return nothing.
Tidy == out' = <<"none">> /\ UNCHANGED <<bag, flipped>>

Next == Feed \/ Flip \/ Peek \/ Fetch \/ Tidy

Spec == Init /\ [][Next]_vars

\* What one step may do.
Step == [Next]_vars
=============================================================================
