-------------------------------- MODULE BitSets --------------------------------
(***************************************************************************)
(* What BitVectors promise (Object/BitVector.cfh): sets of numbers that    *)
(* grow as needed.                                                         *)
(***************************************************************************)
EXTENDS Integers, FiniteSetsExt

CONSTANTS Vecs, Ticks

VARIABLE set  \* of each vector

Becomes(x, s) == set' = [set EXCEPT ![x] = s]

Init == set = [x \in Vecs |-> {}]

Single == \E x \in Vecs, t \in Ticks :
    \/ Becomes(x, set[x] \union {t})
    \/ Becomes(x, set[x] \ {t})
    \/ Becomes(x, SymDiff(set[x], {t}))

Pair == \E x, y \in Vecs :
    \/ Becomes(x, set[y])
    \/ Becomes(x, set[x] \intersect set[y])
    \/ Becomes(x, set[x] \union set[y])
    \/ Becomes(x, SymDiff(set[x], set[y]))
    \/ Becomes(x, set[x] \ set[y])

Flip_Block == \E x \in Vecs, first \in Ticks, length \in Ticks :
    Becomes(x, SymDiff(set[x], first..(first + length - 1)))

\* Clear_All; Grow changes nothing.
Whole == \E x \in Vecs : Becomes(x, {}) \/ Becomes(x, set[x])

\* The questions.
Next_Hit(s, t) ==
    IF \E i \in s : i >= t THEN Min({i \in s : i >= t}) ELSE -1

Ascending(s) ==
    [k \in 1..Cardinality(s) |->
        CHOOSE t \in s : Cardinality({u \in s : u < t}) = k - 1]

Next == Single \/ Pair \/ Flip_Block \/ Whole

Spec == Init /\ [][Next]_set

\* What one step may do.
Step == [Next]_set
=============================================================================
