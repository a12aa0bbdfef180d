------------------------------- MODULE TopSet -------------------------------
(***************************************************************************)
(* What a bounded queue promises: of all that was put in since it was last *)
(* emptied, it holds as many as it can of those that nothing left out      *)
(* beats, and gives them back in order.                                    *)
(***************************************************************************)
EXTENDS Integers, FiniteSets, Sequences

CONSTANTS Element, Bounds   \* Bounds: the sizes a queue may be given

VARIABLES worse,  \* the pairs <<a, b>> with a strictly worse than b
          bound,  \* how many elements it may hold
          held,   \* the elements it holds
          out     \* what it was offered and does not hold, unless taken out

vars == <<worse, bound, held, out>>

Init ==
    /\ worse \in SUBSET (Element \X Element)
    /\ bound \in Bounds
    /\ held = {} /\ out = {}

IsLeast(e) == \A x \in held : <<x, e>> \notin worse

Fits == Cardinality(held) < bound

Absorb(e) ==
    /\ Fits
    /\ held' = held \union {e}
    /\ UNCHANGED out

Replace(e, x) ==
    /\ ~Fits
    /\ IsLeast(x) /\ <<e, x>> \notin worse
    /\ held' = (held \ {x}) \union {e}
    /\ out' = out \union {x}

Refuse(e) ==
    /\ ~Fits
    /\ \A x \in held : <<e, x>> \in worse
    /\ out' = out \union {e}
    /\ UNCHANGED held

Take(x) ==
    /\ IsLeast(x)
    /\ held' = held \ {x}
    /\ UNCHANGED out

Empty == held' = {} /\ out' = {}

Next ==
    /\ \/ \E e \in Element \ (held \union out) : Absorb(e) \/ Refuse(e)
       \/ \E e \in Element \ (held \union out), x \in held : Replace(e, x)
       \/ \E x \in held : Take(x)
       \/ Empty
    /\ UNCHANGED <<worse, bound>>

Spec == Init /\ [][Next]_vars

\* What one step may do.
Step == [Next]_vars

\* seq lists held from the best to the worst.
InOrder(seq) ==
    /\ Len(seq) = Cardinality(held)
    /\ {seq[i] : i \in 1..Len(seq)} = held
    /\ \A i, j \in 1..Len(seq) : i < j => <<seq[i], seq[j]>> \notin worse
=============================================================================
