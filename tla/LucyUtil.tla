------------------------------ MODULE LucyUtil ------------------------------
(***************************************************************************)
(* A loop, and the data of two classes of Lucy/Util that others build on.  *)
(* A PriorityQueue (PriorityQueue.c) keeps its elements in a heap: a       *)
(* sequence of at most max elements, the children of slot i in slots 2i    *)
(* and 2i + 1, the least element in slot 1.  less is Less_Than, which each *)
(* subclass defines, as a function of two elements.  A SortExternal        *)
(* (SortExternal.c) merges runs: items are numbers here, and of a run it   *)
(* needs the buffer and how much of it is used up.                         *)
(***************************************************************************)
EXTENDS Integers, SequencesExt, FiniteSetsExt

\* A loop: x after n rounds.
Repeat(Round(_), x, n) ==
    LET after[k \in 0..n] == IF k = 0 THEN x ELSE Round(after[k - 1])
    IN  after[n]

-----------------------------------------------------------------------------
(* The heap of a PriorityQueue.                                            *)

\* The slots from i up to the root.
Ancestry[i \in Nat] == IF i = 0 THEN {} ELSE {i} \union Ancestry[i \div 2]

\* The last element rises past each ancestor that it is less than, up to one
\* that it is not less than.
S_up_heap(h, less) ==
    LET node == Last(h)
        above == Ancestry[Len(h)]
        landing == Max({i \in above : i = 1 \/ ~less[node, h[i \div 2]]})
    IN  [i \in 1..Len(h) |->
            IF i = landing THEN node
            ELSE IF i > landing /\ i \in above THEN h[i \div 2]
            ELSE h[i]]

LesserChild(h, less, i) ==
    IF 2 * i + 1 <= Len(h) /\ less[h[2 * i + 1], h[2 * i]]
    THEN 2 * i + 1 ELSE 2 * i

\* The first element sinks past the lesser child for as long as that is less.
S_down_heap(h, less) ==
    LET Passes(i) == /\ i = LesserChild(h, less, i \div 2)
                     /\ less[h[i], h[1]]
        passed == {i \in 1..Len(h) : \A a \in Ancestry[i] : a = 1 \/ Passes(a)}
        landing == Max(passed)
    IN  [i \in 1..Len(h) |->
            IF i = landing THEN h[1]
            ELSE IF i \in Ancestry[landing] THEN h[LesserChild(h, less, i)]
            ELSE h[i]]

\* A mutant: it absorbs one more.
JostleOneMore(h, max, e, less) ==
    IF Len(h) <= max
    THEN [heap |-> S_up_heap(Append(h, e), less), out |-> <<>>]
    ELSE IF ~less[e, h[1]]
    THEN [heap |-> S_down_heap([h EXCEPT ![1] = e], less), out |-> <<h[1]>>]
    ELSE [heap |-> h, out |-> <<e>>]

\* Jostle: the heap afterwards and the element left over, if any.  With a
\* maximum of 0 that is the new one.
Jostle(h, max, e, less) ==
    IF Len(h) < max
    THEN [heap |-> S_up_heap(Append(h, e), less), out |-> <<>>]
    ELSE IF Len(h) > 0 /\ ~less[e, h[1]]
    THEN [heap |-> S_down_heap([h EXCEPT ![1] = e], less), out |-> <<h[1]>>]
    ELSE [heap |-> h, out |-> <<e>>]

\* Pop of a heap that is not empty: the last element takes the first slot.
Pop(h, less) ==
    S_down_heap([i \in 1..(Len(h) - 1) |-> IF i = 1 THEN Last(h) ELSE h[i]],
                less)

\* What is left after so many calls of Pop.
Popped(h, less) ==
    LET left[n \in 0..Len(h)] == IF n = 0 THEN h ELSE Pop(left[n - 1], less)
    IN  left

\* Pop_All pops from the least to the greatest and fills its result from the
\* end to the start.
Pop_All(h, less) ==
    [i \in 1..Len(h) |-> Popped(h, less)[Len(h) - i][1]]

-----------------------------------------------------------------------------
(* The runs of a SortExternal.                                             *)

Left(seq, tick) == SubSeq(seq, tick + 1, Len(seq))

Count(run) == Len(run.buf) - run.buf_tick

\* The lowest of the last items of the buffers: no item that is not in a
\* buffer is lower.
S_find_endpost(rs) ==
    CHOOSE e \in {Last(rs[i].buf) : i \in DOMAIN rs} :
        \A i \in DOMAIN rs : e <= Last(rs[i].buf)

\* A mutant: the items that are lower than the endpost.
SliceBelow(run, endpost) ==
    Cardinality({i \in (run.buf_tick + 1)..Len(run.buf) :
                    run.buf[i] < endpost})

\* How many of the items left in a run's buffer are not above it.
S_find_slice_size(run, endpost) ==
    Cardinality({i \in (run.buf_tick + 1)..Len(run.buf) :
                    run.buf[i] <= endpost})

\* Two sorted slices become one; from equal items the left one is first.
S_merge(left, right) ==
    LET m[i \in 1..(Len(left) + 1), j \in 1..(Len(right) + 1)] ==
            IF i > Len(left) THEN SubSeq(right, j, Len(right))
            ELSE IF j > Len(right) THEN SubSeq(left, i, Len(left))
            ELSE IF left[i] <= right[j] THEN <<left[i]>> \o m[i + 1, j]
            ELSE <<right[j]>> \o m[i, j + 1]
    IN  m[1, 1]

\* Neighbours are merged, and the last one of an odd number moves.
MergedTwoByTwo(slices) ==
    [k \in 1..((Len(slices) + 1) \div 2) |->
        IF 2 * k <= Len(slices) THEN S_merge(slices[2 * k - 1], slices[2 * k])
        ELSE Last(slices)]

\* Until there is one left.
Merged(slices) ==
    FoldLeft(LAMBDA ss, s : IF Len(ss) > 1 THEN MergedTwoByTwo(ss) ELSE ss,
             slices, slices)

\* What S_refill_buffer gets from runs whose buffers are not empty.
S_absorb_slices(rs) ==
    LET endpost == S_find_endpost(rs)
        size(run) == S_find_slice_size(run, endpost)
        slice(run) ==
            SubSeq(run.buf, run.buf_tick + 1, run.buf_tick + size(run))
        slices == SelectSeq([i \in DOMAIN rs |-> slice(rs[i])],
                            LAMBDA s : s # <<>>)
    IN  IF rs = <<>> \/ slices = <<>> THEN [buffer |-> <<>>, runs |-> rs]
        ELSE [buffer |-> Merged(slices)[1],
              runs |-> [i \in DOMAIN rs |->
                           [rs[i] EXCEPT !.buf_tick = @ + size(rs[i])]]]
=============================================================================
