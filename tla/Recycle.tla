------------------------------ MODULE Recycle ------------------------------
(***************************************************************************)
(* Which segments are rewritten, and what becomes of their number and of   *)
(* the deleted documents in them in the long run: IxManager_Recycle and    *)
(* Choose_Sparse (Index/IndexManager.c) under sessions of the Indexer and  *)
(* a background merger.  A segment is its doc_max and its deletion count;  *)
(* files, locks and contents are in IndexFiles and IndexContent, so that   *)
(* a session and each end of a merge are one step here.                    *)
(***************************************************************************)
EXTENDS Integers, SequencesExt

CONSTANTS FibLimit,   \* the largest input S_fibonacci takes (46)
          Batches,    \* numbers of documents that a session may add
          Kills,      \* numbers of documents that a session may delete
          Managers,   \* the managers in use: "default", "light", "none"
          Merging,    \* whether background mergers run
          MaxSeg      \* bound on segment numbers

NoMerge == [cutoff |-> 0, gone |-> {}, dels |-> <<>>]

VARIABLES segs,   \* segs[n]: doc_max and number of deletions of segment n
          merge,  \* what a background merger under way has chosen
          failed  \* whether Recycle has thrown

vars == <<segs, merge, failed>>

TypeOK ==
    /\ DOMAIN segs \subseteq 1..MaxSeg
    /\ \A n \in DOMAIN segs : segs[n].dels \in 0..segs[n].docs
    /\ merge.cutoff \in 0..MaxSeg
    /\ merge.gone \subseteq DOMAIN segs
    /\ failed \in BOOLEAN

Init ==
    /\ segs = <<>>
    /\ merge = NoMerge
    /\ failed = FALSE

DocCount(n) == segs[n].docs - segs[n].dels

SumOf(S, op(_)) == FoldSet(LAMBDA n, sum : op(n) + sum, 0, S)

-----------------------------------------------------------------------------
(* Recycle.                                                                *)

\* The n-th number of S_fibonacci and the next, for n > 0.
FibonacciPair[n \in Nat] ==
    IF n = 1 THEN <<1, 1>>
    ELSE LET p == FibonacciPair[n - 1] IN <<p[2], p[1] + p[2]>>

Fibonacci(n) == FibonacciPair[n][1]

\* The first round asks for the largest number: the threshold only grows.
Throws(numCandidates) == numCandidates > 0 /\ numCandidates + 6 > FibLimit

\* The loop of Choose_Sparse, for ascending counts and what it asks S_fibonacci
\* beyond the segments there will be.
Threshold(counts, extra) ==
    LET Round(loop, count) ==
            LET total == loop.total + count
                segsWhenDone == Len(counts) - loop.threshold + 1
            IN  [i |-> loop.i + 1, total |-> total,
                 threshold |-> IF total < Fibonacci(segsWhenDone + extra)
                               THEN loop.i + 1 ELSE loop.threshold]
        start == [i |-> 0, total |-> 0, threshold |-> 0]
    IN  FoldLeft(Round, start, counts).threshold

\* Choose_Sparse: two segments rather than one, if the next is not twice as big.
ChooseSparse(counts) ==
    LET threshold == Threshold(counts, 5)
    IN  IF threshold = 1 /\ Len(counts) > 2 /\ counts[2] \div 2 < counts[1]
        THEN 2
        ELSE threshold

Candidates(cutoff) == {n \in DOMAIN segs : n > cutoff}

\* The segments that Choose_Sparse wants rewritten.  Among equals qsort, which
\* is stable in glibc, leaves the older first.
Sparsest(S) ==
    LET Before(m, n) == \/ DocCount(m) < DocCount(n)
                        \/ DocCount(m) = DocCount(n) /\ m < n
        Place(n) == Cardinality({m \in S : Before(m, n)}) + 1
        sorted == [i \in 1..Cardinality(S) |-> CHOOSE n \in S : Place(n) = i]
        threshold == ChooseSparse([i \in DOMAIN sorted |-> DocCount(sorted[i])])
    IN  {sorted[i] : i \in 1..threshold}

\* Recycle's result: at least 10% deleted, with what this session deletes.
\* (0/0 is not a number and compares false.)
Recyclable(sparse, S, killed) ==
    sparse \cup {n \in S \ sparse :
                    /\ segs[n].docs > 0
                    /\ 10 * (segs[n].dels + killed[n]) >= segs[n].docs}

\* What a manager makes of it: those of Docs/Cookbook/FastUpdates.md leave
\* all segments alone, or those with ten documents and more.
RecycledBy(manager, S, killed) ==
    LET recycled == Recyclable(Sparsest(S), S, killed) IN
    CASE manager = "none"    -> {}
      [] manager = "light"   -> {n \in recycled : segs[n].docs < 10}
      [] manager = "default" -> recycled

-----------------------------------------------------------------------------
(* The Indexer: S_maybe_merge, Prepare_Commit, Commit.                     *)

Highest == Max(DOMAIN segs \cup {merge.cutoff})

\* Bound: a merge under way has a number left for the deletions it carries over.
Reserved == IF merge = NoMerge THEN 0 ELSE 1

\* What a session may delete: some documents of one segment, or none.
Killings ==
    LET none == [n \in DOMAIN segs |-> 0]
    IN  {none} \cup {[none EXCEPT ![n] = k] : n \in DOMAIN segs, k \in Kills}

Session(manager, batch, killed) ==
    LET S == Candidates(merge.cutoff)
        gone == RecycledBy(manager, S, killed)
        left == SumOf(gone, LAMBDA n : DocCount(n) - killed[n])
        kept == [n \in DOMAIN segs \ gone |->
                    [segs[n] EXCEPT !.dels = @ + killed[n]]]
        new == [n \in {Highest + 1} |-> [docs |-> batch + left, dels |-> 0]]
    IN  /\ ~failed
        /\ \A n \in DOMAIN segs : killed[n] <= DocCount(n)
        /\ manager = "none" \/ ~Throws(Cardinality(S))
        /\ Highest + Reserved < MaxSeg
        /\ batch > 0 \/ gone # {} \/ \E n \in DOMAIN segs : killed[n] > 0
        /\ segs' = kept @@ new
        /\ UNCHANGED <<merge, failed>>

\* Recycle throws, and nothing is committed.
SessionThrows(manager) ==
    /\ ~failed
    /\ manager # "none" /\ Throws(Cardinality(Candidates(merge.cutoff)))
    /\ failed' = TRUE
    /\ UNCHANGED <<segs, merge>>

-----------------------------------------------------------------------------
(* The background merger, which uses the manager as it is.                 *)

ToMerge == RecycledBy("default", DOMAIN segs, [n \in DOMAIN segs |-> 0])

\* Mutant: a single segment is rewritten whether it has deletions or not.
MergeBeginAny ==
    /\ Merging /\ ~failed /\ merge = NoMerge
    /\ ~Throws(Cardinality(DOMAIN segs))
    /\ Highest + 1 < MaxSeg
    /\ ToMerge # {}
    /\ merge' = [cutoff |-> Highest + 1, gone |-> ToMerge,
                 dels |-> [n \in ToMerge |-> segs[n].dels]]
    /\ UNCHANGED <<segs, failed>>

\* S_maybe_merge: one segment without deletions is not worth it.
MergeBegin ==
    /\ Merging /\ ~failed /\ merge = NoMerge
    /\ ~Throws(Cardinality(DOMAIN segs))
    /\ Highest + 1 < MaxSeg
    /\ ToMerge # {}
    /\ \A n \in DOMAIN segs : ToMerge = {n} => segs[n].dels > 0
    /\ merge' = [cutoff |-> Highest + 1, gone |-> ToMerge,
                 dels |-> [n \in ToMerge |-> segs[n].dels]]
    /\ UNCHANGED <<segs, failed>>

\* Commit: deletions made in the meantime are carried over, by a segment of
\* their own without documents.
MergeEnd ==
    LET fresh == SumOf(merge.gone, LAMBDA n : segs[n].dels - merge.dels[n])
        docs == SumOf(merge.gone, LAMBDA n : segs[n].docs - merge.dels[n])
        kept == [n \in DOMAIN segs \ merge.gone |-> segs[n]]
        new == [n \in {merge.cutoff} |-> [docs |-> docs, dels |-> fresh]]
        carrier == [n \in {Highest + 1} |-> [docs |-> 0, dels |-> 0]]
    IN  /\ merge # NoMerge
        /\ segs' = IF fresh = 0 THEN kept @@ new ELSE kept @@ new @@ carrier
        /\ merge' = NoMerge
        /\ UNCHANGED failed

\* The merger dies, or is dropped.
MergeAbandon ==
    /\ merge # NoMerge
    /\ merge' = NoMerge
    /\ UNCHANGED <<segs, failed>>

Next ==
    \/ \E manager \in Managers, batch \in Batches, killed \in Killings :
          Session(manager, batch, killed)
    \/ \E manager \in Managers : SessionThrows(manager)
    \/ MergeBegin \/ MergeEnd \/ MergeAbandon

Spec == Init /\ [][Next]_vars

-----------------------------------------------------------------------------
(* Properties.                                                             *)

Live(S) == SumOf(S, DocCount)

IsSession == segs' # segs /\ merge' = merge

\* A default session leaves no more segments beyond the cutoff than befits the
\* documents it finds there: with n of them, at least fibonacci(n + 5).
SegmentsStayFew ==
    IsSession =>
        LET n == Cardinality({s \in DOMAIN segs' : s > merge.cutoff})
        IN  n > 1 => Live(Candidates(merge.cutoff)) >= Fibonacci(n + 5)

\* And no segment that it might have rewritten with a tenth of its documents
\* deleted, whoever deleted them, nor one without documents, as merges leave
\* behind with the deletions that they carry over.
LittleWaste ==
    IsSession =>
        \A n \in DOMAIN segs \cap DOMAIN segs' :
            n > merge.cutoff => 10 * segs'[n].dels < segs'[n].docs

\* A background merge is worth it: it leaves fewer segments, or fewer deleted
\* documents.  Where documents of its segments were deleted in the meantime
\* it may come out even, for the carrier takes the place of a segment; it never
\* leaves more deleted documents.
MergesPayOff ==
    merge' # merge /\ segs' # segs =>
        LET Waste(f) == FoldSet(LAMBDA n, sum : f[n].dels + sum, 0, DOMAIN f)
            before == Cardinality(DOMAIN segs)
            after == Cardinality(DOMAIN segs')
            meanwhile == \E n \in merge.gone : segs[n].dels > merge.dels[n]
        IN  /\ Waste(segs') <= Waste(segs)
            /\ \/ Waste(segs') < Waste(segs)
               \/ after < before
               \/ after = before /\ meanwhile

\* Where all sessions use the default manager and no merger runs, S_fibonacci
\* does not throw before the index holds fibonacci(FibLimit) documents.
NeverTooMany == Live(DOMAIN segs) < Fibonacci(FibLimit) => ~failed

\* FastUpdates.md: a manager that recycles small segments only is "still
\* offering decent worst-case update speed", and "we still have to consolidate
\* every once in a while": sessions and merges go on.
UpdatesGoOn == ~failed
=============================================================================
