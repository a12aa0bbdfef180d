----------------------------- MODULE MatcherOps -----------------------------
(***************************************************************************)
(* The methods of the Matchers of core/Lucy/Search, each an iterator over  *)
(* ascending doc ids.  A matcher is a record; its children are in kids.    *)
(* After a call, found is what it returned.  A loop is repeated as often   *)
(* as it can be before it ends: once for each document, or each child.     *)
(***************************************************************************)
EXTENDS LucyUtil, FiniteSets

CONSTANTS DocMax,   \* doc_max of the segment
          Offset    \* where the second matcher of a SeriesMatcher begins

Exhausted == -1
Int32Max == 2147483647

\* The first element of D from t on, or 0.
FirstFrom(D, t) == IF \E d \in D : d >= t THEN Min({d \in D : d >= t}) ELSE 0

-----------------------------------------------------------------------------
(* A child: any Matcher.  Whether it was called as Matcher.cfh asks, with a *)
(* target greater than its current doc id, is recorded in legal.  It stays *)
(* exhausted, as Matcher.cfh says.                                         *)

NewKid(D) == [docs |-> D, cur |-> 0, legal |-> TRUE]

Moved(k, t) ==
    LET d == FirstFrom(k.docs, t)
    IN  IF k.cur = Exhausted THEN k
        ELSE [k EXCEPT !.cur = IF d = 0 THEN Exhausted ELSE d,
                       !.legal = @ /\ t > k.cur]

\* Get_Doc_ID, of a kid that has one.
At(k) == k.cur

Answer(k) == IF k.cur = Exhausted THEN 0 ELSE k.cur

\* Kid i is advanced to t, and to the next document.
AdvanceKid(m, i, t) == [m EXCEPT !.kids[i] = Moved(@, t)]
NextKid(m, i) == AdvanceKid(m, i, m.kids[i].cur + 1)

-----------------------------------------------------------------------------
(* ANDMatcher.                                                             *)

NewAND(docs) ==
    LET kids == [i \in DOMAIN docs |-> Moved(NewKid(docs[i]), 1)]
    IN  [kids |-> kids, first_time |-> TRUE, found |-> 0,
         more |-> kids # <<>> /\ \A i \in DOMAIN kids : Answer(kids[i]) # 0]

\* Kid i is scooted up, unless some kid is exhausted; r is the matcher with the
\* local variables.
ScootOne(r, i) ==
    LET candidate == At(r.m.kids[i])
        highest == Max({r.highest, candidate})
        target == Max({r.target, highest})
        moved == AdvanceKid(r.m, i, target)
        found == Answer(moved.kids[i])
    IN  IF ~r.m.more THEN r
        ELSE IF candidate >= target
        THEN [m |-> r.m, highest |-> highest, target |-> target]
        ELSE [m |-> [moved EXCEPT !.more = found # 0],
              highest |-> found, target |-> target]

\* One round of scooting up.
ScootAll(s) ==
    LET upto[i \in 0..Len(s.m.kids)] ==
            IF i = 0 THEN s ELSE ScootOne(upto[i - 1], i)
    IN  upto[Len(s.m.kids)]

Agreed(s) == \A i \in DOMAIN s.m.kids : At(s.m.kids[i]) = s.highest

Reconcile(s) ==
    LET again(r) == IF ~r.m.more \/ (Agreed(r) /\ r.highest >= r.target) THEN r
                    ELSE ScootAll(r)
        last == Repeat(again, ScootAll(s), DocMax)
    IN  [last.m EXCEPT !.found = IF last.m.more THEN last.highest ELSE 0]

AdvanceAND(m, target) ==
    LET moved == IF m.first_time THEN [m EXCEPT !.first_time = FALSE]
                 ELSE AdvanceKid(m, 1, target)
        highest == IF m.first_time THEN 0 ELSE Answer(moved.kids[1])
    IN  IF ~m.more THEN [m EXCEPT !.found = 0]
        ELSE IF ~m.first_time /\ highest = 0
        THEN [moved EXCEPT !.more = FALSE, !.found = 0]
        ELSE Reconcile([m |-> moved, highest |-> highest, target |-> target])

NextAND(m) ==
    IF m.first_time THEN AdvanceAND(m, 1)
    ELSE IF m.more THEN AdvanceAND(m, At(m.kids[1]) + 1)
    ELSE [m EXCEPT !.found = 0]

-----------------------------------------------------------------------------
(* ORMatcher and ORScorer: a heap of [kid, doc], the least doc first.      *)

Entries == [kid : Nat, doc : Nat]

LessDoc == [p \in Entries \X Entries |-> p[1].doc < p[2].doc]

\* S_add_element for each kid.
NewOR(docs) ==
    LET heap[i \in 0..Len(docs)] ==
            IF i = 0 THEN <<>>
            ELSE S_up_heap(Append(heap[i - 1], [kid |-> i, doc |-> 0]), LessDoc)
    IN  [kids |-> [i \in DOMAIN docs |-> NewKid(docs[i])], found |-> 0,
         heap |-> heap[Len(docs)]]

\* An exhausted kid gives its place to the last.
S_adjust_root(h) ==
    IF Head(h).doc # 0 THEN S_down_heap(h, LessDoc) ELSE Pop(h, LessDoc)

\* SI_top_advance and SI_top_next.
SI_top_advance(m, target) ==
    LET top == m.heap[1].kid
        moved == AdvanceKid(m, top, target)
    IN  [moved EXCEPT !.heap =
            S_adjust_root([@ EXCEPT ![1].doc = Answer(moved.kids[top])])]

SI_top_next(m) == SI_top_advance(m, m.kids[m.heap[1].kid].cur + 1)

TopDoc(m) == IF m.heap = <<>> THEN 0 ELSE m.heap[1].doc

NextPast(m, last) ==
    LET again(n) == IF n.heap = <<>> \/ TopDoc(n) # last THEN n
                    ELSE SI_top_next(n)
        n == Repeat(again, SI_top_next(m), Len(m.kids))
    IN  [n EXCEPT !.found = TopDoc(n)]

\* A mutant: one step, although other kids may be at the same document.
NextOnce(m) ==
    IF m.heap = <<>> THEN [m EXCEPT !.found = 0]
    ELSE LET n == SI_top_next(m) IN [n EXCEPT !.found = TopDoc(n)]

NextOR(m) ==
    IF m.heap = <<>> THEN [m EXCEPT !.found = 0] ELSE NextPast(m, TopDoc(m))

AdvanceOR(m, target) ==
    LET again(n) == IF n.heap = <<>> \/ TopDoc(n) >= target THEN n
                    ELSE SI_top_advance(n, target)
        n == Repeat(again, SI_top_advance(m, target), Len(m.kids))
    IN  IF m.heap = <<>> THEN [m EXCEPT !.found = 0]
        ELSE [n EXCEPT !.found = TopDoc(n)]

\* An ORScorer runs ahead of its doc_id: its kids are past it already, and
\* the scores of those that were there are kept.
NewScorer(docs) ==
    LET m == NextOR(NewOR(docs))
    IN  [kids |-> m.kids, heap |-> m.heap, found |-> 0, doc_id |-> 0,
         scores |-> {}]

\* The top kid is scored and moved on.
ScoreTop(m) == SI_top_next([m EXCEPT !.scores = @ \union {m.heap[1].kid}])

GatherScores(m) ==
    LET again(n) == IF n.heap = <<>> \/ TopDoc(n) # n.doc_id THEN n
                    ELSE ScoreTop(n)
    IN  [Repeat(again, ScoreTop(m), Len(m.kids)) EXCEPT !.found = m.doc_id]

S_advance_after_current(m) ==
    IF m.heap = <<>> THEN [m EXCEPT !.found = 0]
    ELSE GatherScores([m EXCEPT !.doc_id = TopDoc(m), !.scores = {}])

AdvanceScorer(m, target) ==
    LET again(n) == IF n.heap = <<>> \/ TopDoc(n) >= target THEN n
                    ELSE SI_top_advance(n, target)
    IN  IF m.heap = <<>> THEN [m EXCEPT !.found = 0]
        ELSE IF target <= m.doc_id THEN [m EXCEPT !.found = m.doc_id]
        ELSE S_advance_after_current(Repeat(again, m, Len(m.kids)))

-----------------------------------------------------------------------------
(* NOTMatcher.                                                             *)

NewNOT(docs) == [kids |-> <<NewKid(docs[1])>>, doc_id |-> 0,
                 next_negation |-> 0, found |-> 0]

\* One round of Next: doc_id is counted up, and the kid follows.
CountUp(m) ==
    LET id == m.doc_id + 1
        moved == AdvanceKid(m, 1, id)
        hit == Answer(moved.kids[1])
    IN  IF m.next_negation < id
        THEN [moved EXCEPT !.doc_id = id,
                  !.next_negation = IF hit = 0 THEN DocMax + 1 ELSE hit]
        ELSE [m EXCEPT !.doc_id = id]

NextNOT(m) ==
    LET again(n) == IF n.doc_id > DocMax \/ n.doc_id # n.next_negation THEN n
                    ELSE CountUp(n)
        n == Repeat(again, CountUp(m), DocMax)
    IN  IF n.doc_id > DocMax THEN [n EXCEPT !.doc_id = DocMax, !.found = 0]
        ELSE [n EXCEPT !.found = n.doc_id]

AdvanceNOT(m, target) == NextNOT([m EXCEPT !.doc_id = target - 1])

-----------------------------------------------------------------------------
(* RequiredOptionalMatcher: the required kid is 1, the optional one 2.     *)

NewReqOpt(docs) ==
    [kids |-> <<NewKid(docs[1]), NewKid(docs[2])>>, first |-> TRUE,
     gone |-> FALSE, scores |-> {}, found |-> 0]

AdvanceReqOpt(m, target) ==
    LET n == AdvanceKid(m, 1, target)
    IN  [n EXCEPT !.found = Answer(n.kids[1]), !.scores = {}]

NextReqOpt(m) == AdvanceReqOpt(m, m.kids[1].cur + 1)

\* A mutant: the optional kid is moved up even when it is there.
ScoreMovingAlways(m) ==
    LET doc == At(m.kids[1])
        n == IF ~m.gone THEN AdvanceKid(m, 2, doc) ELSE m
        there == At(n.kids[2])
    IN  [n EXCEPT !.first = FALSE, !.gone = @ \/ there = Exhausted,
                  !.scores = IF there = doc THEN {1, 2} ELSE {1}]

\* Score moves the optional kid up to the document, and lets go of it when it
\* is exhausted (gone).
ScoreReqOpt(m) ==
    LET doc == At(m.kids[1])
        n == IF ~m.gone /\ (m.first \/ At(m.kids[2]) < doc)
             THEN AdvanceKid(m, 2, doc) ELSE m
        there == At(n.kids[2])
    IN  [n EXCEPT !.first = FALSE, !.gone = @ \/ there = Exhausted,
                  !.scores = IF there = doc THEN {1, 2} ELSE {1}]

-----------------------------------------------------------------------------
(* SeriesMatcher: two matchers, the second of which begins at Offset.      *)

NewSeries(docs) ==
    [kids |-> <<NewKid(docs[1]), NewKid(docs[2])>>, tick |-> 0, offset |-> 0,
     next_offset |-> 0, doc_id |-> 0, found |-> 0]

\* Advance calls itself with the next matcher and with another target: s is
\* the matcher with the target.
SeriesTurn(s) ==
    LET m == s.m
        moved == AdvanceKid(m, m.tick, s.target - m.offset)
        hit == Answer(moved.kids[m.tick])
        next == IF m.tick = 0 THEN Offset ELSE Int32Max
    IN  IF s.over THEN s
        ELSE IF s.target >= m.next_offset
        THEN IF m.tick < 2
             THEN [s EXCEPT !.m = [m EXCEPT !.tick = @ + 1, !.doc_id = next - 1,
                                            !.next_offset = next,
                                            !.offset = m.next_offset]]
             ELSE [s EXCEPT !.m = [m EXCEPT !.doc_id = 0, !.found = 0],
                            !.over = TRUE]
        ELSE IF hit # 0
        THEN [s EXCEPT !.m = [moved EXCEPT !.doc_id = hit + m.offset,
                                           !.found = hit + m.offset],
                       !.over = TRUE]
        ELSE [s EXCEPT !.m = moved, !.target = m.next_offset]

\* At most two matchers are begun, each is exhausted, and there is an end.
AdvanceSeries(m, target) ==
    Repeat(SeriesTurn, [m |-> m, target |-> target, over |-> FALSE], 5).m

NextSeries(m) == AdvanceSeries(m, m.doc_id + 1)

-----------------------------------------------------------------------------
(* BitVecMatcher: doc_id becomes -1 at the end.                            *)

NewBitVec(docs) == [docs |-> docs[1], doc_id |-> 0, found |-> 0, kids |-> <<>>]

AdvanceBitVec(m, target) ==
    LET d == FirstFrom(m.docs, target)
    IN  [m EXCEPT !.doc_id = IF d = 0 THEN -1 ELSE d, !.found = d]

NextBitVec(m) == AdvanceBitVec(m, m.doc_id + 1)

-----------------------------------------------------------------------------
(* RangeMatcher, MatchAllMatcher and FilterMatcher: a test of each document *)
(* up to DocMax, of which docs are those that pass.                        *)

NewTested(docs) == [docs |-> docs[1], doc_id |-> 0, found |-> 0, kids |-> <<>>]

NextTested(m) ==
    LET d == FirstFrom(m.docs, m.doc_id + 1)
    IN  [m EXCEPT !.doc_id = IF d = 0 THEN DocMax ELSE d, !.found = d]

AdvanceTested(m, target) == NextTested([m EXCEPT !.doc_id = target - 1])

\* Matcher_Advance, as a FilterMatcher inherits it.
AdvanceByNext(m, target) ==
    LET again(n) == IF n.found = 0 \/ n.found >= target THEN n
                    ELSE NextTested(n)
    IN  Repeat(again, NextTested(m), DocMax)

-----------------------------------------------------------------------------
(* Matcher_Collect: kid 1 is the matcher itself and kid 2 the deletions.   *)
(* The result is in list.                                                  *)

NewCollect(docs, deletions) ==
    [kids |-> <<NewKid(docs), NewKid(deletions)>>, doc_id |-> 0, list |-> <<>>,
     next_deletion |-> 0, over |-> FALSE]

\* Advancing the deletions from doc_id; the end is INT32_MAX, but not where
\* the code forgets it (raw).
NextDeletion(s, raw) ==
    LET n == AdvanceKid(s, 2, s.doc_id)
        hit == Answer(n.kids[2])
    IN  [n EXCEPT !.next_deletion = IF hit = 0 /\ ~raw THEN Int32Max ELSE hit]

AdvanceSelf(s, target) ==
    LET n == AdvanceKid(s, 1, target)
    IN  [n EXCEPT !.doc_id = Answer(n.kids[1])]

\* The inner loop: past a run of deletions.
SkipRun(s) ==
    LET again(r) == IF r.doc_id # r.next_deletion THEN r
                    ELSE NextDeletion([r EXCEPT !.doc_id = @ + 1], FALSE)
    IN  Repeat(again, s, DocMax + 1)

\* The loop around it, and the matcher follows.
SkipDeleted(s) ==
    LET again(r) ==
            LET past == SkipRun(r)
                there == AdvanceSelf(past, past.doc_id)
            IN  IF r.doc_id # r.next_deletion THEN r
                ELSE IF there.doc_id > there.next_deletion
                THEN NextDeletion(there, TRUE) ELSE there
    IN  Repeat(again, s, DocMax + 1)

\* One turn of the scoring loop.
CollectOne(s) ==
    LET there == AdvanceSelf(s, s.doc_id + 1)
        next == IF there.doc_id >= there.next_deletion
                THEN NextDeletion(there, TRUE) ELSE there
        hit == IF s.doc_id = s.next_deletion THEN SkipDeleted(s) ELSE next
    IN  IF s.over THEN s
        ELSE IF s.doc_id > s.next_deletion THEN NextDeletion(s, FALSE)
        ELSE IF s.doc_id # s.next_deletion
                /\ next.doc_id >= there.next_deletion
                /\ next.doc_id = next.next_deletion THEN next
        ELSE IF hit.doc_id = 0 THEN [hit EXCEPT !.over = TRUE]
        ELSE [hit EXCEPT !.list = Append(@, hit.doc_id)]

\* Each document takes a turn, or two.
CollectFrom(s) == Repeat(CollectOne, s, 2 * DocMax + 3)
=============================================================================
