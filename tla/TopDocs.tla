------------------------------- MODULE TopDocs -------------------------------
(***************************************************************************)
(* The best hits of a query: a SortCollector (Search/Collector/) per       *)
(* searcher takes the hits of one segment after the other into a HitQueue, *)
(* and a PolySearcher merges what its searchers return.  To be fast, the   *)
(* collector compares a hit not with the queue but with a threshold (the   *)
(* "bubble"), by actions derived for the segment at hand.  The question is *)
(* whether it ever turns away a hit that belongs in the queue.             *)
(***************************************************************************)
EXTENDS LucyUtil, FiniteSets

CONSTANTS Searchers,  \* for each searcher, the doc_max of each segment
          Scores, Values,
          Specs,      \* sequences of sort rules [by, reverse]
          Wanteds     \* numbers of hits asked for

\* The documents: [s, g, d] is document d of segment g of searcher s.
Doc == UNION {UNION {[s : {s}, g : {g}, d : 1..Searchers[s][g]] :
                            g \in DOMAIN Searchers[s]} :
                            s \in DOMAIN Searchers}

None == [s |-> 0, g |-> 0, d |-> 0]

\* A hit has a score, and a value of the sort field or none.
NoValue == 1 + Max(Values)
Hit == [score : Scores, value : Values \union {NoValue}]

VARIABLES hits,       \* the documents that match, with what ranks them
          rules, num_wanted,  \* the SortSpec and the number asked for
          at,         \* the searcher and the segment being collected
          doc_id,     \* the document last taken from the Matcher
          hit_q, bubble, auto,      \* the SortCollector
          total_hits, merged        \* what the PolySearcher has so far

inputs == <<hits, rules, num_wanted>>
vars == <<inputs, at, doc_id, hit_q, bubble, auto, total_hits, merged>>

NumSegs(s) == Len(Searchers[s])

\* What IxSearcher_Top_Docs asks of its collector: at most its doc_max.
Wanted == Min({num_wanted, FoldLeft(+, 0, Searchers[at.s])})

TypeOK ==
    /\ DOMAIN hits \subseteq Doc
    /\ \A x \in DOMAIN hits : hits[x] \in Hit
    /\ at.s \in 1..(Len(Searchers) + 1) /\ at.g \in Nat
    /\ doc_id \in Nat
    /\ hit_q \in BoundedSeq(DOMAIN hits, num_wanted)
    /\ bubble \in DOMAIN hits \union {None}
    /\ auto \in BOOLEAN
    /\ total_hits \in Nat
    /\ merged \in BoundedSeq(DOMAIN hits, num_wanted)

-----------------------------------------------------------------------------
(* Orders.                                                                 *)

\* starts: where a searcher's and a segment's doc ids begin.
Before(x, y) ==
    \/ x.s < y.s
    \/ x.s = y.s /\ x.g < y.g
    \/ x.s = y.s /\ x.g = y.g /\ x.d < y.d

\* x comes behind y by one rule: a lower score, a greater doc id, or a greater
\* value, where a document without value is at the back.
Ahead(by, x, y) ==
    CASE by = "score" -> hits[x].score > hits[y].score
      [] by = "doc"   -> Before(x, y)
      [] by = "value" -> hits[x].value < hits[y].value

Behind(rule, x, y) ==
    IF rule.reverse THEN Ahead(rule.by, x, y) ELSE Ahead(rule.by, y, x)

\* The first of the rules that tells x from y puts x behind.
BehindBy(seq, x, y) ==
    \E i \in DOMAIN seq :
        /\ Behind(seq[i], x, y)
        /\ \A j \in 1..(i - 1) : ~Behind(seq[j], x, y) /\ ~Behind(seq[j], y, x)

\* HitQ_Less_Than.
Less_Than == [x, y \in DOMAIN hits |-> BehindBy(rules, x, y)]

-----------------------------------------------------------------------------
(* The SortCollector.                                                      *)

Rule(by, reverse) == [by |-> by, reverse |-> reverse]

\* A mutant: the last rule is skipped whatever it is.
NumActionsOneFewer == Max({1, Len(rules) - 1})

\* The last rule is skipped when it is ascending order of documents: that is
\* the order they are collected in.  One action at least is executed.
NumActions == IF Len(rules) > 1 /\ Last(rules) = Rule("doc", FALSE)
              THEN Len(rules) - 1 ELSE Len(rules)

\* A segment none of whose documents has a value of the field has no sort
\* cache: all tie there.
HasCache == \E x \in DOMAIN hits : /\ x.s = at.s /\ x.g = at.g
                                   /\ hits[x].value # NoValue

derived_actions ==
    SelectSeq(SubSeq(rules, 1, NumActions),
              LAMBDA r : r.by = "value" => HasCache)

\* SI_competitive: ahead of the threshold, by the actions of this segment.
SI_competitive(x) ==
    IF auto THEN Wanted > 0 ELSE BehindBy(derived_actions, bubble, x)

\* The hits the Matcher has still to return for this segment.
NextHit == {x \in DOMAIN hits : x.s = at.s /\ x.g = at.g /\ x.d > doc_id}

\* Collect, for the next document of the Matcher.
Collect ==
    /\ NextHit # {}
    /\ LET x == CHOOSE x \in NextHit : \A y \in NextHit : x.d <= y.d
           j == Jostle(hit_q, Wanted, x, Less_Than)
           refused == SI_competitive(x) /\ j.out = <<x>>
       IN  /\ doc_id' = x.d
           /\ total_hits' = total_hits + 1
           /\ hit_q' = IF SI_competitive(x) THEN j.heap ELSE hit_q
           /\ bubble' = IF refused THEN x ELSE bubble
           /\ auto' = (auto /\ ~refused)
    /\ UNCHANGED <<inputs, at, merged>>

\* Set_Reader, before a segment: the threshold is forgotten, for its doc id
\* and the ordinals it is compared by belong to the segment that is done.
Set_Reader ==
    /\ at.s <= Len(Searchers) /\ at.g < NumSegs(at.s)
    /\ NextHit = {}
    /\ at' = [at EXCEPT !.g = @ + 1]
    /\ doc_id' = 0
    /\ bubble' = None
    /\ auto' = TRUE
    /\ UNCHANGED <<inputs, hit_q, total_hits, merged>>

-----------------------------------------------------------------------------
(* The searchers.                                                          *)

\* A PolySearcher inserts the hits of a searcher, best first, up to the first
\* that its own queue refuses.
MergeHits(q, list) ==
    FoldLeft(LAMBDA m, x :
        LET j == Jostle(m.heap, num_wanted, x, Less_Than)
        IN  IF m.refused THEN m
            ELSE [heap |-> j.heap, refused |-> j.out = <<x>>],
        [heap |-> q, refused |-> FALSE], list).heap

\* IxSearcher_Top_Docs returns, and the next searcher is asked.
TopDocsOfSearcher ==
    /\ at.s <= Len(Searchers) /\ at.g = NumSegs(at.s) /\ NextHit = {}
    /\ merged' = MergeHits(merged, Pop_All(hit_q, Less_Than))
    /\ at' = [s |-> at.s + 1, g |-> 0]
    /\ hit_q' = <<>> /\ bubble' = None /\ auto' = TRUE /\ doc_id' = 0
    /\ UNCHANGED <<inputs, total_hits>>

Init ==
    /\ \E S \in SUBSET Doc : hits \in [S -> Hit]
    /\ rules \in Specs /\ num_wanted \in Wanteds
    /\ at = [s |-> 1, g |-> 0]
    /\ hit_q = <<>> /\ bubble = None /\ auto = TRUE /\ doc_id = 0
    /\ total_hits = 0
    /\ merged = <<>>

Next == Set_Reader \/ Collect \/ TopDocsOfSearcher

Spec == Init /\ [][Next]_vars

Finished == at.s > Len(Searchers)
Result == Pop_All(merged, Less_Than)

-----------------------------------------------------------------------------
(* Properties.                                                             *)

Collected == {x \in DOMAIN hits :
    x.s = at.s /\ (x.g < at.g \/ (x.g = at.g /\ x.d <= doc_id))}

\* What the collector turns away by its threshold alone is what the queue
\* would refuse, and the segments before and the order of collection make up
\* for the actions it skips: the collector's queue is a bounded queue.
Queue == INSTANCE TopSet WITH
    Element <- Doc, Bounds <- Wanteds, bound <- num_wanted,
    held <- ToSet(hit_q), out <- Collected \ ToSet(hit_q),
    worse <- {p \in (DOMAIN hits) \X (DOMAIN hits) : Less_Than[p[1], p[2]]}

TurnsAwayOnlyTheWorst == Queue!Spec

\* The result lists as many hits as were asked for, or all; it is in order;
\* and no hit that is left out is ahead of one that is listed, although the
\* hits were collected by several queues, and merging stops early.
BestHits ==
    Finished =>
        LET R == ToSet(Result)
        IN  /\ Len(Result) = Min({num_wanted, Cardinality(DOMAIN hits)})
            /\ \A i, j \in DOMAIN Result :
                  i < j => Result[i] # Result[j] /\
                           ~Less_Than[Result[i], Result[j]]
            /\ \A x \in DOMAIN hits \ R, y \in R : ~Less_Than[y, x]
            /\ total_hits = Cardinality(DOMAIN hits)

\* "we prefer items already in the queue", implicitly breaking ties by doc num
\* (the comment at the end of SI_competitive).
TiesGoToTheFirst ==
    Finished =>
        \A x \in DOMAIN hits \ ToSet(Result), y \in ToSet(Result) :
            Less_Than[x, y] \/ Before(y, x)
=============================================================================
