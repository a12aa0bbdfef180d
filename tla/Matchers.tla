------------------------------ MODULE Matchers ------------------------------
(***************************************************************************)
(* Matchers under any calls that Matcher.cfh allows.  The children of a    *)
(* matcher are any iterators that keep the promise of Iterators.tla to     *)
(* whoever calls them as they must be called, so that what is shown of one *)
(* level here holds of a tree of matchers, leaf by leaf upwards.           *)
(***************************************************************************)
EXTENDS MatcherOps

CONSTANTS Kinds,   \* the classes of matchers checked
          MaxKids, \* bound on the children of an ANDMatcher or ORMatcher
          Again    \* the classes whose Next is called on once exhausted

VARIABLES kind,   \* the class of the matcher
          m,      \* the matcher
          asked,  \* (history) the least document the last call asked for
          cur     \* (history) the document it returned, or Exhausted

vars == <<kind, m, asked, cur>>

\* How many children a matcher of a class has.
Arity(k) == CASE k \in {"and", "or", "scorer"} -> 1..MaxKids
              [] k \in {"not", "bits", "range", "filter"} -> {1}
              [] k \in {"reqopt", "series", "collect"} -> {2}

New(k, docs) ==
    CASE k = "and"     -> NewAND(docs)
      [] k = "or"      -> NewOR(docs)
      [] k = "scorer"  -> NewScorer(docs)
      [] k = "not"     -> NewNOT(docs)
      [] k = "reqopt"  -> NewReqOpt(docs)
      [] k = "series"  -> NewSeries(docs)
      [] k = "bits"    -> NewBitVec(docs)
      [] k \in {"range", "filter"} -> NewTested(docs)
      [] k = "collect" -> NewCollect(docs[1], docs[2])

Init ==
    /\ kind \in Kinds
    /\ \E n \in Arity(kind) : \E docs \in [1..n -> SUBSET (1..DocMax)] :
          /\ kind = "series" => docs[1] \subseteq 1..Offset
          /\ m = New(kind, docs)
    /\ asked = 0 /\ cur = 0

Returned(target, n) ==
    /\ m' = n
    /\ asked' = target
    /\ cur' = IF n.found = 0 THEN Exhausted ELSE n.found
    /\ UNCHANGED kind

CallNext ==
    /\ kind # "collect" /\ (cur # Exhausted \/ kind \in Again)
    /\ Returned(IF cur = Exhausted THEN 1 ELSE cur + 1,
                CASE kind = "and"    -> NextAND(m)
                  [] kind = "or"     -> NextOR(m)
                  [] kind = "scorer" -> S_advance_after_current(m)
                  [] kind = "not"    -> NextNOT(m)
                  [] kind = "reqopt" -> NextReqOpt(m)
                  [] kind = "series" -> NextSeries(m)
                  [] kind = "bits"   -> NextBitVec(m)
                  [] kind \in {"range", "filter"} -> NextTested(m))

\* The highest doc id, and the targets of Advance: up to one more.
Highest == IF kind = "series" THEN Offset + DocMax ELSE DocMax

CallAdvance ==
    /\ kind # "collect" /\ cur # Exhausted
    /\ \E t \in (cur + 1)..(Highest + 1) :
          Returned(t,
                   CASE kind = "and"    -> AdvanceAND(m, t)
                     [] kind = "or"     -> AdvanceOR(m, t)
                     [] kind = "scorer" -> AdvanceScorer(m, t)
                     [] kind = "not"    -> AdvanceNOT(m, t)
                     [] kind = "reqopt" -> AdvanceReqOpt(m, t)
                     [] kind = "series" -> AdvanceSeries(m, t)
                     [] kind = "bits"   -> AdvanceBitVec(m, t)
                     [] kind = "range"  -> AdvanceTested(m, t)
                     [] kind = "filter" -> AdvanceByNext(m, t))

\* Score, at a document; called or not, and more than once.
CallScore ==
    /\ kind = "reqopt" /\ cur > 0
    /\ m' = ScoreReqOpt(m)
    /\ UNCHANGED <<kind, asked, cur>>

CallCollect ==
    /\ kind = "collect" /\ cur = 0
    /\ m' = CollectFrom(m)
    /\ cur' = Exhausted
    /\ UNCHANGED <<kind, asked>>

Next == CallNext \/ CallAdvance \/ CallScore \/ CallCollect

Spec == Init /\ [][Next]_vars

-----------------------------------------------------------------------------

Docs(i) == m.kids[i].docs
Kids == DOMAIN m.kids

\* The documents that match, by the set operation the class stands for.
Matched ==
    CASE kind = "and"     -> {d \in 1..DocMax : \A i \in Kids : d \in Docs(i)}
      [] kind \in {"or", "scorer"} -> UNION {Docs(i) : i \in Kids}
      [] kind = "not"     -> (1..DocMax) \ Docs(1)
      [] kind = "reqopt"  -> Docs(1)
      [] kind = "series"  -> Docs(1) \union {Offset + d : d \in Docs(2)}
      [] kind \in {"bits", "range", "filter"} -> m.docs
      [] kind = "collect" -> Docs(1) \ Docs(2)

TypeOK ==
    /\ kind \in Kinds
    /\ \A i \in Kids : /\ m.kids[i].docs \subseteq 1..DocMax
                       /\ m.kids[i].cur \in m.kids[i].docs \union {0, Exhausted}
    /\ asked \in 0..(Offset + DocMax + 1)
    /\ cur \in -1..Highest

\* A matcher visits the documents that match, all of them, each once, from any
\* target on, whatever its children have been moved to before, and once it is
\* exhausted it stays so.
Iterator == INSTANCE Iterators WITH
    Items <- 1..(Offset + DocMax + 1), Start <- 0, End <- Exhausted,
    items <- Matched, call <- asked

VisitsTheMatches == Iterator!Matcher

\* A matcher calls its children only as Matcher.cfh allows: with a target
\* greater than their current doc id.
CallsChildrenRightly == \A i \in Kids : m.kids[i].legal

\* The children that are counted in the score of a document (matching_kids,
\* the required and optional matcher) are those that match it.
ScoresTheMatching ==
    /\ kind = "scorer" /\ cur > 0 =>
          m.scores = {i \in Kids : cur \in Docs(i)}
    /\ kind = "reqopt" /\ cur > 0 /\ m.scores # {} =>
          (2 \in m.scores) = (cur \in Docs(2))

\* Matcher_Collect collects what matches and is not deleted, in order.
CollectsTheLiving ==
    kind = "collect" /\ cur = Exhausted =>
        /\ ToSet(m.list) = Matched
        /\ \A i, j \in DOMAIN m.list : i < j => m.list[i] < m.list[j]

\* "or 0 once the iterator is exhausted" (Matcher.cfh:35, of Next).
StaysExhausted == [][cur = Exhausted => cur' = Exhausted]_vars
=============================================================================
