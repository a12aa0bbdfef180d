--------------------------- MODULE PhraseMatcher ---------------------------
(***************************************************************************)
(* A PhraseMatcher (Search/PhraseMatcher.c): its kids are the posting      *)
(* lists of the words of a phrase, with the positions of each word in each *)
(* document.  It visits the documents where the words follow one another,  *)
(* and counts how often they do.  LucyX/Search/ProximityMatcher.c is the   *)
(* same but that a word may come up to Within positions late.              *)
(***************************************************************************)
EXTENDS MatcherOps

CONSTANTS Words,      \* how many words the phrase may have
          Positions,  \* the positions in a document
          Within      \* within of a ProximityMatcher; 1 for a PhraseMatcher

VARIABLES prox,   \* prox[i][d]: the positions of word i in document d (input)
          m,      \* the matcher
          asked,  \* (history) the least document the last call asked for
          cur     \* (history) the document it returned, or Exhausted

vars == <<prox, m, asked, cur>>

Ascending(S) == SetToSortSeq(S, <)

\* A mutant: it stops at the first match.
RECURSIVE WinnowToTheFirst(_, _, _)
WinnowToTheFirst(anchors, candidates, offset) ==
    LET late == Head(candidates) - (Head(anchors) + offset)
        ahead == SelectSeq(anchors, LAMBDA a : a + offset >= Head(candidates))
    IN  CASE anchors = <<>> \/ candidates = <<>> -> <<>>
          [] late < 0 -> WinnowToTheFirst(anchors, Tail(candidates), offset)
          [] late \in 0..(Within - 1) -> <<Head(anchors)>>
          [] OTHER -> WinnowToTheFirst(ahead, candidates, offset)

\* SI_winnow_anchors: the anchors that a candidate follows at the offset, by
\* turns at moving the one or the other forward.  The anchors are moved up to
\* the one that the candidate follows exactly, or past it.
RECURSIVE SI_winnow_anchors(_, _, _)
SI_winnow_anchors(anchors, candidates, offset) ==
    LET late == Head(candidates) - (Head(anchors) + offset)
        ahead == SelectSeq(anchors, LAMBDA a : a + offset >= Head(candidates))
    IN  CASE anchors = <<>> \/ candidates = <<>> -> <<>>
          [] late < 0 -> SI_winnow_anchors(anchors, Tail(candidates), offset)
          [] late \in 0..(Within - 1) ->
                <<Head(anchors)>> \o
                SI_winnow_anchors(Tail(anchors), candidates, offset)
          [] OTHER -> SI_winnow_anchors(ahead, candidates, offset)

\* The words after the first, each against the anchors left by those before.
Calc_Phrase_Freq(d) ==
    Len(FoldLeft(LAMBDA anchors, i : IF anchors = <<>> THEN <<>> ELSE
                     SI_winnow_anchors(anchors, Ascending(prox[i][d]), i - 1),
                 Ascending(prox[1][d]), [i \in 1..(Len(prox) - 1) |-> i + 1]))

\* The documents all words are in, and then those with the phrase.
RECURSIVE FindPhrase(_)
FindPhrase(s) ==
    LET r == ScootAll(s)
        freq == Calc_Phrase_Freq(r.highest)
    IN  IF ~r.m.more THEN [r.m EXCEPT !.found = 0]
        ELSE IF ~Agreed(r) \/ r.highest < r.target THEN FindPhrase(r)
        ELSE IF freq = 0 THEN FindPhrase([r EXCEPT !.target = @ + 1])
        ELSE [r.m EXCEPT !.found = r.highest, !.freq = freq]

\* The first call advances all posting lists up to the first exhausted one.
FirstAdvance(n, target) ==
    FoldLeftDomain(LAMBDA s, i :
        LET moved == AdvanceKid(s.m, i, target)
            candidate == Answer(moved.kids[i])
        IN  IF ~s.m.more THEN s
            ELSE [s EXCEPT !.m = [moved EXCEPT !.more = candidate # 0],
                           !.highest = Max({@, candidate})],
        [m |-> [n EXCEPT !.first_time = FALSE], highest |-> 0,
         target |-> target], n.kids)

LaterAdvance(n, target) ==
    LET moved == AdvanceKid(n, 1, target)
        highest == Answer(moved.kids[1])
    IN  [m |-> [moved EXCEPT !.more = @ /\ highest # 0],
         highest |-> highest, target |-> target]

AdvancePhrase(n, target) ==
    LET s == IF n.first_time THEN FirstAdvance(n, target)
                             ELSE LaterAdvance(n, target)
    IN  IF s.m.more THEN FindPhrase([s EXCEPT !.m.freq = 0])
        ELSE [s.m EXCEPT !.found = 0, !.freq = 0]

NextPhrase(n) ==
    IF n.first_time THEN AdvancePhrase(n, 1)
    ELSE IF n.more THEN AdvancePhrase(n, At(n.kids[1]) + 1)
    ELSE [n EXCEPT !.found = 0]

-----------------------------------------------------------------------------

Init ==
    /\ \E n \in Words : prox \in [1..n -> [1..DocMax -> SUBSET Positions]]
    /\ m = [kids |-> [i \in DOMAIN prox |->
                         NewKid({d \in 1..DocMax : prox[i][d] # {}})],
            first_time |-> TRUE, more |-> TRUE, found |-> 0, freq |-> 0]
    /\ asked = 0 /\ cur = 0

Returned(target, n) ==
    /\ m' = n
    /\ asked' = target
    /\ cur' = IF n.found = 0 THEN Exhausted ELSE n.found
    /\ UNCHANGED prox

CallNext ==
    Returned(IF cur = Exhausted THEN 1 ELSE cur + 1, NextPhrase(m))

CallAdvance ==
    /\ cur # Exhausted
    /\ \E t \in (cur + 1)..(DocMax + 1) : Returned(t, AdvancePhrase(m, t))

Next == CallNext \/ CallAdvance

Spec == Init /\ [][Next]_vars

-----------------------------------------------------------------------------

\* Where the phrase begins in document d: each further word is at its place or
\* less than Within positions later.
Starts(d) ==
    {p \in prox[1][d] : \A i \in DOMAIN prox \ {1} :
        \E q \in prox[i][d] : q - (p + i - 1) \in 0..(Within - 1)}

\* A phrase matcher visits the documents with the phrase, all of them, whether
\* its words are together in other documents or not.
Iterator == INSTANCE Iterators WITH
    Items <- 1..(DocMax + 1), Start <- 0, End <- Exhausted,
    items <- {d \in 1..DocMax : Starts(d) # {}}, call <- asked

VisitsThePhrase == Iterator!Matcher

\* It counts each place where the phrase begins, also where two overlap, and
\* calls its posting lists as Matcher.cfh allows.
CountsThePhrase ==
    /\ cur > 0 => m.freq = Cardinality(Starts(cur))
    /\ \A i \in DOMAIN m.kids : m.kids[i].legal

\* A proximity matcher finds nothing but places where the words are in order
\* and near enough, "within range is exclusive" (perl/t/613-proximityquery.t).
FindsOnlyPhrases == cur > 0 => m.freq \in 1..Cardinality(Starts(cur))

\* "match within 10 positions" (perl/buildlib/LucyX/Build/Binding/Search.pm:54,
\* of within => 10): when the first call finds no document, the words are that
\* near in none.
MissesNoDocument ==
    cur = Exhausted /\ asked = 1 => \A d \in 1..DocMax : Starts(d) = {}
=============================================================================
