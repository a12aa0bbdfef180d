------------------------------ MODULE PolyLexicon ------------------------------
(***************************************************************************)
(* Lucy::Index::PolyLexicon (Index/PolyLexicon.c): the SegLexicons of the  *)
(* segments in a priority queue, the least term first.                     *)
(***************************************************************************)
EXTENDS SegmentFiles

CONSTANTS Terms,  \* those that any field has
          Segs    \* the segments that have the field: 1, 2, ...

VARIABLES file,   \* those of each segment
          lexes,  \* the SegLexicons
          lex_q,  \* the queue: a heap of segments
          term,   \* the current term, or Null
          call    \* (history) the last call, with its target

vars == <<file, lexes, lex_q, term, call>>

\* SegLexQ_Less_Than.
Less_Than(ls) == [a, b \in Segs |-> Get_Term(ls[a]) < Get_Term(ls[b])]

Insert(q, ls, s) == Jostle(q, Cardinality(Segs), s, Less_Than(ls)).heap

PopTop(q, ls) == Pop(q, Less_Than(ls))

\* The queue filled with some of the segments, in order.
Queued(ls, segs) ==
    FoldLeft(LAMBDA q, s : Insert(q, ls, s), <<>>, Sorted(segs))

\* PolyLex_Reset: each is put on its first term, and none is current.
ResetLexes == [s \in Segs |-> NextTerm(file[s], Fresh)]
ResetQueue ==
    Queued(ResetLexes, {s \in Segs : ~Exhausted(file[s], ResetLexes[s])})

Init ==
    /\ file \in [Segs -> {LexiconOf(ts) : ts \in (SUBSET Terms) \ {{}}}]
    /\ lexes = ResetLexes /\ lex_q = ResetQueue
    /\ term = Null /\ call = <<"Reset">>

\* As often as a loop may go round.
Rounds == [i \in 1..(Cardinality(Segs) * (Cardinality(Terms) + 1)) |-> i]

\* The term on top of the queue becomes the current one.
ToTop(p) ==
    [p EXCEPT !.term = IF p.q = <<>> THEN Null ELSE Get_Term(p.ls[p.q[1]])]

\* PolyLex_Next: segments are moved on while they are on the current term.
Churn(p) ==
    LET move(r, i) ==
            LET top == r.q[1]
                ls == [r.ls EXCEPT ![top] = NextTerm(file[top], @)]
                rest == PopTop(r.q, r.ls)
            IN  IF r.q = <<>> \/ Get_Term(r.ls[top]) # p.term THEN r
                ELSE [r EXCEPT !.ls = ls,
                               !.q = IF Exhausted(file[top], ls[top]) THEN rest
                                     ELSE Insert(rest, ls, top)]
    IN  ToTop(FoldLeft(move, p, Rounds))

\* S_refresh_lex_q: also segments without a term from the target on, of which
\* Get_Term is the empty string, and then the scan up to the target.
Sought(target) ==
    LET ls == [s \in Segs |-> SeekTerm(file[s], target)]
        q == Queued(ls, {s \in Segs : Get_Term(ls[s]) # Null})
        start == ToTop([q |-> q, ls |-> ls, term |-> Null])
    IN  FoldLeft(LAMBDA p, i :
                     IF p.term >= target \/ (p.term = Null /\ p.q = <<>>) THEN p
                     ELSE Churn(p), start, Rounds)

Becomes(p) ==
    lex_q' = p.q /\ lexes' = p.ls /\ term' = p.term /\ UNCHANGED file

Next == /\ Becomes(Churn([q |-> lex_q, ls |-> lexes, term |-> term]))
        /\ call' = <<"Next">>

Seek == \E target \in Terms :
    Becomes(Sought(target)) /\ call' = <<"Seek", target>>

Reset == /\ Becomes([q |-> ResetQueue, ls |-> ResetLexes, term |-> Null])
         /\ call' = <<"Reset">>

NextStep == Next \/ Seek \/ Reset

Spec == Init /\ [][NextStep]_vars

-----------------------------------------------------------------------------

\* The terms of all segments come in order, each once, although segments share
\* terms, run out at different times, and those that have run out are put in the
\* queue as if they were on the empty string.
Iterator == INSTANCE Iterators WITH
    Items <- Terms, Start <- -1, End <- -2,
    items <- UNION {{file[s].dat[i].term : i \in DOMAIN file[s].dat} :
                       s \in Segs},
    cur <- IF term # Null THEN term ELSE IF lex_q = <<>> THEN -2 ELSE -1

ImplementsIterator == Iterator!Lexicon

\* A term is current when it is the one on top of the queue, and the queue is a
\* heap, although the terms by which it is ordered are in the SegLexicons, which
\* move.
QueueInOrder ==
    /\ term # Null => lex_q # <<>> /\ Get_Term(lexes[lex_q[1]]) = term
    /\ \A i \in 2..Len(lex_q) :
           Get_Term(lexes[lex_q[i \div 2]]) <= Get_Term(lexes[lex_q[i]])
=============================================================================
