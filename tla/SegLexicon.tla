------------------------------ MODULE SegLexicon -------------------------------
(***************************************************************************)
(* Lucy::Index::SegLexicon (Index/SegLexicon.c) and the one that a         *)
(* DefaultLexiconReader keeps to look up terms (Index/LexiconReader.c).    *)
(***************************************************************************)
EXTENDS SegmentFiles

CONSTANT Terms  \* those that any field has

VARIABLES file,  \* those of the field in the segment
          lex,
          call,  \* (history) the last call, with its target
          out    \* what Fetch_Term_Info was asked for, and returned

vars == <<file, lex, call, out>>

\* There is a SegLexicon only where there are terms.
Init == /\ file \in {LexiconOf(ts) : ts \in (SUBSET Terms) \ {{}}}
        /\ lex = Fresh /\ out = <<Null, Blank>> /\ call = <<"Reset">>

Next == lex' = NextTerm(file, lex) /\ call' = <<"Next">>
        /\ UNCHANGED <<file, out>>

Seek == /\ \E target \in Terms :
               lex' = SeekTerm(file, target) /\ call' = <<"Seek", target>>
        /\ UNCHANGED <<file, out>>

Reset == lex' = Fresh /\ call' = <<"Reset">> /\ UNCHANGED <<file, out>>

\* The info of a term, or Blank when the segment does not have it.
Fetch_Term_Info == \E target \in Terms :
    /\ lex' = SeekTerm(file, target) /\ call' = <<"Seek", target>>
    /\ out' = <<target,
                IF Get_Term(lex') = target THEN lex'.info ELSE Blank>>
    /\ UNCHANGED file

NextStep == Next \/ Seek \/ Reset \/ Fetch_Term_Info

Spec == Init /\ [][NextStep]_vars

-----------------------------------------------------------------------------

terms == {file.dat[i].term : i \in DOMAIN file.dat}

OnTerm == lex.term_num \in 0..(Len(file.dat) - 1)

\* From wherever the index lands a Seek, and whatever has been read before, the
\* terms come in order, and from the first that is not less than the target.
Iterator == INSTANCE Iterators WITH
    Items <- Terms, Start <- -1, End <- -2, items <- terms,
    cur <- IF lex.term_num = -1 THEN -1 ELSE IF OnTerm THEN Get_Term(lex)
           ELSE -2

ImplementsIterator == Iterator!Lexicon

\* The differences have added up: the iterator has the frequency and the place
\* of the postings with which its term was written, and a look-up returns those
\* of the term it was asked for, or none if the segment does not have it.
InfoTrue ==
    LET info(t) == LET sorted == Sorted(terms)
                   IN  Info(sorted, CHOOSE i \in DOMAIN sorted : sorted[i] = t)
    IN  /\ OnTerm => lex.info = info(Get_Term(lex))
        /\ out[1] # Null =>
               out[2] = IF out[1] \in terms THEN info(out[1]) ELSE Blank

\* "Return the current term, or NULL if the iterator is not in a valid state"
\* (Lexicon.cfh:72).
NullWhenInvalid == ~OnTerm => Get_Term(lex) = Null

=============================================================================
