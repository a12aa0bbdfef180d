----------------------------- MODULE MCSegments -----------------------------
(***************************************************************************)
(* What is kept of one segment, in one run: its lexicon, the lexicons of   *)
(* several segments together, its postings as they are read and as they    *)
(* are gathered and merged, and its sort caches.  They share nothing here, *)
(* so a behaviour exercises one of them, its part.                         *)
(***************************************************************************)
EXTENDS Integers

VARIABLES part,
          file, lex, call, out,
          polyfile, lexes, lex_q, term, polycall,
          index, files, pl, sought, asked, cur,
          pool, poolruns, posts, doc_terms, added,
          buffer, count, runs, flush_at_finish, cache, doc_vals, segs

segVars == <<file, lex, call, out>>
polyVars == <<polyfile, lexes, lex_q, term, polycall>>
listVars == <<index, files, pl, sought, asked, cur>>
poolVars == <<pool, poolruns, posts, doc_terms, added>>
fieldVars == <<buffer, count, runs, flush_at_finish, cache, doc_vals, segs>>
allVars == <<part, segVars, polyVars, listVars, poolVars, fieldVars>>

Lexicon == INSTANCE SegLexicon WITH
    Terms <- 0..5, IndexInterval <- 2, SkipInterval <- 2

Lexicons == INSTANCE PolyLexicon WITH
    file <- polyfile, call <- polycall,
    Terms <- 0..3, IndexInterval <- 2, SkipInterval <- 2, Segs <- 1..3

Postings == INSTANCE PostingList WITH
    term <- sought, NumTerms <- 2, DocMax <- 6, IndexInterval <- 2,
    SkipInterval <- 2

Pool == INSTANCE PostingPool WITH
    buffer <- pool, runs <- poolruns, file <- posts, segs <- added,
    NumTerms <- 2, DocMax <- 3, IndexInterval <- 2, SkipInterval <- 2,
    SegMax <- 3, MaxSegs <- 1, MemThresh <- 2

Fields == INSTANCE SortFields WITH
    file <- cache, NumValues <- 2, DocMax <- 3, SegMax <- 2, MaxSegs <- 2,
    RunThresh <- 2

-----------------------------------------------------------------------------

\* The parts that are not exercised have one term, and one document.
MCInit ==
    /\ part \in {"lexicon", "lexicons", "postings", "pool", "fields"}
    /\ Lexicon!Init
    /\ part # "lexicon" => file = Lexicon!LexiconOf({0})
    /\ polyfile = [s \in 1..3 |-> Lexicons!LexiconOf({0})] \/ part = "lexicons"
    /\ Lexicons!Init
    /\ index = [t \in {0, 1} |-> {1}] \/ part = "postings"
    /\ Postings!Init
    /\ Pool!Init
    /\ Fields!Init

LexiconStep == /\ part = "lexicon" /\ Lexicon!NextStep
               /\ UNCHANGED <<part, polyVars, listVars, poolVars, fieldVars>>

LexiconsStep == /\ part = "lexicons" /\ Lexicons!NextStep
                /\ UNCHANGED <<part, segVars, listVars, poolVars, fieldVars>>

PostingsStep == /\ part = "postings" /\ Postings!NextStep
                /\ UNCHANGED <<part, segVars, polyVars, poolVars, fieldVars>>

PoolStep == /\ part = "pool" /\ Pool!Next
            /\ UNCHANGED <<part, segVars, polyVars, listVars, fieldVars>>

FieldsStep == /\ part = "fields" /\ Fields!Next
              /\ UNCHANGED <<part, segVars, polyVars, listVars, poolVars>>

MCNext == LexiconStep \/ LexiconsStep \/ PostingsStep \/ PoolStep
          \/ FieldsStep

MCSpec == MCInit /\ [][MCNext]_allVars

-----------------------------------------------------------------------------
(* The properties of the parts, each explained in its module.              *)

\* The lexicon of one segment and of several are iterators over the terms, from
\* wherever an index lands a Seek.
LexiconsIterate ==
    /\ Lexicon!Iterator!Init /\ Lexicons!Iterator!Init
    /\ [][/\ part = "lexicon" => Lexicon!Iterator!LexiconStep
          /\ part = "lexicons" => Lexicons!Iterator!LexiconStep]_allVars

\* A posting list goes through the documents of its term, skipping or not, and
\* knows how many of them it has passed.
PostingsIterate ==
    /\ Postings!List!Init
    /\ [][part = "postings" => Postings!List!PostingStep]_allVars

\* What a reader infers from differences is what was written: the info of a
\* term, the count of a posting list, and the heap of the lexicons in order.
DifferencesAddUp ==
    /\ part = "lexicon" => Lexicon!InfoTrue
    /\ part = "lexicons" => Lexicons!QueueInOrder
    /\ part = "postings" => Postings!CountTrue

\* The postings and the sort cache of a segment, gathered from new documents and
\* old segments, flushed or not, are those of its documents; and a RangeQuery
\* with an upper term finds by the cache those in the range.
Inverted == /\ part = "pool" => Pool!Inverted
            /\ part = "fields" => Fields!CacheTrue /\ Fields!RangeTrue
=============================================================================
