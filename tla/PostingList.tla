---------------------------- MODULE PostingList ----------------------------
(***************************************************************************)
(* How a SegPostingList iterates over the postings of a term, skipping     *)
(* (Index/SegPostingList.c, Index/SkipStepper.c).                          *)
(***************************************************************************)
EXTENDS SegmentFiles

CONSTANTS NumTerms,  \* how many terms there are
          DocMax     \* the greatest doc id

Terms == 0..(NumTerms - 1)

VARIABLES index,  \* the documents of each term, as the writer was given them
          files,  \* posts, skips, and infos: the lexicon's TermInfos
          pl,     \* the SegPostingList
          term,   \* (history) the term it was last seeked to, -1 before
          asked,  \* (history) the least document the last call asked for
          cur     \* (history) the document it returned, 0 after a Seek, or -1

vars == <<index, files, pl, term, asked, cur>>

-----------------------------------------------------------------------------
(* Reading *)

\* skip_pos is where the skip stream is.
New == [doc_freq |-> 0, count |-> 0, pos |-> 0, doc_id |-> 0,
        skip_count |-> 0, num_skips |-> 0, skip_pos |-> 0,
        stepper |-> [doc_id |-> 0, filepos |-> 0]]

\* The TermInfo of a term, of which the lexicon may have none.
Infos(t) == {files.infos[i][2] : i \in {j \in DOMAIN files.infos :
                                           files.infos[j][1] = t}}

\* A mutant: the skip stepper goes on from where it was.
KeepsStepper(l, found) ==
    IF found = {} THEN [l EXCEPT !.count = 0, !.doc_freq = 0]
    ELSE LET tinfo == CHOOSE i \in found : TRUE
         IN  [l EXCEPT !.doc_freq = tinfo.doc_freq, !.count = 0,
                       !.pos = tinfo.post_filepos, !.doc_id = 0,
                       !.skip_count = 0, !.skip_pos = tinfo.skip_filepos,
                       !.num_skips = tinfo.doc_freq \div SkipInterval]

S_seek_tinfo(l, found) ==
    IF found = {} THEN [l EXCEPT !.count = 0, !.doc_freq = 0]
    ELSE LET tinfo == CHOOSE i \in found : TRUE
         IN  [doc_freq |-> tinfo.doc_freq, count |-> 0,
              pos |-> tinfo.post_filepos, doc_id |-> 0,
              skip_count |-> 0, num_skips |-> tinfo.doc_freq \div SkipInterval,
              skip_pos |-> tinfo.skip_filepos,
              stepper |-> [doc_id |-> 0, filepos |-> tinfo.post_filepos]]

\* Next, with MatchPost_Read_Record.
NextPosting(l) ==
    IF l.count >= l.doc_freq THEN [l EXCEPT !.doc_id = 0]
    ELSE [l EXCEPT !.count = @ + 1, !.pos = @ + 1,
                   !.doc_id = @ + files.posts[l.pos + 1]]

Read_Record(l) ==
    LET delta == files.skips[l.skip_pos + 1]
    IN  [l EXCEPT !.stepper = [doc_id |-> @.doc_id + delta[1],
                               filepos |-> @.filepos + delta[2]],
                  !.skip_pos = @ + 1, !.skip_count = @ + 1]

\* How many of the skip records' documents the count has passed already.
PassedAlready(l) ==
    IF l.count % SkipInterval = 0 /\ l.count # 0
    THEN -SkipInterval ELSE -(l.count % SkipInterval)

\* A mutant: so does the place where the term's postings begin.
CountsStart(l) == l.stepper.doc_id >= l.doc_id

\* Whether the skip record counts: the list is not past it.
Counts(l) == l.stepper.doc_id # 0 /\ l.stepper.doc_id >= l.doc_id

\* One turn of the loop; s is the list, the place found and num_skipped.
SkipRound(s, target) ==
    IF s.done \/ target <= s.l.stepper.doc_id THEN s
    ELSE LET out_of_skips == s.l.skip_count >= s.l.num_skips
         IN  [l |-> IF out_of_skips THEN s.l ELSE Read_Record(s.l),
              found |-> s.l.stepper, done |-> out_of_skips,
              num_skipped |-> s.num_skipped
                              + (IF Counts(s.l) THEN SkipInterval ELSE 0)]

\* A loop goes round once for each document of the term at most, and once more.
Skip(l, target) ==
    LET s == Repeat(LAMBDA r : SkipRound(r, target),
                    [l |-> l, done |-> FALSE,
                     found |-> [doc_id |-> l.stepper.doc_id,
                                filepos |-> l.pos],
                     num_skipped |-> PassedAlready(l)],
                    DocMax + 1)
    IN  IF s.found.filepos > l.pos
        THEN [s.l EXCEPT !.pos = s.found.filepos, !.doc_id = s.found.doc_id,
                         !.count = @ + s.num_skipped]
        ELSE s.l

AdvanceTo(l, target) ==
    LET skipped == IF l.doc_freq >= SkipInterval THEN Skip(l, target) ELSE l
        again(r) == IF r.doc_id = 0 \/ r.doc_id >= target THEN r
                    ELSE NextPosting(r)
    IN  Repeat(again, NextPosting(skipped), DocMax + 1)

-----------------------------------------------------------------------------

\* A field has a file of postings only if some document holds a term of it.
Init == /\ index \in [Terms -> SUBSET (1..DocMax)]
        /\ \E t \in Terms : index[t] # {}
        /\ files = S_write_terms_and_postings(Fetched(index))
        /\ pl = New /\ term = -1 /\ asked = 0 /\ cur = 0

Returned(target, l) == /\ pl' = l /\ asked' = target
                       /\ cur' = IF l.doc_id = 0 THEN -1 ELSE l.doc_id
                       /\ UNCHANGED <<index, files, term>>

Next == Returned(IF cur = -1 THEN 1 ELSE cur + 1, NextPosting(pl))

Advance == \E target \in 1..(DocMax + 1) :
               target > cur /\ Returned(target, AdvanceTo(pl, target))

\* Seek; Seek_Lex, with the TermInfo that a SegLexicon of the segment is at.
Seek == /\ term' \in Terms
        /\ pl' = S_seek_tinfo(pl, Infos(term'))
        /\ asked' = 0 /\ cur' = 0 /\ UNCHANGED <<index, files>>

NextStep == Next \/ Advance \/ Seek

Spec == Init /\ [][NextStep]_vars

-----------------------------------------------------------------------------

\* Whatever has been skipped or scanned before, a Next or an Advance stops at
\* the first document wanted that holds the term, and a Seek starts afresh,
\* also after one to a term that no document holds.
List == INSTANCE Iterators WITH
    Items <- 1..(DocMax + 1), Start <- 0, End <- -1, call <- asked,
    items <- IF term = -1 THEN {} ELSE index[term]

ImplementsList == List!PostingList

\* The list knows how many of the term's documents it has passed, also those
\* that it skipped: if the count ran behind, it would read on into the next
\* term's postings, and if it ran ahead it would stop too early.
CountTrue ==
    cur > 0 =>
        /\ pl.count = Cardinality({d \in index[term] : d <= pl.doc_id})
        /\ \A i \in Infos(term) : pl.pos = i.post_filepos + pl.count
=============================================================================
