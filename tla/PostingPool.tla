----------------------------- MODULE PostingPool -----------------------------
(***************************************************************************)
(* The PostingPool of an indexed field (Index/PostingPool.c) under its     *)
(* PostingListWriter: documents are inverted into a buffer, full buffers   *)
(* go to temporary files, other segments are added with the map of their   *)
(* live documents, and Finish merges it all into the segment's postings.   *)
(* A posting takes one unit of memory.                                     *)
(***************************************************************************)
EXTENDS SegmentFiles

CONSTANTS NumTerms,   \* how many terms there are
          DocMax,     \* bound on the documents
          SegMax,     \* bound on the documents of a segment added
          MaxSegs,    \* bound on the segments added
          MemThresh   \* what the buffers of the runs may take together

Terms == 0..(NumTerms - 1)

VARIABLES buffer,
          runs,
          file,      \* what Finish has written; Open before, None if nothing
          doc_terms, \* (history) the terms of each document of the segment
          segs       \* (bound) how many segments have been added

vars == <<buffer, runs, file, doc_terms, segs>>

Open == <<"open">>
None == <<"none">>
Written(raw) == IF raw = <<>> THEN None
                ELSE <<"written", S_write_terms_and_postings(raw)>>

\* Postings are numbers, which compare as PostPool_Compare does.
Raw(term, doc) == term * (DocMax + 1) + doc
Unpacked(raws) == [i \in DOMAIN raws |-> <<raws[i] \div (DocMax + 1),
                                           raws[i] % (DocMax + 1)>>]

Sort_Buffer(raws) == SortSeq(raws, <)

\* A run over written postings; it has read up to the places in lexicon and
\* plist.  Without a doc map every document keeps its number.
NewRun(written, doc_map, doc_base) ==
    [lexicon |-> written.infos, plist |-> written.posts, lex_pos |-> 0,
     post_pos |-> 0, term |-> -1, post_count |-> 0, last_doc_id |-> 0,
     doc_map |-> doc_map, doc_base |-> doc_base, buf |-> <<>>, buf_tick |-> 0]

\* The run that Flip makes of what is left in the buffer has nothing to read.
MemoryRun(raws) ==
    [NewRun([infos |-> <<>>, posts |-> <<>>], <<>>, 0) EXCEPT !.buf = raws]

-----------------------------------------------------------------------------
(* Filling.                                                                *)

Init == /\ buffer = <<>> /\ runs = <<>> /\ file = Open
        /\ doc_terms = <<>> /\ segs = 0

\* A temporary file has postings by term; there is none of an empty buffer.
Flush(raws) ==
    /\ buffer' = <<>>
    /\ runs' = IF raws = <<>> THEN runs
               ELSE Append(runs, NewRun(S_write_terms_and_postings(
                                     Unpacked(Sort_Buffer(raws))), <<>>, 0))

\* A document; the memory of all the pools decides whether they are flushed.
Add_Inverted_Doc == \E terms \in SUBSET Terms, flush \in BOOLEAN :
    LET doc_id == Len(doc_terms) + 1
        fed == buffer \o SelectSeq([i \in 1..NumTerms |-> Raw(i - 1, doc_id)],
                                   LAMBDA r : r \div (DocMax + 1) \in terms)
    IN  /\ file = Open /\ doc_id <= DocMax
        /\ doc_terms' = Append(doc_terms, terms)
        /\ IF flush THEN Flush(fed) ELSE buffer' = fed /\ UNCHANGED runs
        /\ UNCHANGED <<file, segs>>

\* Where the live documents of a segment go (Generate_Doc_Map).
DocMap(live, offset) ==
    [d \in 1..SegMax |-> IF d \in live
                         THEN offset + Cardinality({e \in live : e <= d})
                         ELSE 0]

\* A segment without a term has no lexicon for the field.
Add_Segment ==
    \E index \in [Terms -> SUBSET (1..SegMax)], live \in SUBSET (1..SegMax) :
        LET base == Len(doc_terms)
            old == SetToSortSeq(live, <)
            raw == Fetched(index)
        IN  /\ file = Open /\ base + Cardinality(live) <= DocMax
            /\ segs < MaxSegs /\ segs' = segs + 1
            /\ doc_terms' = doc_terms \o [i \in DOMAIN old |->
                               {t \in Terms : old[i] \in index[t]}]
            /\ runs' = IF raw = <<>> THEN runs
                       ELSE Append(runs, NewRun(S_write_terms_and_postings(raw),
                                                DocMap(live, base), base))
            /\ UNCHANGED <<buffer, file>>

-----------------------------------------------------------------------------
(* Finishing.                                                              *)

\* The next term of the run, whose documents are numbered from the base on.
ReadTerm(run) ==
    LET entry == run.lexicon[run.lex_pos + 1]
    IN  [run EXCEPT !.lex_pos = @ + 1, !.term = entry[1],
                    !.post_count = entry[2].doc_freq,
                    !.last_doc_id = run.doc_base]

\* A mutant: the next difference is added to the document's new number.
ReadRawRemapped(run) ==
    LET doc_id == run.last_doc_id + run.plist[run.post_pos + 1]
        remapped == IF run.doc_map = <<>> THEN doc_id
                    ELSE run.doc_map[doc_id - run.doc_base]
    IN  [run EXCEPT !.post_pos = @ + 1, !.post_count = @ - 1,
                    !.last_doc_id = IF remapped = 0 THEN doc_id ELSE remapped,
                    !.buf = IF remapped = 0 THEN @
                            ELSE Append(@, Raw(run.term, remapped))]

\* The next posting, if its document is not deleted.
ReadRaw(run) ==
    LET doc_id == run.last_doc_id + run.plist[run.post_pos + 1]
        remapped == IF run.doc_map = <<>> THEN doc_id
                    ELSE run.doc_map[doc_id - run.doc_base]
    IN  [run EXCEPT !.post_pos = @ + 1, !.post_count = @ - 1,
                    !.last_doc_id = doc_id,
                    !.buf = IF remapped = 0 THEN @
                            ELSE Append(@, Raw(run.term, remapped))]

\* One turn of Refill's loop, which may end in the middle of a term.
RefillRound(s, thresh) ==
    LET at_end == s.run.post_count = 0 /\ s.run.lex_pos = Len(s.run.lexicon)
        run == IF s.run.post_count = 0 THEN ReadTerm(s.run) ELSE s.run
    IN  IF s.done \/ at_end THEN [s EXCEPT !.done = TRUE]
        ELSE IF s.consumed >= thresh /\ s.run.buf # <<>>
             THEN [s EXCEPT !.done = TRUE, !.run = run]
             ELSE [s EXCEPT !.run = ReadRaw(run), !.consumed = @ + 1]

Refill(run, thresh) ==
    FoldLeft(LAMBDA s, p : RefillRound(s, thresh),
             [run |-> [run EXCEPT !.buf = <<>>, !.buf_tick = 0],
              consumed |-> 0, done |-> FALSE],
             Append(run.plist, 0)).run

\* Runs with an empty buffer are refilled, and go when there is nothing left.
Filled(rs, thresh) ==
    SelectSeq([i \in DOMAIN rs |-> IF Count(rs[i]) > 0 THEN rs[i]
                                   ELSE Refill(rs[i], thresh)],
              LAMBDA run : Count(run) > 0)

\* The runs to merge: a buffer becomes one, unless it is all there is.
FlippedRuns == IF runs = <<>> \/ buffer = <<>> THEN runs
               ELSE Append(runs, MemoryRun(Sort_Buffer(buffer)))

\* The postings as Fetch returns them, a buffer at a time.
FetchedRaws ==
    LET thresh == MemThresh \div Len(runs)
        Round(s) == LET r == S_absorb_slices(Filled(s.runs, thresh))
                    IN  [runs |-> r.runs, out |-> s.out \o r.buffer]
        Postings == [i \in 1..(NumTerms * DocMax) |-> i]
    IN  IF runs = <<>> THEN Sort_Buffer(buffer)
        ELSE FoldLeft(LAMBDA s, i : Round(s),
                      [runs |-> FlippedRuns, out |-> <<>>], Postings).out

Finish ==
    /\ file = Open
    /\ file' = Written(Unpacked(FetchedRaws))
    /\ buffer' = <<>> /\ runs' = <<>>
    /\ UNCHANGED <<doc_terms, segs>>

Next == Add_Inverted_Doc \/ Add_Segment \/ Finish

Spec == Init /\ [][Next]_vars

-----------------------------------------------------------------------------

\* The postings written are the inverted index of the segment's documents: those
\* added one by one and the live ones of the segments added, under their new
\* numbers, wherever the buffers were flushed and the runs' buffers ended.
Inverted ==
    LET docs == [t \in Terms |-> {d \in DOMAIN doc_terms : t \in doc_terms[d]}]
    IN  file # Open => file = Written(Fetched(docs))
=============================================================================
