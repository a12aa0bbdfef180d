---------------------------- MODULE SegmentFiles -----------------------------
(***************************************************************************)
(* The files of one indexed field in one segment.                          *)
(*                                                                         *)
(* The lexicon (Index/LexiconWriter.c): the main file holds every term as  *)
(* a difference from the one before it; the index holds, for every         *)
(* IndexInterval-th term, the one before it in full.  Terms are numbers,   *)
(* in sort order; 0 is the empty string.  Here are, too, the operations of *)
(* a SegLexicon and its LexIndex, which read them.                         *)
(*                                                                         *)
(* The postings (Index/PostingPool.c, Index/Posting/MatchPosting.c), with  *)
(* a skip record after every SkipInterval of a term.  A file is the        *)
(* sequence of its records, a place in it a number of records; doc ids,    *)
(* and both fields of a skip record, are differences.                      *)
(***************************************************************************)
EXTENDS LucyUtil, FiniteSets

CONSTANTS IndexInterval,
          SkipInterval   \* more than 1, or no TermInfo has a skip_filepos

Empty == 0
Garbage == -3  \* a difference from a term that is not the one before
Null == -4

\* How many documents a term is in: any number will do.
Freq(t) == 1 + (t % 3)

\* What a stepper holds of a term; after a reset, that of the empty string.
Blank == [term |-> Empty, doc_freq |-> 0, post_filepos |-> 0]

\* What the i-th of the sorted terms is written with: its postings come after
\* those of the terms before it.
Info(sorted, i) ==
    LET upto[k \in 0..Len(sorted)] ==
            IF k = 0 THEN 0 ELSE upto[k - 1] + Freq(sorted[k])
    IN  IF i = 0 THEN Blank
        ELSE [term |-> sorted[i], doc_freq |-> Freq(sorted[i]),
              post_filepos |-> upto[i - 1]]

\* The terms in order.
Sorted(terms) ==
    [k \in 1..Cardinality(terms) |->
        CHOOSE t \in terms : Cardinality({u \in terms : u < t}) = k - 1]

-----------------------------------------------------------------------------
(* Writing a lexicon.                                                      *)

\* Add_Term to the main file: the difference from the term before.
Delta(last, info) ==
    [last |-> last.term, term |-> info.term, doc_freq |-> info.doc_freq,
     post_delta |-> info.post_filepos - last.post_filepos]

\* S_add_last_term_to_ix, before every IndexInterval-th term: the one before it
\* and where the main file is.
IndexOf(sorted) ==
    [k \in 1..((Len(sorted) + IndexInterval - 1) \div IndexInterval) |->
        [info |-> Info(sorted, (k - 1) * IndexInterval),
         lex_filepos |-> (k - 1) * IndexInterval]]

LexiconOf(terms) ==
    LET sorted == Sorted(terms)
    IN  [dat |-> [i \in DOMAIN sorted |->
                     Delta(Info(sorted, i - 1), Info(sorted, i))],
         ix  |-> IndexOf(sorted)]

-----------------------------------------------------------------------------
(* Reading a lexicon.                                                      *)

\* The state of a SegLexicon: how many terms the main file has been read past,
\* the number of the term it is on, and what its steppers hold.
Fresh == [pos |-> 0, term_num |-> -1, info |-> Blank]

\* Without a check whether the iterator is on a term.
Get_Term(lex) == lex.info.term

Exhausted(file, lex) == lex.term_num >= Len(file.dat)

ReadDelta(info, delta) ==
    [term |-> IF info.term = delta.last THEN delta.term ELSE Garbage,
     doc_freq |-> delta.doc_freq,
     post_filepos |-> info.post_filepos + delta.post_delta]

NextTerm(file, lex) ==
    IF lex.term_num + 1 >= Len(file.dat)
    THEN [lex EXCEPT !.term_num = Len(file.dat), !.info = Blank]
    ELSE [pos |-> lex.pos + 1, term_num |-> lex.term_num + 1,
          info |-> ReadDelta(lex.info, file.dat[lex.pos + 1])]

\* The binary search of LexIndex_Seek, from 0: an entry that equals the target,
\* or else the last that is less.
Tick(ix, target) ==
    LET mid(s) == s.lo + ((s.hi - s.lo) \div 2)
        halve(s) ==
            LET term == ix[mid(s) + 1].info.term
            IN  IF s.hi < s.lo \/ target = term THEN s
                ELSE IF target < term THEN [s EXCEPT !.hi = mid(s) - 1]
                ELSE [s EXCEPT !.lo = mid(s) + 1]
        last == Repeat(halve, [lo |-> 0, hi |-> Len(ix) - 1], Len(ix))
    IN  IF last.hi < last.lo THEN Max({last.hi, 0}) ELSE mid(last)

\* A mutant: the state before the first term is taken for one on it.
ScanEager(file, lex, target) ==
    LET advance(l) == IF Get_Term(l) >= target \/ Exhausted(file, l) THEN l
                      ELSE NextTerm(file, l)
    IN  Repeat(advance, lex, Len(file.dat) + 1)

\* S_scan_to: Next until the term is not less than the target, or there is none.
S_scan_to(file, lex, target) ==
    LET advance(l) == IF \/ Get_Term(l) >= target /\ l.term_num # -1
                         \/ Exhausted(file, l)
                      THEN l ELSE NextTerm(file, l)
    IN  Repeat(advance, lex, Len(file.dat) + 1)

SeekTerm(file, target) ==
    LET tick == Tick(file.ix, target)
        entry == file.ix[tick + 1]
    IN  S_scan_to(file, [pos |-> entry.lex_filepos,
                         term_num |-> IndexInterval * tick - 1,
                         info |-> entry.info], target)

-----------------------------------------------------------------------------
(* Writing postings.                                                       *)

ZeroInfo == [doc_freq |-> 0, post_filepos |-> 0, skip_filepos |-> 0]

\* The postings as the pool returns them: by term, then by document.
Before(p, q) == p[1] < q[1] \/ (p[1] = q[1] /\ p[2] < q[2])

Fetched(docs) ==
    LET raws == UNION {{t} \X docs[t] : t \in DOMAIN docs}
    IN  [k \in 1..Cardinality(raws) |->
            CHOOSE p \in raws :
                Cardinality({q \in raws : Before(q, p)}) = k - 1]

\* The writer's variables before the loop; last is last_term_text.
Primed(first) == [posts |-> <<>>, skips |-> <<>>, infos |-> <<>>,
                  last |-> first, tinfo |-> ZeroInfo, last_doc_id |-> 0,
                  stepper |-> [doc_id |-> 0, filepos |-> 0]]

\* The term changes: its TermInfo goes to the lexicon.
StartTerm(w, t) ==
    LET here == Len(w.posts)
    IN  [w EXCEPT !.infos = Append(w.infos, <<w.last, w.tinfo>>),
                  !.tinfo = [ZeroInfo EXCEPT !.post_filepos = here],
                  !.last_doc_id = 0, !.last = t,
                  !.stepper = [doc_id |-> 0, filepos |-> here]]

Write_Posting(w, doc) ==
    [w EXCEPT !.posts = Append(w.posts, doc - w.last_doc_id),
              !.last_doc_id = doc, !.tinfo.doc_freq = w.tinfo.doc_freq + 1]

WriteSkip(w, doc) ==
    LET step == [doc_id |-> doc, filepos |-> Len(w.posts)]
    IN  [w EXCEPT !.tinfo.skip_filepos =
                      IF w.tinfo.doc_freq = SkipInterval
                      THEN Len(w.skips) ELSE @,
                  !.skips = Append(w.skips, <<step.doc_id - w.stepper.doc_id,
                                        step.filepos - w.stepper.filepos>>),
                  !.stepper = step]

WritePosting(w, p) ==
    LET same == p[1] = w.last
        v == Write_Posting(IF same THEN w ELSE StartTerm(w, p[1]), p[2])
    IN  IF same /\ v.tinfo.doc_freq % SkipInterval = 0
        THEN WriteSkip(v, p[2]) ELSE v

S_write_terms_and_postings(raw) ==
    LET upto[k \in 0..Len(raw)] ==
            IF k = 0 THEN Primed(raw[1][1])
            ELSE WritePosting(upto[k - 1], raw[k])
        w == StartTerm(upto[Len(raw)], -1)
    IN  [posts |-> w.posts, skips |-> w.skips, infos |-> w.infos]
=============================================================================
