----------------------------- MODULE SortFields -----------------------------
(***************************************************************************)
(* The SortFieldWriter of a sortable field (Index/SortFieldWriter.c) under *)
(* its SortWriter (Index/SortWriter.c): values are buffered, flushed as    *)
(* sort caches in temporary files, merged with the sort caches of other    *)
(* segments and written as the sort cache of the segment.                  *)
(***************************************************************************)
EXTENDS LucyUtil, FiniteSetsExt

-----------------------------------------------------------------------------
(* The sort cache of a field: how it is written from sorted elements, how it *)
(* is read (Index/SortCache.c) and how a RangeQuery bounds the ordinals of a *)
(* range (Search/RangeQuery.c).                                            *)
CONSTANTS NumValues,  \* the values are 1..NumValues, in sort order
          DocMax      \* bound on the documents of a segment

Values == 1..NumValues

\* NULL, which null_back_compare_values sorts last.
NoValue == NumValues + 1

\* Elements are numbers, which compare as SortFieldWriter_Compare does.
Elem(value, doc_id) == value * (DocMax + 1) + doc_id
ValueOf(elem) == elem \div (DocMax + 1)
DocOf(elem) == elem % (DocMax + 1)

\* The elements of documents with the values vals, sorted.
Elems(vals) ==
    SortSeq(SelectSeq([d \in DOMAIN vals |-> Elem(vals[d], d)],
                      LAMBDA e : ValueOf(e) # NoValue), <)

-----------------------------------------------------------------------------
(* Writing.                                                                *)

S_calc_width(cardinality) ==
    CASE cardinality <= 2 -> 1 [] cardinality \in 3..4 -> 2
      [] cardinality \in 5..15 -> 4 [] cardinality \in 16..255 -> 8
      [] OTHER -> 16

\* Equal values share an ordinal; the ordinals are one more than the first of
\* the documents, 0, which is no document.  NULL gets the last one, when the
\* number of values added does not show that there is none.
S_write_files(elems, count, doc_max) ==
    LET vals == SetToSortSeq({ValueOf(elems[i]) : i \in DOMAIN elems}, <)
        has_nulls == count # doc_max
        null_ord == IF has_nulls THEN Len(vals) ELSE -1
        cardinality == Len(vals) + (IF has_nulls THEN 1 ELSE 0)
        written(doc) == {ValueOf(elems[i]) :
                            i \in {j \in DOMAIN elems : DocOf(elems[j]) = doc}}
        ord(doc) == IF doc = 0 THEN 0
                    ELSE IF written(doc) = {} THEN null_ord
                    ELSE Cardinality({i \in DOMAIN vals :
                                         \A v \in written(doc) : vals[i] < v})
    IN  [ords |-> [doc \in 0..doc_max |->
                      ord(doc) % (2 ^ S_calc_width(cardinality))],
         vals |-> vals, null_ord |-> null_ord, cardinality |-> cardinality]

-----------------------------------------------------------------------------
(* Reading.                                                                *)

Value(cache, ord) == IF ord = cache.null_ord THEN NoValue
                     ELSE cache.vals[ord + 1]

\* The ordinal of a value, or of the one before it, or -1.
Find(cache, term) ==
    LET search[lo \in 0..cache.cardinality, hi \in -1..cache.cardinality] ==
            LET mid == lo + ((hi - lo) \div 2)
                val == Value(cache, mid)
            IN  IF hi < lo THEN hi
                ELSE IF term < val THEN search[lo, mid - 1]
                ELSE IF term > val THEN search[mid + 1, hi]
                ELSE mid
    IN  search[0, cache.cardinality - 1]

\* A range without a term on one side has NoValue there.
S_find_lower_bound(cache, lower, include) ==
    LET low_ord == Find(cache, lower)
    IN  IF lower = NoValue \/ low_ord < 0 THEN 0
        ELSE IF Value(cache, low_ord) = lower /\ include THEN low_ord
        ELSE low_ord + 1

\* INT32_MAX is higher than any ordinal.
S_find_upper_bound(cache, upper, include) ==
    LET hi_ord == Find(cache, upper)
    IN  IF upper = NoValue THEN cache.cardinality
        ELSE IF hi_ord >= 0 /\ Value(cache, hi_ord) = upper /\ ~include
             THEN hi_ord - 1 ELSE hi_ord

\* The documents of which a RangeMatcher finds the ordinal in bounds.
Matched(cache, lower, upper, include_lower, include_upper) ==
    LET lo == S_find_lower_bound(cache, lower, include_lower)
        hi == S_find_upper_bound(cache, upper, include_upper)
    IN  {doc \in DOMAIN cache.ords \ {0} : cache.ords[doc] \in lo..hi}

-----------------------------------------------------------------------------

CONSTANTS SegMax,     \* bound on the documents of a segment added
          MaxSegs,    \* bound on the segments added
          RunThresh   \* how many elements the buffer of a run may take

VARIABLES buffer,
          count,            \* how many values were added here
          runs,
          flush_at_finish,  \* of the SortWriter
          file,             \* what Finish has written
          doc_vals,         \* (history) the value of each document
          segs              \* (bound) how many segments have been added

vars == <<buffer, count, runs, flush_at_finish, file, doc_vals, segs>>

Open == <<"open">>
Thrown == <<"thrown">>
NoFile == <<"none">>

Sort_Buffer(elems) == SortSeq(elems, <)

\* The documents by ordinal (S_lazy_init_sorted_ids), 0 the first of them.
SortedIds(cache) ==
    LET K == DocMax + 1
        keys == SetToSortSeq({cache.ords[d] * K + d : d \in DOMAIN cache.ords},
                             <)
    IN  [i \in DOMAIN keys |-> keys[i] % K]

\* A run over a sort cache.  Without a doc map documents keep their numbers.
NewRun(cache, doc_map) ==
    [cache |-> cache, sorted_ids |-> SortedIds(cache), doc_map |-> doc_map,
     run_tick |-> 1, buf |-> <<>>, buf_tick |-> 0]

Init == /\ buffer = <<>> /\ count = 0 /\ runs = <<>> /\ file = Open
        /\ flush_at_finish = FALSE /\ doc_vals = <<>> /\ segs = 0

-----------------------------------------------------------------------------
(* Filling.                                                                *)

\* The runs after Flush; the run that writes the files has counted nothing.
Flushed(elems, doc_max) ==
    IF elems = <<>> THEN runs
    ELSE Append(runs,
                NewRun(S_write_files(Sort_Buffer(elems), 0, doc_max), <<>>))

\* A document, with a value or not; the memory that all the fields take decides
\* whether they are flushed.
Add_Inverted_Doc == \E value \in Values \cup {NoValue}, flush \in BOOLEAN :
    LET doc_id == Len(doc_vals) + 1
        fed == IF value = NoValue THEN buffer
               ELSE Append(buffer, Elem(value, doc_id))
    IN  /\ file = Open /\ doc_id <= DocMax
        /\ doc_vals' = Append(doc_vals, value)
        /\ count' = count + (IF value = NoValue THEN 0 ELSE 1)
        /\ runs' = IF flush THEN Flushed(fed, doc_id) ELSE runs
        /\ buffer' = IF flush THEN <<>> ELSE fed
        /\ flush_at_finish' = (flush_at_finish \/ flush)
        /\ UNCHANGED <<file, segs>>

\* Where the live documents of a segment go (Generate_Doc_Map).
DocMap(live, offset, doc_max) ==
    [d \in 1..doc_max |-> IF d \in live
                          THEN offset + Cardinality({e \in live : e <= d})
                          ELSE 0]

\* A segment has no cache of the field when no document has a value, and a NULL
\* ordinal that no document has when it was merged itself.
Add_Segment ==
    \E doc_max \in 1..SegMax : \E live \in SUBSET (1..doc_max),
       vals \in [1..doc_max -> Values \cup {NoValue}], merged \in BOOLEAN :
        LET base == Len(doc_vals)
            old == SetToSortSeq(live, <)
            elems == Elems(vals)
            cache == S_write_files(elems, IF merged THEN 0 ELSE Len(elems),
                                   doc_max)
        IN  /\ file = Open /\ base + Cardinality(live) <= DocMax
            /\ segs < MaxSegs /\ segs' = segs + 1
            /\ doc_vals' = doc_vals \o [i \in DOMAIN old |-> vals[old[i]]]
            /\ IF elems = <<>> THEN UNCHANGED <<runs, flush_at_finish>>
               ELSE /\ runs' = Append(runs,
                                   NewRun(cache, DocMap(live, base, doc_max)))
                    /\ flush_at_finish' = TRUE
            /\ UNCHANGED <<buffer, count, file>>

-----------------------------------------------------------------------------
(* Finishing.                                                              *)

\* Documents that are deleted, or have no value, take no memory.
RefillRound(run, raw_doc_id) ==
    LET ord == run.cache.ords[raw_doc_id]
        remapped == IF run.doc_map = <<>> THEN raw_doc_id
                    ELSE run.doc_map[raw_doc_id]
        skipped == ord = run.cache.null_ord \/ remapped = 0
    IN  IF Len(run.buf) >= RunThresh THEN run
        ELSE [run EXCEPT !.run_tick = @ + 1,
                         !.buf = IF skipped THEN @
                                 ELSE Append(@, Elem(Value(run.cache, ord),
                                                     remapped))]

Refill(run) ==
    FoldLeft(RefillRound, [run EXCEPT !.buf = <<>>, !.buf_tick = 0],
             Left(run.sorted_ids, run.run_tick))

\* Runs with an empty buffer are refilled, and go when there is nothing left.
Filled(rs) == SelectSeq([i \in DOMAIN rs |-> IF Count(rs[i]) > 0 THEN rs[i]
                                             ELSE Refill(rs[i])],
                        LAMBDA run : Count(run) > 0)

\* The elements as Fetch returns them, a buffer at a time.
Fetched(rs) ==
    LET Round(s) == LET r == S_absorb_slices(Filled(s.runs))
                    IN  [runs |-> r.runs, out |-> s.out \o r.buffer]
    IN  FoldLeft(LAMBDA s, i : Round(s), [runs |-> rs, out |-> <<>>],
                 [i \in 1..DocMax |-> i]).out

\* Flip throws when there are runs and elements in the buffer too.
Finish ==
    LET doc_max == Len(doc_vals)
        rs == IF flush_at_finish THEN Flushed(buffer, doc_max) ELSE runs
        rest == IF flush_at_finish THEN <<>> ELSE buffer
        elems == IF rs = <<>> THEN Sort_Buffer(rest) ELSE Fetched(rs)
    IN  /\ file = Open
        /\ file' = IF rs # <<>> /\ rest # <<>> THEN Thrown
                   ELSE IF elems = <<>> THEN NoFile
                   ELSE <<"cache", S_write_files(elems, count, doc_max)>>
        /\ buffer' = <<>> /\ runs' = <<>>
        /\ UNCHANGED <<count, flush_at_finish, doc_vals, segs>>

Next == Add_Inverted_Doc \/ Add_Segment \/ Finish

Spec == Init /\ [][Next]_vars

-----------------------------------------------------------------------------

Finished == file # Open

\* Every document of the segment has the ordinal of its value, and the ordinals
\* are in the order of the values, NULL last: added here or merged from another
\* segment under a new number, flushed or not, in as few bits as there are.
CacheTrue == Finished =>
    LET with == {d \in DOMAIN doc_vals : doc_vals[d] # NoValue}
        cache == file[2]
    IN  IF with = {} THEN file = NoFile
        ELSE /\ file # Thrown /\ file # NoFile
             /\ \A d \in DOMAIN doc_vals :
                    Value(cache, cache.ords[d]) = doc_vals[d]
             /\ \A d, e \in DOMAIN doc_vals :
                    (doc_vals[d] < doc_vals[e])
                        <=> (cache.ords[d] < cache.ords[e])

Bounds == Values \cup {NoValue}

InRange(v, lower, upper, include_lower, include_upper) ==
    /\ lower # NoValue => v > lower \/ (include_lower /\ v = lower)
    /\ upper # NoValue => v < upper \/ (include_upper /\ v = upper)

\* A range with an upper term has the documents whose value is in it, whichever
\* of its ends the segment has as values.
RangeTrue == (Finished /\ Len(file) = 2) =>
    \A lower \in Bounds, upper \in Values, il, iu \in BOOLEAN :
        Matched(file[2], lower, upper, il, iu)
            = {d \in DOMAIN doc_vals :
                  InRange(doc_vals[d], lower, upper, il, iu)}

\* "If not supplied, all values greater than `lower_term` will pass."
\* (RangeQuery.cfh:41) and "matches documents where the value for a particular
\* field falls within a given range" (RangeQuery.cfh:21).
OpenRangeTrue == (Finished /\ Len(file) = 2) =>
    \A lower \in Values, il \in BOOLEAN :
        Matched(file[2], lower, NoValue, il, TRUE)
            = {d \in DOMAIN doc_vals :
                  /\ doc_vals[d] # NoValue
                  /\ InRange(doc_vals[d], lower, NoValue, il, TRUE)}
=============================================================================
