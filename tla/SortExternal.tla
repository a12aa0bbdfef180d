----------------------------- MODULE SortExternal ------------------------------
(***************************************************************************)
(* Lucy::Util::SortExternal (Util/SortExternal.c) with the memory          *)
(* thresholds of BlobSortEx: items are buffered, sorted buffers become     *)
(* runs, and the runs are merged a buffer at a time.  Items are numbers,   *)
(* which take as much memory as they say.                                  *)
(* After a Fetch that returned NULL, Shrink has no defined outcome, and    *)
(* nothing is said of what follows.                                        *)
(***************************************************************************)
EXTENDS LucyUtil

CONSTANTS Items,
          MaxFed,     \* bound on the items that are fed
          MemThresh,  \* what the main buffer may take
          RunThresh,  \* what the buffer of a run may take, from Flip on
          Counts      \* how many counts there are: 2^32

VARIABLES buffer,        \* the items of the main buffer, up to buf_max
          buf_tick,      \* how many of them are used up
          mem_consumed,
          runs,          \* what each has in its file and in its buffer
          flipped,
          out,           \* what the last call returned
          fed            \* (bound) how many items

vars == <<buffer, buf_tick, mem_consumed, runs, flipped, out, fed>>

\* Unsigned: what would be negative is huge.
Buffer_Count == (Len(buffer) - buf_tick) % Counts

\* A run, written to a file and not yet read.
NewRun(seq) == [external |-> seq, external_tick |-> 0,
                buf |-> <<>>, buf_tick |-> 0, mem |-> 0]

Init == /\ buffer = <<>> /\ buf_tick = 0 /\ mem_consumed = 0 /\ runs = <<>>
        /\ flipped = FALSE /\ out = <<"none">> /\ fed = 0

-----------------------------------------------------------------------------
(* Filling.                                                                *)

Sorted(seq) == SortSeq(seq, <)

\* Flush makes a run of a buffer that is not empty.
FlushOf(buf) ==
    /\ runs' = IF buf = <<>> THEN runs ELSE Append(runs, NewRun(Sorted(buf)))
    /\ buffer' = <<>> /\ buf_tick' = 0
    /\ mem_consumed' = IF buf = <<>> THEN mem_consumed ELSE 0

Feed == \E item \in Items :
    /\ ~flipped /\ fed < MaxFed /\ fed' = fed + 1
    /\ out' = <<"fed">> /\ UNCHANGED flipped
    /\ IF mem_consumed + item >= MemThresh
       THEN FlushOf(Append(buffer, item))
       ELSE /\ buffer' = Append(buffer, item)
            /\ mem_consumed' = mem_consumed + item
            /\ UNCHANGED <<buf_tick, runs>>

Flush == /\ ~flipped /\ FlushOf(buffer)
         /\ out' = <<"none">> /\ UNCHANGED <<flipped, fed>>

Flip == /\ ~flipped /\ flipped' = TRUE /\ FlushOf(buffer)
        /\ out' = <<"none">> /\ UNCHANGED fed

-----------------------------------------------------------------------------
(* Merging.                                                                *)

\* How many items Refill reads: until they take the memory that is allowed.
\* The memory is counted anew only after that.
Refill(run) ==
    LET rest == Left(run.external, run.external_tick)
        mem(n) == run.mem + FoldLeft(+, 0, SubSeq(rest, 1, n))
        n == CHOOSE n \in 0..Len(rest) :
                 /\ mem(n) >= RunThresh \/ n = Len(rest)
                 /\ \A k \in 0..(n - 1) : mem(k) < RunThresh
    IN  [run EXCEPT !.buf = SubSeq(rest, 1, n), !.buf_tick = 0,
                    !.external_tick = @ + n,
                    !.mem = IF mem(n) >= RunThresh THEN 0 ELSE mem(n)]

\* Runs with an empty buffer are refilled, and go when there is nothing left.
Filled(rs) ==
    LET refilled == [i \in DOMAIN rs |-> IF Count(rs[i]) > 0 THEN rs[i]
                                         ELSE Refill(rs[i])]
    IN  SelectSeq(refilled, LAMBDA run : Count(run) > 0)

\* The buffer and the runs after S_refill_buffer.
RefilledBuffer == S_absorb_slices(Filled(runs))

\* SI_peek, after which used more items of the buffer are used up.
Take(used) ==
    LET new == IF buf_tick >= Len(buffer) THEN RefilledBuffer
               ELSE [buffer |-> buffer, runs |-> runs]
        tick == IF buf_tick >= Len(buffer) THEN 0 ELSE buf_tick
    IN  /\ buffer' = new.buffer /\ runs' = new.runs
        /\ buf_tick' = tick + used
        /\ mem_consumed' = IF buf_tick >= Len(buffer) THEN 0 ELSE mem_consumed
        /\ out' = IF new.buffer = <<>> THEN <<"NULL">>
                  ELSE <<"item", new.buffer[tick + 1]>>

Peek == flipped /\ Take(0) /\ UNCHANGED <<flipped, fed>>

\* Also one that is not there.
Fetch == flipped /\ Take(1) /\ UNCHANGED <<flipped, fed>>

\* What is used up goes from the buffers.
ShrunkRun(run) == [run EXCEPT !.buf = Left(@, run.buf_tick), !.buf_tick = 0]

Shrink == /\ Buffer_Count <= Len(buffer)
          /\ buffer' = Left(buffer, buf_tick) /\ buf_tick' = 0
          /\ runs' = [i \in DOMAIN runs |-> ShrunkRun(runs[i])]
          /\ out' = <<"none">> /\ UNCHANGED <<mem_consumed, flipped, fed>>

\* When buf_tick is past the end the count is huge, and so is the memory that
\* is moved from the buffer's end on: whatever is there is overwritten.
ShrinkWild == /\ Buffer_Count > Len(buffer)
              /\ out' = <<"undefined">>
              /\ UNCHANGED <<buffer, buf_tick, mem_consumed, runs, flipped,
                             fed>>

\* No call has had an undefined outcome.
Defined == out # <<"undefined">>

Next == /\ Defined
        /\ Feed \/ Flush \/ Flip \/ Peek \/ Fetch \/ Shrink \/ ShrinkWild

Spec == Init /\ [][Next]_vars

-----------------------------------------------------------------------------

InBuffer(i) == Cardinality({k \in (buf_tick + 1)..Len(buffer) : buffer[k] = i})

InRun(run, i) ==
    Cardinality({k \in (run.buf_tick + 1)..Len(run.buf) : run.buf[k] = i})
    + Cardinality({k \in (run.external_tick + 1)..Len(run.external) :
                      run.external[k] = i})

\* However the items come, and wherever the thresholds cut them into runs and
\* the runs into buffers, they are fetched in sort order, each as often as it
\* was fed, and NULL is returned only when there are no more: as long as every
\* call has a defined outcome.
Bag == INSTANCE SortedBag
    WITH bag <- [i \in Items |-> InBuffer(i)
                     + FoldLeft(LAMBDA n, run : n + InRun(run, i), 0, runs)]

ImplementsBag == Bag!Init /\ [][Defined' => Bag!Step]_vars

\* What is in the main buffer after Flip is not above anything that is not: the
\* endpost has held back what a run's next buffer could still precede.
NothingOvertaken == flipped => \A k \in (buf_tick + 1)..Len(buffer) :
    \A r \in DOMAIN runs : \A i \in Items :
        InRun(runs[r], i) > 0 => buffer[k] <= i

\* "Return the number of items presently in the buffer" (SortExternal.cfh:121).
CountTrue == Buffer_Count = Len(Left(buffer, buf_tick))

=============================================================================
