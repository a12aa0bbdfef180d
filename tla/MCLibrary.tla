----------------------------- MODULE MCLibrary -----------------------------
(***************************************************************************)
(* What the index is built on, in one run.  The storage layer: Folders on  *)
(* disk, on a disk that others use too, and in RAM; InStreams over windows *)
(* of two kinds; an OutStream; the compound files of a segment under       *)
(* crashing sessions; the policy that says which segments are rewritten.   *)
(* The containers: hash tables that are filled or iterated over, bit       *)
(* vectors, the external sorter and the priority queue.  They share        *)
(* nothing here, so a behaviour exercises one of them, its part.  The      *)
(* variables and the property of the compound files are CompoundFile's.    *)
(***************************************************************************)
EXTENDS CompoundFile, Sequences

VARIABLES part,
          disk, cached, answer, calls,
          offset, len, buf, limit, window, out, first,
          outbuf, buf_start, file, state, absorb, align, written, thrown,
          segs, merge, overrun,
          capacity, entries, size, threshold, old, tick, storing, result,
          iter, seen, steady,
          bits, long,
          sorting, buf_tick, mem_consumed, runs, flipped, fetched, fed,
          key, max_size, heap, bumped

folderVars == <<disk, cached, answer, calls>>
inVars == <<offset, len, buf, limit, window, out, first>>
outVars == <<outbuf, buf_start, file, state, absorb, align, written, thrown>>
recycleVars == <<segs, merge, overrun>>
storageVars == <<folderVars, inVars, outVars, vars, recycleVars>>
hashVars == <<capacity, entries, size, threshold, old, tick, storing, result,
              iter, seen, steady>>
bitVars == <<bits, long>>
sortVars == <<sorting, buf_tick, mem_consumed, runs, flipped, fetched, fed>>
queueVars == <<key, max_size, heap, bumped>>
containerVars == <<hashVars, bitVars, sortVars, queueVars>>
allVars == <<part, storageVars, containerVars>>

\* A Folder of its own, one in a directory that other programs write to, and
\* one in memory.  Symlinks lead to the directory b.
Disk == INSTANCE FolderTree WITH
    out <- answer, Medium <- "FS", Names <- {"a", "b"}, MaxDepth <- 2,
    LinkTo <- <<"b">>, Renames <- {"file"}, Others <- {}, MaxCalls <- 5
Shared == INSTANCE FolderTree WITH
    out <- answer, Medium <- "FS", Names <- {"a", "b"}, MaxDepth <- 2,
    LinkTo <- <<"b">>, Renames <- {"file"},
    Others <- {"make", "link", "remove"}, MaxCalls <- 4
Ram == INSTANCE FolderTree WITH
    out <- answer, Medium <- "RAM", Names <- {"a", "b"}, MaxDepth <- 2,
    LinkTo <- <<"b">>, Renames <- {"file", "dir"}, Others <- {},
    MaxCalls <- 5

\* Windows that begin anywhere, and on pages of two bytes.
Stream == INSTANCE InStreams WITH
    FileLen <- 6, IO_STREAM_BUF_SIZE <- 3, Page <- 1, Sizes <- 0..7,
    ClonesOf <- {"whole"}
Paged == INSTANCE InStreams WITH
    FileLen <- 6, IO_STREAM_BUF_SIZE <- 3, Page <- 2, Sizes <- 0..7,
    ClonesOf <- {"whole"}

Writer == INSTANCE OutStreams WITH
    buf <- outbuf, failed <- thrown, IO_STREAM_BUF_SIZE <- 3, MaxBytes <- 9,
    Moduli <- {2, 4}, MaxThrows <- 1, WriteClosed <- FALSE

\* Sessions and mergers; and sessions alone, where S_fibonacci ends at 8.
Recycler == INSTANCE Recycle WITH
    failed <- overrun, FibLimit <- 46, Batches <- {0, 9, 21},
    Kills <- {1, 2}, Managers <- {"default"}, Merging <- TRUE, MaxSeg <- 6
Many == INSTANCE Recycle WITH
    failed <- overrun, FibLimit <- 8, Batches <- {1, 8, 21}, Kills <- {2},
    Managers <- {"default"}, Merging <- FALSE, MaxSeg <- 8

\* "a" and "b" have the same hash sum, and "e" the same slot as "d" until the
\* table grows.
MCHashSum == [k \in {"a", "b", "c", "d", "e"} |->
                  CASE k \in {"a", "b"} -> 3 [] k = "c" -> 7
                    [] k = "d" -> 0 [] k = "e" -> 8]

Table == INSTANCE HashTable WITH
    Keys <- {"a", "b", "c", "d", "e"}, Values <- {"v", "NULL"},
    Null <- "NULL", Empty <- "empty", Tombstone <- "tombstone",
    HashSum <- MCHashSum, InitialCapacity <- 4, MaxCapacity <- 8,
    Iterating <- FALSE

Iteration == INSTANCE HashTable WITH
    Keys <- {"a", "b", "c"}, Values <- {"v"},
    Null <- "NULL", Empty <- "empty", Tombstone <- "tombstone",
    HashSum <- MCHashSum, InitialCapacity <- 4, MaxCapacity <- 8,
    Iterating <- TRUE

\* Two vectors, of bytes of two bits; and one longer one.
Pair == INSTANCE BitVector WITH
    Vecs <- {"x", "y"}, Ticks <- 0..3, Bits <- 2, Ints <- 256, MaxBytes <- 3
Long == INSTANCE BitVector WITH
    bits <- long,
    Vecs <- {"x"}, Ticks <- 0..6, Bits <- 3, Ints <- 256, MaxBytes <- 3

Sorter == INSTANCE SortExternal WITH
    buffer <- sorting, out <- fetched,
    Items <- 1..3, MaxFed <- 5, MemThresh <- 4, RunThresh <- 3,
    Counts <- 65536

Queue == INSTANCE PriorityQueue WITH
    out <- bumped, Element <- 1..5, Keys <- 1..3, Sizes <- {0, 1, 4, 5}

-----------------------------------------------------------------------------

\* The variables of the parts that are not exercised are not used.
Unused == 0

InitHash ==
    CASE part = "table" -> Table!Init
      [] part = "iteration" -> Iteration!Init
      [] OTHER -> /\ capacity = Unused /\ entries = Unused /\ size = Unused
                  /\ threshold = Unused /\ old = Unused /\ tick = Unused
                  /\ storing = Unused /\ result = Unused /\ iter = Unused
                  /\ seen = Unused /\ steady = Unused

InitBits == /\ IF part = "pair" THEN Pair!Init ELSE bits = Unused
            /\ IF part = "long" THEN Long!Init ELSE long = Unused

InitQueue ==
    IF part = "queue" THEN Queue!Init
    ELSE /\ key = Unused /\ max_size = Unused /\ heap = Unused
         /\ bumped = Unused

MCInit ==
    /\ part \in {"disk", "shared", "ram", "stream", "paged", "writer",
                 "compound", "recycler", "many", "table", "iteration", "pair",
                 "long", "sorter", "queue"}
    /\ Disk!Init /\ Stream!Init /\ Writer!Init /\ Init
    /\ Recycler!Init /\ Sorter!Init
    /\ InitHash /\ InitBits /\ InitQueue

FolderStep ==
    /\ \/ part = "disk" /\ Disk!Next
       \/ part = "shared" /\ Shared!Next
       \/ part = "ram" /\ Ram!Next
    /\ UNCHANGED <<part, inVars, outVars, vars, recycleVars,
                   containerVars>>

ReadStep ==
    /\ \/ part = "stream" /\ Stream!Next
       \/ part = "paged" /\ Paged!Next
    /\ UNCHANGED <<part, folderVars, outVars, vars, recycleVars,
                   containerVars>>

WriteStep ==
    /\ part = "writer" /\ Writer!Next
    /\ UNCHANGED <<part, folderVars, inVars, vars, recycleVars,
                   containerVars>>

CompoundStep ==
    /\ part = "compound" /\ Next
    /\ UNCHANGED <<part, folderVars, inVars, outVars, recycleVars,
                   containerVars>>

RecycleStep ==
    /\ \/ part = "recycler" /\ Recycler!Next
       \/ part = "many" /\ Many!Next
    /\ UNCHANGED <<part, folderVars, inVars, outVars, vars,
                   containerVars>>

HashStep ==
    /\ \/ part = "table" /\ Table!Next
       \/ part = "iteration" /\ Iteration!Next
    /\ UNCHANGED <<part, storageVars, bitVars, sortVars, queueVars>>

BitsStep ==
    /\ \/ part = "pair" /\ Pair!Next /\ UNCHANGED long
       \/ part = "long" /\ Long!Next /\ UNCHANGED bits
    /\ UNCHANGED <<part, storageVars, hashVars, sortVars, queueVars>>

SorterStep ==
    /\ part = "sorter" /\ Sorter!Next
    /\ UNCHANGED <<part, storageVars, hashVars, bitVars, queueVars>>

QueueStep ==
    /\ part = "queue" /\ Queue!Next
    /\ UNCHANGED <<part, storageVars, hashVars, bitVars, sortVars>>

MCNext == \/ FolderStep \/ ReadStep \/ WriteStep \/ CompoundStep \/ RecycleStep
          \/ HashStep \/ BitsStep \/ SorterStep \/ QueueStep

MCSpec == MCInit /\ [][MCNext]_allVars

-----------------------------------------------------------------------------
(* The properties of the parts, each explained in its module.              *)

\* Delete_Tree clears a directory of files, and Rename loses nothing, on disk
\* and in RAM; and what a Folder remembers is there.
FoldersKeepFiles ==
    /\ Disk!FlatTreesGo
    /\ [][(part \in {"disk", "ram"}) => Disk!Kept]_allVars
    /\ [](part = "disk" => Disk!CacheTrue)

\* An InStream reads the bytes of its part of the file, from its position on,
\* through whatever windows; and its buffer stays within its window.
StreamsReadTheirPart ==
    /\ Stream!Reader!Init
    /\ [][(part \in {"stream", "paged"}) => Stream!Reader!Step]_allVars
    /\ [](/\ part = "stream" => Stream!BufferInWindow
         /\ part = "paged" => Paged!BufferInWindow)

\* An OutStream writes what it was given, in order, once, and all of it.
WritesInOrder == part = "writer" => /\ Writer!BufferFits
                                    /\ Writer!InOrder
                                    /\ Writer!NothingLost

\* Sessions leave few segments and few deleted documents behind, background
\* merges leave less than there was, or as much where they carry deletions
\* over, and the policy does not throw.
RecyclingPaysOff ==
    /\ [][part = "recycler" => /\ Recycler!SegmentsStayFew
                               /\ Recycler!LittleWaste
                               /\ Recycler!MergesPayOff]_allVars
    /\ [](part = "many" => Many!NeverTooMany)

\* A Hash keeps the last value of every key, whatever collides and whatever
\* tombstones and rebuilds came between; every search ends at an empty slot;
\* and a HashIterator returns the keys that stay in the table once each.
HashesAreMaps ==
    /\ part = "table" => Table!Map!Init
    /\ [][part = "table" => Table!Map!Step]_allVars
    /\ [](/\ part = "table" => Table!SearchesEnd /\ Table!NoRebuildWithin
         /\ part = "iteration" => Iteration!IterationComplete)

\* Operations on BitVectors of any two capacities are those on sets, and so are
\* the answers.
BitVectorsAreSets ==
    /\ part = "pair" => Pair!Sets!Init
    /\ part = "long" => Long!Sets!Init
    /\ [][/\ part = "pair" => Pair!Sets!Step
          /\ part = "long" => Long!Sets!Step]_allVars
    /\ [](part = "long" => Long!AnswersTrue /\ Long!NextHitTrue)

\* What is fed to a SortExternal is fetched in sort order, and all of it, by
\* any sequence of calls but a Shrink after a Fetch that returned NULL, which
\* has no defined outcome; and the buffer never runs ahead of a run.
SorterIsABag ==
    /\ Sorter!Bag!Init
    /\ [][part = "sorter" /\ Sorter!Defined' => Sorter!Bag!Step]_allVars
    /\ [](part = "sorter" => Sorter!NothingOvertaken)

\* A PriorityQueue of any size keeps the best of what it was offered, and gives
\* it back in order.
QueueKeepsTheBest ==
    /\ part = "queue" => Queue!Bounded!Init
    /\ [][part = "queue" => Queue!Bounded!Step]_allVars
    /\ [](part = "queue" => Queue!PopsInOrder)
=============================================================================
