# Apache Lucy in TLA+: an index folder, its files and its searches

This directory holds a TLA+ development about Apache Lucy 0.5.1, the search
engine library in `apache-lucy-0.5.1/`, which the programs `index.c` and
`search.c` at the root of the repository use through `Lucy::Simple`.  Lucy is
a library without a server: any number of processes share an index, which is a
directory, and coordinate by nothing but the files in it.  That protocol, who
may write, delete and rely on which file and when, is the core of the system
and the part that tests reach least.  It comes first here; around it are the
parts whose own logic is intricate: the class registry that threads share, the
storage layer, the containers, the formats of a segment, and what a search
goes through from the query string to the best hits.

Paths below are relative to `src/apache-lucy-0.5.1/core/Lucy/` unless they say
otherwise; `CF/` is `src/apache-clownfish-0.5.1/runtime/core/Clownfish/`.

## 1. The system

### Components, their state and operations

| Component | State | Operations |
|---|---|---|
| Exclusive locks, `Store/Lock.c` | `locks/<name>.lock`, a private link file per host and pid | Obtain (Request in a loop), Release, Clear_Stale, Is_Locked |
| Shared locks, `Store/SharedLock.c` | `locks/<name>-<n>.lock`, one per holder | the same, any number of holders |
| Indexer, `Index/Indexer.c` | write lock, merge lock, snapshot and reader in memory, its segment | init, Add_Doc, Add_Index, Delete_By_*, Prepare_Commit, Commit, Destroy |
| BackgroundMerger, `Index/BackgroundMerger.c` | both locks, read lock, `merge.json`, doc maps | init, Prepare_Commit, Commit, Destroy |
| FilePurger, `Index/FilePurger.c` | deletion lock, what is to be deleted | Purge (discover, zap a dead merge, sweep) |
| PolyReader, `Index/PolyReader.c` | deletion lock, read lock, offsets | open (a retry loop), Close, sub_tick |
| Snapshot, `Index/Snapshot.c`, `Util/IndexFileNames.c` | `snapshot_<gen>.json`: the segments of a generation | Read_File, Write_File, latest_snapshot |
| IndexManager, `Index/IndexManager.c` | `merge.json` | Highest_Seg_Num, Make_Snapshot_Filename, Recycle, Read/Write/Remove_Merge_Data |
| SegWriter, `Index/SegWriter.c` | a segment directory | Prep_Seg_Dir, Add_Doc, Add_Segment, Merge_Segment, Finish |
| Deletions, `Index/DeletionsWriter.c`, `DeletionsReader.c` | bit vectors, deletions files in later segments | Delete_By_*, Merge_Segment, Generate_Doc_Map, Finish, Read_Deletions |
| Compound files, `Store/CompoundFile*.c` | `cf.dat`, `cfmeta.json` | Consolidate; the reader's Find, Open and Local_Delete |
| Class registry, `CF/LockFreeRegistry.c` | hash buckets of linked entries, shared by threads | register, fetch |
| Folders, `Store/*Folder.c` | a tree of entries, the Folder objects cached for sub-folders | Find_Folder, MkDir, Delete, Delete_Tree, Rename, Exists, Walk |
| Streams, `Store/InStream.c`, `OutStream.c` | buffer, window, position | Refill, Read, Seek, Reopen, Clone; Write, Flush, Absorb, Align, Close |
| Hash tables, `CF/Hash.c`, `CF/HashIterator.c` | entries and tombstones | Store, Fetch, Delete, Clear, rebuild; Next |
| Bit vectors, `Object/BitVector.c` | an array of bytes that grows | Set, Clear, Next_Hit, And, Or, Flip_Block, ... |
| Priority queue, hit queue, `Util/PriorityQueue.c` | a bounded heap | Insert, Jostle, Pop, Pop_All |
| External sorting, `Util/SortExternal.c` | buffer, runs | Feed, Flush, Flip, Refill, Fetch |
| Lexicons, `Index/*Lexicon.c`, `LexIndex.c`, `LexiconWriter.c` | term files with an index, a queue of segments | Next, Seek, Reset, Get_Term |
| Postings, `Index/PostingPool.c`, `SegPostingList.c` | buffers and runs; skip data | Add_Inversion, Add_Segment, Flush, Flip, Finish; Next, Advance, Seek |
| Sort caches, `Index/SortFieldWriter.c`, `SortCache.c`, `Search/RangeQuery.c` | values, ordinals | Add, Flush, Refill, Finish; Find, Ordinal, bounds |
| Matchers, `Search/*Matcher.c`, `Matcher.c` | position in a posting list | Next, Advance, combinations, Collect |
| Top hits, `Search/Collector/SortCollector.c`, `HitQueue.c`, `PolySearcher.c` | threshold, queue | Collect, Top_Docs |
| Query parser, `Search/QueryParser.c` | none between calls | Tree, Expand, Prune |
| Schema, field types, documents, analysis, highlighter | read-mostly objects | sequential |
| `Lucy::Simple`, `index.c`, `search.c` | one Indexer or IndexSearcher at a time | add documents, finish, search |

The rest of the Clownfish object system, the language bindings, the build tools
and the vendored libraries (Snowball, utf8proc, CommonMark, lemon) are other
projects' code or generated, and are outside this one.

### How they interact

* All locks are files; a lock is taken by a hard link, which fails when the
  file exists.  A lock of a dead process of the same host is stale, and is
  cleared by whoever calls Clear_Stale.
* An *Indexer* session holds the *write lock* from `Indexer_init` to the end
  of `Commit`.  It reads the latest snapshot, purges, chooses a segment number
  (past the cutoff of a merger at work), writes the segment, may merge old
  ones into it if it gets the *merge lock* (or those past the cutoff, if not),
  and publishes by renaming a temporary snapshot file.
* A *BackgroundMerger* holds the merge lock throughout and the write lock in
  two short phases.  In the first it locks the latest snapshot for reading and
  writes its segment number, the cutoff, to `merge.json`; then it merges while
  Indexers go on; in the second it carries over what they have added and
  deleted meanwhile, and publishes.
* A *purge* holds the *deletion lock*.  Every snapshot file but the purger's
  own that has no *read lock* is unused; what only unused ones list is deleted.
* A *reader* with an IndexManager opens under the deletion lock and keeps a
  read lock.  A reader without one opens the files while they may be deleted
  under it, and starts again when something is missing.
* All *threads* of a process look up and add classes in one registry, without
  a lock.
* An *Indexer* drives its writers: documents are inverted into PostingPools and
  sort fields, which spill to temporary files when memory runs out and merge
  what has spilled with what they take over from older segments; at the end
  the files of the segment are collapsed into one compound file.
* A *search* parses its query string into a tree of queries, compiles that for
  each segment into a tree of Matchers over posting lists, and collects the
  best hits of all segments and all searchers.

### What is hard

Two processes clearing the same stale lock; a segment number that two sessions
choose; a purge against readers and mergers; directory scans that are not
atomic; a crash in any step of a commit, a merge or a purge; deletions made
while their documents are being copied; threads that swap in entries between
another's look and its swap; a Folder object that remembers what others have
deleted; buffers, windows, heaps and hash tables at their limits; differences
and skips that add up only if nobody loses count; iterators that are moved
from anywhere; hits turned away unseen.  `hazards` in `PROJECT.json` lists each
at its line with the property that watches it.

### What makes each part correct

* Locks: at most one holder; the file names it; waiting ends; stale files go.
* Purges: what the latest snapshot or a locked one lists stays; what is not
  needed is never lost sight of; dead merges are cleaned up.
* Sessions: a published segment is never written again; generations go up;
  nothing unfinished is published; a session does not fail because of another.
* Readers: a retry never ends in an error that is only a race; what is opened
  is not older than the moment of opening.
* Contents: an index behaves like a set of documents with one drafting session
  at a time, and merges are invisible.
* Registry: one entry per key, calls take effect at one moment, and return.
* Storage: bytes come back as they were written; deleting and renaming lose
  nothing else; compound files stand for the files they swallowed.
* Containers: each behaves like the set, map, bag or bounded queue it is.
* Segments: what is read is what was written, flushed, merged or not.
* Searches: the tree means the string, the matcher visits what the query
  matches, the best hits are found.

## 2. Modules

| Module | What it is |
|---|---|
| `Mutex` | the abstract exclusive lock |
| `LockFile` | `Lock.c`, step by step; implements `Mutex`; with the proofs |
| `SharedLock`, `SharedLockProofs` | `SharedLock.c`, step by step |
| `IndexFiles`, `IndexFilesProofs` | folder, locks, Indexers, mergers, purges, readers, with the inductive invariant |
| `DocStore` | what an index is to its users |
| `IndexContent`, `IndexContentProofs` | documents, deletions, merges, with the inductive invariant; implements `DocStore` |
| `Recycle` | which segments sessions and merges rewrite, in the long run |
| `Registry` | a map that calls read and extend at a moment of their own |
| `LockFreeRegistry`, `LockFreeRegistryProofs` | `LockFreeRegistry.c`, step by step; implements `Registry` |
| `CompoundFile`, `CompoundFileProofs` | a segment's directory under crashing sessions, with the inductive invariant |
| `FolderTree` | Folders on disk, with and without others, and in RAM |
| `ByteReader`, `InStreams` | a view of a file; the buffer and windows that implement it |
| `OutStreams`, `StreamsProofs` | a buffer before a file whose writes may fail; proofs about both kinds of stream, and about the lexicons and the posting lists of segments |
| `KeyValues`, `HashTable` | a map; the open addressing that implements it, and its iterator |
| `BitSets`, `BitVector` | sets of numbers; the bytes that implement them |
| `SortedBag`, `SortExternal` | a bag emptied in order; the runs that implement it |
| `TopSet`, `PriorityQueue` | the best of what was offered; the heap that implements it |
| `ContainerProofs` | proofs about hash tables, bit vectors, priority queues and the matchers, one of which keeps its children in such a queue's heap; with their inductive invariants |
| `LucyUtil` | loops, the heap and the merging of runs, which others use too |
| `Iterators` | what Matchers, PostingLists and Lexicons promise |
| `SegmentFiles` | lexicon files with their index, posting files with their skips |
| `SegLexicon`, `PolyLexicon` | the lexicon of a segment and of several |
| `PostingList`, `PostingPool` | the reader and the writer of posting files |
| `SortFields` | sort caches, written, merged, read, and the bounds of a range |
| `MatcherOps`, `Matchers`, `PhraseMatcher` | the Matchers' methods; under any legal calls; phrases and proximity |
| `TopDocs` | hit queues, collectors with thresholds, merging of searchers; implements `TopSet` |
| `QueryParser` | from tokens to a tree of queries, Expand and Prune |
| `MCCalls`, `MCLibrary`, `MCSegments`, `MCSearching` | suites: several modules in one run |

`IndexFiles` takes locks in one step: that is what `Mutex` promises and
`LockFile` implements.  `IndexContent` in turn lets sessions be one at a time
and commits be atomic: that is what `IndexFiles` shows.  `IndexFiles` leaves
the choices of the recycle policy open, and `Recycle` makes them.  `Matchers`
lets the children of a matcher be any iterators that keep the promise of
`Iterators`, which `PostingList` implements, so that what holds of one level
holds of a tree.

A *suite* has the variables of several modules and one more, `part`, which
says which of them a behaviour exercises.  The parts do not interact, the
variables of the others keep still, and each property of the suite is the
conjunction of what the modules state of their parts (`part = "table" => ...`).

### LockFile

`lockFile` is `locks/<name>.lock` with the pid in it, `linkFiles` the private
files of `LFLock_Request`, `seen` what `LFLock_Maybe_Delete_File` has read and
not yet acted upon, `timeLeft` that of `Lock_Obtain`.  A process is a pid on a
host.  Every call on the folder is a step: Exists, Slurp, Delete in
Clear_Stale (`ReadLockFile`, `JudgeOwner`, `DeleteStale`); Exists, Open_Out,
Hard_Link, Delete in Request (`RequestExists`, `RequestOpen`, `RequestLink` or
`RequestWriteFails`, `RequestUnlink` or `RequestUnlinkFails`); Exists/Slurp and
Delete in Release.  A deletion that fails, because the file is gone or, of the
private file, for any reason, throws, and the process ends, as
a C program with an uncaught Clownfish error does.  Not modelled: lock files
with unreadable contents (they are never deleted), the creation of `locks/`.
`Clearers`, a constant, are the processes that clear before they obtain: all
callers but `S_maybe_merge` of the Indexer.  `Interval` and `Timeout` are those of
the constructor; only their proportion matters.

`CarefulSpec` is `LockFile` without one accident: the file that `DeleteStale`
removes is the one that was read, or gone.  The run `lock_stolen` shows what
happens otherwise; everything else holds with any interleaving of the rest.

### IndexFiles

A snapshot file is the set of segments it lists; a segment directory exists
(`dirs`) and may be finished (`complete`: segmeta.json has been written, after
everything else).  `pc[p]` is where the process is in `Indexer_init` to
`Commit`, `BGMerger_init` to `Commit`, `FilePurger_Purge` or
`PolyReader_do_open`; the local variables of those functions that outlive a
step are `view`, `gen`, `seg`, `merging`, `toOpen`, `lastGen`.  One action is
one step on the shared folder, in the order of the code:

* Indexer: `IxBegin` - purge - `IxIsLocked` - `IxCutoff` - `IxPrep` -
  `IxMergeLock` - `IxFinish`/`IxNothing` - `IxPublish` - purge - `IxUnmerge` -
  `IxUnlock`, and `IxAbandon`.
* Merger: `MBegin` - `MLock` - `MRead` (`MEmpty`) - purge - `MOpen` -
  `MCutoff` - `MUnlock` - `MPrep`/`MSkip` - `MWrite` - `MRelock` -
  `MCarryNothing`/`MCarry`/`MCarryFails` - `MPublish` - `MUnmerge` -
  `MUnjson` - purge - `MDone`, and `MAbandon`.
* Purge: `PurgeStart` (discover), `SweepSegment`/`SweepSegmentFails` per
  segment, `SweepMergeJson`, `SweepSnapshot` per snapshot file, `PurgeEnd`;
  `PurgeSkip` without the lock.
* Reader: `RBegin` - `RScanBegin` - `RScanEnd` - `RRead` -
  `ROpenSegment` per segment - `ROpenDone` - `RUnlock` - `RClose`; a failure
  is `Reopen`.

`Exit` ends a process in any step (the processes in `MayCrash`) or after an
uncaught error (everyone).  Its stale write, deletion and read locks count as
free, since everyone who takes or looks at those clears stale ones first; the
stale merge lock stays visible (`Stale`), since an Indexer looks at it and asks
for it without clearing.

Abstractions: a segment directory is deleted in one step, although its files
go one by one (a reader needs all of them, and only `complete` decides whether
it can be opened); opening reads all segmeta files and then opens all segments,
here one pass; the temporary snapshot file is only in its session's memory,
since no scan returns it; the name of the new snapshot is computed when it is
published, the write lock being held since the code computed it; schema files
live and die with snapshot files; carrying over deletions is one step, under
the write lock.  The choices of `Recycle` are left open: any subset.  A
directory scan of a reader, with a manager or without, goes entry by entry
under no lock that keeps sessions from publishing: it returns what is there all
along and an arbitrary part of what comes or goes, as readdir does (`sure`,
`maybe`).  A reader with a manager has the deletion lock meanwhile, so that for
it files only come; for one without, they come and go.

### IndexContent

`docs[n]` is the sequence of documents in segment n, `dels[n][t]` the deletions
file for segment t inside segment n; the newest file for t counts.  The Indexer
session keeps bit vectors and the set of those that must be written
(`DeletionsWriter.c`), the merger its starting reader and its doc maps.  Doc ids,
offsets, `sub_tick` and doc maps are computed as in the code, with their
numbers, because that is where it could go wrong: `MCommitUpdated` takes new
deletions through the doc map into the merger's own snapshot by doc id, as
`S_merge_updated_deletions` does.  A document has a term, by which it can be
deleted, and a field.  `IxAbandon` stands for dropping the Indexer and for a
crash, `MGiveUp` for all ways in which a merge comes to nothing.  Fields are in
the caller's Schema when a document that has them is added.

`DocStore` has two sets of documents, the committed and the drafted ones.  The
refinement maps them to what a reader of the latest snapshot finds, and to what
the session would commit.  A merge, in a session or in the background, is a
stuttering step.

### SharedLock

An object takes the first number without a file (`RequestNew`) and then does
what an exclusive lock does with that file; `lock_path` is kept after a failure
as the code keeps it.  The scans of Clear_Stale and Is_Locked go entry by entry
and may or may not see what comes and goes meanwhile.  `ReleaseAll` lets callers
release after an Obtain that failed, `MayCrash` may die, `Pollers` call
Clear_Stale and Is_Locked.  `CarefulSpec` is, as with `LockFile`, the module
without the accident of a second deletion.

### LockFreeRegistry

A bucket is the sequence of its entries; a thread walks it a slot at a time,
and finds the slot empty, its key, another key or one of the same hash sum.  An
entry is allocated before the swap, and freed when another thread has
registered its key meanwhile.  The refinement to `Registry` says when a call
takes effect: at the swap that succeeds, at the read of an entry with the key,
or, for a fetch that finds nothing, at the read of the empty slot.

### Storage and containers

`CompoundFile` has every step of a session between Prep_Seg_Dir and the commit
at which a crash can come, the Folder's cached sub-folder included; `Keepers`
use one Folder object for several sessions.  `FolderTree` is the tree with what
an FSFolder remembers; `Others` is what other programs do to the directory,
`Renames` what is renamed.  `InStreams` computes with pointers (integers) as the
code does and is a refinement of `ByteReader` through windows that start on
pages of `Page` bytes.  `OutStreams` lets every write of the file handle fail
half way; bytes are told by their number.  `HashTable` rebuilds one entry at a
time, and its keys collide by `HashSum`; `Iterating` lets a HashIterator run
over a table that changes.  `BitVector` has vectors of different capacities,
`Bits` to a byte, and `Ints` as the range of an int32_t.  `SortExternal` feeds,
flips and fetches with the thresholds of BlobSortEx in units of memory; a Shrink
after a Fetch that returned NULL has no defined outcome (`ShrinkWild`), and
`SorterIsABag` claims nothing of what follows it.
`PriorityQueue` is the heap with 1-based slots.  `Recycle` is Choose_Sparse with
its Fibonacci limits, over segments that are a size and a deletion count.  A
merge whose segments lose documents meanwhile carries these deletions over in a
segment of its own, so that it may leave as many segments and deletions as it
found; `MergesPayOff` says that this is the only case in which it does.

### Segments

`SegmentFiles` writes the files of a lexicon from a set of terms, as differences
from the term before, and every `IndexInterval`-th term in full, and postings
with skip records every `SkipInterval`.  `SegLexicon` and `PolyLexicon` move in
the first, and are iterators over the terms; `PostingList` advances in the
second with and without the skips.  `PostingPool` and `SortFields` take documents and
old segments with their doc maps in any order, flush when the memory threshold
says so, and merge at the end; what comes out is compared with what the
documents say.

### Searches

`MatcherOps` has one operator per method and class.  A loop that ends when the
children agree repeats its round as often as it can be needed (`Repeat`): once
for each document or each child, and a round after the end changes nothing.
The proofs show that these are enough.  A matcher's children are records that say
which documents they visit and where they stand.  `Matchers` calls the matcher
in any way `Matcher.cfh` allows, `PhraseMatcher` those of phrases, whose
children have positions.  `TopDocs` collects the hits of the segments of each
searcher under the sort rules, with what it accepts unseen (`auto`) and the threshold (`bubble`)
as the code has them, and merges; scores are small integers.

`QueryParser` parses a sequence of token types typed one by one; a word is its
place in the string.  The tree is compared with a reading of the string that
knows nothing of the parser's passes: it gives each word and each group its
sign, its connective, its group and its field, and asks of a document (a set of
words) what they say.  `Expand` leaves out any subset of the words, as
analyzers with stop words do; `Prune` is what keeps a query from matching by
negation alone.

## 3. Checks

Every run ends within three minutes with two workers.

| Run | Parts and bounds | Shows |
|---|---|---|
| `lock_careful` | three processes, one on another host; crashes, reused pids, failing writes, timeouts of one retry | `MutualExclusion`, `HolderOwnsFile`, `ImplementsMutex` |
| `files_locked` | an Indexer, two mergers, a reader with a manager and torn scans; the Indexer and a merger may crash anywhere; 4 generations, 6 segments | `LatestIntact`, `LockedIntact`, `ReadersUpToDate`, `PublishedImmutable`, `LatestAdvances` |
| `files_peeked` | a crashing Indexer whose deletions may fail, a reader with a manager and one without, both with torn scans; 3 generations, 5 segments | `IndexInv` (the inductive invariant), `NothingLeaks`, `ReadersSucceed` |
| `content_store` | 3 documents of 2 terms, 6 segments, 4 commits | `NoDocTwice`, `DocMapsAgree`, `ImplementsDocStore` |
| `shared_careful` | two objects of a process that may crash, one of a process that clears and polls; 3 numbers, 2 tries | `OwnFile`, `SteadyHolderSeen` |
| `calls` | `registry`: 3 threads, 2 keys in one bucket; `lock`: 3 processes, one of which never crashes and one never clears | `KeysUnique`, `NothingLeaks`, `ImplementsRegistry`, `CallsReturn`; `ObtainEnds`, `StaleIsCleared` |
| `library` | fifteen parts, with the constants at the head of `MCLibrary`; the sorter until a Shrink without a defined outcome | `FoldersKeepFiles`, `StreamsReadTheirPart`, `WritesInOrder`, `CommitsSurvive`, `RecyclingPaysOff`, `HashesAreMaps`, `BitVectorsAreSets`, `SorterIsABag`, `QueueKeepsTheBest` |
| `segments` | five parts, constants in `MCSegments` | `LexiconsIterate`, `PostingsIterate`, `DifferencesAddUp`, `Inverted` |
| `searching` | nine parts, constants in `MCSearching` | `VisitsTheMatches`, `CallsChildrenRightly`, `CountsThePhrase`, `BestHits`, `QueriesMeanTheString` |

Three runs end in a counterexample to something that a comment or a document of
the repository says:

| Run | What happens |
|---|---|
| `lock_stolen` | A and B read the same stale lock file; A deletes it and obtains the lock; B deletes A's lock file and obtains the lock as well. |
| `files_cutoff_gone` | A crashed Indexer has left the directory of segment 2. Merger m reserves 2, finds nothing to merge and releases the merge lock; another session's purge takes that for a dead merge and removes `merge.json`; merger n begins and writes its own; m, going on, deletes n's `merge.json`. |
| `proximity_lost` | The first word is at 0 and 1, the second at 3, within 2: the second occurrence of the first word is skipped and the document missed. |

The other entries of `findings` in `PROJECT.json`, which quotes for each the line
that says otherwise, were met in the same way.  They have no run of their own;
the property that the code violates is stated in the module, and a
configuration with `SPECIFICATION Spec` and the constants below shows it.  What
is not mentioned is as in the run of the module.

| Module, property | Constants | What happens |
|---|---|---|
| `IndexFiles` `IndexersStayOut` | an Indexer, a merger, no crashes, `MaxGen = 3`, `MaxSeg = 5` | A merger that found the index empty has released the write lock and not yet the merge lock; the Indexer finds no `merge.json` and throws. |
| `IndexFiles` `DeadMergesGo` | the same, the merger may crash | It dies after writing `merge.json` and before making its directory; purges leave `merge.json` alone, and every later merger fails. |
| `IndexFiles` `PeekersUpToDate` | an Indexer, a reader without a manager, no crashes, `MaxGen = 3`, `MaxSeg = 5` | The scan misses generation n+1, published meanwhile, and comes to n after the purge: the index seems empty. |
| `IndexFiles` `OnlyRealErrors` | the same | Generation 1 fails; the scan of the retry comes by 1 before it is deleted, misses 2, deleted, and 3, published meanwhile: the same generation fails again, and the reader throws. |
| `IndexContent` `FieldsKnown` | as in `content_store` | A merger commits with the schema it has started with; the field an Indexer has added meanwhile is gone from it. |
| `SharedLock` `OthersDoNotMatter`, `AnyHolderSeen` | `Spec`, `MayCrash = {}` | Obtain fails for another's number as long as the other holds it; the scan of Is_Locked misses one of two who take turns. |
| `SharedLock` `OwnFile` | `Spec`, `MayCrash = {}`, `ReleaseAll = TRUE` | Release after a failed Obtain deletes the file of another object of the process. |
| `Recycle` `UpdatesGoOn` | `FibLimit = 46`, `Batches = {10}`, `Kills = {}`, `Managers = {"light"}`, `Merging = FALSE`, `MaxSeg = 41` | From 41 segments on every session throws. |
| `CompoundFile` `ReadersSeeTheCommit`, `SessionsGetThrough` | `Keepers = {p1}` | A cached Folder of a segment directory that others have replaced. |
| `CompoundFile` `CommitPointHolds` | as in `library` | `cfmeta.json` is renamed before the bytes of `cf.dat` are written out. |
| `TopDocs` `TiesGoToTheFirst` | `Searchers` of one segment of 3 hits, `Values = {1}` | Before a threshold is set, a tie goes to the later hit. |
| `Matchers` `CallsChildrenRightly` | `Kinds = {"collect"}` | Matcher_Collect advances the deletions to where they are already. |
| `Matchers` `StaysExhausted` | `Kinds` and `Again` `{"bits", "series"}` | An exhausted BitVecMatcher starts again. |
| `Matchers` `VisitsTheMatches` | `Kinds = {"series"}` | A SeriesMatcher advanced to the last document of a segment skips it. |
| `HashTable` `NoNeedlessRebuild` | keys a to d, `Iterating = FALSE` | A table that holds one entry at a time is doubled again and again. |
| `InStreams` `CloneStaysInPlace` | `ClonesOf = {"whole", "part"}` | The clone of a virtual file reads other bytes. |
| `OutStreams` `NothingLost` | `WriteClosed = TRUE`, `MaxThrows = 0` | A closed stream accepts what fits into its buffer, and drops it. |
| `FolderTree` `TreesGo`, `RenameKeeps` | `Medium = "RAM"`, `MaxDepth = 3`; `Renames = {}` and `{"inside"}` | Delete_Tree leaves a tree in which a file comes before a directory; a directory renamed into itself is lost. |
| `FolderTree` `LinksNotFollowed`, `ExistsTells` | `Medium = "FS"`; `Others = {"link"}`, `MaxCalls = 8`, and `Renames = {"dir"}` | Delete_Tree goes through a symlink; a renamed directory still exists under its old name. |
| `SortExternal` `CountTrue` | as in `library` | After Fetch has returned NULL the count is -1 as an unsigned number. |
| `SortExternal` `Defined` | as in `library` | A Shrink after that moves as many pointers and reallocates the buffer for them. |
| `BitVector` `NextHitTrue` | one vector, `Ticks = 0..7`, `Bits = 4`, `Ints = 32`, `MaxBytes = 7` | A capacity that does not fit a signed number ends Next_Hit. |
| `SegLexicon` `NullWhenInvalid` | `Terms = 0..3`, `IndexInterval = 2` | Get_Term returns the empty string for no term. |
| `SortFields` `OpenRangeTrue` | `NumValues = 3`, `SegMax = 2`, `MaxSegs = 1` | A range without an upper term matches documents without a value. |
| `QueryParser` `DoubleNegationsGo` | `Tokens` without `"field"`, `"plus"` and `"or"`, `MaxTokens = 7` | What is pruned of `foo AND -(-bar)` matches nothing. |
| `QueryParser` `ConjunctionsRequire` | `Tokens = {"string", "not", "and"}`, `MaxTokens = 5` | `-a AND b c` requires c, for its conjunction counts as negated; `b AND -a c` does not. |

### Bounds

`MaxGen` and `MaxSeg` bound generations and segment numbers; `RoomForSession`
lets a session begin only when there are numbers left for all under way, so
that no session is stopped half way.  This is why `CHECK_DEADLOCK` is off: when
the numbers are used up the model stops and the system would not.  Four
generations let an Indexer commit before, during and after a merge, with
purges of the one before; six segments hold those and the extra segment for
carried deletions.  Three are enough for `files_peeked`: without its
condition on `overtaken`, `ReadersSucceed` fails there (`OnlyRealErrors`).
In `Recycle` a number stays reserved for the deletions that a merge under
way carries over, so that no bound cuts off the end of a merge; six
segments let a merge of two come out even.  `IndexContent` has three documents and four commits:
enough for a deletion, a merge that copies what was deleted meanwhile and
a second merge of the segment with the deletions file.  The lock runs bound
nothing but time left, which the code bounds.

The suites stop for the same reason, a bound on calls, bytes, items or tokens.
Their bounds are chosen so that every limit of the code is met: an InStream's
file is twice its buffer; an OutStream fills its buffer three times; a segment
directory sees three sessions, of which any may crash; tables of 4 slots grow
to 8 with five keys, two of which collide; vectors grow from one byte to
three; the sorter has enough items for three runs and refills; lexicons have
three index entries, posting lists three skips; pools and sort fields flush
between documents and merge an old segment with the new; a conjunction has
three children over four documents, one of which lies past the end of the
first segment; phrases have repeated words at all positions; at most two hits
are wanted of up to five, so that thresholds turn some away; query strings of
five tokens have nested groups, nonsense pairs of operators, and double
negations, and those of six a field before a group in a group.

### Fairness

Only `calls` assumes any: a thread inside register or fetch, and a process
inside Obtain or Clear_Stale, runs on (`WF` of its own next step).  These
functions never wait for another process except by sleeping, and the scheduler
of the operating system gives every runnable thread its turn.  Nobody is
assumed to begin, to release, or not to crash.

### Mutants

Every property is broken by a plausible slip in the code: an off-by-one in the
segment number, a purge that forgets its own snapshot, a rename in place of the
hard link, a doc map that leaves gaps, a swap without comparing, a skip that
is not counted, a double negation taken for one.  The mutated operator stands
before the original in the module and `mutants` in `PROJECT.json` pairs them up.

## 4. Proofs

The theorems hold for every set of processes, threads or objects and every
bound.  Assumptions are the named ones on the constants in the modules proved
about (no process is called None or Stale, bounds are natural numbers, a hash
function maps keys to buckets, an object lives in a process, file names differ,
a hash table has three slots or more, keys that are compared are numbers).

* `LockFile!TypeCorrect`, `HoldersOwnTheirFile` (`HolderOwnsFile`),
  `CarefulMutualExclusion` (`MutualExclusion`), `CarefulImplementsMutex`
  (`ImplementsMutex`).  The invariant is that a process which believes it
  holds the lock is the one the file names; only the hard link, which needs
  the file to be absent, makes anyone a believer, and only a believer, or
  somebody who has read the file of a dead process, deletes it.  The theorems
  are about `CarefulSpec`; `lock_stolen` shows that `Spec` itself violates the
  property.
* `IndexFilesProofs!TypeCorrect` and `IndexInvariant`, and from it
  `IndexAlwaysThere`: every segment of the latest snapshot is on disk and
  finished.  `LatestIntact` is not inductive.  `IndexInv` adds why: a session
  holds the locks the code thinks it holds (`LocksKept`), so that what it has
  read of the latest snapshot is still true (`IndexerInv`, `PublishedInv`); no
  purge under way touches the latest snapshot (`PurgeSafe`); a session's
  segment number lies beyond every published one (`Ascending`, `IndexerInv`);
  a merger, which works without the write lock, has its sources behind a read
  lock (`SourceInv`) and its own number to itself (`TargetInv`), where the
  cutoff in `merge.json` may be gone but never another's.  The proof goes
  through lemmas on how the parts move: a step that leaves folder and locks
  alone (`StableStep`), a publication (`PublishStep`), the start of a purge
  and its deletions (`PurgeStartKeeps`, `SweepSnapshotKeeps`, ...), one lemma
  per process kind, and one case per action.  `GenerationsGoUp`
  (`LatestAdvances`) follows from the same invariant: only a publication, which
  takes the next number, and a purge, whose list the latest snapshot is not on,
  change the snapshot files (`SnapshotStep`, `LatestRises`).
* `IndexFilesProofs!ReadersInvariant`, and the rest of the safety that the passing
  runs check of `IndexFiles`.  `ReadersInv` has four parts: what was ever listed lies below
  every number a session works on (`PublishedBelow`); what has a read lock is on
  no purge's list (`LockedSafe`); while a reader has the deletion lock nothing
  from its scan goes away (`OpeningInv`); and what it picks is not older than
  what was there when it began (`UpToDate`).  From these follow `LockedStays`
  (`LockedIntact`), `PublishedWrittenOnce` (`PublishedImmutable`) and
  `ReadersGetTheLatest` (`ReadersUpToDate`).  `NothingIsForgotten`
  (`NothingLeaks`) adds `PurgeAccounts`: every directory on the list of a
  snapshot file that is to go is itself to go, has just failed to go, or is on
  the list of one that stays.  `ReadersNeverFail` (`ReadersSucceed`) adds
  `ScanInv` and `RetryInv`: what is the latest snapshot when a scan begins
  stays there, and the latest, until another is published, so that a scan which
  none has overtaken returns it; a failure means that the generation which
  failed is not the latest any more (`FailureIsOld`), so that such a scan finds a
  newer one to retry with; and a reader with a manager has locked what it
  opens, which then never fails.  `ReadersGetTheLatest` is about readers with
  a manager, whose deletion lock keeps what a scan could find where it is;
  `ReadersNeverFail` is about both kinds, whatever was published and purged
  before the last scan of one without.  The table in section 3 shows that
  neither could say more.  The last one assumes that readers are not also
  writers, as each process of the model plays one part.
* `SharedLockProofs!TypeCorrect` and `EveryHolderHasItsFile` (`OwnFile`), for
  `CarefulSpec` with callers that release only what they hold.  The invariant
  says which file an object that holds, is about to release, or has just linked
  can rely on, and that only its own release, or somebody who has read a dead
  owner's file, can delete it; the number in `lock_path` may be stale, as the
  finding shows, and then nothing is known of the file.
  `SteadyHoldersAreSeen` (`SteadyHolderSeen`) adds `ScanInv`: the number of
  whoever has held a lock since a scan began is still before the scan, which
  passes only numbers without a file.
* `LockFreeRegistryProofs!TypeCorrect`, `OneEntryPerKey` (`KeysUnique`) and
  `CallsAreAtomic` (`ImplementsRegistry`).  The invariant is that a thread has
  passed only entries with other keys, and that lists grow at their ends only:
  the slot a thread has found empty is the end of the list if it still is empty
  when it swaps.  `EveryEntryIsAccountedFor` (`NothingLeaks`) counts: there are
  as many entries in memory as are linked and held together (`MemoryInv`).  It
  is about finitely many threads, keys and buckets.
* `IndexContentProofs!TypeCorrect`, `DocumentsAreInTheIndexOnce` (`NoDocTwice`),
  `DocMapsLeadToTheSameDocuments` (`DocMapsAgree`) and
  `IndexImplementsDocStore` (`ImplementsDocStore`), for any number of documents,
  terms, fields, segments and commits.  The invariant `Inv` says of the latest
  snapshot that each document is live in it once and was handed in (`LatestInv`);
  of a session that its bit vectors are the deletions of its view with what it
  has deleted since, and that those it need not write are as the files have them
  (`SessionInv`); of a merger that the snapshot it has started with is there or
  truncated, that nothing but Indexers' segments past the cutoff has joined it
  and deletions have only grown (`MergerInv`), and that its doc maps lead to the
  same documents in its segment, which drops none but those deleted when it
  looked (`MergedInv`); of all deletions files that they are for earlier
  segments (`PointBack`).  The argument is in three layers.  Doc ids: a doc map
  that counts up over what is not deleted (`RankStep`, `CountingUp`) and a
  segment that grows by what is copied (`GrowingFacts`) fit each other
  (`ConsolidatedFacts`), and `sub_tick` finds the segment of a doc id
  (`SubTickIs`).  Files: which deletions a list of segments gives once others
  are written or dropped (`GoneFacts`, `RewriteFacts`), and what its live
  documents then are (`ContentFacts`).  Actions: each keeps `Inv` and maps to a
  step of `DocStore` or to a stutter; the merger's commit needs that what it
  carries over is just what was deleted meanwhile (`HitFacts`, `CarriedFacts`,
  `PublishFacts`).  Inductions are over sets of natural numbers, whose least
  element would be a counterexample (`LeastNumber`).
* `CompoundFileProofs!TypeCorrect`, and `SegmentsSurviveCrashes`
  (`CommitsSurvive`).  One session is at work at a time (`Alone`), and the
  invariant says for each of its steps what the directory and its cached Folder
  look like (`WorkInv`): what is in the directory it has made is its own, the
  files it absorbs are there until `cfmeta.json` lists them all, and once a
  session is committed the two compound files stand for all its data files.  Of
  what a crash has left it says only that it is a directory: the next session
  deletes whatever is in it.  The types are right for any `Keepers`; the rest
  assumes that there are none, as a Folder kept over sessions breaks it (table
  in section 3).
* `ContainerProofs!TypeCorrect`, `TablesHaveRoom`, `HashImplementsMap` and
  `IteratorsReturnTheSteady`: the invariants and the refinement of `KeyValues`
  that `HashesAreMaps` puts together, for any keys and any hash sums.  A table
  always has an empty slot, because each tombstone lowers `threshold`; a key is
  in one slot, and on the way there from its home slot there is no empty one
  (`LiveInv`); while a table is rebuilt, what is still to be moved, what is
  moved and what is about to be stored are different keys (`MovingInv`).
  Tombstones are what keeps a deletion from cutting the way to others
  (`StillReached`).  An iterator's keys are where they were while the capacity
  is the same (`IterInv`).
* `ContainerProofs!VectorsImplementSets` and `NextHitIsTheNext`, the refinement
  of `BitSets` and `NextHitTrue` that `BitVectorsAreSets` checks, for any number
  of vectors, ticks and bits to a byte from two on (with one, Mimic would ask
  for a capacity of no more than there is).  A vector is told by the bits it has
  (`Has`), beyond its capacity none; an operation on two vectors of different
  capacities is right byte by byte where both have one (`OrXorIs`, `PairIs`) and
  beyond (`ExtendsHas`), and Flip_Block because its single bits and its whole
  bytes come to the block (`LastAndFirst`, `WholeIs`).  `NextHitIsTheNext`
  assumes a capacity that fits an int32_t, as the table in section 3 shows what
  happens otherwise.
* `ContainerProofs!QueuesKeepTheBest` and `QueuesPopInOrder`, the refinement of
  `TopSet` and `PopsInOrder` that `QueueKeepsTheBest` puts together, for any
  elements, any order of their keys and any maximum.  The invariant is that no
  slot's element is less than its parent's (`Heap`) and that no element is
  there twice (`Distinct`), so that the first is the least (`RootIsLeast`) and
  the heap is as large as what it holds (`HeldCount`).  An element that rises
  or sinks moves along one way between a slot and the root (`WayUp`), changes
  places with those it passes and loses none (`UpHeap`, `DownHeap`).  Pop_All
  has after each Pop a heap of all that it has not returned (`LeftIs`).
* `StreamsProofs!BuffersStayInTheirWindow` (`BufferInWindow`) and
  `StreamsImplementReaders` (`ReadsItsPart`), which `StreamsReadTheirPart` puts
  together, for files, buffers and pages of any size.  The invariant: either all
  pointers are NULL and the window is empty, or the window is mapped where the
  file is, the limit is its end, and that is not past the stream's part of the
  file (`WindowOK`); the position is never past it either.  A lemma for each of
  the ways to move (`Moved`, `Filled`, `SoughtIs`, `Opened`) says where the
  stream then is, one for each call that it returns the right bytes.  They are
  about streams whose clones are of whole files: a finding shows what the clones
  of parts do.
* `StreamsProofs!OutBuffersFit` (`BufferFits`), `WrittenInOrder` (`InOrder`) and
  `NothingWrittenIsLost` (`NothingLost`), which `WritesInOrder` puts together,
  for buffers of any size.  `OutInv` adds that a stream is not closed in the
  middle of an Absorb or an Align, and that the buffer of a closed one is empty
  as long as no one writes to it; the last theorem assumes that nobody does, as
  the table in section 3 shows what happens then.
* `StreamsProofs!LexiconsVisitTheTerms` and `LookUpsAreTrue`, the refinement of
  `Iterators` and `InfoTrue` that `LexiconsIterate` and `DifferencesAddUp` put
  together, for any non-empty finite set of terms, any index interval and skip
  interval of at least one (`LexConstantsOK`).  The invariant is that a lexicon
  is in a place (`At`): the k-th term is decoded, and the differences read so
  far have added up to its frequency and file position (`InfoIs`).  Next goes
  from a place to the following one (`NextIs`).  An entry of the index puts the
  lexicon into a place as well (`AtFacts`), whichever the binary search has
  found: in each round the entries before `lo` are less than the target and
  those after `hi` greater (`HalvedIs`, `TickIs`).  The scan passes just the
  terms that are less than the target (`ScanIs`), so that Seek stops at the
  first that is not (`SeekIs`).  The files have the terms in order, because a
  term's place is the number of terms that are less (`RankIs`, `RankOnto`,
  `SortedIs`).  PolyLexicon stays with TLC.
* `StreamsProofs!PostingListsVisitTheDocuments` and `SkipsKeepCount`, the
  refinement of `Iterators` that `PostingsIterate` is about, and `CountTrue`,
  for any number of terms and documents and any skip interval greater than one
  (`PlistConstantsOK`).  The first half is about the writer.  The postings come
  by term and then by document, as a posting's place is the number of those
  before it (`FetchedIs`).  What the writer has done after each of them is an
  invariant of its loop (`Writing`): the postings of the finished terms and of
  the current one are where their TermInfos say, the differences lead from each
  document to the next, and there is a skip record for every `SkipInterval`
  documents (`StartTermIs`, `PostingIs`, `WriteSkipIs`, `WritesNext`).  So the
  files are such that each term can be read back (`Reads`, `FilesAreTrue`).  The
  second half is about the reader.  A list is on the j-th of its documents
  having read k skip records (`ListAt`), of which the last but one does not lead
  past that document.  The rounds of a Skip read records as long as they lead to
  documents that are less than the target, and have then skipped as many
  documents as they count (`Skipped`, `SkipTurns`): records that lead to
  documents already passed are not counted, which begins from the remainder
  that `PassedAlready` takes off (`PassedIs`, `SkippedTo`).  So a Skip leaves
  the list on a document of the term that is less than the target (`SkipIs`),
  and the scan from there stops at the first that is not (`ScanOnward`,
  `AdvanceIs`, `FirstGiven`).  A list that was seeked to a term without
  documents, and one past its last document, stay at their end
  (`NothingAdvances`, `OnMoves`).  The pools before the writer, with their runs
  and flushes, stay with TLC.
* `ContainerProofs!MatchersVisitTheMatches`, the refinement of `Iterators` that
  the run's `VisitsTheMatches` is about, and `MatchersCallRightly`
  (`CallsChildrenRightly` and `ScoresTheMatching`), for any number of documents
  and children, in the classes named in `MatcherConstantsOK`: all but the
  SeriesMatcher and the exhausted BitVecMatcher, of which findings show
  otherwise, and Matcher_Collect.  That children need only keep the promise
  which the theorem makes of the matcher lets it be applied from the leaves of
  a tree upwards.  The invariant says where the children are relative to the
  document `c` the matcher is at (`MatcherInv`): at it (`AndInv`); at or beyond
  it, with nothing of theirs skipped since (`Since`) and as the elements of a
  heap, whose top is at `c` (`OrInv`, `Heaped`); all beyond it, with those
  scored that have been there (`ScorerInv`); at the next document to leave out
  (`NotInv`); the required one at it and the optional one not past it without
  having been there (`ReqInv`).  Each loop has its own sets of states before
  every round, and `RunsOn` puts the rounds together.  They also show that it
  ends in time: a round of an ANDMatcher whose children do not agree has raised
  the highest document (`ReconciledIs`); each turn of an ORMatcher takes one
  more child to the target, so that after as many turns as there are children
  none is behind (`TopMoves`, `BehindCount`, `RaisedIs`), and each turn of an
  ORScorer scores one of those at the document (`GatheredIs`).

Model-checked only: liveness (`ObtainEnds`, `StaleIsCleared`, `CallsReturn`),
which the prover does not reach; and of the suites the external sorter, folders,
PolyLexicons, posting pools, sort caches, phrases, SeriesMatcher and
Matcher_Collect, collectors and the query parser.  Most of their operators fold
over sequences or are recursive, and what those compute for every input needs
induction over data; the Count and To_Array of bit vectors (`AnswersTrue`) need
it too.  Where a recursive function is simple enough, the proofs show that it
exists and then that no number is the least for which it fails (`AncestryIs`,
`WayUp`, `PoppedIs`, `LeftIs`, `RunsOn`, `AllWritten`, `AdvanceScans`).

## 5. Not modelled

* Schema, field types and documents, apart from the set of fields in
  `IndexContent`; `Lucy::Simple` and the two programs, which call one Indexer or
  Searcher in sequence.
* Analysis, stemming, highlighting, and the characters of the query lexer:
  sequential text processing where the properties would be about wording.
* The formats of stored documents, term vectors and Json, and the numeric and
  text layout of sort caches: codecs without a state that outlives a call.
* Queries' weights, and scores: floating point numbers, which TLC does not
  have.  Scores are small integers where only their order matters.
* The deletion of a segment directory file by file (`IndexFiles`; it is in
  `CompoundFile`), and the base-36 names of segments and snapshots.
* Clownfish but for its registry and hash tables; the bindings for Perl, Ruby,
  Go, Python and C, the build system.

The repository's implementation lines are for the greater part none of Lucy's
own logic: the scanners of CommonMark and the tables of utf8proc, the generated
Snowball stemmers, two copies of lemon, three of charmonizer, the Clownfish
compiler.  Of the lines of `core/Lucy/Index` and `Store` the modules stand for
about a third, of those of `Search` for about a quarter; the rest are
constructors, accessors, serialization, comparison and codecs.

What could come next: the lexer; the Schema's checks for conflicting fields.
