----------------------------- MODULE IndexFiles -----------------------------
(***************************************************************************)
(* The life of the files of an index: which segment directories and        *)
(* snapshot files exist, who may delete them and who relies on them.       *)
(*                                                                         *)
(* Indexers (Index/Indexer.c), background mergers (BackgroundMerger.c),    *)
(* their purges (FilePurger.c) and readers with and without an             *)
(* IndexManager (PolyReader.c) are processes that share one folder.  A     *)
(* snapshot file lists segments; what is in a segment is left to           *)
(* IndexContent.tla.  Locks are taken in one step, as Mutex.tla allows;    *)
(* everybody who takes the write or the deletion lock, or looks at a read  *)
(* lock, clears stale ones first, so those are simply free when their      *)
(* holder dies.  The merge lock is also looked at without clearing it.     *)
(***************************************************************************)
EXTENDS Integers, FiniteSets

CONSTANTS Indexers,    \* processes that run Indexer sessions
          Mergers,     \* processes that run BackgroundMerger sessions
          Readers,     \* processes that open a PolyReader with a manager
          Peekers,     \* processes that open one without
          MayCrash,    \* the processes that may exit at any moment
          MaxGen,      \* bound: snapshot generations are 1..MaxGen
          MaxSeg,      \* bound: segment numbers are 1..MaxSeg
          DeletesFail, \* whether Folder_Delete may fail in a purge
          None,        \* no process
          Stale,       \* a merge lock whose process is dead
          NoFile       \* a file that does not exist

Proc == Indexers \cup Mergers \cup Readers \cup Peekers
Gens == 1..MaxGen
Segs == 1..MaxSeg

ASSUME BoundsAssumption == MaxGen \in Nat /\ MaxSeg \in Nat
ASSUME SwitchesAssumption == DeletesFail \in BOOLEAN
ASSUME ProcAssumption ==
    /\ MayCrash \subseteq Proc
    /\ {None, Stale} \cap Proc = {}
    /\ None # Stale
    /\ \A S \in Segs \cup SUBSET Segs : S # NoFile

VARIABLES
    \* The folder.
    snaps,        \* snaps[g]: the segments snapshot_g.json lists, or NoFile
    dirs,         \* the segment directories that exist
    complete,     \* those whose segmeta.json has been written
    mergeJson,    \* the cutoff in merge.json, or NoFile
    writeLock, mergeLock, deletionLock,
    readLock,     \* readLock[p]: the generation p holds a read lock on, or 0
    \* The processes.
    pc,
    view,         \* the snapshot in memory: the segments it lists
    gen,          \* its generation, 0 when it has none
    seg,          \* the segment this session writes (a merger's cutoff), or 0
    merging,      \* the segments a merger has put into its own
    toOpen,       \* the segments a reader has still to open
    lastGen,      \* last_gen of PolyReader_do_open
    sure, maybe,  \* generations a directory scan under way must, may return
    \* The purge under way, if any: the deletion lock lets one happen at a time.
    goners,       \* segment directories still to delete
    oldSnaps,     \* snapshot files to delete after them
    zapJson,      \* whether merge.json is to be deleted as well
    failures,     \* what could not be deleted
    \* History.
    published,    \* the segments that some snapshot file has ever listed
    asOf,         \* the latest generation when p began to open a reader
    overtaken     \* peekers during whose last scan a snapshot was published

folder == <<snaps, dirs, complete, mergeJson>>
locks == <<writeLock, mergeLock, deletionLock, readLock>>
purge == <<goners, oldSnaps, zapJson, failures>>
local == <<view, gen, seg, merging, toOpen, lastGen>>
watch == <<sure, maybe, published, asOf, overtaken>>
vars == <<folder, locks, pc, local, purge, watch>>

IndexerPCs == {"zap0", "sweep0", "isLocked", "cutoff", "prep", "write",
               "recycle", "publish", "zap1", "sweep1", "unmerge", "unlock"}
MergerPCs == {"mLock", "mRead", "mEmpty", "mZap0", "mSweep0", "mOpen",
              "mCutoff", "mUnlock", "mPrep", "mWrite", "mRelock", "mCarry",
              "mPublish", "mUnmerge", "mUnjson", "mZap1", "mSweep1", "mDone"}
ReaderPCs == {"rPick", "rScan", "rRead", "rOpen", "rUnlock", "open"}

TypeOK ==
    /\ snaps \in [Gens -> {NoFile} \cup SUBSET Segs]
    /\ dirs \in SUBSET Segs
    /\ complete \in SUBSET Segs
    /\ mergeJson \in {NoFile} \cup Segs
    /\ writeLock \in Proc \cup {None}
    /\ mergeLock \in Proc \cup {None, Stale}
    /\ deletionLock \in Proc \cup {None}
    /\ readLock \in [Proc -> Gens \cup {0}]
    /\ pc \in [Proc -> {"idle", "error"} \cup IndexerPCs \cup MergerPCs
                           \cup ReaderPCs]
    /\ view \in [Proc -> SUBSET Segs]
    /\ gen \in [Proc -> Gens \cup {0}]
    /\ seg \in [Proc -> Segs \cup {0}]
    /\ merging \in [Proc -> SUBSET Segs]
    /\ toOpen \in [Proc -> SUBSET Segs]
    /\ lastGen \in [Proc -> Gens \cup {0}]
    /\ sure \in [Proc -> SUBSET Gens]
    /\ maybe \in [Proc -> SUBSET Gens]
    /\ goners \in SUBSET Segs
    /\ oldSnaps \in SUBSET Gens
    /\ zapJson \in BOOLEAN
    /\ failures \in SUBSET Segs
    /\ published \in SUBSET Segs
    /\ asOf \in [Proc -> Gens \cup {0}]
    /\ overtaken \in SUBSET Peekers

Init ==
    /\ snaps = [g \in Gens |-> NoFile]
    /\ dirs = {}
    /\ complete = {}
    /\ mergeJson = NoFile
    /\ writeLock = None
    /\ mergeLock = None
    /\ deletionLock = None
    /\ readLock = [p \in Proc |-> 0]
    /\ pc = [p \in Proc |-> "idle"]
    /\ view = [p \in Proc |-> {}]
    /\ gen = [p \in Proc |-> 0]
    /\ seg = [p \in Proc |-> 0]
    /\ merging = [p \in Proc |-> {}]
    /\ toOpen = [p \in Proc |-> {}]
    /\ lastGen = [p \in Proc |-> 0]
    /\ sure = [p \in Proc |-> {}]
    /\ maybe = [p \in Proc |-> {}]
    /\ goners = {}
    /\ oldSnaps = {}
    /\ zapJson = FALSE
    /\ failures = {}
    /\ published = {}
    /\ asOf = [p \in Proc |-> 0]
    /\ overtaken = {}

-----------------------------------------------------------------------------
(* What the folder tells.                                                  *)

Present == {g \in Gens : snaps[g] # NoFile}

Highest(S) == CHOOSE n \in S \cup {0} : \A m \in S : m <= n

\* IxFileNames_latest_snapshot: 0 when there is no snapshot file.
Latest == Highest(Present)

LatestSegs == IF Latest = 0 THEN {} ELSE snaps[Latest]

\* IxManager_Make_Snapshot_Filename.
NextGen == Latest + 1

\* FilePurger asks this of each snapshot file, having cleared stale locks.
ReadLocked(g) == \E p \in Proc : readLock[p] = g

Goto(p, label) == pc' = [pc EXCEPT ![p] = label]

\* The session or the reader is over and its memory is gone.
Forget(p) ==
    /\ view' = [view EXCEPT ![p] = {}]
    /\ gen' = [gen EXCEPT ![p] = 0]
    /\ seg' = [seg EXCEPT ![p] = 0]
    /\ merging' = [merging EXCEPT ![p] = {}]
    /\ toOpen' = [toOpen EXCEPT ![p] = {}]
    /\ lastGen' = [lastGen EXCEPT ![p] = 0]

\* SegWriter_Prep_Seg_Dir: clear what a crashed session left, then mkdir.
PrepSegDir(n) ==
    /\ dirs' = dirs \cup {n}
    /\ complete' = complete \ {n}

Finish(n) == complete' = complete \cup {n}

\* The snapshot file of generation g appears, complete, under its name.
Publish(g, list) ==
    /\ snaps' = [snaps EXCEPT ![g] = list]
    /\ published' = published \cup list
    /\ maybe' = [p \in Proc |-> IF pc[p] = "rScan" THEN maybe[p] \cup {g}
                                                ELSE maybe[p]]
    /\ overtaken' = overtaken \cup {p \in Peekers : pc[p] = "rScan"}
    /\ UNCHANGED <<sure, asOf>>

-----------------------------------------------------------------------------
(* FilePurger_Purge, called by an Indexer ("zap0", "zap1") and by a merger *)
(* ("mZap0", "mZap1") when the session begins and after it has published.  *)

Begins(p) == pc[p] \in {"zap0", "mZap0"}

Sweep == [zap0 |-> "sweep0", zap1 |-> "sweep1",
          mZap0 |-> "mSweep0", mZap1 |-> "mSweep1"]

AfterZap == [zap0 |-> "isLocked", zap1 |-> "unmerge",
             mZap0 |-> "mOpen", mZap1 |-> "mDone"]

AfterSweep == [sweep0 |-> "isLocked", sweep1 |-> "unmerge",
               mSweep0 |-> "mOpen", mSweep1 |-> "mDone"]

\* The deletion lock cannot be had: obsolete files are left for another time.
PurgeSkip(p) ==
    /\ pc[p] \in DOMAIN Sweep
    /\ deletionLock # None
    /\ Goto(p, AfterZap[pc[p]])
    /\ UNCHANGED <<folder, locks, local, purge, watch>>

\* A merge is dead when its lock is free or stale and the segment directory
\* it reserved exists (S_zap_dead_merge).
DeadMerge ==
    /\ mergeLock \in {None, Stale}
    /\ mergeJson # NoFile
    /\ mergeJson \in dirs

\* The purger is given the latest snapshot when the session begins and the
\* session's own, as it is in memory, later.
OwnGen(p) == IF Begins(p) THEN Latest ELSE gen[p]
OwnList(p) == IF Begins(p) THEN LatestSegs ELSE view[p]

\* Mutant: the purger's own snapshot file counts as unused too.
UnusedOwnToo(p) == {g \in Present : ~ReadLocked(g)}

Unused(p) == {g \in Present \ {OwnGen(p)} : ~ReadLocked(g)}

ListedBy(G) == UNION {snaps[g] : g \in G}

\* Mutant: what the purger's own snapshot lists is not spared.
SparedButOwn(p) == ListedBy(Present \ (Unused(p) \cup {OwnGen(p)}))

Spared(p) == OwnList(p) \cup ListedBy(Present \ (Unused(p) \cup {OwnGen(p)}))

\* S_discover_unused: whatever unused snapshot files list, and the segment
\* of a dead merge, unless it is spared.
PurgeStart(p) ==
    /\ pc[p] \in DOMAIN Sweep
    /\ deletionLock = None
    /\ deletionLock' = p
    /\ oldSnaps' = Unused(p)
    /\ LET dead == IF DeadMerge THEN {mergeJson} ELSE {}
       IN goners' = (ListedBy(Unused(p)) \cup dead) \ Spared(p)
    /\ zapJson' = DeadMerge
    /\ failures' = {}
    /\ mergeLock' = IF mergeLock = Stale THEN None ELSE mergeLock
    /\ Goto(p, Sweep[pc[p]])
    /\ UNCHANGED <<folder, writeLock, readLock, local, watch>>

Sweeping(p) == pc[p] \in DOMAIN AfterSweep

SweepSegment(p) ==
    /\ Sweeping(p)
    /\ \E n \in goners :
         /\ dirs' = dirs \ {n}
         /\ complete' = complete \ {n}
         /\ goners' = goners \ {n}
    /\ UNCHANGED <<snaps, mergeJson, locks, pc, local, oldSnaps, zapJson,
                   failures, watch>>

\* Some file could not be deleted, so the directory stays behind.
SweepSegmentFails(p) ==
    /\ DeletesFail
    /\ Sweeping(p)
    /\ \E n \in goners \cap dirs :
         /\ complete' \in {complete, complete \ {n}}
         /\ goners' = goners \ {n}
         /\ failures' = failures \cup {n}
    /\ UNCHANGED <<snaps, dirs, mergeJson, locks, pc, local, oldSnaps,
                   zapJson, watch>>

\* merge.json comes after the segments in reverse lexical order.
SweepMergeJson(p) ==
    /\ Sweeping(p)
    /\ goners = {}
    /\ zapJson
    /\ zapJson' = FALSE
    /\ mergeJson' = NoFile
    /\ UNCHANGED <<snaps, dirs, complete, locks, pc, local, goners, oldSnaps,
                   failures, watch>>

\* Mutant: snapshot files are deleted whatever happened to their segments.
SweepSnapshotAnyway(p) ==
    /\ Sweeping(p)
    /\ goners = {} /\ ~zapJson
    /\ \E g \in oldSnaps :
         /\ oldSnaps' = oldSnaps \ {g}
         /\ snaps' = [snaps EXCEPT ![g] = NoFile]
    /\ sure' = [q \in Proc |-> {g \in sure[q] : snaps'[g] # NoFile}]
    /\ UNCHANGED <<dirs, complete, mergeJson, locks, pc, local, goners,
                   zapJson, failures, maybe, published, asOf, overtaken>>

\* A snapshot file stays when something it lists could not be deleted.
SweepSnapshot(p) ==
    /\ Sweeping(p)
    /\ goners = {} /\ ~zapJson
    /\ \E g \in oldSnaps :
         /\ oldSnaps' = oldSnaps \ {g}
         /\ snaps' = IF snaps[g] \cap failures = {}
                     THEN [snaps EXCEPT ![g] = NoFile] ELSE snaps
    /\ sure' = [q \in Proc |-> {g \in sure[q] : snaps'[g] # NoFile}]
    /\ UNCHANGED <<dirs, complete, mergeJson, locks, pc, local, goners,
                   zapJson, failures, maybe, published, asOf, overtaken>>

PurgeEnd(p) ==
    /\ Sweeping(p)
    /\ goners = {} /\ ~zapJson /\ oldSnaps = {}
    /\ deletionLock' = None
    /\ failures' = {}
    /\ Goto(p, AfterSweep[pc[p]])
    /\ UNCHANGED <<folder, writeLock, mergeLock, readLock, local, goners,
                   oldSnaps, zapJson, watch>>

Purge(p) ==
    \/ PurgeSkip(p) \/ PurgeStart(p) \/ SweepSegment(p)
    \/ SweepSegmentFails(p) \/ SweepMergeJson(p) \/ SweepSnapshot(p)
    \/ PurgeEnd(p)

-----------------------------------------------------------------------------
(* An Indexer session: Indexer_init, Prepare_Commit and Commit.            *)

\* Bound: a session begins while there are numbers left, a generation for
\* every session under way and two segments for every merger, so that none
\* is stopped half way by the bounds NextGen \in Gens and ... \in Segs below.
RoomForSession ==
    LET busy    == {p \in Indexers \cup Mergers : pc[p] # "idle"}
        taken   == dirs \cup LatestSegs \cup {seg[p] : p \in Proc}
    IN /\ Latest + Cardinality(busy) < MaxGen
       /\ Highest(taken) + 2 * Cardinality(busy) + 2 <= MaxSeg

\* The write lock, the latest snapshot and its segments; with TRUNCATE the
\* session starts from an empty snapshot instead.
IxBegin(p) ==
    /\ pc[p] = "idle"
    /\ writeLock = None
    /\ RoomForSession
    /\ writeLock' = p
    /\ gen' = [gen EXCEPT ![p] = Latest]
    /\ \E start \in {LatestSegs, {}} : view' = [view EXCEPT ![p] = start]
    /\ Goto(p, "zap0")
    /\ UNCHANGED <<folder, mergeLock, deletionLock, readLock, seg, merging,
                   toOpen, lastGen, purge, watch>>

\* Is_Locked(merge_lock).
IxIsLocked(p) ==
    /\ pc[p] = "isLocked"
    /\ \/ /\ mergeLock = None
          /\ Highest(LatestSegs) + 1 \in Segs
          /\ seg' = [seg EXCEPT ![p] = Highest(LatestSegs) + 1]
          /\ Goto(p, "prep")
       \/ /\ mergeLock # None
          /\ Goto(p, "cutoff")
          /\ UNCHANGED seg
    /\ UNCHANGED <<folder, locks, view, gen, merging, toOpen, lastGen, purge,
                   watch>>

\* Mutant: cutoff > new_seg_num instead of cutoff >= new_seg_num.
PastOffByOne(cutoff) == LET next == Highest(LatestSegs) + 1
                        IN IF cutoff > next THEN cutoff + 1 ELSE next

Past(cutoff) == LET next == Highest(LatestSegs) + 1
                IN IF cutoff >= next THEN cutoff + 1 ELSE next

\* Read_Merge_Data: a session that sees the lock but no cutoff throws.
IxCutoff(p) ==
    /\ pc[p] = "cutoff"
    /\ \/ /\ mergeJson = NoFile
          /\ Goto(p, "error")
          /\ UNCHANGED seg
       \/ /\ mergeJson # NoFile
          /\ Past(mergeJson) \in Segs
          /\ seg' = [seg EXCEPT ![p] = Past(mergeJson)]
          /\ Goto(p, "prep")
    /\ UNCHANGED <<folder, locks, view, gen, merging, toOpen, lastGen, purge,
                   watch>>

IxPrep(p) ==
    /\ pc[p] = "prep"
    /\ PrepSegDir(seg[p])
    /\ Goto(p, "write")
    /\ UNCHANGED <<snaps, mergeJson, locks, local, purge, watch>>

\* S_maybe_merge asks for the merge lock once, when there is something to
\* merge, and goes on without it.
IxMergeLock(p) ==
    /\ pc[p] = "write"
    /\ mergeLock' = IF mergeLock = None /\ view[p] # {} THEN p ELSE mergeLock
    /\ Goto(p, "recycle")
    /\ UNCHANGED <<folder, writeLock, deletionLock, readLock, local, purge,
                   watch>>

\* What Recycle may choose from: segments past the cutoff of the merger that
\* holds the lock; none of them when the cutoff cannot be read.
Recyclable(p) ==
    IF mergeLock = p THEN view[p]
    ELSE IF mergeJson # NoFile THEN {n \in view[p] : n > mergeJson}
    ELSE {}

\* Recycled segments leave the snapshot and the finished one enters it.
IxFinish(p) ==
    /\ pc[p] = "recycle"
    /\ \E old \in SUBSET Recyclable(p) :
         view' = [view EXCEPT ![p] = (@ \ old) \cup {seg[p]}]
    /\ Finish(seg[p])
    /\ Goto(p, "publish")
    /\ UNCHANGED <<snaps, dirs, mergeJson, locks, gen, seg, merging, toOpen,
                   lastGen, purge, watch>>

\* Nothing added, deleted or merged: no snapshot is written.
IxNothing(p) ==
    /\ pc[p] = "recycle"
    /\ view[p] # {}
    /\ Goto(p, "unmerge")
    /\ UNCHANGED <<folder, locks, local, purge, watch>>

\* The temporary snapshot file is renamed.
IxPublish(p) ==
    /\ pc[p] = "publish"
    /\ NextGen \in Gens
    /\ Publish(NextGen, view[p])
    /\ gen' = [gen EXCEPT ![p] = NextGen]
    /\ Goto(p, "zap1")
    /\ UNCHANGED <<dirs, complete, mergeJson, locks, view, seg, merging,
                   toOpen, lastGen, purge>>

\* The caller drops the Indexer without Commit; Destroy releases the locks.
IxAbandon(p) ==
    /\ pc[p] \in {"write", "publish"}
    /\ Goto(p, "unmerge")
    /\ UNCHANGED <<folder, locks, local, purge, watch>>

IxUnmerge(p) ==
    /\ pc[p] = "unmerge"
    /\ mergeLock' = IF mergeLock = p THEN None ELSE mergeLock
    /\ Goto(p, "unlock")
    /\ UNCHANGED <<folder, writeLock, deletionLock, readLock, local, purge,
                   watch>>

IxUnlock(p) ==
    /\ pc[p] = "unlock"
    /\ writeLock' = None
    /\ Goto(p, "idle")
    /\ Forget(p)
    /\ UNCHANGED <<folder, mergeLock, deletionLock, readLock, purge, watch>>

IndexerStep(p) ==
    \/ IxBegin(p) \/ IxIsLocked(p) \/ IxCutoff(p) \/ IxPrep(p)
    \/ IxMergeLock(p) \/ IxFinish(p) \/ IxNothing(p) \/ IxPublish(p)
    \/ IxAbandon(p) \/ IxUnmerge(p) \/ IxUnlock(p)

-----------------------------------------------------------------------------
(* A BackgroundMerger session: BGMerger_init, Prepare_Commit and Commit.   *)

MBegin(p) ==
    /\ pc[p] = "idle"
    /\ writeLock = None
    /\ RoomForSession
    /\ writeLock' = p
    /\ Goto(p, "mLock")
    /\ UNCHANGED <<folder, mergeLock, deletionLock, readLock, local, purge,
                   watch>>

\* Clear_Stale, then Obtain; when another merger runs this one gives up.
MLock(p) ==
    /\ pc[p] = "mLock"
    /\ IF mergeLock \in {None, Stale}
       THEN mergeLock' = p /\ Goto(p, "mRead") /\ UNCHANGED writeLock
       ELSE writeLock' = None /\ Goto(p, "idle") /\ UNCHANGED mergeLock
    /\ UNCHANGED <<folder, deletionLock, readLock, local, purge, watch>>

\* No snapshot: there is nothing to do, and the locks go, write lock first.
MRead(p) ==
    /\ pc[p] = "mRead"
    /\ gen' = [gen EXCEPT ![p] = Latest]
    /\ view' = [view EXCEPT ![p] = LatestSegs]
    /\ writeLock' = IF Latest = 0 THEN None ELSE writeLock
    /\ Goto(p, IF Latest = 0 THEN "mEmpty" ELSE "mZap0")
    /\ UNCHANGED <<folder, mergeLock, deletionLock, readLock, seg, merging,
                   toOpen, lastGen, purge, watch>>

MEmpty(p) ==
    /\ pc[p] = "mEmpty"
    /\ mergeLock' = None
    /\ Goto(p, "idle")
    /\ UNCHANGED <<folder, writeLock, deletionLock, readLock, local, purge,
                   watch>>

\* PolyReader_open with the manager: a read lock on the snapshot, taken
\* under the deletion lock, which may be out of reach.
MOpen(p) ==
    /\ pc[p] = "mOpen"
    /\ IF deletionLock = None
       THEN /\ readLock' = [readLock EXCEPT ![p] = gen[p]]
            /\ Goto(p, "mCutoff")
       ELSE Goto(p, "error") /\ UNCHANGED readLock
    /\ UNCHANGED <<folder, writeLock, mergeLock, deletionLock, local, purge,
                   watch>>

\* Write_Merge_Data creates merge.json; it throws when there is one.
MCutoff(p) ==
    /\ pc[p] = "mCutoff"
    /\ Highest(view[p]) + 1 \in Segs
    /\ IF mergeJson = NoFile
       THEN /\ mergeJson' = Highest(view[p]) + 1
            /\ seg' = [seg EXCEPT ![p] = Highest(view[p]) + 1]
            /\ Goto(p, "mUnlock")
       ELSE Goto(p, "error") /\ UNCHANGED <<mergeJson, seg>>
    /\ UNCHANGED <<snaps, dirs, complete, locks, view, gen, merging, toOpen,
                   lastGen, purge, watch>>

MUnlock(p) ==
    /\ pc[p] = "mUnlock"
    /\ writeLock' = None
    /\ Goto(p, "mPrep")
    /\ UNCHANGED <<folder, mergeLock, deletionLock, readLock, local, purge,
                   watch>>

\* Recycle finds nothing worth merging: Commit only takes the cutoff back.
MSkip(p) ==
    /\ pc[p] = "mPrep"
    /\ Goto(p, "mUnmerge")
    /\ UNCHANGED <<folder, locks, local, purge, watch>>

MPrep(p) ==
    /\ pc[p] = "mPrep"
    /\ \E old \in SUBSET view[p] \ {{}} :
         merging' = [merging EXCEPT ![p] = old]
    /\ PrepSegDir(seg[p])
    /\ Goto(p, "mWrite")
    /\ UNCHANGED <<snaps, mergeJson, locks, view, gen, seg, toOpen, lastGen,
                   purge, watch>>

MWrite(p) ==
    /\ pc[p] = "mWrite"
    /\ Finish(seg[p])
    /\ view' = [view EXCEPT ![p] = (@ \ merging[p]) \cup {seg[p]}]
    /\ Goto(p, "mRelock")
    /\ UNCHANGED <<snaps, dirs, mergeJson, locks, gen, seg, merging, toOpen,
                   lastGen, purge, watch>>

\* The write lock again, for the commit.
MRelock(p) ==
    /\ pc[p] = "mRelock"
    /\ IF writeLock = None
       THEN writeLock' = p /\ Goto(p, "mCarry")
       ELSE Goto(p, "error") /\ UNCHANGED writeLock
    /\ UNCHANGED <<folder, mergeLock, deletionLock, readLock, local, purge,
                   watch>>

\* Nobody has committed since the merger began.
MCarryNothing(p) ==
    /\ pc[p] = "mCarry"
    /\ Latest = gen[p]
    /\ readLock' = [readLock EXCEPT ![p] = 0]
    /\ Goto(p, "mPublish")
    /\ UNCHANGED <<folder, writeLock, mergeLock, deletionLock, local, purge,
                   watch>>

\* Segments beyond the cutoff join the merger's snapshot, and so does a
\* segment with the deletions made in the meantime, when there are any.
MCarry(p) ==
    /\ pc[p] = "mCarry"
    /\ Latest # gen[p]
    /\ merging[p] \subseteq LatestSegs
    /\ LET fresh == {n \in LatestSegs : n > seg[p]}
           del   == Highest(LatestSegs) + 1
       IN \/ /\ view' = [view EXCEPT ![p] = @ \cup fresh]
             /\ UNCHANGED <<dirs, complete>>
          \/ /\ del \in Segs
             /\ view' = [view EXCEPT ![p] = @ \cup fresh \cup {del}]
             /\ dirs' = dirs \cup {del}
             /\ Finish(del)
    /\ readLock' = [readLock EXCEPT ![p] = 0]
    /\ Goto(p, "mPublish")
    /\ UNCHANGED <<snaps, mergeJson, writeLock, mergeLock, deletionLock, gen,
                   seg, merging, toOpen, lastGen, purge, watch>>

\* A segment it merged is not in the latest snapshot any more: CERTIFY
\* throws in S_merge_updated_deletions.
MCarryFails(p) ==
    /\ pc[p] = "mCarry"
    /\ Latest # gen[p]
    /\ ~(merging[p] \subseteq LatestSegs)
    /\ Goto(p, "error")
    /\ UNCHANGED <<folder, locks, local, purge, watch>>

\* The temporary snapshot file gets its name by a hard link.
MPublish(p) ==
    /\ pc[p] = "mPublish"
    /\ NextGen \in Gens
    /\ Publish(NextGen, view[p])
    /\ gen' = [gen EXCEPT ![p] = NextGen]
    /\ Goto(p, "mUnmerge")
    /\ UNCHANGED <<dirs, complete, mergeJson, locks, view, seg, merging,
                   toOpen, lastGen, purge>>

\* The caller drops the merger without Commit: Destroy releases the locks,
\* and merge.json stays.
MAbandon(p) ==
    /\ pc[p] \in {"mPrep", "mPublish"}
    /\ mergeLock' = None
    /\ Goto(p, "mDone")
    /\ UNCHANGED <<folder, writeLock, deletionLock, readLock, local, purge,
                   watch>>

MUnmerge(p) ==
    /\ pc[p] = "mUnmerge"
    /\ mergeLock' = None
    /\ Goto(p, "mUnjson")
    /\ UNCHANGED <<folder, writeLock, deletionLock, readLock, local, purge,
                   watch>>

\* Remove_Merge_Data deletes merge.json, whoever has written it.
MUnjson(p) ==
    /\ pc[p] = "mUnjson"
    /\ mergeJson' = NoFile
    /\ Goto(p, IF merging[p] = {} THEN "mDone" ELSE "mZap1")
    /\ UNCHANGED <<snaps, dirs, complete, locks, local, purge, watch>>

\* The write lock, when the merger has it, and the read lock of its reader.
MDone(p) ==
    /\ pc[p] = "mDone"
    /\ writeLock' = IF writeLock = p THEN None ELSE writeLock
    /\ readLock' = [readLock EXCEPT ![p] = 0]
    /\ Goto(p, "idle")
    /\ Forget(p)
    /\ UNCHANGED <<folder, mergeLock, deletionLock, purge, watch>>

MergerStep(p) ==
    \/ MBegin(p) \/ MLock(p) \/ MRead(p) \/ MEmpty(p) \/ MOpen(p)
    \/ MCutoff(p) \/ MUnlock(p) \/ MSkip(p) \/ MPrep(p) \/ MWrite(p)
    \/ MRelock(p) \/ MCarryNothing(p) \/ MCarry(p) \/ MCarryFails(p)
    \/ MPublish(p) \/ MAbandon(p) \/ MUnmerge(p) \/ MUnjson(p) \/ MDone(p)

-----------------------------------------------------------------------------
(* PolyReader_do_open with a manager (Readers) and without (Peekers).      *)

\* Mutant: readers do without the deletion lock.
RBeginUnlocked(p) ==
    /\ pc[p] = "idle"
    /\ asOf' = [asOf EXCEPT ![p] = Latest]
    /\ Goto(p, "rPick")
    /\ UNCHANGED <<folder, locks, local, purge, sure, maybe, published,
                   overtaken>>

\* A reader keeps the purges out with the deletion lock; without it, it
\* throws before it has done anything.
RBegin(p) ==
    /\ pc[p] = "idle"
    /\ p \in Readers => deletionLock = None
    /\ deletionLock' = IF p \in Readers THEN p ELSE deletionLock
    /\ asOf' = [asOf EXCEPT ![p] = Latest]
    /\ Goto(p, "rPick")
    /\ UNCHANGED <<folder, writeLock, mergeLock, readLock, local, purge, sure,
                   maybe, published, overtaken>>

\* The most recent snapshot file is g, and a reader locks it; 0: none, the
\* reader is empty.
Pick(p, g) ==
    /\ gen' = [gen EXCEPT ![p] = g]
    /\ readLock' = [readLock EXCEPT ![p] = IF p \in Readers THEN g ELSE 0]
    /\ Goto(p, IF g = 0 THEN "rUnlock" ELSE "rRead")
    /\ UNCHANGED <<folder, writeLock, mergeLock, deletionLock, view, seg,
                   merging, toOpen, lastGen, purge, published, asOf, overtaken>>

\* A directory scan returns every file that is there all along; whether it
\* returns one that comes or goes meanwhile is unspecified (readdir).
RScanBegin(p) ==
    /\ pc[p] = "rPick"
    /\ sure' = [sure EXCEPT ![p] = Present]
    /\ maybe' = [maybe EXCEPT ![p] = Present]
    /\ overtaken' = overtaken \ {p}
    /\ Goto(p, "rScan")
    /\ UNCHANGED <<folder, locks, local, purge, published, asOf>>

RScanEnd(p) ==
    /\ pc[p] = "rScan"
    /\ \E chance \in SUBSET (maybe[p] \ sure[p]) :
         Pick(p, Highest(sure[p] \cup chance))
    /\ sure' = [sure EXCEPT ![p] = {}]
    /\ maybe' = [maybe EXCEPT ![p] = {}]

\* Mutant: a second failure is a real error whatever the generation.
IsNewsOnce(p) == lastGen[p] = 0

IsNews(p) == lastGen[p] < gen[p]

\* Something could not be opened: try again if this generation is newer
\* than the one of the last failure, else it is a real error.
Reopen(p) ==
    /\ readLock' = [readLock EXCEPT ![p] = 0]
    /\ view' = [view EXCEPT ![p] = {}]
    /\ toOpen' = [toOpen EXCEPT ![p] = {}]
    /\ IF IsNews(p)
       THEN /\ lastGen' = [lastGen EXCEPT ![p] = gen[p]]
            /\ Goto(p, "rPick")
            /\ UNCHANGED deletionLock
       ELSE /\ deletionLock' = IF deletionLock = p THEN None ELSE deletionLock
            /\ Goto(p, "error")
            /\ UNCHANGED lastGen
    /\ UNCHANGED <<folder, writeLock, mergeLock, gen, seg, merging, purge,
                   watch>>

RRead(p) ==
    /\ pc[p] = "rRead"
    /\ snaps[gen[p]] # NoFile
    /\ view' = [view EXCEPT ![p] = snaps[gen[p]]]
    /\ toOpen' = [toOpen EXCEPT ![p] = snaps[gen[p]]]
    /\ Goto(p, "rOpen")
    /\ UNCHANGED <<folder, locks, gen, seg, merging, lastGen, purge, watch>>

RReadFails(p) ==
    /\ pc[p] = "rRead"
    /\ snaps[gen[p]] = NoFile
    /\ Reopen(p)

\* A segment's files stay readable once they are open, deleted or not.
ROpenSegment(p) ==
    /\ pc[p] = "rOpen"
    /\ \E n \in toOpen[p] \cap complete :
         toOpen' = [toOpen EXCEPT ![p] = @ \ {n}]
    /\ UNCHANGED <<folder, locks, pc, view, gen, seg, merging, lastGen, purge,
                   watch>>

ROpenFails(p) ==
    /\ pc[p] = "rOpen"
    /\ ~(toOpen[p] \subseteq complete)
    /\ Reopen(p)

ROpenDone(p) ==
    /\ pc[p] = "rOpen"
    /\ toOpen[p] = {}
    /\ Goto(p, "rUnlock")
    /\ UNCHANGED <<folder, locks, local, purge, watch>>

RUnlock(p) ==
    /\ pc[p] = "rUnlock"
    /\ deletionLock' = IF deletionLock = p THEN None ELSE deletionLock
    /\ Goto(p, "open")
    /\ UNCHANGED <<folder, writeLock, mergeLock, readLock, local, purge, watch>>

RClose(p) ==
    /\ pc[p] = "open"
    /\ readLock' = [readLock EXCEPT ![p] = 0]
    /\ asOf' = [asOf EXCEPT ![p] = 0]
    /\ overtaken' = overtaken \ {p}
    /\ Goto(p, "idle")
    /\ Forget(p)
    /\ UNCHANGED <<folder, writeLock, mergeLock, deletionLock, purge, sure,
                   maybe, published>>

ReaderStep(p) ==
    \/ RBegin(p) \/ RScanBegin(p) \/ RScanEnd(p) \/ RRead(p)
    \/ RReadFails(p) \/ ROpenSegment(p) \/ ROpenFails(p) \/ ROpenDone(p)
    \/ RUnlock(p) \/ RClose(p)

-----------------------------------------------------------------------------
(* The end of a process: an uncaught error or a crash.  Its merge lock     *)
(* stays in sight until somebody clears it.                                *)

Exit(p) ==
    /\ pc[p] = "error" \/ (p \in MayCrash /\ pc[p] # "idle")
    /\ writeLock' = IF writeLock = p THEN None ELSE writeLock
    /\ mergeLock' = IF mergeLock = p THEN Stale ELSE mergeLock
    /\ deletionLock' = IF deletionLock = p THEN None ELSE deletionLock
    /\ readLock' = [readLock EXCEPT ![p] = 0]
    /\ IF deletionLock = p
       THEN goners' = {} /\ oldSnaps' = {} /\ zapJson' = FALSE /\ failures' = {}
       ELSE UNCHANGED purge
    /\ sure' = [sure EXCEPT ![p] = {}]
    /\ maybe' = [maybe EXCEPT ![p] = {}]
    /\ asOf' = [asOf EXCEPT ![p] = 0]
    /\ overtaken' = overtaken \ {p}
    /\ Goto(p, "idle")
    /\ Forget(p)
    /\ UNCHANGED <<folder, published>>

Next ==
    \/ \E p \in Indexers : IndexerStep(p) \/ Purge(p)
    \/ \E p \in Mergers : MergerStep(p) \/ Purge(p)
    \/ \E p \in Readers \cup Peekers : ReaderStep(p)
    \/ \E p \in Proc : Exit(p)

Spec == Init /\ [][Next]_vars

-----------------------------------------------------------------------------
(* Properties.                                                             *)

\* The index is always there: every segment that the latest snapshot lists
\* is on disk and finished, whatever purges, merges and crashes have done.
LatestIntact == LatestSegs \subseteq complete

\* A snapshot with a read lock keeps its file and its segments.
LockedIntact ==
    \A p \in Proc : readLock[p] # 0 => /\ snaps[readLock[p]] # NoFile
                                       /\ snaps[readLock[p]] \subseteq complete

\* Segments are written once: no session ever prepares or finishes the
\* directory of a segment that a snapshot has listed.
PublishedImmutable ==
    [][\A n \in published : /\ n \in dirs' => n \in dirs
                            /\ n \in complete' => n \in complete]_vars

\* Nothing published is forgotten: as long as its directory exists some
\* snapshot file lists the segment, so that a purge can still find it.
NothingLeaks == \A n \in published \cap dirs : \E g \in Present : n \in snaps[g]

\* The retry rule of PolyReader_do_open is right as long as the directory scan
\* is: a reader with a manager never gives up, and one without gives up, or
\* opens an index older than when it began, only if a snapshot was published
\* while it last scanned the directory.
ReadersSucceed ==
    /\ \A p \in Readers : pc[p] # "error"
    /\ \A p \in Peekers \ overtaken :
           pc[p] # "error" /\ (pc[p] = "open" => gen[p] >= asOf[p])

\* Whoever opens the index with a manager gets the snapshot that was the
\* latest when it began, or a later one.
ReadersUpToDate ==
    \A p \in Readers : pc[p] = "open" => gen[p] >= asOf[p]

\* "If not supplied, the most recent snapshot file will be used"
\* (PolyReader.cfh:39-40): also where there is no manager.
PeekersUpToDate ==
    \A p \in Peekers : pc[p] = "open" => gen[p] >= asOf[p]

\* "If not, we have a real exception" (PolyReader.c:425): no race with other
\* sessions is taken for a real error.
OnlyRealErrors == \A p \in Peekers : pc[p] # "error"

\* Generations only go up: a later session's snapshot outranks every one
\* before it.
LatestAdvances == [][Latest' >= Latest]_vars

\* The cutoff of a merger that is past MCutoff stays in merge.json until it
\* has published or given up, whatever other mergers remove.
CutoffStays ==
    \A m \in Mergers :
        pc[m] \in {"mUnlock", "mPrep", "mWrite", "mRelock", "mCarry",
                  "mPublish"} => mergeJson = seg[m]

\* Indexer.c: "If there's a background merge process going on, stay out of
\* its way", rather than fail.
IndexersStayOut == \A p \in Indexers : pc[p] # "error"

\* FilePurger.c: "Clean up after a dead segment consolidation."  When a
\* purge ends and no merger is there, merge.json is gone.
DeadMergesGo ==
    [][\A p \in Proc :
          PurgeEnd(p) /\ (\A m \in Mergers : pc[m] = "idle")
              => mergeJson = NoFile]_vars
-----------------------------------------------------------------------------
(* Why LatestIntact holds: an inductive invariant.  Whoever changes the    *)
(* latest snapshot or purges holds the write lock, so what a session has   *)
(* read of the latest snapshot stays true until it releases the lock.  A   *)
(* merger works without the lock; it relies on a read lock for the segments *)
(* it has read and on the cutoff for the one that it writes.               *)

\* Where a process is sure to hold the write lock, and the merge lock.
WritePCs == IndexerPCs \cup {"mLock", "mRead", "mZap0", "mSweep0", "mOpen",
                             "mCutoff", "mUnlock", "mCarry", "mPublish",
                             "mZap1", "mSweep1"}
MergePCs == {"mRead", "mEmpty", "mZap0", "mSweep0", "mOpen", "mCutoff",
             "mUnlock", "mPrep", "mWrite", "mRelock", "mCarry", "mPublish",
             "mUnmerge"}

\* Where a merger has not chosen the segments to merge.
EarlyPCs == {"idle", "mLock", "mRead", "mEmpty", "mZap0", "mSweep0", "mOpen",
             "mCutoff", "mUnlock", "mPrep"} \cup ReaderPCs

\* Where an Indexer, and a merger, has a segment that is not published yet.
WritingPCs == {"prep", "write", "recycle", "publish"}
WorkingPCs == {"mUnlock", "mPrep", "mWrite", "mRelock", "mCarry"}

\* A merger that has merged something, and has published it, still holds the
\* write lock when it gives the merge lock and merge.json back.
HasPublished(p) ==
    \/ pc[p] \in {"zap1", "sweep1", "mZap1", "mSweep1"}
    \/ pc[p] \in {"mUnmerge", "mUnjson"} /\ merging[p] # {}

LocksKept(p) ==
    /\ pc[p] \in WritePCs \/ HasPublished(p) => writeLock = p
    /\ pc[p] \in MergePCs => mergeLock = p
    /\ Sweeping(p) => deletionLock = p

\* What has been chosen when it is used.
Chosen(p) ==
    /\ pc[p] \in EarlyPCs => merging[p] = {}
    /\ pc[p] \in WritingPCs \cup WorkingPCs => seg[p] \in Segs
    /\ pc[p] = "rRead" => gen[p] \in Gens

\* Only the holder of the deletion lock has something to delete, and never
\* anything of the latest snapshot.
PurgeSafe ==
    /\ deletionLock = None \/ ~Sweeping(deletionLock)
           => goners = {} /\ oldSnaps = {}
    /\ goners \cap LatestSegs = {}
    /\ Latest \notin oldSnaps

\* No snapshot lists a segment beyond those of the latest one.
Ascending == \A g \in Present : \A n \in snaps[g] : n <= Highest(LatestSegs)

IndexerInv(p) ==
    /\ pc[p] \in {"zap0", "sweep0", "isLocked", "cutoff", "prep", "write",
                  "recycle"} => view[p] \subseteq LatestSegs
    /\ pc[p] \in WritingPCs => seg[p] > Highest(LatestSegs)
    /\ pc[p] = "publish" => /\ view[p] \subseteq complete
                            /\ view[p] \subseteq LatestSegs \cup {seg[p]}
                            /\ seg[p] \in view[p]

\* What a session has in memory is the latest snapshot when it purges.
PublishedInv(p) ==
    HasPublished(p) \/ pc[p] \in {"mZap0", "mSweep0", "mOpen", "mCutoff"}
        => /\ Latest # 0
           /\ gen[p] = Latest
           /\ view[p] = LatestSegs

\* The segments a merger started from are protected by its read lock ...
SourceInv(p) ==
    /\ pc[p] \in WorkingPCs \cup {"mCutoff"} => readLock[p] = gen[p]
    /\ pc[p] \in WorkingPCs =>
         /\ gen[p] \in Present /\ gen[p] \notin oldSnaps
         /\ snaps[gen[p]] \subseteq complete
         /\ goners \cap snaps[gen[p]] = {}
         /\ view[p] \subseteq snaps[gen[p]] \cup {seg[p]}

\* ... and the one it writes by its cutoff.
TargetInv(p) ==
    pc[p] \in WorkingPCs =>
        /\ \A n \in snaps[gen[p]] : n < seg[p]
        /\ \A g \in Present : seg[p] \notin snaps[g]
        /\ seg[p] \notin goners
        /\ mergeJson \in {NoFile, seg[p]}
        /\ gen[p] = Latest \/ seg[p] < Highest(LatestSegs)
        /\ \A q \in Proc : pc[q] \in WritingPCs => seg[p] < seg[q]
        /\ pc[p] \in {"mRelock", "mCarry"} =>
               seg[p] \in view[p] /\ seg[p] \in complete

MPublishInv(p) ==
    pc[p] = "mPublish" => /\ view[p] \subseteq complete
                          /\ Highest(LatestSegs) <= Highest(view[p])

SessionInv(p) == /\ LocksKept(p)
                 /\ Chosen(p)
                 /\ IndexerInv(p)
                 /\ PublishedInv(p)
                 /\ SourceInv(p)
                 /\ TargetInv(p)
                 /\ MPublishInv(p)

\* The index is always there (LatestIntact), for these reasons: purges of
\* FilePurger.c spare the latest snapshot, sessions write beyond it, and
\* nothing is published before it is finished.
IndexInv == /\ LatestIntact
            /\ PurgeSafe
            /\ Ascending
            /\ \A p \in Proc : SessionInv(p)
=============================================================================
