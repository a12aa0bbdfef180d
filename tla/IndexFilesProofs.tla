-------------------------- MODULE IndexFilesProofs --------------------------
(***************************************************************************)
(* What TLAPS proves of IndexFiles.tla, for any number of processes and    *)
(* any bounds: its variables keep their types; every segment that the      *)
(* latest snapshot, or one that is read locked, lists is on disk and       *)
(* finished; generations only go up; segments are written once; nothing    *)
(* published is forgotten by the purges; and readers get a snapshot as     *)
(* recent as they may expect, without fail.                                *)
(***************************************************************************)
EXTENDS IndexFiles, WellFoundedInduction, TLAPS

-----------------------------------------------------------------------------
(* The largest of a set of numbers.                                        *)

\* A set of naturals that is not empty has a least element.
LEMMA LeastNumber ==
    ASSUME NEW T \in SUBSET Nat, T # {}
    PROVE  \E x \in T : \A y \in T : x <= y
<1> DEFINE R == OpToRel(<, Nat)
<1>1. IsWellFoundedOn(R, Nat)
  BY NatLessThanWellFounded
<1>2. \A x, y \in Nat : <<y, x>> \in R <=> y < x
  BY DEF OpToRel
<1> HIDE DEF R
<1>3. PICK x \in T : \A y \in T : ~ (<<y, x>> \in R)
  BY <1>1, WFMin
<1>4. ASSUME NEW y \in T
      PROVE  x <= y
  <2>1. x \in Nat /\ y \in Nat
    OBVIOUS
  <2>2. ~ (<<y, x>> \in R)
    BY <1>3
  <2>3. ~ (y < x)
    BY <1>2, <2>1, <2>2, Zenon
  <2> QED
    BY <2>1, <2>3
<1> QED
  BY <1>4

\* Highest is an upper bound, and one of the numbers or 0.
LEMMA HighestIsHighest ==
    ASSUME NEW N \in Nat, NEW S \in SUBSET (1..N)
    PROVE  /\ Highest(S) \in S \cup {0}
           /\ Highest(S) \in 0..N
           /\ \A m \in S : m <= Highest(S)
<1> DEFINE T == {k \in Nat : \A m \in S : m <= k}
<1>1. N \in T
  OBVIOUS
<1>2. PICK x \in T : \A y \in T : x <= y
  BY <1>1, LeastNumber
<1>3. x \in S \cup {0}
  <2> SUFFICES ASSUME x # 0, x \notin S PROVE FALSE
    OBVIOUS
  <2>1. x - 1 \in T
    OBVIOUS
  <2> QED
    BY <2>1, <1>2
<1>4. \A m \in S : m <= x
  OBVIOUS
<1> HIDE DEF T
<1>5. Highest(S) \in S \cup {0} /\ \A m \in S : m <= Highest(S)
  BY <1>3, <1>4 DEF Highest
<1>6. \A y \in S \cup {0} : y \in 0..N
  OBVIOUS
<1> QED
  BY <1>5, <1>6

\* The only one.
LEMMA HighestIs ==
    ASSUME NEW N \in Nat, NEW S \in SUBSET (1..N), NEW x \in S,
           \A m \in S : m <= x
    PROVE  Highest(S) = x
<1>1. /\ Highest(S) \in S \cup {0}
      /\ Highest(S) \in 0..N
      /\ \A m \in S : m <= Highest(S)
  BY HighestIsHighest
<1>2. x <= Highest(S) /\ x \in 1..N
  BY <1>1
<1>3. Highest(S) \in S
  BY <1>1, <1>2
<1>4. Highest(S) <= x
  BY <1>3
<1> QED
  BY <1>1, <1>2, <1>4

-----------------------------------------------------------------------------
(* Types: steps keep them, as long as what they use has been chosen before *)
(* (Chosen in IndexFiles.tla).                                             *)

\* The latest snapshot is one of those that are present, if any is.
LEMMA LatestType ==
    ASSUME TypeOK
    PROVE  /\ Present \in SUBSET Gens
           /\ Latest \in Present \cup {0}
           /\ Latest \in Gens \cup {0}
           /\ \A g \in Present : g <= Latest /\ snaps[g] \in SUBSET Segs
           /\ LatestSegs \in SUBSET Segs
<1>1. Present \in SUBSET (1..MaxGen)
  BY DEF Present, Gens
<1>2. \A g \in Present : snaps[g] \in SUBSET Segs
  BY DEF TypeOK, Present
<1>3. /\ Highest(Present) \in Present \cup {0}
      /\ \A g \in Present : g <= Highest(Present)
  BY <1>1, BoundsAssumption, HighestIsHighest
<1>4. LatestSegs \in SUBSET Segs
  BY <1>2, <1>3 DEF Latest, LatestSegs
<1> QED
  BY <1>1, <1>2, <1>3, <1>4 DEF Latest, Gens

LEMMA HighestListed ==
    ASSUME TypeOK, NEW list \in SUBSET Segs
    PROVE  /\ Highest(list) \in Nat
           /\ Highest(list) \in list \cup {0}
           /\ \A n \in list : n \in Nat /\ n <= Highest(list)
<1>1. list \in SUBSET (1..MaxSeg)
  BY DEF Segs
<1> QED
  BY <1>1, BoundsAssumption, HighestIsHighest

LEMMA ListedType ==
    ASSUME TypeOK, NEW G \in SUBSET Present
    PROVE  ListedBy(G) \in SUBSET Segs
BY LatestType DEF ListedBy

\* Each of the steps of a purge keeps the types.
LEMMA PurgeTyped ==
    ASSUME TypeOK, NEW p \in Proc, Purge(p)
    PROVE  TypeOK'
<1> USE DEF TypeOK, folder, locks, purge, local, watch, Goto, Sweeping, Sweep,
            AfterSweep, AfterZap, IndexerPCs, MergerPCs, ReaderPCs
<1>1. CASE PurgeSkip(p)
  BY <1>1 DEF PurgeSkip
<1>2. CASE PurgeStart(p)
  <2>1. Unused(p) \in SUBSET Present /\ Unused(p) \in SUBSET Gens
    BY LatestType DEF Unused
  <2>2. ListedBy(Unused(p)) \in SUBSET Segs
    BY <2>1, ListedType
  <2>3. (IF DeadMerge THEN {mergeJson} ELSE {}) \in SUBSET Segs
    BY DEF DeadMerge
  <2>4. DeadMerge \in BOOLEAN
    BY DEF DeadMerge
  <2>5. goners' \in SUBSET Segs
    BY <1>2, <2>2, <2>3 DEF PurgeStart
  <2>6. pc' \in [Proc -> {"idle", "error"} \cup IndexerPCs \cup MergerPCs
                             \cup ReaderPCs]
    BY <1>2 DEF PurgeStart
  <2>7. zapJson' \in BOOLEAN /\ oldSnaps' \in SUBSET Gens
    BY <1>2, <2>1, <2>4 DEF PurgeStart
  <2> QED
    BY <1>2, <2>5, <2>6, <2>7 DEF PurgeStart
<1>3. CASE SweepSegment(p)
  BY <1>3 DEF SweepSegment
<1>4. CASE SweepSegmentFails(p)
  BY <1>4 DEF SweepSegmentFails
<1>5. CASE SweepMergeJson(p)
  BY <1>5 DEF SweepMergeJson
<1>6. CASE SweepSnapshot(p)
  BY <1>6 DEF SweepSnapshot
<1>7. CASE PurgeEnd(p)
  BY <1>7 DEF PurgeEnd
<1> QED
  BY <1>1, <1>2, <1>3, <1>4, <1>5, <1>6, <1>7 DEF Purge

\* Each of the steps of an Indexer session does.
LEMMA IndexerTyped ==
    ASSUME TypeOK, NEW p \in Proc, Chosen(p), IndexerStep(p)
    PROVE  TypeOK'
<1> USE DEF TypeOK, folder, locks, purge, local, watch, Goto, IndexerPCs,
            MergerPCs, ReaderPCs
<1>1. CASE IxBegin(p)
  BY <1>1, LatestType DEF IxBegin
<1>2. CASE IxIsLocked(p)
  BY <1>2 DEF IxIsLocked
<1>3. CASE IxCutoff(p)
  BY <1>3 DEF IxCutoff
<1>4. CASE IxPrep(p)
  <2>1. seg[p] \in Segs
    BY <1>4 DEF IxPrep, Chosen, WritingPCs
  <2> QED
    BY <1>4, <2>1 DEF IxPrep, PrepSegDir
<1>5. CASE IxMergeLock(p)
  BY <1>5 DEF IxMergeLock
<1>6. CASE IxFinish(p)
  <2>1. seg[p] \in Segs
    BY <1>6 DEF IxFinish, Chosen, WritingPCs
  <2>2. \A old : (view[p] \ old) \cup {seg[p]} \in SUBSET Segs
    BY <2>1
  <2>3. view' \in [Proc -> SUBSET Segs]
    BY <1>6, <2>2 DEF IxFinish
  <2> QED
    BY <1>6, <2>1, <2>3 DEF IxFinish, Finish
<1>7. CASE IxNothing(p)
  BY <1>7 DEF IxNothing
<1>8. CASE IxPublish(p)
  BY <1>8 DEF IxPublish, Publish
<1>9. CASE IxAbandon(p)
  BY <1>9 DEF IxAbandon
<1>10. CASE IxUnmerge(p)
  BY <1>10 DEF IxUnmerge
<1>11. CASE IxUnlock(p)
  BY <1>11 DEF IxUnlock, Forget
<1> QED
  BY <1>1, <1>2, <1>3, <1>4, <1>5, <1>6, <1>7, <1>8, <1>9, <1>10, <1>11
  DEF IndexerStep

\* Each of the steps of a merger does.
LEMMA MergerTyped ==
    ASSUME TypeOK, NEW p \in Proc, Chosen(p), MergerStep(p)
    PROVE  TypeOK'
<1> USE DEF TypeOK, folder, locks, purge, local, watch, Goto, IndexerPCs,
            MergerPCs, ReaderPCs
<1>1. CASE MBegin(p)
  BY <1>1 DEF MBegin
<1>2. CASE MLock(p)
  BY <1>2 DEF MLock
<1>3. CASE MRead(p)
  BY <1>3, LatestType DEF MRead
<1>4. CASE MEmpty(p)
  BY <1>4 DEF MEmpty
<1>5. CASE MOpen(p)
  BY <1>5 DEF MOpen
<1>6. CASE MCutoff(p)
  BY <1>6 DEF MCutoff
<1>7. CASE MUnlock(p)
  BY <1>7 DEF MUnlock
<1>8. CASE MSkip(p)
  BY <1>8 DEF MSkip
<1>9. CASE MPrep(p)
  <2>1. seg[p] \in Segs
    BY <1>9 DEF MPrep, Chosen, WorkingPCs
  <2> QED
    BY <1>9, <2>1 DEF MPrep, PrepSegDir
<1>10. CASE MWrite(p)
  <2>1. seg[p] \in Segs
    BY <1>10 DEF MWrite, Chosen, WorkingPCs
  <2> QED
    BY <1>10, <2>1 DEF MWrite, Finish
<1>11. CASE MRelock(p)
  BY <1>11 DEF MRelock
<1>12. CASE MCarryNothing(p)
  BY <1>12 DEF MCarryNothing
<1>13. CASE MCarry(p)
  BY <1>13, LatestType DEF MCarry, Finish
<1>14. CASE MCarryFails(p)
  BY <1>14 DEF MCarryFails
<1>15. CASE MPublish(p)
  BY <1>15 DEF MPublish, Publish
<1>16. CASE MAbandon(p)
  BY <1>16 DEF MAbandon
<1>17. CASE MUnmerge(p)
  BY <1>17 DEF MUnmerge
<1>18. CASE MUnjson(p)
  BY <1>18 DEF MUnjson
<1>19. CASE MDone(p)
  BY <1>19 DEF MDone, Forget
<1> QED
  BY <1>1, <1>2, <1>3, <1>4, <1>5, <1>6, <1>7, <1>8, <1>9, <1>10, <1>11,
     <1>12, <1>13, <1>14, <1>15, <1>16, <1>17, <1>18, <1>19 DEF MergerStep

\* Each of the steps of a reader, and the end of a process, does.
LEMMA ReaderTyped ==
    ASSUME TypeOK, NEW p \in Proc, Chosen(p), ReaderStep(p)
    PROVE  TypeOK'
<1> USE DEF TypeOK, folder, locks, purge, local, watch, Goto, IndexerPCs,
            MergerPCs, ReaderPCs
<1>1. CASE RBegin(p)
  BY <1>1, LatestType DEF RBegin
<1>2. CASE RScanBegin(p)
  BY <1>2, LatestType DEF RScanBegin
<1>3. CASE RScanEnd(p)
  <2>1. PICK chance \in SUBSET (maybe[p] \ sure[p]) :
            Pick(p, Highest(sure[p] \cup chance))
    BY <1>3 DEF RScanEnd
  <2> DEFINE g == Highest(sure[p] \cup chance)
  <2>2. sure[p] \cup chance \in SUBSET (1..MaxGen)
    BY DEF Gens
  <2>3. g \in 0..MaxGen
    BY <2>2, BoundsAssumption, HighestIsHighest
  <2>4. g \in Gens \cup {0}
    BY <2>3, BoundsAssumption DEF Gens
  <2> HIDE DEF g
  <2>5. /\ sure' \in [Proc -> SUBSET Gens]
        /\ maybe' \in [Proc -> SUBSET Gens]
    BY <1>3 DEF RScanEnd
  <2>6. Pick(p, g)
    BY <2>1 DEF g
  <2> QED
    BY <2>4, <2>5, <2>6 DEF Pick
<1>4. CASE RRead(p)
  <2>1. gen[p] \in Gens
    BY <1>4 DEF RRead, Chosen
  <2>2. snaps[gen[p]] \in SUBSET Segs
    BY <1>4, <2>1 DEF RRead
  <2> QED
    BY <1>4, <2>2 DEF RRead
<1>5. CASE RReadFails(p)
  BY <1>5 DEF RReadFails, Reopen, IsNews
<1>6. CASE ROpenSegment(p)
  BY <1>6 DEF ROpenSegment
<1>7. CASE ROpenFails(p)
  BY <1>7 DEF ROpenFails, Reopen, IsNews
<1>8. CASE ROpenDone(p)
  BY <1>8 DEF ROpenDone
<1>9. CASE RUnlock(p)
  BY <1>9 DEF RUnlock
<1>10. CASE RClose(p)
  BY <1>10 DEF RClose, Forget
<1> QED
  BY <1>1, <1>2, <1>3, <1>4, <1>5, <1>6, <1>7, <1>8, <1>9, <1>10
  DEF ReaderStep

LEMMA ExitTyped ==
    ASSUME TypeOK, NEW p \in Proc, Exit(p)
    PROVE  TypeOK'
BY DEF TypeOK, Exit, Forget, folder, locks, purge, local, watch, Goto,
       IndexerPCs, MergerPCs, ReaderPCs

-----------------------------------------------------------------------------
(* What a step leaves alone.                                               *)

LEMMA SnapsFrame ==
    ASSUME UNCHANGED snaps
    PROVE  /\ Present' = Present
           /\ Latest' = Latest
           /\ LatestSegs' = LatestSegs
BY DEF Present, Latest, LatestSegs

\* These segments may go as far as q is concerned.
Unneeded(q, gone) ==
    /\ pc[q] \in {"publish", "mPublish"} => gone \cap view[q] = {}
    /\ pc[q] \in WorkingPCs => gone \cap (snaps[gen[q]] \cup {seg[q]}) = {}

\* The step of another process keeps what is known of q, if no snapshot comes
\* or goes and nothing more is to be purged.
LEMMA OthersFrame ==
    ASSUME NEW q \in Proc, SessionInv(q), NEW gone,
           UNCHANGED snaps,
           goners' \subseteq goners,
           oldSnaps' \subseteq oldSnaps,
           complete \ gone \subseteq complete',
           Unneeded(q, gone),
           pc[q] \in WorkingPCs => mergeJson' \in {mergeJson, NoFile},
           pc'[q] = pc[q], view'[q] = view[q], gen'[q] = gen[q],
           seg'[q] = seg[q], merging'[q] = merging[q],
           readLock'[q] = readLock[q],
           writeLock = q => writeLock' = q,
           mergeLock = q => mergeLock' = q,
           deletionLock = q => deletionLock' = q,
           pc[q] \in WorkingPCs =>
               \A r \in Proc : pc'[r] \in WritingPCs => seg[q] < seg'[r]
    PROVE  SessionInv(q)'
<1>1. /\ Present' = Present
      /\ Latest' = Latest
      /\ LatestSegs' = LatestSegs
  BY SnapsFrame
<1>2. LocksKept(q)' /\ Chosen(q)'
  BY DEF SessionInv, LocksKept, Chosen, HasPublished, Sweeping
<1>3. IndexerInv(q)'
  BY <1>1 DEF SessionInv, IndexerInv, Unneeded
<1>4. PublishedInv(q)'
  BY <1>1 DEF SessionInv, PublishedInv, HasPublished
<1>5. SourceInv(q)'
  BY <1>1 DEF SessionInv, SourceInv, Unneeded
<1>6. TargetInv(q)'
  BY <1>1 DEF SessionInv, TargetInv, Unneeded
<1>7. MPublishInv(q)'
  BY <1>1 DEF SessionInv, MPublishInv, Unneeded
<1> QED
  BY <1>2, <1>3, <1>4, <1>5, <1>6, <1>7 DEF SessionInv

\* A step of p that touches nobody else's memory or locks.
OnlyMoves(p) ==
    \A q \in Proc \ {p} :
        /\ pc'[q] = pc[q] /\ view'[q] = view[q] /\ gen'[q] = gen[q]
        /\ seg'[q] = seg[q] /\ merging'[q] = merging[q]
        /\ readLock'[q] = readLock[q]
        /\ writeLock = q => writeLock' = q
        /\ mergeLock = q => mergeLock' = q
        /\ deletionLock = q => deletionLock' = q

\* A step that neither adds nor removes a snapshot keeps the invariant if it
\* keeps it for the process itself, and deletes only what the others and the
\* latest snapshot do not need.
LEMMA StableStep ==
    ASSUME TypeOK, IndexInv, NEW p \in Proc, OnlyMoves(p), NEW gone,
           UNCHANGED snaps,
           goners' \subseteq goners,
           oldSnaps' \subseteq oldSnaps,
           complete \ gone \subseteq complete',
           gone \cap LatestSegs = {},
           \A q \in Proc \ {p} : Unneeded(q, gone),
           \A q \in Proc \ {p} : pc[q] \in WorkingPCs =>
               mergeJson' \in {mergeJson, NoFile},
           \/ goners' = {} /\ oldSnaps' = {}
           \/ deletionLock' = deletionLock /\ (pc'[p] = pc[p] \/ ~Sweeping(p)),
           \A q \in Proc : pc[q] \in WorkingPCs /\ pc'[p] \in WritingPCs
                               => seg[q] < seg'[p],
           SessionInv(p)'
    PROVE  IndexInv'
<1>1. /\ Present' = Present
      /\ Latest' = Latest
      /\ LatestSegs' = LatestSegs
  BY SnapsFrame
<1>2. LatestIntact' /\ Ascending'
  BY <1>1 DEF IndexInv, LatestIntact, Ascending
<1>3. PurgeSafe'
  BY <1>1 DEF TypeOK, IndexInv, PurgeSafe, OnlyMoves, Sweeping
<1>4. ASSUME NEW q \in Proc, q # p
      PROVE  SessionInv(q)'
  <2>1. SessionInv(q)
    BY DEF IndexInv
  <2>2. pc[q] \in WorkingPCs =>
            \A r \in Proc : pc'[r] \in WritingPCs => seg[q] < seg'[r]
    BY <1>4, <2>1 DEF SessionInv, TargetInv, OnlyMoves
  <2> QED
    BY <1>4, <2>1, <2>2, OthersFrame DEF OnlyMoves
<1> QED
  BY <1>2, <1>3, <1>4 DEF IndexInv

\* In particular one that deletes nothing at all.
LEMMA QuietStep ==
    ASSUME TypeOK, IndexInv, NEW p \in Proc, OnlyMoves(p),
           UNCHANGED <<snaps, goners, oldSnaps>>,
           complete \subseteq complete',
           \A q \in Proc \ {p} : pc[q] \in WorkingPCs =>
               mergeJson' \in {mergeJson, NoFile},
           \/ goners = {} /\ oldSnaps = {}
           \/ deletionLock' = deletionLock /\ ~Sweeping(p),
           \A q \in Proc : pc[q] \in WorkingPCs /\ pc'[p] \in WritingPCs
                               => seg[q] < seg'[p],
           SessionInv(p)'
    PROVE  IndexInv'
<1>1. \A q \in Proc : Unneeded(q, {})
  BY DEF Unneeded
<1> QED
  BY <1>1, StableStep

\* A new snapshot keeps the invariant if all it lists is finished, it goes as
\* far as the one before, and what mergers are working on is neither in it
\* nor beyond it.
LEMMA PublishStep ==
    ASSUME TypeOK, IndexInv, NEW p \in Proc, writeLock = p,
           pc[p] \in {"publish", "mPublish"},
           NextGen \in Gens,
           snaps' = [snaps EXCEPT ![NextGen] = view[p]],
           gen' = [gen EXCEPT ![p] = NextGen],
           pc' = [pc EXCEPT ![p] =
                      IF pc[p] = "publish" THEN "zap1" ELSE "mUnmerge"],
           UNCHANGED <<complete, mergeJson, locks, view, seg, merging, goners,
                       oldSnaps>>,
           view[p] \subseteq complete,
           Highest(LatestSegs) <= Highest(view[p]),
           \A q \in Proc \ {p} : pc[q] \in WorkingPCs =>
               seg[q] \notin view[p] /\ seg[q] < Highest(view[p])
    PROVE  IndexInv'
<1> USE DEF locks, LocksKept, HasPublished, IndexerPCs, WritePCs, MergePCs,
            WritingPCs, WorkingPCs, Sweeping, AfterSweep
<1>1. /\ view[p] \in SUBSET Segs
      /\ LatestSegs \in SUBSET Segs
      /\ Highest(view[p]) \in Nat /\ Highest(LatestSegs) \in Nat
      /\ \A n \in view[p] : n \in Nat /\ n <= Highest(view[p])
  BY LatestType, HighestListed DEF TypeOK
<1>2. /\ Present \in SUBSET (1..MaxGen)
      /\ NextGen \in 1..MaxGen /\ MaxGen \in Nat
      /\ \A g \in Present : g < NextGen
  <2>1. /\ Latest \in 0..MaxGen
        /\ \A g \in Present : g \in 1..MaxGen /\ g <= Latest
    BY LatestType, BoundsAssumption DEF Gens
  <2> QED
    BY <2>1, LatestType, BoundsAssumption DEF Gens, NextGen
<1>3. Present' = Present \cup {NextGen}
  <2>1. view[p] # NoFile
    BY <1>1, ProcAssumption
  <2> QED
    BY <2>1 DEF TypeOK, Present
<1>4. Latest' = NextGen
  <2>1. \A g \in Present \cup {NextGen} : g <= NextGen
    BY <1>2
  <2>2. Highest(Present \cup {NextGen}) = NextGen
    BY <1>2, <2>1, HighestIs
  <2> QED
    BY <1>3, <2>2 DEF Latest, Highest
<1>5. LatestSegs' = view[p]
  BY <1>2, <1>4 DEF TypeOK, LatestSegs
<1>6. \A g \in Present : snaps'[g] = snaps[g]
  BY <1>2, LatestType DEF TypeOK
<1>7. goners = {} /\ oldSnaps = {}
  <2>1. \A q \in Proc \ {p} : ~Sweeping(q)
    BY DEF IndexInv, SessionInv
  <2>2. ~Sweeping(p)
    OBVIOUS
  <2> QED
    BY <2>1, <2>2 DEF TypeOK, IndexInv, PurgeSafe
<1>8. LatestIntact'
  BY <1>5 DEF LatestIntact
<1>9. PurgeSafe'
  BY <1>7 DEF PurgeSafe
<1>10. Ascending'
  <2>1. Highest(LatestSegs') = Highest(view[p])
    BY <1>5
  <2>2. ASSUME NEW g \in Present, NEW n \in snaps[g]
        PROVE  n <= Highest(view[p])
    <3>1. n \in Nat
      BY LatestType DEF Segs
    <3>2. n <= Highest(LatestSegs)
      BY DEF IndexInv, Ascending
    <3> QED
      BY <1>1, <3>1, <3>2
  <2>3. \A n \in snaps'[NextGen] : n <= Highest(view[p])
    BY <1>1 DEF TypeOK
  <2>4. \A g \in Present' : \A n \in snaps'[g] : n <= Highest(view[p])
    BY <1>3, <1>6, <2>2, <2>3
  <2> QED
    BY <1>5, <2>4 DEF Ascending, Highest
<1>11. SessionInv(p)'
  <2>1. SessionInv(p)
    BY DEF IndexInv
  <2>2. pc'[p] = (IF pc[p] = "publish" THEN "zap1" ELSE "mUnmerge")
        /\ gen'[p] = NextGen
    BY DEF TypeOK
  <2>3. LocksKept(p)' /\ Chosen(p)'
    BY <2>1, <2>2 DEF SessionInv, Chosen, EarlyPCs, ReaderPCs
  <2>4. PublishedInv(p)'
    BY <1>2, <1>4, <1>5, <2>2 DEF PublishedInv
  <2> QED
    BY <2>2, <2>3, <2>4
    DEF SessionInv, IndexerInv, SourceInv, TargetInv, MPublishInv
<1>12. ASSUME NEW q \in Proc, q # p
       PROVE  SessionInv(q)'
  <2>1. SessionInv(q) /\ pc'[q] = pc[q] /\ gen'[q] = gen[q]
    BY <1>12 DEF IndexInv, TypeOK
  <2>2. pc[q] \notin WritePCs /\ ~HasPublished(q)
    BY <1>12, <2>1 DEF SessionInv
  <2>3. LocksKept(q)' /\ Chosen(q)'
    BY <2>1 DEF SessionInv, Chosen
  <2>4. IndexerInv(q)' /\ PublishedInv(q)' /\ MPublishInv(q)'
    BY <2>1, <2>2 DEF IndexerInv, PublishedInv, MPublishInv
  <2>5. SourceInv(q)'
    BY <1>3, <1>6, <1>7, <2>1, <2>2 DEF SessionInv, SourceInv
  <2>6. ASSUME pc[q] \in WorkingPCs
        PROVE  TargetInv(q)'
    <3>1. seg[q] \notin view[p] /\ seg[q] < Highest(view[p])
      BY <1>12, <2>6
    <3>2. gen[q] \in Present
      BY <2>1, <2>6 DEF SessionInv, SourceInv
    <3>3. \A g \in Present' : seg[q] \notin snaps'[g]
      BY <1>3, <1>6, <2>1, <2>6, <3>1 DEF TypeOK, SessionInv, TargetInv
    <3>4. \A r \in Proc : pc'[r] \in WritingPCs => pc[r] \in WritingPCs
      BY DEF TypeOK
    <3>5. seg[q] < Highest(LatestSegs)'
      BY <1>5, <3>1 DEF Highest
    <3> QED
      BY <1>6, <1>7, <2>1, <2>6, <3>2, <3>3, <3>4, <3>5
      DEF SessionInv, TargetInv
  <2>7. TargetInv(q)'
    BY <2>1, <2>6 DEF TargetInv
  <2> QED
    BY <2>3, <2>4, <2>5, <2>7 DEF SessionInv
<1> QED
  BY <1>8, <1>9, <1>10, <1>11, <1>12 DEF IndexInv

-----------------------------------------------------------------------------
(* An Indexer session.                                                     *)

\* A merger at work keeps the merge lock from everybody else.
LEMMA IndexerKeeps ==
    ASSUME TypeOK, IndexInv, NEW p \in Proc, IndexerStep(p)
    PROVE  IndexInv'
<1> USE DEF folder, locks, purge, local, watch, Goto, LocksKept, Chosen,
            IndexerInv, PublishedInv, HasPublished, SourceInv, TargetInv,
            MPublishInv, Sweeping, AfterSweep, IndexerPCs, ReaderPCs,
            WritePCs, MergePCs, EarlyPCs, WritingPCs, WorkingPCs
<1>0. SessionInv(p)
  BY DEF IndexInv
<1>h. /\ Highest(LatestSegs) \in Nat
      /\ \A n \in LatestSegs : n \in Nat /\ n <= Highest(LatestSegs)
  BY LatestType, HighestListed
<1>1. CASE IxBegin(p)
  <2>1. LatestSegs' = LatestSegs
    BY <1>1, SnapsFrame DEF IxBegin
  <2>2. OnlyMoves(p)
    BY <1>1, ProcAssumption DEF TypeOK, IxBegin, OnlyMoves
  <2>3. pc'[p] = "zap0" /\ writeLock' = p /\ view'[p] \subseteq LatestSegs'
    BY <1>1, <2>1 DEF TypeOK, IxBegin
  <2>4. SessionInv(p)'
    BY <2>3 DEF SessionInv
  <2> QED
    BY <1>1, <2>2, <2>3, <2>4, QuietStep DEF IxBegin
<1>2. CASE IxIsLocked(p)
  <2>1. LatestSegs' = LatestSegs
    BY <1>2, SnapsFrame DEF IxIsLocked
  <2>2. OnlyMoves(p)
    BY <1>2 DEF TypeOK, IxIsLocked, OnlyMoves
  <2>3. \/ pc'[p] = "cutoff"
        \/ /\ pc'[p] = "prep"
           /\ seg'[p] \in Segs /\ seg'[p] = Highest(LatestSegs) + 1
           /\ mergeLock = None
    BY <1>2 DEF TypeOK, IxIsLocked
  <2>4. view' = view /\ writeLock' = writeLock /\ pc[p] = "isLocked"
    BY <1>2 DEF IxIsLocked
  <2>5. SessionInv(p)'
    BY <1>0, <1>h, <2>1, <2>3, <2>4 DEF SessionInv
  <2>6. \A q \in Proc : pc[q] \in WorkingPCs => mergeLock = q
    BY DEF IndexInv, SessionInv
  <2> QED
    BY <1>2, <2>2, <2>3, <2>4, <2>5, <2>6, QuietStep, ProcAssumption
    DEF IxIsLocked
<1>3. CASE IxCutoff(p)
  <2>1. LatestSegs' = LatestSegs
    BY <1>3, SnapsFrame DEF IxCutoff
  <2>2. OnlyMoves(p)
    BY <1>3 DEF TypeOK, IxCutoff, OnlyMoves
  <2>3. \/ pc'[p] = "error"
        \/ /\ pc'[p] = "prep"
           /\ mergeJson \in Segs
           /\ seg'[p] \in Segs /\ seg'[p] = Past(mergeJson)
    BY <1>3 DEF TypeOK, IxCutoff
  <2>4. view' = view /\ writeLock' = writeLock /\ pc[p] = "cutoff"
    BY <1>3 DEF IxCutoff
  <2>5. mergeJson \in Segs =>
            Past(mergeJson) > Highest(LatestSegs) /\ Past(mergeJson) > mergeJson
    BY <1>h, BoundsAssumption DEF Past, Segs
  <2>6. SessionInv(p)'
    BY <1>0, <2>1, <2>3, <2>4, <2>5 DEF SessionInv
  <2>7. \A q \in Proc : pc[q] \in WorkingPCs => mergeJson \in {NoFile, seg[q]}
    BY DEF IndexInv, SessionInv
  <2>8. \A q \in Proc : pc[q] \in WorkingPCs /\ pc'[p] \in WritingPCs
                            => seg[q] < seg'[p]
    BY <2>3, <2>5, <2>7, ProcAssumption
  <2> QED
    BY <1>3, <2>2, <2>4, <2>6, <2>8, QuietStep DEF IxCutoff
<1>4. CASE IxPrep(p)
  <2>1. LatestSegs' = LatestSegs
    BY <1>4, SnapsFrame DEF IxPrep
  <2>2. OnlyMoves(p)
    BY <1>4 DEF TypeOK, IxPrep, OnlyMoves
  <2>3. pc[p] = "prep" /\ pc'[p] = "write"
    BY <1>4 DEF TypeOK, IxPrep
  <2>4. /\ writeLock = p
        /\ seg[p] \in Segs /\ seg[p] > Highest(LatestSegs)
    BY <1>0, <2>3 DEF SessionInv
  <2>5. SessionInv(p)'
    BY <1>0, <1>4, <2>1, <2>3 DEF SessionInv, IxPrep
  <2>6. complete \ {seg[p]} \subseteq complete'
    BY <1>4 DEF IxPrep, PrepSegDir
  <2>7. {seg[p]} \cap LatestSegs = {}
    BY <1>h, <2>4 DEF Segs
  <2>8. ASSUME NEW q \in Proc \ {p}
        PROVE  Unneeded(q, {seg[p]})
    <3>1. SessionInv(q)
      BY DEF IndexInv
    <3>2. pc[q] \notin {"publish", "mPublish"}
      BY <2>4, <3>1 DEF SessionInv
    <3>3. CASE pc[q] \in WorkingPCs
      <4>1. seg[q] \in Segs /\ seg[q] < seg[p] /\ gen[q] \in Present
        BY <2>3, <3>1, <3>3 DEF SessionInv
      <4>2. \A n \in snaps[gen[q]] : n <= Highest(LatestSegs)
        BY <4>1 DEF IndexInv, Ascending
      <4> QED
        BY <1>h, <2>4, <3>2, <4>1, <4>2 DEF Unneeded, Segs
    <3> QED
      BY <3>2, <3>3 DEF Unneeded
  <2>9. \A q \in Proc : pc[q] \in WorkingPCs => seg[q] < seg[p]
    BY <2>3 DEF IndexInv, SessionInv
  <2> QED
    BY <1>4, <2>2, <2>3, <2>5, <2>6, <2>7, <2>8, <2>9, StableStep DEF IxPrep
<1>5. CASE IxMergeLock(p)
  <2>1. LatestSegs' = LatestSegs
    BY <1>5, SnapsFrame DEF IxMergeLock
  <2>2. OnlyMoves(p)
    BY <1>5, ProcAssumption DEF TypeOK, IxMergeLock, OnlyMoves
  <2>3. pc[p] = "write" /\ pc'[p] = "recycle"
    BY <1>5 DEF TypeOK, IxMergeLock
  <2>4. SessionInv(p)'
    BY <1>0, <1>5, <2>1, <2>3 DEF SessionInv, IxMergeLock
  <2>5. \A q \in Proc : pc[q] \in WorkingPCs => seg[q] < seg[p]
    BY <2>3 DEF IndexInv, SessionInv
  <2> QED
    BY <1>5, <2>2, <2>3, <2>4, <2>5, QuietStep DEF IxMergeLock
<1>6. CASE IxFinish(p)
  <2>1. LatestSegs' = LatestSegs
    BY <1>6, SnapsFrame DEF IxFinish
  <2>2. OnlyMoves(p)
    BY <1>6 DEF TypeOK, IxFinish, OnlyMoves
  <2>3. pc[p] = "recycle" /\ pc'[p] = "publish"
    BY <1>6 DEF TypeOK, IxFinish
  <2>4. view[p] \subseteq LatestSegs /\ LatestSegs \subseteq complete
    BY <1>0, <2>3 DEF SessionInv, IndexInv, LatestIntact
  <2>5. PICK old \in SUBSET Recyclable(p) :
            view' = [view EXCEPT ![p] = (@ \ old) \cup {seg[p]}]
    BY <1>6 DEF IxFinish
  <2>6. view'[p] = (view[p] \ old) \cup {seg[p]}
    BY <2>5 DEF TypeOK
  <2>7. SessionInv(p)'
    BY <1>0, <1>6, <2>1, <2>3, <2>4, <2>6 DEF SessionInv, IxFinish, Finish
  <2>8. \A q \in Proc : pc[q] \in WorkingPCs => seg[q] < seg[p]
    BY <2>3 DEF IndexInv, SessionInv
  <2> QED
    BY <1>6, <2>2, <2>3, <2>7, <2>8, QuietStep DEF IxFinish, Finish
<1>7. CASE IxNothing(p) \/ IxAbandon(p)
  <2>1. OnlyMoves(p)
    BY <1>7 DEF TypeOK, IxNothing, IxAbandon, OnlyMoves
  <2>2. pc[p] \in {"write", "recycle", "publish"} /\ pc'[p] = "unmerge"
    BY <1>7 DEF TypeOK, IxNothing, IxAbandon
  <2>3. SessionInv(p)'
    BY <1>0, <1>7, <2>2 DEF SessionInv, IxNothing, IxAbandon
  <2> QED
    BY <1>7, <2>1, <2>2, <2>3, QuietStep DEF IxNothing, IxAbandon
<1>8. CASE IxPublish(p)
  <2>1. pc[p] = "publish" /\ NextGen \in Gens
    BY <1>8 DEF IxPublish
  <2>2. /\ writeLock = p
        /\ view[p] \subseteq complete
        /\ view[p] \subseteq LatestSegs \cup {seg[p]}
        /\ seg[p] \in view[p]
        /\ seg[p] > Highest(LatestSegs) /\ seg[p] \in Segs
    BY <1>0, <2>1 DEF SessionInv
  <2>3. Highest(view[p]) = seg[p]
    <3>1. \A n \in view[p] : n <= seg[p]
      BY <1>h, <2>2 DEF Segs
    <3>2. view[p] \in SUBSET (1..MaxSeg) /\ MaxSeg \in Nat
      BY BoundsAssumption DEF TypeOK, Segs
    <3> QED
      BY <2>2, <3>1, <3>2, HighestIs
  <2>4. ASSUME NEW q \in Proc, q # p, pc[q] \in WorkingPCs
        PROVE  seg[q] \notin view[p] /\ seg[q] < seg[p]
    <3>1. TargetInv(q) /\ seg[q] \in Nat
      BY <2>4 DEF TypeOK, IndexInv, SessionInv, Segs
    <3>2. seg[q] < seg[p] /\ \A g \in Present : seg[q] \notin snaps[g]
      BY <2>1, <2>4, <3>1
    <3>3. seg[q] \notin LatestSegs
      BY <3>2, LatestType DEF LatestSegs
    <3> QED
      BY <2>2, <3>1, <3>2, <3>3 DEF Segs
  <2>5. Highest(LatestSegs) <= seg[p]
    BY <1>h, <2>2 DEF Segs
  <2> QED
    BY <1>8, <2>1, <2>2, <2>3, <2>4, <2>5, PublishStep DEF IxPublish, Publish
<1>9. CASE IxUnmerge(p)
  <2>1. OnlyMoves(p)
    BY <1>9 DEF TypeOK, IxUnmerge, OnlyMoves
  <2>2. pc[p] = "unmerge" /\ pc'[p] = "unlock"
    BY <1>9 DEF TypeOK, IxUnmerge
  <2>3. SessionInv(p)'
    BY <1>0, <1>9, <2>2 DEF SessionInv, IxUnmerge
  <2> QED
    BY <1>9, <2>1, <2>2, <2>3, QuietStep DEF IxUnmerge
<1>10. CASE IxUnlock(p)
  <2>1. pc[p] = "unlock" /\ pc'[p] = "idle" /\ merging'[p] = {}
    BY <1>10 DEF TypeOK, IxUnlock, Forget
  <2>2. writeLock = p
    BY <1>0, <2>1 DEF SessionInv
  <2>3. OnlyMoves(p)
    BY <1>10, <2>2 DEF TypeOK, IxUnlock, OnlyMoves, Forget
  <2>4. SessionInv(p)'
    BY <2>1 DEF SessionInv
  <2> QED
    BY <1>10, <2>1, <2>3, <2>4, QuietStep DEF IxUnlock
<1> QED
  BY <1>1, <1>2, <1>3, <1>4, <1>5, <1>6, <1>7, <1>8, <1>9, <1>10
  DEF IndexerStep

-----------------------------------------------------------------------------
(* A merger's session.                                                     *)

LEMMA MergerKeeps ==
    ASSUME TypeOK, IndexInv, NEW p \in Proc, MergerStep(p)
    PROVE  IndexInv'
<1> USE DEF folder, locks, purge, local, watch, Goto, LocksKept, Chosen,
            IndexerInv, PublishedInv, HasPublished, SourceInv, TargetInv,
            MPublishInv, Sweeping, AfterSweep, IndexerPCs, ReaderPCs,
            WritePCs, MergePCs, EarlyPCs, WritingPCs, WorkingPCs
<1>0. SessionInv(p)
  BY DEF IndexInv
<1>h. /\ LatestSegs \in SUBSET Segs
      /\ Highest(LatestSegs) \in Nat
      /\ Highest(LatestSegs) \in LatestSegs \cup {0}
      /\ \A n \in LatestSegs : n \in Nat /\ n <= Highest(LatestSegs)
  BY LatestType, HighestListed
\* Two mergers are never both at work.
<1>m. mergeLock = p =>
          \A q \in Proc \ {p} : pc[q] \notin WorkingPCs \cup {"mPublish"}
  BY DEF IndexInv, SessionInv
<1>1. CASE MBegin(p)
  <2>1. LatestSegs' = LatestSegs
    BY <1>1, SnapsFrame DEF MBegin
  <2>2. pc[p] = "idle" /\ pc'[p] = "mLock"
    BY <1>1 DEF TypeOK, MBegin
  <2>3. OnlyMoves(p)
    BY <1>0, <1>1, <2>2, ProcAssumption
    DEF TypeOK, SessionInv, MBegin, OnlyMoves
  <2>4. SessionInv(p)'
    BY <1>0, <1>h, <1>1, <2>1, <2>2
    DEF TypeOK, SessionInv, MBegin
  <2> QED
    BY <1>1, <2>2, <2>3, <2>4, QuietStep DEF MBegin
<1>2. CASE MLock(p)
  <2>1. LatestSegs' = LatestSegs
    BY <1>2, SnapsFrame DEF MLock
  <2>2. pc[p] = "mLock" /\ pc'[p] \in {"mRead", "idle"}
    BY <1>2 DEF TypeOK, MLock
  <2>3. OnlyMoves(p)
    BY <1>0, <1>2, <2>2, ProcAssumption
    DEF TypeOK, SessionInv, MLock, OnlyMoves
  <2>4. SessionInv(p)'
    BY <1>0, <1>h, <1>2, <2>1, <2>2
    DEF TypeOK, SessionInv, MLock
  <2> QED
    BY <1>2, <2>2, <2>3, <2>4, QuietStep DEF MLock
<1>3. CASE MRead(p)
  <2>1. Latest' = Latest /\ LatestSegs' = LatestSegs
    BY <1>3, SnapsFrame DEF MRead
  <2>2. pc[p] = "mRead" /\ pc'[p] \in {"mEmpty", "mZap0"}
    BY <1>3 DEF TypeOK, MRead
  <2>3. OnlyMoves(p)
    BY <1>0, <1>3, <2>2, ProcAssumption
    DEF TypeOK, SessionInv, MRead, OnlyMoves
  <2>4. SessionInv(p)'
    BY <1>0, <1>h, <1>3, <2>1, <2>2
    DEF TypeOK, SessionInv, MRead
  <2> QED
    BY <1>3, <2>2, <2>3, <2>4, QuietStep DEF MRead
<1>4. CASE MEmpty(p)
  <2>1. LatestSegs' = LatestSegs
    BY <1>4, SnapsFrame DEF MEmpty
  <2>2. pc[p] = "mEmpty" /\ pc'[p] = "idle"
    BY <1>4 DEF TypeOK, MEmpty
  <2>3. OnlyMoves(p)
    BY <1>0, <1>4, <2>2, ProcAssumption
    DEF TypeOK, SessionInv, MEmpty, OnlyMoves
  <2>4. SessionInv(p)'
    BY <1>0, <1>h, <1>4, <2>1, <2>2
    DEF TypeOK, SessionInv, MEmpty
  <2> QED
    BY <1>4, <2>2, <2>3, <2>4, QuietStep DEF MEmpty
<1>5. CASE MOpen(p)
  <2>1. Latest' = Latest /\ LatestSegs' = LatestSegs
    BY <1>5, SnapsFrame DEF MOpen
  <2>2. pc[p] = "mOpen" /\ pc'[p] \in {"mCutoff", "error"}
    BY <1>5 DEF TypeOK, MOpen
  <2>3. OnlyMoves(p)
    BY <1>0, <1>5, <2>2, ProcAssumption
    DEF TypeOK, SessionInv, MOpen, OnlyMoves
  <2>4. SessionInv(p)'
    BY <1>0, <1>h, <1>5, <2>1, <2>2
    DEF TypeOK, SessionInv, MOpen
  <2> QED
    BY <1>5, <2>2, <2>3, <2>4, QuietStep DEF MOpen
<1>6. CASE MCutoff(p)
  <2>1. /\ Present' = Present
        /\ Latest' = Latest
        /\ LatestSegs' = LatestSegs
    BY <1>6, SnapsFrame DEF MCutoff
  <2>2. pc[p] = "mCutoff" /\ pc'[p] \in {"mUnlock", "error"}
    BY <1>6 DEF TypeOK, MCutoff
  <2>3. OnlyMoves(p)
    BY <1>6 DEF TypeOK, MCutoff, OnlyMoves
  <2>4. /\ writeLock = p /\ mergeLock = p
        /\ Latest # 0 /\ gen[p] = Latest /\ view[p] = LatestSegs
        /\ readLock[p] = gen[p] /\ merging[p] = {}
    BY <1>0, <2>2 DEF SessionInv
  <2>5. goners = {} /\ oldSnaps = {}
    <3>1. \A q \in Proc : ~Sweeping(q)
      BY <2>2, <2>4 DEF IndexInv, SessionInv
    <3> QED
      BY <3>1 DEF TypeOK, IndexInv, PurgeSafe
  <2>6. ASSUME pc'[p] = "mUnlock"
        PROVE  SessionInv(p)'
    <3>1. /\ mergeJson' = Highest(LatestSegs) + 1
          /\ seg'[p] = Highest(LatestSegs) + 1
          /\ seg'[p] \in Segs
      BY <1>6, <2>4, <2>6 DEF TypeOK, MCutoff
    <3>2. /\ view' = view /\ gen' = gen /\ merging' = merging
          /\ locks' = locks /\ snaps' = snaps /\ complete' = complete
          /\ goners' = goners /\ oldSnaps' = oldSnaps
      BY <1>6 DEF MCutoff
    <3>3. gen[p] \in Present /\ snaps[gen[p]] = LatestSegs
      BY <2>4, LatestType DEF LatestSegs
    <3>4. LatestSegs \subseteq complete
      BY DEF IndexInv, LatestIntact
    <3>5. \A g \in Present : seg'[p] \notin snaps[g]
      <4>1. \A g \in Present : \A k \in snaps[g] : k <= Highest(LatestSegs)
        BY DEF IndexInv, Ascending
      <4> QED
        BY <1>h, <3>1, <4>1
    <3>6. LocksKept(p)' /\ Chosen(p)' /\ IndexerInv(p)' /\ PublishedInv(p)'
            /\ MPublishInv(p)'
      BY <2>4, <2>6, <3>1, <3>2
    <3>7. SourceInv(p)'
      BY <2>1, <2>4, <2>5, <2>6, <3>2, <3>3, <3>4
    <3>8. \A k \in snaps'[gen'[p]] : k < seg'[p]
      BY <1>h, <3>1, <3>2, <3>3
    <3>9. \A q \in Proc : pc'[q] \notin WritingPCs
      BY <1>6, <2>2, <2>4, <2>6 DEF TypeOK, IndexInv, SessionInv, MCutoff
    <3>10. TargetInv(p)'
      BY <2>1, <2>4, <2>5, <2>6, <3>1, <3>2, <3>5, <3>8, <3>9
    <3> QED
      BY <3>6, <3>7, <3>10 DEF SessionInv
  <2>7. pc'[p] = "error" => SessionInv(p)'
    BY DEF SessionInv
  <2>8. SessionInv(p)'
    BY <2>2, <2>6, <2>7
  <2> QED
    BY <1>m, <1>6, <2>2, <2>3, <2>4, <2>5, <2>8, QuietStep DEF MCutoff
<1>7. CASE MUnlock(p)
  <2>1. LatestSegs' = LatestSegs
    BY <1>7, SnapsFrame DEF MUnlock
  <2>2. pc[p] = "mUnlock" /\ pc'[p] = "mPrep"
    BY <1>7 DEF TypeOK, MUnlock
  <2>3. OnlyMoves(p)
    BY <1>0, <1>7, <2>2, ProcAssumption
    DEF TypeOK, SessionInv, MUnlock, OnlyMoves
  <2>5. Present' = Present /\ Latest' = Latest
    BY <1>7, SnapsFrame DEF MUnlock
  <2>6. \A q \in Proc : pc'[q] \in WritingPCs => pc[q] \in WritingPCs
    BY <1>7 DEF TypeOK, MUnlock
  <2>4. SessionInv(p)'
    BY <1>0, <1>h, <1>7, <2>1, <2>2, <2>5, <2>6
    DEF TypeOK, SessionInv, MUnlock
  <2> QED
    BY <1>7, <2>2, <2>3, <2>4, QuietStep DEF MUnlock
<1>8. CASE MSkip(p)
  <2>1. LatestSegs' = LatestSegs
    BY <1>8, SnapsFrame DEF MSkip
  <2>2. pc[p] = "mPrep" /\ pc'[p] = "mUnmerge"
    BY <1>8 DEF TypeOK, MSkip
  <2>3. OnlyMoves(p)
    BY <1>0, <1>8, <2>2, ProcAssumption
    DEF TypeOK, SessionInv, MSkip, OnlyMoves
  <2>4. SessionInv(p)'
    BY <1>0, <1>h, <1>8, <2>1, <2>2
    DEF TypeOK, SessionInv, MSkip
  <2> QED
    BY <1>8, <2>2, <2>3, <2>4, QuietStep DEF MSkip
<1>9. CASE MPrep(p)
  <2>1. /\ Present' = Present
        /\ Latest' = Latest
        /\ LatestSegs' = LatestSegs
    BY <1>9, SnapsFrame DEF MPrep
  <2>2. pc[p] = "mPrep" /\ pc'[p] = "mWrite"
    BY <1>9 DEF TypeOK, MPrep
  <2>3. OnlyMoves(p)
    BY <1>9 DEF TypeOK, MPrep, OnlyMoves
  <2>4. mergeLock = p /\ seg[p] \in Segs
    BY <1>0, <2>2 DEF SessionInv
  <2>5. complete' = complete \ {seg[p]}
    BY <1>9 DEF MPrep, PrepSegDir
  <2>6. \A q \in Proc : pc'[q] \in WritingPCs => pc[q] \in WritingPCs
    BY <1>9 DEF TypeOK, MPrep
  <2>7. LocksKept(p)' /\ Chosen(p)' /\ IndexerInv(p)' /\ PublishedInv(p)'
          /\ MPublishInv(p)'
    BY <1>0, <1>9, <2>2 DEF SessionInv, MPrep
  <2>8. snaps[gen[p]] \subseteq complete \ {seg[p]}
    <3>1. snaps[gen[p]] \subseteq complete /\ gen[p] \in Present
      BY <1>0, <2>2 DEF SessionInv
    <3>2. seg[p] \notin snaps[gen[p]]
      BY <1>0, <2>2, <3>1 DEF SessionInv
    <3> QED
      BY <3>1, <3>2
  <2>9. SourceInv(p)'
    BY <1>0, <1>9, <2>1, <2>2, <2>5, <2>8 DEF SessionInv, MPrep
  <2>10. TargetInv(p)'
    BY <1>0, <1>9, <2>1, <2>2, <2>6 DEF SessionInv, MPrep
  <2>11. SessionInv(p)'
    BY <2>7, <2>9, <2>10 DEF SessionInv
  <2>12. {seg[p]} \cap LatestSegs = {}
    BY <1>0, <2>2, LatestType DEF SessionInv, LatestSegs
  <2>13. ASSUME NEW q \in Proc \ {p}
         PROVE  Unneeded(q, {seg[p]})
    <3>1. pc[q] \notin WorkingPCs \cup {"mPublish"}
      BY <1>m, <2>4
    <3>2. CASE pc[q] = "publish"
      <4>1. view[q] \subseteq LatestSegs \cup {seg[q]}
        BY <3>2 DEF IndexInv, SessionInv
      <4>2. seg[p] < seg[q] /\ seg[q] \in Nat
        BY <1>0, <2>2, <3>2 DEF TypeOK, SessionInv, Segs
      <4> QED
        BY <2>4, <2>12, <3>1, <4>1, <4>2 DEF Unneeded, Segs
    <3> QED
      BY <3>1, <3>2 DEF Unneeded
  <2> QED
    BY <1>9, <2>2, <2>3, <2>5, <2>11, <2>12, <2>13, StableStep DEF MPrep
<1>10. CASE MWrite(p)
  <2>1. /\ Present' = Present
        /\ Latest' = Latest
        /\ LatestSegs' = LatestSegs
    BY <1>10, SnapsFrame DEF MWrite
  <2>2. pc[p] = "mWrite" /\ pc'[p] = "mRelock"
    BY <1>10 DEF TypeOK, MWrite
  <2>3. OnlyMoves(p)
    BY <1>10 DEF TypeOK, MWrite, OnlyMoves
  <2>4. view'[p] = (view[p] \ merging[p]) \cup {seg[p]}
    BY <1>10 DEF TypeOK, MWrite
  <2>5. complete' = complete \cup {seg[p]}
    BY <1>10 DEF MWrite, Finish
  <2>6. \A q \in Proc : pc'[q] \in WritingPCs => pc[q] \in WritingPCs
    BY <1>10 DEF TypeOK, MWrite
  <2>7. LocksKept(p)' /\ Chosen(p)' /\ IndexerInv(p)' /\ PublishedInv(p)'
          /\ MPublishInv(p)'
    BY <1>0, <1>10, <2>2 DEF SessionInv, MWrite
  <2>8. SourceInv(p)'
    BY <1>0, <1>10, <2>1, <2>2, <2>4, <2>5 DEF SessionInv, MWrite
  <2>9. TargetInv(p)'
    BY <1>0, <1>10, <2>1, <2>2, <2>4, <2>5, <2>6 DEF SessionInv, MWrite
  <2>10. SessionInv(p)'
    BY <2>7, <2>8, <2>9 DEF SessionInv
  <2> QED
    BY <1>10, <2>2, <2>3, <2>5, <2>10, QuietStep DEF MWrite
<1>11. CASE MRelock(p)
  <2>1. /\ Present' = Present
        /\ Latest' = Latest
        /\ LatestSegs' = LatestSegs
    BY <1>11, SnapsFrame DEF MRelock
  <2>2. pc[p] = "mRelock" /\ pc'[p] \in {"mCarry", "error"}
    BY <1>11 DEF TypeOK, MRelock
  <2>3. OnlyMoves(p)
    BY <1>11, ProcAssumption DEF TypeOK, MRelock, OnlyMoves
  <2>4. \A q \in Proc : pc'[q] \in WritingPCs => pc[q] \in WritingPCs
    BY <1>11 DEF TypeOK, MRelock
  <2>5. LocksKept(p)' /\ Chosen(p)' /\ IndexerInv(p)' /\ PublishedInv(p)'
          /\ MPublishInv(p)'
    BY <1>0, <1>11, <2>2 DEF TypeOK, SessionInv, MRelock
  <2>6. SourceInv(p)'
    BY <1>0, <1>11, <2>1, <2>2 DEF SessionInv, MRelock
  <2>7. TargetInv(p)'
    BY <1>0, <1>11, <2>1, <2>2, <2>4 DEF SessionInv, MRelock
  <2>8. SessionInv(p)'
    BY <2>5, <2>6, <2>7 DEF SessionInv
  <2> QED
    BY <1>11, <2>2, <2>3, <2>8, QuietStep DEF MRelock
<1>12. CASE MCarryNothing(p)
  <2>1. LatestSegs' = LatestSegs
    BY <1>12, SnapsFrame DEF MCarryNothing
  <2>2. pc[p] = "mCarry" /\ pc'[p] = "mPublish"
    BY <1>12 DEF TypeOK, MCarryNothing
  <2>3. OnlyMoves(p)
    BY <1>12 DEF TypeOK, MCarryNothing, OnlyMoves
  <2>4. /\ seg[p] \in view[p] /\ seg[p] \in complete
        /\ view[p] \subseteq complete
        /\ seg[p] \in Nat /\ seg[p] > 0
    BY <1>0, <2>2 DEF SessionInv, Segs
  <2>5. LatestSegs \subseteq complete
    BY DEF IndexInv, LatestIntact
  <2>6. Highest(LatestSegs) <= Highest(view[p])
    <3>1. gen[p] = Latest /\ gen[p] \in Present
      BY <1>0, <1>12, <2>2 DEF SessionInv, MCarryNothing
    <3>2. \A k \in LatestSegs : k < seg[p]
      BY <1>0, <2>2, <3>1, LatestType DEF SessionInv, LatestSegs, Gens
    <3>3. Highest(LatestSegs) < seg[p]
      BY <1>h, <2>4, <3>2
    <3>4. seg[p] <= Highest(view[p]) /\ Highest(view[p]) \in Nat
      BY <2>4, HighestListed DEF TypeOK
    <3> QED
      BY <1>h, <2>4, <3>3, <3>4
  <2>7. LocksKept(p)' /\ Chosen(p)' /\ IndexerInv(p)' /\ PublishedInv(p)'
          /\ SourceInv(p)' /\ TargetInv(p)'
    BY <1>0, <1>12, <2>2 DEF SessionInv, MCarryNothing
  <2>8. MPublishInv(p)'
    BY <1>12, <2>1, <2>4, <2>6 DEF MCarryNothing, Highest
  <2>9. SessionInv(p)'
    BY <2>7, <2>8 DEF SessionInv
  <2> QED
    BY <1>12, <2>2, <2>3, <2>9, QuietStep DEF MCarryNothing
<1>13. CASE MCarry(p)
  <2>1. LatestSegs' = LatestSegs
    BY <1>13, SnapsFrame DEF MCarry
  <2>2. pc[p] = "mCarry" /\ pc'[p] = "mPublish"
    BY <1>13 DEF TypeOK, MCarry
  <2>3. OnlyMoves(p)
    BY <1>13 DEF TypeOK, MCarry, OnlyMoves
  <2>4. /\ seg[p] \in view[p] /\ seg[p] \in complete
        /\ view[p] \subseteq complete
        /\ seg[p] \in Nat /\ seg[p] > 0
    BY <1>0, <2>2 DEF SessionInv, Segs
  <2>5. LatestSegs \subseteq complete
    BY DEF IndexInv, LatestIntact
  <2>6. seg[p] < Highest(LatestSegs)
    BY <1>0, <1>13, <2>2 DEF SessionInv, MCarry
  <2> DEFINE fresh == {k \in LatestSegs : k > seg[p]}
  <2>7. Highest(LatestSegs) \in fresh
    BY <1>h, <2>4, <2>6
  <2>8. /\ view[p] \cup fresh \subseteq view'[p]
        /\ view'[p] \subseteq complete'
        /\ view'[p] \in SUBSET Segs
        /\ complete \subseteq complete'
    <3>1. \/ /\ view' = [view EXCEPT ![p] = @ \cup fresh]
             /\ complete' = complete
          \/ /\ Highest(LatestSegs) + 1 \in Segs
             /\ view' = [view EXCEPT ![p] =
                             @ \cup fresh \cup {Highest(LatestSegs) + 1}]
             /\ complete' = complete \cup {Highest(LatestSegs) + 1}
      BY <1>13 DEF MCarry, Finish
    <3>2. fresh \subseteq LatestSegs
      OBVIOUS
    <3> HIDE DEF fresh
    <3> QED
      BY <1>h, <2>4, <2>5, <3>1, <3>2 DEF TypeOK
  <2> HIDE DEF fresh
  <2>9. Highest(LatestSegs) <= Highest(view'[p])
    BY <2>7, <2>8, HighestListed
  <2>10. LocksKept(p)' /\ Chosen(p)' /\ IndexerInv(p)' /\ PublishedInv(p)'
          /\ SourceInv(p)' /\ TargetInv(p)'
    BY <1>0, <1>13, <2>2 DEF SessionInv, MCarry
  <2>11. MPublishInv(p)'
    BY <2>1, <2>8, <2>9 DEF Highest
  <2>12. SessionInv(p)'
    BY <2>10, <2>11 DEF SessionInv
  <2> QED
    BY <1>13, <2>2, <2>3, <2>8, <2>12, QuietStep DEF MCarry
<1>14. CASE MCarryFails(p)
  <2>1. LatestSegs' = LatestSegs
    BY <1>14, SnapsFrame DEF MCarryFails
  <2>2. pc[p] = "mCarry" /\ pc'[p] = "error"
    BY <1>14 DEF TypeOK, MCarryFails
  <2>3. OnlyMoves(p)
    BY <1>0, <1>14, <2>2, ProcAssumption
    DEF TypeOK, SessionInv, MCarryFails, OnlyMoves
  <2>4. SessionInv(p)'
    BY <1>0, <1>h, <1>14, <2>1, <2>2
    DEF TypeOK, SessionInv, MCarryFails
  <2> QED
    BY <1>14, <2>2, <2>3, <2>4, QuietStep DEF MCarryFails
<1>15. CASE MPublish(p)
  <2>1. pc[p] = "mPublish"
    BY <1>15 DEF MPublish
  <2>2. /\ writeLock = p /\ mergeLock = p
        /\ view[p] \subseteq complete
        /\ Highest(LatestSegs) <= Highest(view[p])
    BY <1>0, <2>1 DEF SessionInv
  <2> QED
    BY <1>m, <1>15, <2>1, <2>2, PublishStep DEF MPublish, Publish
<1>16. CASE MAbandon(p)
  <2>1. LatestSegs' = LatestSegs
    BY <1>16, SnapsFrame DEF MAbandon
  <2>2. pc[p] \in {"mPrep", "mPublish"} /\ pc'[p] = "mDone"
    BY <1>16 DEF TypeOK, MAbandon
  <2>3. OnlyMoves(p)
    BY <1>0, <1>16, <2>2, ProcAssumption
    DEF TypeOK, SessionInv, MAbandon, OnlyMoves
  <2>4. SessionInv(p)'
    BY <1>0, <1>h, <1>16, <2>1, <2>2
    DEF TypeOK, SessionInv, MAbandon
  <2> QED
    BY <1>16, <2>2, <2>3, <2>4, QuietStep DEF MAbandon
<1>17. CASE MUnmerge(p)
  <2>1. Latest' = Latest /\ LatestSegs' = LatestSegs
    BY <1>17, SnapsFrame DEF MUnmerge
  <2>2. pc[p] = "mUnmerge" /\ pc'[p] = "mUnjson"
    BY <1>17 DEF TypeOK, MUnmerge
  <2>3. OnlyMoves(p)
    BY <1>0, <1>17, <2>2, ProcAssumption
    DEF TypeOK, SessionInv, MUnmerge, OnlyMoves
  <2>4. SessionInv(p)'
    BY <1>0, <1>h, <1>17, <2>1, <2>2
    DEF TypeOK, SessionInv, MUnmerge
  <2> QED
    BY <1>17, <2>2, <2>3, <2>4, QuietStep DEF MUnmerge
<1>18. CASE MUnjson(p)
  <2>1. Latest' = Latest /\ LatestSegs' = LatestSegs
    BY <1>18, SnapsFrame DEF MUnjson
  <2>2. /\ pc[p] = "mUnjson"
        /\ pc'[p] = IF merging[p] = {} THEN "mDone" ELSE "mZap1"
    BY <1>18 DEF TypeOK, MUnjson
  <2>3. OnlyMoves(p)
    BY <1>0, <1>18, <2>2, ProcAssumption
    DEF TypeOK, SessionInv, MUnjson, OnlyMoves
  <2>4. SessionInv(p)'
    BY <1>0, <1>h, <1>18, <2>1, <2>2
    DEF TypeOK, SessionInv, MUnjson
  <2> QED
    BY <1>18, <2>2, <2>3, <2>4, QuietStep DEF MUnjson
<1>19. CASE MDone(p)
  <2>1. LatestSegs' = LatestSegs
    BY <1>19, SnapsFrame DEF MDone
  <2>2. pc[p] = "mDone" /\ pc'[p] = "idle"
    BY <1>19 DEF TypeOK, MDone, Forget
  <2>3. OnlyMoves(p)
    BY <1>0, <1>19, <2>2, ProcAssumption
    DEF TypeOK, SessionInv, MDone, OnlyMoves, Forget
  <2>4. SessionInv(p)'
    BY <1>0, <1>h, <1>19, <2>1, <2>2
    DEF TypeOK, SessionInv, MDone, Forget
  <2> QED
    BY <1>19, <2>2, <2>3, <2>4, QuietStep DEF MDone, Forget
<1> QED
  BY <1>1, <1>2, <1>3, <1>4, <1>5, <1>6, <1>7, <1>8, <1>9, <1>10,
     <1>11, <1>12, <1>13, <1>14, <1>15, <1>16, <1>17, <1>18, <1>19
  DEF MergerStep

-----------------------------------------------------------------------------
(* A purge.                                                                *)

\* The purger's own snapshot is the latest: nobody else can publish.
LEMMA OwnIsLatest ==
    ASSUME TypeOK, IndexInv, NEW p \in Proc, pc[p] \in DOMAIN Sweep
    PROVE  OwnGen(p) = Latest /\ OwnList(p) = LatestSegs
<1>1. PublishedInv(p)
  BY DEF IndexInv, SessionInv
<1> QED
  BY <1>1 DEF Sweep, OwnGen, OwnList, Begins, PublishedInv, HasPublished

\* What is chosen for deletion is needed neither by the latest snapshot nor by
\* the mergers at work.
LEMMA PurgeStartKeeps ==
    ASSUME TypeOK, IndexInv, NEW p \in Proc, PurgeStart(p)
    PROVE  IndexInv'
<1> USE DEF folder, locks, purge, local, watch, Goto, LocksKept, Chosen,
            IndexerInv, PublishedInv, HasPublished, SourceInv, TargetInv,
            MPublishInv, Sweeping, Sweep, AfterSweep, IndexerPCs, ReaderPCs,
            WritePCs, MergePCs, EarlyPCs, WritingPCs, WorkingPCs
<1>0. SessionInv(p)
  BY DEF IndexInv
<1>1. /\ Present' = Present
      /\ Latest' = Latest
      /\ LatestSegs' = LatestSegs
  BY SnapsFrame DEF PurgeStart
<1>2. /\ pc[p] \in {"zap0", "zap1", "mZap0", "mZap1"}
      /\ pc'[p] = Sweep[pc[p]]
      /\ \A q \in Proc \ {p} : pc'[q] = pc[q]
  BY DEF TypeOK, PurgeStart
<1>3. OwnGen(p) = Latest /\ OwnList(p) = LatestSegs
  BY <1>2, OwnIsLatest
<1>4. /\ oldSnaps' = Unused(p)
      /\ Latest \notin Unused(p)
      /\ \A q \in Proc : readLock[q] \notin Unused(p)
  BY <1>3 DEF PurgeStart, Unused, ReadLocked
<1>5. goners' \cap Spared(p) = {}
  BY DEF PurgeStart
<1>6. LatestSegs \subseteq Spared(p)
  BY <1>3 DEF Spared
<1>7. \A g \in Present \ Unused(p) : snaps[g] \subseteq Spared(p)
  <2>1. ASSUME NEW g \in Present \ Unused(p), g # Latest
        PROVE  snaps[g] \subseteq Spared(p)
    BY <1>3, <2>1 DEF Spared, ListedBy
  <2>2. Latest \in Present => snaps[Latest] = LatestSegs
    BY LatestType, BoundsAssumption DEF LatestSegs, Gens
  <2> QED
    BY <1>6, <2>1, <2>2
<1>8. \A n \in goners' : n \in ListedBy(Present) \/ (DeadMerge /\ n = mergeJson)
  BY DEF PurgeStart, ListedBy, Unused
<1>9. PurgeSafe'
  <2>1. deletionLock' = p /\ p # None /\ pc'[p] \in DOMAIN AfterSweep
    BY <1>2, ProcAssumption DEF PurgeStart
  <2> QED
    BY <1>1, <1>4, <1>5, <1>6, <2>1 DEF PurgeSafe
<1>10. LatestIntact' /\ Ascending'
  BY <1>1 DEF IndexInv, LatestIntact, Ascending, PurgeStart
<1>11. SessionInv(p)'
  BY <1>0, <1>1, <1>2, ProcAssumption DEF TypeOK, SessionInv, PurgeStart
<1>12. ASSUME NEW q \in Proc, q # p
       PROVE  SessionInv(q)'
  <2>1. SessionInv(q) /\ pc'[q] = pc[q]
    BY <1>2, <1>12 DEF IndexInv
  <2>2. LocksKept(q)' /\ Chosen(q)' /\ IndexerInv(q)' /\ PublishedInv(q)'
          /\ MPublishInv(q)'
    BY <1>1, <2>1, ProcAssumption DEF SessionInv, PurgeStart
  <2>3. ASSUME pc[q] \in WorkingPCs
        PROVE  SourceInv(q)' /\ TargetInv(q)'
    <3>1. /\ mergeLock = q /\ readLock[q] = gen[q] /\ gen[q] \in Present
          /\ \A g \in Present : seg[q] \notin snaps[g]
      BY <2>1, <2>3 DEF SessionInv
    <3>2. gen[q] \notin oldSnaps' /\ goners' \cap snaps[gen[q]] = {}
      BY <1>4, <1>5, <1>7, <3>1
    <3>3. ~DeadMerge
      BY <3>1, ProcAssumption DEF DeadMerge
    <3>4. seg[q] \notin goners'
      BY <1>8, <3>1, <3>3 DEF ListedBy
    <3>5. \A r \in Proc : pc'[r] \in WritingPCs => pc[r] \in WritingPCs
      BY <1>2
    <3>6. SourceInv(q)'
      BY <1>1, <2>1, <3>2 DEF SessionInv, PurgeStart
    <3>7. TargetInv(q)'
      BY <1>1, <2>1, <3>4, <3>5 DEF SessionInv, PurgeStart
    <3> QED
      BY <3>6, <3>7
  <2>4. pc[q] \notin WorkingPCs => SourceInv(q)' /\ TargetInv(q)'
    BY <2>1 DEF SessionInv, PurgeStart
  <2> QED
    BY <2>2, <2>3, <2>4 DEF SessionInv
<1> QED
  BY <1>9, <1>10, <1>11, <1>12 DEF IndexInv

\* A snapshot file that a purge deletes is not the latest.
LEMMA DroppedFacts ==
    ASSUME TypeOK, IndexInv, NEW g \in oldSnaps,
           snaps' = [snaps EXCEPT ![g] = NoFile]
    PROVE  /\ g \in Gens /\ g # Latest
           /\ Present' = Present \ {g}
           /\ \A h \in Gens : h # g => snaps'[h] = snaps[h]
           /\ \A h \in Present' : snaps'[h] = snaps[h]
           /\ Latest' = Latest
           /\ LatestSegs' = LatestSegs
<1>1. g \in Gens /\ g # Latest
  BY DEF TypeOK, IndexInv, PurgeSafe
<1>2. Present' = Present \ {g}
  BY <1>1 DEF TypeOK, Present
<1>3. /\ \A h \in Present' : snaps'[h] = snaps[h]
      /\ \A h \in Gens : h # g => snaps'[h] = snaps[h]
  BY <1>2, LatestType DEF TypeOK
<1>4. Latest' = Latest
  <2>1. CASE Present = {}
    BY <1>2, <2>1 DEF Latest
  <2>2. CASE Present # {}
    <3>1. Latest \in Present
      BY <2>2, LatestType, BoundsAssumption DEF Gens
    <3>2. Present \ {g} \in SUBSET (1..MaxGen) /\ Latest \in Present \ {g}
      BY <1>1, <3>1, LatestType DEF Gens
    <3>3. Highest(Present \ {g}) = Latest
      BY <3>2, LatestType, BoundsAssumption, HighestIs
    <3> QED
      BY <1>2, <3>3 DEF Latest, Highest
  <2> QED
    BY <2>1, <2>2
<1>5. LatestSegs' = LatestSegs
  BY <1>1, <1>3, <1>4, LatestType DEF LatestSegs
<1> QED
  BY <1>1, <1>2, <1>3, <1>4, <1>5

\* Deleting an old snapshot file changes neither the latest snapshot nor the
\* one that a merger works from.
LEMMA SweepSnapshotKeeps ==
    ASSUME TypeOK, IndexInv, NEW p \in Proc, Sweeping(p), NEW g \in oldSnaps,
           snaps' = [snaps EXCEPT ![g] = NoFile],
           oldSnaps' = oldSnaps \ {g},
           UNCHANGED <<complete, mergeJson, locks, pc, local, goners>>
    PROVE  IndexInv'
<1> USE DEF locks, local
<1>1. /\ g \in Gens /\ g # Latest
      /\ Present' = Present \ {g}
      /\ \A h \in Gens : h # g => snaps'[h] = snaps[h]
      /\ \A h \in Present' : snaps'[h] = snaps[h]
      /\ Latest' = Latest
      /\ LatestSegs' = LatestSegs
  BY DroppedFacts
<1>2. LatestIntact' /\ Ascending'
  BY <1>1 DEF IndexInv, LatestIntact, Ascending
<1>3. PurgeSafe'
  BY <1>1 DEF IndexInv, PurgeSafe, Sweeping
<1>4. ASSUME NEW q \in Proc
      PROVE  SessionInv(q)'
  <2>1. SessionInv(q)
    BY DEF IndexInv
  <2>2. LocksKept(q)' /\ Chosen(q)' /\ IndexerInv(q)' /\ PublishedInv(q)'
          /\ MPublishInv(q)'
    BY <1>1, <2>1 DEF SessionInv, LocksKept, Chosen, IndexerInv,
       PublishedInv, HasPublished, MPublishInv, Sweeping
  <2>3. pc[q] \in WorkingPCs => gen[q] \in Present' /\ gen[q] # g
    BY <1>1, <2>1 DEF SessionInv, SourceInv
  <2>4. SourceInv(q)'
    BY <1>1, <2>1, <2>3 DEF SessionInv, SourceInv
  <2>5. TargetInv(q)'
    BY <1>1, <2>1, <2>3 DEF SessionInv, TargetInv
  <2> QED
    BY <2>2, <2>4, <2>5 DEF SessionInv
<1> QED
  BY <1>2, <1>3, <1>4 DEF IndexInv

LEMMA PurgeKeeps ==
    ASSUME TypeOK, IndexInv, NEW p \in Proc, Purge(p)
    PROVE  IndexInv'
<1> USE DEF folder, locks, purge, local, watch, Goto, LocksKept, Chosen,
            IndexerInv, PublishedInv, HasPublished, SourceInv, TargetInv,
            MPublishInv, Sweeping, Sweep, AfterZap, AfterSweep, IndexerPCs,
            ReaderPCs, WritePCs, MergePCs, EarlyPCs, WritingPCs, WorkingPCs
<1>0. SessionInv(p)
  BY DEF IndexInv
\* Nobody needs what is being deleted.
<1>g. ASSUME Sweeping(p), NEW n \in goners, NEW q \in Proc \ {p}
      PROVE  Unneeded(q, {n})
  <2>1. SessionInv(q) /\ writeLock = p
    BY <1>0, <1>g DEF IndexInv, SessionInv
  <2>2. pc[q] \notin {"publish", "mPublish"}
    BY <2>1 DEF SessionInv
  <2> QED
    BY <1>g, <2>1, <2>2 DEF SessionInv, Unneeded
<1>1. CASE PurgeSkip(p)
  <2>1. Latest' = Latest /\ LatestSegs' = LatestSegs
    BY <1>1, SnapsFrame DEF PurgeSkip
  <2>2. /\ pc[p] \in {"zap0", "zap1", "mZap0", "mZap1"}
        /\ pc'[p] = AfterZap[pc[p]]
    BY <1>1 DEF TypeOK, PurgeSkip
  <2>3. OnlyMoves(p)
    BY <1>1 DEF TypeOK, PurgeSkip, OnlyMoves
  <2>4. SessionInv(p)'
    BY <1>0, <1>1, <2>1, <2>2 DEF SessionInv, PurgeSkip
  <2> QED
    BY <1>1, <2>2, <2>3, <2>4, QuietStep DEF PurgeSkip
<1>2. CASE PurgeStart(p)
  BY <1>2, PurgeStartKeeps
<1>3. CASE SweepSegment(p) \/ SweepSegmentFails(p)
  <2>1. Latest' = Latest /\ LatestSegs' = LatestSegs
    BY <1>3, SnapsFrame DEF SweepSegment, SweepSegmentFails
  <2>2. Sweeping(p) /\ pc'[p] = pc[p]
    BY <1>3 DEF SweepSegment, SweepSegmentFails
  <2>3. OnlyMoves(p)
    BY <1>3 DEF SweepSegment, SweepSegmentFails, OnlyMoves
  <2>4. SessionInv(p)'
    BY <1>0, <1>3, <2>1, <2>2 DEF SessionInv, SweepSegment, SweepSegmentFails
  <2>5. PICK n \in goners : /\ complete \ {n} \subseteq complete'
                            /\ goners' = goners \ {n}
    BY <1>3 DEF SweepSegment, SweepSegmentFails
  <2>6. {n} \cap LatestSegs = {}
    BY DEF IndexInv, PurgeSafe
  <2>7. \A q \in Proc \ {p} : Unneeded(q, {n})
    BY <1>g, <2>2
  <2>8. UNCHANGED <<snaps, oldSnaps, mergeJson, deletionLock>>
    BY <1>3 DEF SweepSegment, SweepSegmentFails
  <2> QED
    BY <2>2, <2>3, <2>4, <2>5, <2>6, <2>7, <2>8, StableStep
<1>4. CASE SweepMergeJson(p)
  <2>1. Latest' = Latest /\ LatestSegs' = LatestSegs
    BY <1>4, SnapsFrame DEF SweepMergeJson
  <2>2. Sweeping(p) /\ pc'[p] = pc[p]
    BY <1>4 DEF SweepMergeJson
  <2>3. OnlyMoves(p)
    BY <1>4 DEF SweepMergeJson, OnlyMoves
  <2>4. SessionInv(p)'
    BY <1>0, <1>4, <2>1, <2>2 DEF SessionInv, SweepMergeJson
  <2>5. \A q \in Proc : Unneeded(q, {})
    BY DEF Unneeded
  <2> QED
    BY <1>4, <2>2, <2>3, <2>4, <2>5, StableStep DEF SweepMergeJson
<1>5. CASE SweepSnapshot(p)
  <2>1. PICK g \in oldSnaps :
            /\ oldSnaps' = oldSnaps \ {g}
            /\ snaps' = snaps \/ snaps' = [snaps EXCEPT ![g] = NoFile]
    BY <1>5 DEF SweepSnapshot
  <2>2. CASE snaps' = [snaps EXCEPT ![g] = NoFile]
    BY <1>5, <2>1, <2>2, SweepSnapshotKeeps DEF SweepSnapshot
  <2>3. CASE snaps' = snaps
    <3>1. Latest' = Latest /\ LatestSegs' = LatestSegs
      BY <2>3, SnapsFrame
    <3>2. Sweeping(p) /\ pc'[p] = pc[p]
      BY <1>5 DEF SweepSnapshot
    <3>3. OnlyMoves(p)
      BY <1>5 DEF SweepSnapshot, OnlyMoves
    <3>4. SessionInv(p)'
      BY <1>0, <1>5, <3>1, <3>2 DEF SessionInv, SweepSnapshot
    <3>5. \A q \in Proc : Unneeded(q, {})
      BY DEF Unneeded
    <3> QED
      BY <1>5, <2>1, <2>3, <3>2, <3>3, <3>4, <3>5, StableStep
      DEF SweepSnapshot
  <2> QED
    BY <2>1, <2>2, <2>3
<1>6. CASE PurgeEnd(p)
  <2>1. Latest' = Latest /\ LatestSegs' = LatestSegs
    BY <1>6, SnapsFrame DEF PurgeEnd
  <2>2. /\ pc[p] \in {"sweep0", "sweep1", "mSweep0", "mSweep1"}
        /\ pc'[p] = AfterSweep[pc[p]]
    BY <1>6 DEF TypeOK, PurgeEnd
  <2>3. OnlyMoves(p)
    BY <1>0, <1>6, <2>2 DEF TypeOK, SessionInv, PurgeEnd, OnlyMoves
  <2>4. SessionInv(p)'
    BY <1>0, <1>6, <2>1, <2>2 DEF SessionInv, PurgeEnd
  <2> QED
    BY <1>6, <2>2, <2>3, <2>4, QuietStep DEF PurgeEnd
<1> QED
  BY <1>1, <1>2, <1>3, <1>4, <1>5, <1>6 DEF Purge

-----------------------------------------------------------------------------
(* Readers, and the end of a process.                                      *)

\* A reader changes nothing but its own memory, its read lock and the
\* deletion lock when nothing is to be purged.
LEMMA ReaderMoves ==
    ASSUME TypeOK, IndexInv, NEW p \in Proc, OnlyMoves(p),
           UNCHANGED <<snaps, complete, mergeJson, goners, oldSnaps>>,
           pc[p] \in ReaderPCs \cup {"idle"},
           pc'[p] \in ReaderPCs \cup {"idle", "error"},
           pc'[p] = "rRead" => gen'[p] \in Gens,
           merging'[p] = merging[p] \/ merging'[p] = {},
           \/ deletionLock' = deletionLock
           \/ deletionLock \in {None, p}
    PROVE  IndexInv'
<1> USE DEF ReaderPCs
<1>0. SessionInv(p)
  BY DEF IndexInv
<1>1. merging'[p] = {}
  BY <1>0 DEF SessionInv, Chosen, EarlyPCs
<1>2. SessionInv(p)'
  BY <1>1 DEF SessionInv, LocksKept, Chosen, IndexerInv, PublishedInv,
     HasPublished, SourceInv, TargetInv, MPublishInv, Sweeping, AfterSweep,
     IndexerPCs, WritePCs, MergePCs, EarlyPCs, WritingPCs, WorkingPCs
<1>3. ~Sweeping(p) /\ pc'[p] \notin WritingPCs
  BY DEF Sweeping, AfterSweep, WritingPCs
<1>4. deletionLock \in {None, p} => goners = {} /\ oldSnaps = {}
  BY <1>3 DEF IndexInv, PurgeSafe
<1> QED
  BY <1>2, <1>3, <1>4, QuietStep

LEMMA ReaderKeeps ==
    ASSUME TypeOK, IndexInv, NEW p \in Proc, ReaderStep(p)
    PROVE  IndexInv'
<1> USE DEF folder, locks, purge, local, watch, Goto, ReaderPCs, OnlyMoves
<1>1. CASE RBegin(p)
  <2>1. pc[p] = "idle" /\ pc'[p] = "rPick"
    BY <1>1 DEF TypeOK, RBegin
  <2>2. deletionLock' = deletionLock \/ deletionLock = None
    BY <1>1 DEF RBegin
  <2>3. OnlyMoves(p)
    BY <1>1, ProcAssumption DEF TypeOK, RBegin
  <2> QED
    BY <1>1, <2>1, <2>2, <2>3, ReaderMoves DEF RBegin
<1>2. ASSUME NEW g \in Gens \cup {0}, Pick(p, g), pc[p] = "rScan"
      PROVE  IndexInv'
  BY <1>2, ReaderMoves DEF TypeOK, Pick
<1>3. CASE RScanBegin(p)
  BY <1>3, ReaderMoves DEF TypeOK, RScanBegin
<1>4. CASE RScanEnd(p)
  <2>1. PICK chance \in SUBSET (maybe[p] \ sure[p]) :
            Pick(p, Highest(sure[p] \cup chance))
    BY <1>4 DEF RScanEnd
  <2>2. sure[p] \cup chance \in SUBSET (1..MaxGen)
    BY DEF TypeOK, Gens
  <2>3. Highest(sure[p] \cup chance) \in Gens \cup {0}
    BY <2>2, BoundsAssumption, HighestIsHighest DEF Gens
  <2> QED
    BY <1>2, <1>4, <2>1, <2>3 DEF RScanEnd
<1>5. CASE RRead(p)
  BY <1>5, ReaderMoves DEF TypeOK, RRead
<1>6. ASSUME Reopen(p), pc[p] \in {"rRead", "rOpen"}
      PROVE  IndexInv'
  BY <1>6, ReaderMoves DEF TypeOK, Reopen
<1>7. CASE RReadFails(p) \/ ROpenFails(p)
  BY <1>6, <1>7 DEF RReadFails, ROpenFails
<1>8. CASE ROpenSegment(p)
  BY <1>8, ReaderMoves DEF TypeOK, ROpenSegment
<1>9. CASE ROpenDone(p)
  BY <1>9, ReaderMoves DEF TypeOK, ROpenDone
<1>10. CASE RUnlock(p)
  BY <1>10, ReaderMoves DEF TypeOK, RUnlock
<1>11. CASE RClose(p)
  BY <1>11, ReaderMoves DEF TypeOK, RClose, Forget
<1> QED
  BY <1>1, <1>3, <1>4, <1>5, <1>7, <1>8, <1>9, <1>10, <1>11
  DEF ReaderStep

\* A crash at any point loses only what the process had in memory.
LEMMA ExitKeeps ==
    ASSUME TypeOK, IndexInv, NEW p \in Proc, Exit(p)
    PROVE  IndexInv'
<1> USE DEF folder, locks, purge, local, Goto
<1>1. OnlyMoves(p)
  BY ProcAssumption DEF TypeOK, Exit, Forget, OnlyMoves
<1>2. pc'[p] = "idle" /\ merging'[p] = {}
  BY DEF TypeOK, Exit, Forget
<1>3. SessionInv(p)'
  BY <1>2 DEF SessionInv, LocksKept, Chosen, IndexerInv, PublishedInv,
     HasPublished, SourceInv, TargetInv, MPublishInv, Sweeping, AfterSweep,
     IndexerPCs, WritePCs, MergePCs, EarlyPCs, WritingPCs, WorkingPCs
<1>4. \A q \in Proc : Unneeded(q, {})
  BY DEF Unneeded
<1>5. \/ goners' = {} /\ oldSnaps' = {}
      \/ /\ goners' = goners /\ oldSnaps' = oldSnaps
         /\ deletionLock' = deletionLock /\ ~Sweeping(p)
  BY DEF Exit, IndexInv, SessionInv, LocksKept
<1>6. pc'[p] \notin WritingPCs /\ UNCHANGED <<snaps, complete, mergeJson>>
  BY <1>2 DEF WritingPCs, Exit
<1> QED
  BY <1>1, <1>3, <1>4, <1>5, <1>6, StableStep

-----------------------------------------------------------------------------
(* The theorems.                                                           *)

LEMMA InitKeeps ==
    ASSUME Init
    PROVE  TypeOK /\ IndexInv
<1>1. TypeOK
  BY DEF Init, TypeOK
<1>2. Present = {}
  BY DEF Init, Present
<1>3. Latest = 0
  BY <1>2 DEF Latest, Highest
<1>4. LatestIntact /\ PurgeSafe /\ Ascending
  BY <1>2, <1>3 DEF Init, LatestIntact, LatestSegs, PurgeSafe, Ascending
<1>5. \A p \in Proc : SessionInv(p)
  BY DEF Init, SessionInv, LocksKept, Chosen, IndexerInv, PublishedInv,
     HasPublished, SourceInv, TargetInv, MPublishInv, Sweeping, AfterSweep,
     IndexerPCs, ReaderPCs, WritePCs, MergePCs, EarlyPCs, WritingPCs,
     WorkingPCs
<1> QED
  BY <1>1, <1>4, <1>5 DEF IndexInv

LEMMA NextKeeps ==
    ASSUME TypeOK, IndexInv, [Next]_vars
    PROVE  TypeOK' /\ IndexInv'
<1>1. ASSUME NEW p \in Proc, IndexerStep(p)
      PROVE  TypeOK' /\ IndexInv'
  BY <1>1, IndexerTyped, IndexerKeeps DEF IndexInv, SessionInv
<1>2. ASSUME NEW p \in Proc, MergerStep(p)
      PROVE  TypeOK' /\ IndexInv'
  BY <1>2, MergerTyped, MergerKeeps DEF IndexInv, SessionInv
<1>3. ASSUME NEW p \in Proc, Purge(p)
      PROVE  TypeOK' /\ IndexInv'
  BY <1>3, PurgeTyped, PurgeKeeps
<1>4. ASSUME NEW p \in Proc, ReaderStep(p)
      PROVE  TypeOK' /\ IndexInv'
  BY <1>4, ReaderTyped, ReaderKeeps DEF IndexInv, SessionInv
<1>5. ASSUME NEW p \in Proc, Exit(p)
      PROVE  TypeOK' /\ IndexInv'
  BY <1>5, ExitTyped, ExitKeeps
<1>6. CASE UNCHANGED vars
  <2>1. TypeOK'
    BY <1>6 DEF TypeOK, vars, folder, locks, local, purge, watch
  <2>2. Present' = Present /\ Latest' = Latest /\ LatestSegs' = LatestSegs
    BY <1>6, SnapsFrame DEF vars, folder
  <2>3. LatestIntact' /\ PurgeSafe' /\ Ascending'
    BY <1>6, <2>2 DEF IndexInv, LatestIntact, PurgeSafe, Ascending, Sweeping,
       vars, folder, locks, purge
  <2>4. \A p \in Proc : SessionInv(p)'
    BY <1>6, <2>2 DEF IndexInv, SessionInv, LocksKept, Chosen, IndexerInv,
       PublishedInv, HasPublished, SourceInv, TargetInv, MPublishInv,
       Sweeping, vars, folder, locks, local, purge
  <2> QED
    BY <2>1, <2>3, <2>4 DEF IndexInv
<1> QED
  BY <1>1, <1>2, <1>3, <1>4, <1>5, <1>6 DEF Next, Proc

\* Every variable of the system keeps its type: in particular no session ever
\* writes a segment or reads a snapshot without having chosen its number.
THEOREM TypeCorrect == Spec => []TypeOK
<1>1. TypeOK /\ IndexInv /\ [Next]_vars => (TypeOK /\ IndexInv)'
  BY NextKeeps
<1> QED
  BY <1>1, InitKeeps, PTL DEF Spec

\* The inductive invariant: what sessions know of the latest snapshot stays
\* true as long as they need it, and no purge touches what is needed.
THEOREM IndexInvariant == Spec => []IndexInv
<1>1. TypeOK /\ IndexInv /\ [Next]_vars => (TypeOK /\ IndexInv)'
  BY NextKeeps
<1> QED
  BY <1>1, InitKeeps, PTL DEF Spec

\* The index is always there: whatever Indexers, background mergers, purges,
\* failed deletions and crashes of any number of processes do, every segment
\* that the latest snapshot lists is on disk and finished.
THEOREM IndexAlwaysThere == Spec => []LatestIntact
<1>1. IndexInv => LatestIntact
  BY DEF IndexInv
<1> QED
  BY <1>1, IndexInvariant, PTL

-----------------------------------------------------------------------------
(* How the latest snapshot changes.                                        *)

\* What a process may do next.
Step(p) == \/ IndexerStep(p) \/ MergerStep(p) \/ Purge(p)
           \/ ReaderStep(p) \/ Exit(p)

\* How snapshots come and go.
Publishes(p) ==
    /\ pc[p] \in {"publish", "mPublish"}
    /\ NextGen \in Gens
    /\ Publish(NextGen, view[p])
    /\ pc' = [pc EXCEPT ![p] = IF pc[p] = "publish" THEN "zap1" ELSE "mUnmerge"]
    /\ gen' = [gen EXCEPT ![p] = NextGen]
    /\ UNCHANGED <<dirs, complete, locks, seg, goners, oldSnaps>>

Drops(p, g) ==
    /\ Sweeping(p) /\ g \in oldSnaps
    /\ snaps' = [snaps EXCEPT ![g] = NoFile]
    /\ UNCHANGED <<dirs, complete, locks, pc, gen, seg, goners, maybe,
                   published, asOf>>
    /\ oldSnaps' \subseteq oldSnaps

LEMMA SnapshotStep ==
    ASSUME TypeOK, NEW p \in Proc, Step(p)
    PROVE  \/ UNCHANGED <<snaps, published>>
           \/ Publishes(p)
           \/ \E g \in oldSnaps : Drops(p, g)
<1> USE DEF folder, locks, local, purge, watch, Goto
<1>1. CASE IndexerStep(p)
  <2>1. CASE IxPublish(p)
    BY <2>1 DEF IxPublish, Publishes
  <2>2. CASE ~IxPublish(p)
    BY <1>1, <2>2 DEF IndexerStep, IxBegin, IxIsLocked, IxCutoff, IxPrep,
       IxMergeLock, IxFinish, IxNothing, IxAbandon, IxUnmerge, IxUnlock
  <2> QED
    BY <2>1, <2>2
<1>2. CASE MergerStep(p)
  <2>1. CASE MPublish(p)
    BY <2>1 DEF MPublish, Publishes
  <2>2. CASE ~MPublish(p)
    BY <1>2, <2>2 DEF MergerStep, MBegin, MLock, MRead, MEmpty, MOpen,
       MCutoff, MUnlock, MSkip, MPrep, MWrite, MRelock, MCarryNothing, MCarry,
       MCarryFails, MAbandon, MUnmerge, MUnjson, MDone
  <2> QED
    BY <2>1, <2>2
<1>3. CASE Purge(p)
  <2>1. CASE SweepSnapshot(p)
    BY <2>1 DEF SweepSnapshot, Drops
  <2>2. CASE ~SweepSnapshot(p)
    BY <1>3, <2>2 DEF Purge, PurgeSkip, PurgeStart, SweepSegment,
       SweepSegmentFails, SweepMergeJson, PurgeEnd
  <2> QED
    BY <2>1, <2>2
<1>4. CASE ReaderStep(p)
  BY <1>4 DEF ReaderStep, RBegin, RScanBegin, RScanEnd, Pick, RRead,
     RReadFails, ROpenSegment, ROpenFails, Reopen, ROpenDone, RUnlock, RClose
<1>5. CASE Exit(p)
  BY <1>5 DEF Exit
<1> QED
  BY <1>1, <1>2, <1>3, <1>4, <1>5 DEF Step

\* What is published is finished, reaches at least as far as the snapshot
\* before it and does not list what a merger is working on.
LEMMA PublishedFacts ==
    ASSUME TypeOK, IndexInv, NEW p \in Proc, Publishes(p)
    PROVE  /\ NextGen \notin Present /\ Latest < NextGen
           /\ Present' = Present \cup {NextGen}
           /\ \A g \in Present : snaps'[g] = snaps[g]
           /\ snaps'[NextGen] = view[p]
           /\ Latest' = NextGen
           /\ LatestSegs' = view[p]
           /\ view[p] \in SUBSET complete
           /\ view[p] \in SUBSET Segs
           /\ Highest(LatestSegs) <= Highest(view[p])
           /\ \A q \in Proc : pc[q] \in WorkingPCs => seg[q] \notin view[p]
<1>0. SessionInv(p)
  BY DEF IndexInv
<1>1. /\ Latest \in Nat
      /\ Present \in SUBSET (1..MaxGen)
      /\ \A g \in Present : g \in Nat /\ g <= Latest
  BY LatestType, BoundsAssumption DEF Gens
<1>2. NextGen \in 1..MaxGen /\ Latest < NextGen /\ NextGen \notin Present
  BY <1>1 DEF Publishes, NextGen, Gens
<1>3. /\ view[p] \in SUBSET Segs
      /\ view[p] # NoFile
  BY ProcAssumption DEF TypeOK
<1>4. /\ \A g \in Gens : g # NextGen => snaps'[g] = snaps[g]
      /\ snaps'[NextGen] = view[p]
  BY <1>2 DEF TypeOK, Publishes, Publish, Gens
<1>5. Present' = Present \cup {NextGen}
  BY <1>2, <1>3, <1>4 DEF Present, Gens
<1>6. \A g \in Present : snaps'[g] = snaps[g]
  BY <1>2, <1>4 DEF Present
<1>7. Latest' = NextGen
  <2>1. Present' \in SUBSET (1..MaxGen)
    BY <1>1, <1>2, <1>5
  <2>2. NextGen \in Present' /\ \A g \in Present' : g <= NextGen
    BY <1>1, <1>2, <1>5
  <2>3. Highest(Present') = NextGen
    BY <2>1, <2>2, BoundsAssumption, HighestIs
  <2> QED
    BY <2>3 DEF Latest, Highest
<1>8. LatestSegs' = view[p]
  <2>1. LatestSegs' = IF Latest' = 0 THEN {} ELSE snaps'[Latest']
    BY DEF LatestSegs
  <2>2. NextGen # 0
    BY <1>2
  <2> QED
    BY <1>4, <1>7, <2>1, <2>2
<1>h. /\ LatestSegs \in SUBSET Segs
      /\ Highest(LatestSegs) \in Nat
      /\ Highest(view[p]) \in Nat
      /\ \A n \in view[p] : n \in Nat /\ n <= Highest(view[p])
  BY <1>3, LatestType, HighestListed
<1>9. CASE pc[p] = "publish"
  <2>1. /\ view[p] \subseteq complete
        /\ view[p] \subseteq LatestSegs \cup {seg[p]}
        /\ seg[p] \in view[p]
        /\ seg[p] > Highest(LatestSegs)
    BY <1>0, <1>9 DEF SessionInv, IndexerInv, WritingPCs
  <2>2. Highest(LatestSegs) <= Highest(view[p])
    BY <1>h, <2>1
  <2>3. ASSUME NEW q \in Proc, pc[q] \in WorkingPCs
        PROVE  seg[q] \notin view[p]
    <3>1. TargetInv(q)
      BY DEF IndexInv, SessionInv
    <3>2. seg[q] < seg[p] /\ \A g \in Present : seg[q] \notin snaps[g]
      BY <1>9, <2>3, <3>1 DEF TargetInv, WritingPCs
    <3>3. seg[q] \notin LatestSegs
      BY <3>2, LatestType DEF LatestSegs
    <3>4. seg[p] \in Nat
      BY <1>h, <2>1
    <3> QED
      BY <2>1, <3>2, <3>3, <3>4
  <2> QED
    BY <1>2, <1>3, <1>4, <1>5, <1>6, <1>7, <1>8, <2>1, <2>2, <2>3
<1>10. CASE pc[p] = "mPublish"
  <2>1. view[p] \subseteq complete /\ Highest(LatestSegs) <= Highest(view[p])
    BY <1>0, <1>10 DEF SessionInv, MPublishInv
  <2>2. \A q \in Proc : pc[q] \notin WorkingPCs
    BY <1>10 DEF IndexInv, SessionInv, LocksKept, WorkingPCs, MergePCs
  <2> QED
    BY <1>2, <1>3, <1>4, <1>5, <1>6, <1>7, <1>8, <2>1, <2>2
<1> QED
  BY <1>9, <1>10 DEF Publishes

\* The latest generation never falls.
LEMMA LatestRises ==
    ASSUME TypeOK, IndexInv, NEW p \in Proc, Step(p)
    PROVE  Latest' \in Nat /\ Latest' >= Latest
<1>1. Latest \in Nat
  BY LatestType DEF Gens
<1>2. CASE snaps' = snaps
  BY <1>1, <1>2, SnapsFrame
<1>3. CASE Publishes(p)
  <2>1. Latest' = NextGen /\ Latest < NextGen /\ NextGen \in Gens
    BY <1>3, PublishedFacts DEF Publishes
  <2> QED
    BY <1>1, <2>1 DEF Gens
<1>4. ASSUME NEW g \in oldSnaps, Drops(p, g)
      PROVE  Latest' \in Nat /\ Latest' >= Latest
  <2>1. snaps' = [snaps EXCEPT ![g] = NoFile]
    BY <1>4 DEF Drops
  <2>2. Latest' = Latest
    BY <2>1, DroppedFacts
  <2> QED
    BY <1>1, <2>2
<1> QED
  BY <1>2, <1>3, <1>4, SnapshotStep

\* Only who is an Indexer or a merger does more than read.
LEMMA NextIsStep ==
    ASSUME Next
    PROVE  \E p \in Proc :
              /\ Step(p)
              /\ p \in Indexers \cup Mergers \/ ReaderStep(p) \/ Exit(p)
BY DEF Next, Step, Proc

\* Generations only go up: whatever is published, purged or lost in a crash,
\* the snapshot that the next session finds outranks every one before it.
THEOREM GenerationsGoUp == Spec => LatestAdvances
<1>1. ASSUME TypeOK, IndexInv, [Next]_vars
      PROVE  Latest' >= Latest
  <2>1. CASE UNCHANGED vars
    BY <1>1, <2>1, SnapsFrame, LatestType DEF vars, folder, Gens
  <2>2. CASE Next
    BY <1>1, <2>2, NextIsStep, LatestRises
  <2> QED
    BY <1>1, <2>1, <2>2
<1>2. TypeOK /\ IndexInv /\ [Next]_vars => [Latest' >= Latest]_vars
  BY <1>1
<1> QED
  BY <1>2, TypeCorrect, IndexInvariant, PTL DEF Spec, LatestAdvances

-----------------------------------------------------------------------------
(* Why LockedIntact, PublishedImmutable and ReadersUpToDate hold, given    *)
(* IndexInv.                                                               *)

\* Whatever was ever listed lies below what sessions write.
PublishedBelow ==
    /\ \A g \in Present : snaps[g] \subseteq published
    /\ \A n \in published : n <= Highest(LatestSegs)
    /\ \A p \in Proc : pc[p] \in WorkingPCs => seg[p] \notin published

\* Purges keep off what has a read lock.
LockedSafe ==
    \A p \in Proc : readLock[p] # 0 =>
        /\ readLock[p] \in Present \ oldSnaps
        /\ snaps[readLock[p]] \subseteq complete \ goners

\* Where a reader with a manager has the deletion lock: snapshots only come,
\* and those as of the beginning are complete.
OpeningPCs == ReaderPCs \ {"open"}

OpeningInv(p) ==
    p \in Readers /\ pc[p] \in OpeningPCs =>
        /\ deletionLock = p
        /\ asOf[p] \in Present \cup {0}
        /\ \A g \in Present : g >= asOf[p] => snaps[g] \subseteq complete
        /\ pc[p] = "rScan" => /\ maybe[p] \subseteq Present
                              /\ sure[p] \subseteq Present
                              /\ asOf[p] \in sure[p] \cup {0}

\* A reader with a manager picks nothing older.
UpToDate(p) ==
    p \in Readers =>
        /\ pc[p] \in ReaderPCs => asOf[p] <= Latest
        /\ pc[p] \in ReaderPCs \ {"rPick", "rScan"} => gen[p] >= asOf[p]

ReadersInv == /\ PublishedBelow
              /\ LockedSafe
              /\ \A p \in Proc : OpeningInv(p) /\ UpToDate(p)

\* The only directory that p makes, clears or finishes is that of n.
Writes(n) ==
    /\ dirs' \subseteq dirs \cup {n}
    /\ complete' \subseteq complete \cup {n}
    /\ complete \ {n} \subseteq complete'

\* Sessions write where no snapshot has been, and purges only what they have
\* on their list.
LEMMA FolderStep ==
    ASSUME TypeOK, IndexInv, PublishedBelow, NEW p \in Proc, Step(p)
    PROVE  \/ UNCHANGED <<dirs, complete>>
           \/ \E n \in Segs \ published : Writes(n)
           \/ /\ Sweeping(p)
              /\ dirs' \subseteq dirs /\ complete' \subseteq complete
              /\ complete \ goners \subseteq complete'
<1> USE DEF folder
<1>0. SessionInv(p)
  BY DEF IndexInv
<1>1. \A n \in Segs : n > Highest(LatestSegs) => n \notin published
  <2>1. Highest(LatestSegs) \in Nat
    BY LatestType, HighestListed
  <2>2. \A n \in Segs : n \in Nat
    BY DEF Segs
  <2> QED
    BY <2>1, <2>2 DEF PublishedBelow
<1>2. CASE IndexerStep(p)
  <2>1. CASE IxPrep(p) \/ IxFinish(p)
    <3>1. pc[p] \in WritingPCs
      BY <2>1 DEF IxPrep, IxFinish, WritingPCs
    <3>2. seg[p] \in Segs \ published
      BY <1>0, <1>1, <3>1 DEF SessionInv, Chosen, IndexerInv
    <3>3. Writes(seg[p])
      BY <2>1 DEF IxPrep, IxFinish, PrepSegDir, Finish, Writes
    <3> QED
      BY <3>2, <3>3
  <2>2. CASE ~(IxPrep(p) \/ IxFinish(p))
    BY <1>2, <2>2 DEF IndexerStep, IxBegin, IxIsLocked, IxCutoff, IxMergeLock,
       IxNothing, IxPublish, IxAbandon, IxUnmerge, IxUnlock
  <2> QED
    BY <2>1, <2>2
<1>3. CASE MergerStep(p)
  <2>1. CASE MPrep(p) \/ MWrite(p)
    <3>1. pc[p] \in WorkingPCs
      BY <2>1 DEF MPrep, MWrite, WorkingPCs
    <3>2. seg[p] \in Segs \ published
      BY <1>0, <3>1 DEF SessionInv, Chosen, PublishedBelow
    <3>3. Writes(seg[p])
      BY <2>1 DEF MPrep, MWrite, PrepSegDir, Finish, Writes
    <3> QED
      BY <3>2, <3>3
  <2>2. CASE MCarry(p)
    <3> DEFINE del == Highest(LatestSegs) + 1
    <3>1. \/ UNCHANGED <<dirs, complete>>
          \/ del \in Segs /\ dirs' = dirs \cup {del} /\ Finish(del)
      BY <2>2 DEF MCarry
    <3>2. del > Highest(LatestSegs)
      BY LatestType, HighestListed
    <3> HIDE DEF del
    <3>3. ASSUME del \in Segs, dirs' = dirs \cup {del}, Finish(del)
          PROVE  \E n \in Segs \ published : Writes(n)
      <4>1. del \notin published
        BY <1>1, <3>2, <3>3
      <4>2. Writes(del)
        BY <3>3 DEF Finish, Writes
      <4> QED
        BY <3>3, <4>1, <4>2
    <3> QED
      BY <3>1, <3>3
  <2>3. CASE ~(MPrep(p) \/ MWrite(p) \/ MCarry(p))
    BY <1>3, <2>3 DEF MergerStep, MBegin, MLock, MRead, MEmpty, MOpen,
       MCutoff, MUnlock, MSkip, MRelock, MCarryNothing, MCarryFails, MPublish,
       MAbandon, MUnmerge, MUnjson, MDone
  <2> QED
    BY <2>1, <2>2, <2>3
<1>4. CASE Purge(p)
  <2>1. CASE SweepSegment(p) \/ SweepSegmentFails(p)
    BY <2>1 DEF SweepSegment, SweepSegmentFails
  <2>2. CASE ~(SweepSegment(p) \/ SweepSegmentFails(p))
    BY <1>4, <2>2 DEF Purge, PurgeSkip, PurgeStart, SweepMergeJson,
       SweepSnapshot, PurgeEnd
  <2> QED
    BY <2>1, <2>2
<1>5. CASE ReaderStep(p)
  BY <1>5 DEF ReaderStep, RBegin, RScanBegin, RScanEnd, Pick, RRead,
     RReadFails, ROpenSegment, ROpenFails, Reopen, ROpenDone, RUnlock, RClose
<1>6. CASE Exit(p)
  BY <1>6 DEF Exit
<1> QED
  BY <1>2, <1>3, <1>4, <1>5, <1>6 DEF Step

\* A step of p leaves the others' memory and locks alone.
LEMMA OthersStay ==
    ASSUME TypeOK, IndexInv, NEW p \in Proc, Step(p), NEW q \in Proc, q # p
    PROVE  /\ pc'[q] = pc[q] /\ gen'[q] = gen[q] /\ seg'[q] = seg[q]
           /\ readLock'[q] = readLock[q] /\ asOf'[q] = asOf[q]
           /\ toOpen'[q] = toOpen[q] /\ lastGen'[q] = lastGen[q]
           /\ deletionLock = q => deletionLock' = q
           /\ ~Sweeping(p) => sure'[q] = sure[q]
           /\ \A g \in sure[q] : g \in Present' => g \in sure'[q]
           /\ sure'[q] \subseteq sure[q]
           /\ \/ maybe'[q] = maybe[q] /\ (q \in overtaken' <=> q \in overtaken)
              \/ Publishes(p)
<1> USE DEF TypeOK, folder, locks, local, purge, watch, Goto, Forget
<1>0. Sweeping(p) => deletionLock = p
  BY DEF IndexInv, SessionInv, LocksKept
<1>1. CASE IndexerStep(p)
  <2>1. CASE IxPublish(p)
    BY <2>1 DEF IxPublish, Publishes, Publish
  <2>2. CASE ~IxPublish(p)
    BY <1>1, <2>2 DEF IndexerStep, IxBegin, IxIsLocked, IxCutoff, IxPrep,
       IxMergeLock, IxFinish, IxNothing, IxAbandon, IxUnmerge, IxUnlock
  <2> QED
    BY <2>1, <2>2
<1>2. CASE MergerStep(p)
  <2>1. CASE MPublish(p)
    BY <2>1 DEF MPublish, Publishes, Publish
  <2>2. CASE ~MPublish(p)
    BY <1>2, <2>2 DEF MergerStep, MBegin, MLock, MRead, MEmpty, MOpen,
       MCutoff, MUnlock, MSkip, MPrep, MWrite, MRelock, MCarryNothing, MCarry,
       MCarryFails, MAbandon, MUnmerge, MUnjson, MDone
  <2> QED
    BY <2>1, <2>2
<1>3. CASE Purge(p)
  <2>1. CASE PurgeEnd(p) \/ PurgeStart(p)
    BY <1>0, <2>1, ProcAssumption DEF PurgeEnd, PurgeStart
  <2>2. CASE ~(PurgeEnd(p) \/ PurgeStart(p))
    <3>1. CASE SweepSnapshot(p)
      BY <3>1 DEF SweepSnapshot, Present
    <3>2. CASE ~SweepSnapshot(p)
      BY <1>3, <2>2, <3>2 DEF Purge, PurgeSkip, SweepSegment,
         SweepSegmentFails, SweepMergeJson
    <3> QED
      BY <3>1, <3>2
  <2> QED
    BY <2>1, <2>2
<1>4. CASE ReaderStep(p)
  <2>1. CASE RBegin(p)
    BY <2>1, ProcAssumption DEF RBegin
  <2>2. CASE RScanEnd(p)
    <3>1. PICK g : Pick(p, g)
      BY <2>2 DEF RScanEnd
    <3> QED
      BY <2>2, <3>1 DEF RScanEnd, Pick
  <2>3. CASE RScanBegin(p)
    BY <2>3 DEF RScanBegin
  <2>4. CASE RReadFails(p) \/ ROpenFails(p)
    BY <2>4 DEF RReadFails, ROpenFails, Reopen
  <2>5. CASE \/ RRead(p) \/ ROpenSegment(p) \/ ROpenDone(p)
             \/ RUnlock(p) \/ RClose(p)
    BY <2>5 DEF RRead, ROpenSegment, ROpenDone, RUnlock, RClose
  <2> QED
    BY <1>4, <2>1, <2>2, <2>3, <2>4, <2>5 DEF ReaderStep
<1>5. CASE Exit(p)
  BY <1>5, ProcAssumption DEF Exit
<1> QED
  BY <1>1, <1>2, <1>3, <1>4, <1>5 DEF Step

\* A merger begins to work on a segment beyond all there are.
LEMMA WorkStep ==
    ASSUME TypeOK, IndexInv, NEW p \in Proc, Step(p), NEW q \in Proc,
           pc'[q] \in WorkingPCs
    PROVE  \/ pc[q] \in WorkingPCs /\ seg'[q] = seg[q]
           \/ /\ UNCHANGED <<snaps, published>>
              /\ seg'[q] = Highest(LatestSegs) + 1
<1> USE DEF TypeOK, folder, locks, local, purge, watch, Goto, WorkingPCs
<1>1. CASE q # p
  BY <1>1, OthersStay
<1>2. CASE q = p /\ IndexerStep(p)
  BY <1>2 DEF IndexerStep, IxBegin, IxIsLocked, IxCutoff, IxPrep, IxMergeLock,
     IxFinish, IxNothing, IxPublish, IxAbandon, IxUnmerge, IxUnlock
<1>3. CASE q = p /\ MergerStep(p)
  <2>1. CASE MCutoff(p)
    <3>1. pc[p] = "mCutoff" /\ PublishedInv(p)
      BY <2>1 DEF MCutoff, IndexInv, SessionInv
    <3>2. view[p] = LatestSegs
      BY <3>1 DEF PublishedInv
    <3> QED
      BY <1>3, <2>1, <3>2 DEF MCutoff
  <2>2. CASE ~MCutoff(p)
    BY <1>3, <2>2 DEF MergerStep, MBegin, MLock, MRead, MEmpty, MOpen,
       MUnlock, MSkip, MPrep, MWrite, MRelock, MCarryNothing, MCarry,
       MCarryFails, MPublish, MAbandon, MUnmerge, MUnjson, MDone
  <2> QED
    BY <2>1, <2>2
<1>4. CASE q = p /\ Purge(p)
  BY <1>4 DEF Purge, PurgeSkip, PurgeStart, SweepSegment, SweepSegmentFails,
     SweepMergeJson, SweepSnapshot, PurgeEnd, Sweep, AfterZap, AfterSweep,
     Sweeping
<1>5. CASE q = p /\ ReaderStep(p)
  <2>1. CASE RScanEnd(p)
    <3>1. PICK g : Pick(p, g)
      BY <2>1 DEF RScanEnd
    <3> QED
      BY <1>5, <3>1 DEF Pick
  <2>2. CASE RReadFails(p) \/ ROpenFails(p)
    BY <1>5, <2>2 DEF RReadFails, ROpenFails, Reopen
  <2>3. CASE ~(RScanEnd(p) \/ RReadFails(p) \/ ROpenFails(p))
    BY <1>5, <2>3 DEF ReaderStep, RBegin, RScanBegin, RRead,
       ROpenSegment, ROpenDone, RUnlock, RClose
  <2> QED
    BY <2>1, <2>2, <2>3
<1>6. CASE q = p /\ Exit(p)
  BY <1>6 DEF Exit
<1> QED
  BY <1>1, <1>2, <1>3, <1>4, <1>5, <1>6 DEF Step

\* So what is written lies beyond whatever was ever listed.
LEMMA PublishedBelowKept ==
    ASSUME TypeOK, TypeOK', IndexInv, PublishedBelow, NEW p \in Proc, Step(p)
    PROVE  PublishedBelow'
<1>1. CASE UNCHANGED <<snaps, published>>
  <2>1. Present' = Present /\ LatestSegs' = LatestSegs
    BY <1>1, SnapsFrame
  <2>2. ASSUME NEW q \in Proc, pc'[q] \in WorkingPCs
        PROVE  seg'[q] \notin published'
    <3>1. Highest(LatestSegs) \in Nat
      BY LatestType, HighestListed
    <3>2. \A n \in published : n \in Nat /\ n <= Highest(LatestSegs)
      BY DEF TypeOK, Segs, PublishedBelow
    <3> QED
      BY <1>1, <2>2, <3>1, <3>2, WorkStep DEF PublishedBelow
  <2> QED
    BY <1>1, <2>1, <2>2 DEF PublishedBelow
<1>2. CASE Publishes(p)
  <2>1. published' = published \cup view[p]
    BY <1>2 DEF Publishes, Publish
  <2>2. \A g \in Present' : snaps'[g] \subseteq published'
    BY <1>2, <2>1, PublishedFacts DEF PublishedBelow
  <2>3. /\ Highest(LatestSegs) \in Nat /\ Highest(view[p]) \in Nat
        /\ \A n \in view[p] : n <= Highest(view[p])
        /\ Highest(LatestSegs) <= Highest(view[p])
    BY <1>2, LatestType, PublishedFacts, HighestListed
  <2>4. \A n \in published : n \in Nat /\ n <= Highest(LatestSegs)
    BY DEF TypeOK, Segs, PublishedBelow
  <2>5. \A n \in published' : n <= Highest(LatestSegs')
    BY <1>2, <2>1, <2>3, <2>4, PublishedFacts
  <2>6. ASSUME NEW q \in Proc, pc'[q] \in WorkingPCs
        PROVE  seg'[q] \notin published'
    <3>1. pc[q] \in WorkingPCs /\ seg'[q] = seg[q]
      BY <1>2, <2>6 DEF TypeOK, Publishes, WorkingPCs
    <3> QED
      BY <1>2, <2>1, <3>1, PublishedFacts DEF PublishedBelow
  <2> QED
    BY <2>2, <2>5, <2>6 DEF PublishedBelow, Highest
<1>3. ASSUME NEW g \in oldSnaps, Drops(p, g)
      PROVE  PublishedBelow'
  BY <1>3, DroppedFacts DEF Drops, PublishedBelow
<1> QED
  BY <1>1, <1>2, <1>3, SnapshotStep

\* What a reader picks is there and whole: under the deletion lock nothing
\* that was there when it began goes away.
LEMMA PickFacts ==
    ASSUME TypeOK, IndexInv, NEW p \in Proc, OpeningInv(p), RScanEnd(p)
    PROVE  \E g \in Gens \cup {0} :
             /\ Pick(p, g)
             /\ p \in Readers => g >= asOf[p]
             /\ p \in Readers /\ g # 0 => /\ g \in Present
                                          /\ snaps[g] \subseteq complete
<1>0. asOf[p] \in Nat /\ \A g \in Gens : g \in Nat /\ g # 0
  BY DEF TypeOK, Gens
<1>1. PICK chance \in SUBSET (maybe[p] \ sure[p]) :
          Pick(p, Highest(sure[p] \cup chance))
  BY DEF RScanEnd
<1> DEFINE S == sure[p] \cup chance
           g == Highest(S)
<1>2. S \in SUBSET (1..MaxGen)
  BY DEF TypeOK, Gens
<1>3. g \in S \cup {0} /\ g \in 0..MaxGen /\ \A m \in S : m <= g
  BY <1>2, BoundsAssumption, HighestIsHighest
<1>4. pc[p] = "rScan"
  BY DEF RScanEnd
<1>5. g \in Gens \cup {0}
  BY <1>2, <1>3 DEF Gens
<1> HIDE DEF g
<1>6. ASSUME p \in Readers
      PROVE  /\ g >= asOf[p]
             /\ g # 0 => g \in Present /\ snaps[g] \subseteq complete
  <2>1. /\ maybe[p] \subseteq Present /\ sure[p] \subseteq Present
        /\ asOf[p] \in sure[p] \cup {0}
        /\ \A h \in Present : h >= asOf[p] => snaps[h] \subseteq complete
    BY <1>4, <1>6 DEF OpeningInv, OpeningPCs, ReaderPCs
  <2>2. g >= asOf[p]
    BY <1>0, <1>3, <2>1, BoundsAssumption
  <2>3. g # 0 => g \in Present
    BY <1>3, <2>1
  <2> QED
    BY <2>1, <2>2, <2>3
<1> QED
  BY <1>1, <1>5, <1>6 DEF g

\* A read lock is taken on a snapshot that is whole, while no purge runs.
LEMMA ReadLockStep ==
    ASSUME TypeOK, IndexInv, NEW p \in Proc, Step(p), NEW q \in Proc,
           OpeningInv(p), readLock'[q] # 0
    PROVE  \/ readLock'[q] = readLock[q]
           \/ /\ UNCHANGED <<snaps, complete, goners, oldSnaps>>
              /\ goners = {} /\ oldSnaps = {}
              /\ readLock'[q] \in Present
              /\ snaps[readLock'[q]] \subseteq complete
<1> USE DEF folder, locks, local, purge, watch, Goto
<1>0. SessionInv(p)
  BY DEF IndexInv
<1>1. CASE q # p
  BY <1>1, OthersStay
<1>2. CASE q = p /\ IndexerStep(p)
  BY <1>2 DEF IndexerStep, IxBegin, IxIsLocked, IxCutoff, IxPrep, IxMergeLock,
     IxFinish, IxNothing, IxPublish, IxAbandon, IxUnmerge, IxUnlock
<1>3. CASE q = p /\ MergerStep(p)
  <2>1. CASE MOpen(p)
    <3>1. pc[p] = "mOpen" /\ gen[p] = Latest /\ Latest # 0
      BY <1>0, <2>1 DEF MOpen, SessionInv, PublishedInv
    <3>2. Latest \in Present /\ snaps[Latest] \subseteq complete
      BY <3>1, LatestType DEF IndexInv, LatestIntact, LatestSegs
    <3>3. deletionLock = None => goners = {} /\ oldSnaps = {}
      BY DEF IndexInv, PurgeSafe
    <3> QED
      BY <1>3, <2>1, <3>1, <3>2, <3>3 DEF TypeOK, MOpen
  <2>2. CASE MCarryNothing(p) \/ MCarry(p) \/ MDone(p)
    BY <1>3, <2>2 DEF TypeOK, MCarryNothing, MCarry, MDone
  <2>3. CASE ~(MOpen(p) \/ MCarryNothing(p) \/ MCarry(p) \/ MDone(p))
    BY <1>3, <2>3 DEF MergerStep, MBegin, MLock, MRead, MEmpty, MCutoff,
       MUnlock, MSkip, MPrep, MWrite, MRelock, MCarryFails, MPublish,
       MAbandon, MUnmerge, MUnjson
  <2> QED
    BY <2>1, <2>2, <2>3
<1>4. CASE q = p /\ Purge(p)
  BY <1>4 DEF Purge, PurgeSkip, PurgeStart, SweepSegment, SweepSegmentFails,
     SweepMergeJson, SweepSnapshot, PurgeEnd
<1>5. CASE q = p /\ ReaderStep(p)
  <2>1. CASE RScanEnd(p)
    <3>1. pc[p] = "rScan"
      BY <2>1 DEF RScanEnd
    <3>2. PICK g \in Gens \cup {0} :
             /\ Pick(p, g)
             /\ p \in Readers /\ g # 0 => /\ g \in Present
                                          /\ snaps[g] \subseteq complete
      BY <2>1, PickFacts
    <3>3. p \in Readers /\ g # 0 /\ readLock'[p] = g
      BY <1>5, <3>2 DEF TypeOK, Pick
    <3>4. goners = {} /\ oldSnaps = {}
      <4>1. deletionLock = p /\ ~Sweeping(p)
        BY <3>1, <3>3 DEF OpeningInv, OpeningPCs, ReaderPCs, Sweeping,
           AfterSweep
      <4> QED
        BY <4>1 DEF IndexInv, PurgeSafe
    <3> QED
      BY <1>5, <3>2, <3>3, <3>4 DEF Pick
  <2>2. CASE RReadFails(p) \/ ROpenFails(p) \/ RClose(p)
    BY <1>5, <2>2 DEF TypeOK, RReadFails, ROpenFails, Reopen, RClose
  <2>3. CASE \/ RBegin(p) \/ RScanBegin(p) \/ RRead(p) \/ ROpenSegment(p)
             \/ ROpenDone(p) \/ RUnlock(p)
    BY <1>5, <2>3 DEF RBegin, RScanBegin, RRead, ROpenSegment, ROpenDone,
       RUnlock
  <2> QED
    BY <1>5, <2>1, <2>2, <2>3 DEF ReaderStep
<1>6. CASE q = p /\ Exit(p)
  BY <1>6 DEF TypeOK, Exit
<1> QED
  BY <1>1, <1>2, <1>3, <1>4, <1>5, <1>6 DEF Step

\* A purge chooses what to delete when it starts.
LEMMA PurgeListStep ==
    ASSUME TypeOK, NEW p \in Proc, Step(p), ~PurgeStart(p)
    PROVE  goners' \subseteq goners /\ oldSnaps' \subseteq oldSnaps
<1> USE DEF purge
<1>1. CASE IndexerStep(p)
  BY <1>1 DEF IndexerStep, IxBegin, IxIsLocked, IxCutoff, IxPrep, IxMergeLock,
     IxFinish, IxNothing, IxPublish, IxAbandon, IxUnmerge, IxUnlock
<1>2. CASE MergerStep(p)
  BY <1>2 DEF MergerStep, MBegin, MLock, MRead, MEmpty, MOpen, MCutoff,
     MUnlock, MSkip, MPrep, MWrite, MRelock, MCarryNothing, MCarry,
     MCarryFails, MPublish, MAbandon, MUnmerge, MUnjson, MDone
<1>3. CASE Purge(p)
  BY <1>3 DEF Purge, PurgeSkip, SweepSegment, SweepSegmentFails,
     SweepMergeJson, SweepSnapshot, PurgeEnd
<1>4. CASE ReaderStep(p)
  BY <1>4 DEF ReaderStep, RBegin, RScanBegin, RScanEnd, Pick, RRead,
     RReadFails, ROpenSegment, ROpenFails, Reopen, ROpenDone, RUnlock, RClose
<1>5. CASE Exit(p)
  BY <1>5 DEF Exit
<1> QED
  BY <1>1, <1>2, <1>3, <1>4, <1>5 DEF Step

\* It spares every snapshot that is read locked.
LEMMA PurgeSpares ==
    ASSUME TypeOK, IndexInv, NEW p \in Proc, PurgeStart(p), NEW q \in Proc,
           readLock[q] \in Present
    PROVE  /\ readLock[q] \notin oldSnaps'
           /\ snaps[readLock[q]] \cap goners' = {}
<1> DEFINE g == readLock[q]
<1>1. pc[p] \in DOMAIN Sweep
  BY DEF PurgeStart
<1>2. OwnGen(p) = Latest /\ OwnList(p) = LatestSegs
  BY <1>1, OwnIsLatest
<1>3. g \notin Unused(p)
  BY DEF Unused, ReadLocked
<1>4. snaps[g] \subseteq Spared(p)
  <2>1. CASE g = OwnGen(p)
    <3>1. Latest # 0
      BY <1>2, <2>1 DEF Present, Gens
    <3> QED
      BY <1>2, <2>1, <3>1 DEF Spared, LatestSegs
  <2>2. CASE g # OwnGen(p)
    <3>1. g \in Present \ (Unused(p) \cup {OwnGen(p)})
      BY <1>3, <2>2
    <3> QED
      BY <3>1 DEF Spared, ListedBy
  <2> QED
    BY <2>1, <2>2
<1> QED
  BY <1>3, <1>4 DEF PurgeStart

\* So a read lock keeps a snapshot whole.
LEMMA LockedSafeKept ==
    ASSUME TypeOK, TypeOK', IndexInv, ReadersInv, NEW p \in Proc, Step(p)
    PROVE  LockedSafe'
<1> SUFFICES ASSUME NEW q \in Proc, readLock'[q] # 0
             PROVE  /\ readLock'[q] \in Present' \ oldSnaps'
                    /\ snaps'[readLock'[q]] \subseteq complete' \ goners'
  BY DEF LockedSafe
<1> DEFINE g == readLock'[q]
<1>1. CASE g # readLock[q]
  <2>1. /\ UNCHANGED <<snaps, complete, goners, oldSnaps>>
        /\ goners = {} /\ oldSnaps = {}
        /\ g \in Present
        /\ snaps[g] \subseteq complete
    BY <1>1, ReadLockStep DEF ReadersInv
  <2>2. Present' = Present
    BY <2>1, SnapsFrame
  <2> QED
    BY <2>1, <2>2
<1>2. CASE g = readLock[q]
  <2>1. /\ g \in Present \ oldSnaps
        /\ snaps[g] \subseteq complete \ goners
        /\ snaps[g] \subseteq published
    BY <1>2 DEF ReadersInv, LockedSafe, PublishedBelow
  <2>2. g \in Present' /\ snaps'[g] = snaps[g]
    <3>1. CASE snaps' = snaps
      BY <2>1, <3>1, SnapsFrame
    <3>2. CASE Publishes(p)
      BY <2>1, <3>2, PublishedFacts
    <3>3. ASSUME NEW h \in oldSnaps, Drops(p, h)
          PROVE  g \in Present' /\ snaps'[g] = snaps[g]
      BY <2>1, <3>3, DroppedFacts DEF Drops
    <3> QED
      BY <3>1, <3>2, <3>3, SnapshotStep
  <2>3. g \notin oldSnaps' /\ snaps[g] \cap goners' = {}
    <3>1. CASE PurgeStart(p)
      BY <1>2, <2>1, <3>1, PurgeSpares
    <3>2. CASE ~PurgeStart(p)
      BY <2>1, <3>2, PurgeListStep
    <3> QED
      BY <3>1, <3>2
  <2>4. snaps[g] \subseteq complete'
    <3>1. CASE UNCHANGED <<dirs, complete>>
      BY <2>1, <3>1
    <3>2. ASSUME NEW n \in Segs \ published, Writes(n)
          PROVE  snaps[g] \subseteq complete'
      BY <2>1, <3>2 DEF Writes
    <3>3. CASE complete \ goners \subseteq complete'
      BY <2>1, <3>3
    <3> QED
      BY <3>1, <3>2, <3>3, FolderStep DEF ReadersInv
  <2> QED
    BY <2>2, <2>3, <2>4
<1> QED
  BY <1>1, <1>2

\* While a reader has the deletion lock, snapshots come and none goes.
LEMMA OpeningKeptByOthers ==
    ASSUME TypeOK, TypeOK', IndexInv, ReadersInv, NEW p \in Proc, Step(p),
           NEW q \in Proc, q # p
    PROVE  OpeningInv(q)'
<1>1. /\ pc'[q] = pc[q] /\ asOf'[q] = asOf[q]
      /\ deletionLock = q => deletionLock' = q
      /\ ~Sweeping(p) => sure'[q] = sure[q]
      /\ maybe'[q] = maybe[q] \/ Publishes(p)
  BY OthersStay
<1> SUFFICES ASSUME q \in Readers, pc[q] \in OpeningPCs
             PROVE  /\ deletionLock' = q
                    /\ asOf[q] \in Present' \cup {0}
                    /\ \A g \in Present' :
                           g >= asOf[q] => snaps'[g] \subseteq complete'
                    /\ pc[q] = "rScan" => /\ maybe'[q] \subseteq Present'
                                          /\ sure'[q] \subseteq Present'
                                          /\ asOf[q] \in sure'[q] \cup {0}
  BY <1>1 DEF OpeningInv
<1>2. /\ deletionLock = q
      /\ asOf[q] \in Present \cup {0}
      /\ \A g \in Present : g >= asOf[q] => snaps[g] \subseteq complete
      /\ pc[q] = "rScan" => /\ maybe[q] \subseteq Present
                            /\ sure[q] \subseteq Present
                            /\ asOf[q] \in sure[q] \cup {0}
  BY DEF ReadersInv, OpeningInv
<1>3. ~Sweeping(p)
  BY <1>2 DEF IndexInv, SessionInv, LocksKept
<1>4. \A g \in Present : g >= asOf[q] => snaps[g] \subseteq complete'
  <2>1. \A g \in Present : snaps[g] \subseteq published
    BY DEF ReadersInv, PublishedBelow
  <2>2. CASE UNCHANGED complete
    BY <1>2, <2>2
  <2>3. ASSUME NEW n \in Segs \ published, Writes(n)
        PROVE  \A g \in Present : g >= asOf[q] => snaps[g] \subseteq complete'
    BY <1>2, <2>1, <2>3 DEF Writes
  <2> QED
    BY <1>3, <2>2, <2>3, FolderStep DEF ReadersInv
<1>5. CASE snaps' = snaps
  <2>1. Present' = Present
    BY <1>5, SnapsFrame
  <2>2. ~Publishes(p)
    <3>1. ASSUME Publishes(p)
          PROVE  FALSE
      <4>1. NextGen \notin Present /\ Present' = Present \cup {NextGen}
        BY <3>1, PublishedFacts
      <4> QED
        BY <2>1, <4>1
    <3> QED
      BY <3>1
  <2> QED
    BY <1>1, <1>2, <1>3, <1>4, <1>5, <2>1, <2>2
<1>6. CASE Publishes(p)
  <2>1. /\ Present' = Present \cup {NextGen}
        /\ \A g \in Present : snaps'[g] = snaps[g]
        /\ snaps'[NextGen] \subseteq complete
    BY <1>6, PublishedFacts
  <2>2. complete' = complete
    BY <1>6 DEF Publishes
  <2>3. maybe'[q] \subseteq maybe[q] \cup {NextGen}
    BY <1>6 DEF Publishes, Publish
  <2> QED
    BY <1>1, <1>2, <1>3, <1>4, <2>1, <2>2, <2>3
<1> QED
  BY <1>3, <1>5, <1>6, SnapshotStep DEF Drops

\* It begins so: nothing from before the latest counts.
LEMMA OpeningKept ==
    ASSUME TypeOK, TypeOK', IndexInv, ReadersInv, NEW p \in Proc, Step(p)
    PROVE  OpeningInv(p)'
<1> USE DEF folder, locks, local, purge, watch, Goto
<1>0. OpeningInv(p) /\ UpToDate(p)
  BY DEF ReadersInv
<1>1. CASE pc'[p] \notin OpeningPCs
  BY <1>1 DEF OpeningInv
<1>2. CASE RBegin(p) /\ p \in Readers
  <2>1. /\ Present' = Present /\ snaps' = snaps /\ complete' = complete
        /\ deletionLock' = p /\ asOf'[p] = Latest /\ pc'[p] = "rPick"
    BY <1>2, SnapsFrame DEF TypeOK, RBegin
  <2>2. Latest \in Present \cup {0}
    BY LatestType
  <2>3. ASSUME NEW g \in Present, g >= Latest
        PROVE  snaps[g] \subseteq complete
    <3>1. g = Latest /\ Latest # 0
      <4>1. g \in Nat /\ g # 0 /\ Latest \in Nat /\ g <= Latest
        BY LatestType DEF Present, Gens
      <4> QED
        BY <2>3, <4>1
    <3> QED
      BY <3>1 DEF IndexInv, LatestIntact, LatestSegs
  <2> QED
    BY <2>1, <2>2, <2>3 DEF OpeningInv
<1>3. CASE ReaderStep(p) /\ ~RBegin(p) /\ pc'[p] \in OpeningPCs /\ p \in Readers
  <2>1. /\ pc[p] \in OpeningPCs
        /\ UNCHANGED <<snaps, complete, deletionLock, asOf>>
        /\ pc'[p] = "rScan" => /\ maybe'[p] = Present
                               /\ sure'[p] = Present
    <3> USE DEF TypeOK, OpeningPCs, ReaderPCs
    <3>1. CASE RScanBegin(p)
      BY <3>1 DEF RScanBegin
    <3>2. CASE RScanEnd(p)
      <4>1. PICK g : Pick(p, g)
        BY <3>2 DEF RScanEnd
      <4> QED
        BY <3>2, <4>1 DEF RScanEnd, Pick
    <3>3. CASE RReadFails(p) \/ ROpenFails(p)
      BY <1>3, <3>3 DEF RReadFails, ROpenFails, Reopen
    <3>4. CASE \/ RRead(p) \/ ROpenSegment(p) \/ ROpenDone(p)
               \/ RUnlock(p) \/ RClose(p)
      BY <1>3, <3>4 DEF RRead, ROpenSegment, ROpenDone, RUnlock, RClose
    <3> QED
      BY <1>3, <3>1, <3>2, <3>3, <3>4 DEF ReaderStep
  <2>2. Present' = Present
    BY <2>1, SnapsFrame
  <2> QED
    BY <1>0, <1>3, <2>1, <2>2 DEF OpeningInv
<1>4. CASE p \notin Readers
  BY <1>4 DEF OpeningInv
<1>5. CASE ~ReaderStep(p)
  <2> USE DEF TypeOK, OpeningPCs, ReaderPCs
  <2>1. CASE IndexerStep(p)
    BY <1>1, <2>1 DEF IndexerStep, IxBegin, IxIsLocked, IxCutoff, IxPrep,
       IxMergeLock, IxFinish, IxNothing, IxPublish, IxAbandon, IxUnmerge,
       IxUnlock
  <2>2. CASE MergerStep(p)
    BY <1>1, <2>2 DEF MergerStep, MBegin, MLock, MRead, MEmpty, MOpen,
       MCutoff, MUnlock, MSkip, MPrep, MWrite, MRelock, MCarryNothing,
       MCarry, MCarryFails, MPublish, MAbandon, MUnmerge, MUnjson, MDone
  <2>3. CASE Purge(p)
    BY <1>1, <2>3 DEF Purge, PurgeSkip, PurgeStart, SweepSegment,
       SweepSegmentFails, SweepMergeJson, SweepSnapshot, PurgeEnd, Sweep,
       AfterZap, AfterSweep, Sweeping
  <2>4. CASE Exit(p)
    BY <1>1, <2>4 DEF Exit
  <2> QED
    BY <1>5, <2>1, <2>2, <2>3, <2>4 DEF Step
<1> QED
  BY <1>1, <1>2, <1>3, <1>4, <1>5

\* What is picked is at least as recent as what was the latest before.
LEMMA UpToDateKept ==
    ASSUME TypeOK, TypeOK', IndexInv, ReadersInv, NEW p \in Proc, Step(p),
           NEW q \in Proc
    PROVE  UpToDate(q)'
<1> USE DEF folder, locks, local, purge, watch, Goto
<1>0. /\ OpeningInv(q) /\ UpToDate(q)
      /\ Latest \in Nat /\ Latest' \in Nat /\ Latest' >= Latest
      /\ asOf[q] \in Nat /\ gen[q] \in Nat
  BY LatestRises, LatestType DEF ReadersInv, TypeOK, Gens
<1>1. CASE q # p
  BY <1>0, <1>1, OthersStay DEF UpToDate
<1>2. CASE q = p /\ pc'[p] \notin ReaderPCs
  BY <1>2 DEF UpToDate, ReaderPCs
<1>3. CASE q = p /\ RBegin(p)
  <2>1. asOf'[p] = Latest /\ pc'[p] = "rPick"
    BY <1>3 DEF TypeOK, RBegin
  <2> QED
    BY <1>0, <1>3, <2>1 DEF UpToDate
<1>4. CASE q = p /\ RScanEnd(p)
  <2>1. PICK g \in Gens \cup {0} :
             /\ Pick(p, g)
             /\ p \in Readers => g >= asOf[p]
    BY <1>0, <1>4, PickFacts
  <2>2. gen'[p] = g /\ asOf'[p] = asOf[p] /\ pc[p] = "rScan"
    BY <1>4, <2>1 DEF TypeOK, Pick, RScanEnd
  <2> QED
    BY <1>0, <1>4, <2>1, <2>2 DEF UpToDate, ReaderPCs
<1>5. CASE q = p /\ RScanBegin(p)
  <2>1. pc[p] = "rPick" /\ pc'[p] = "rScan" /\ asOf' = asOf
    BY <1>5 DEF TypeOK, RScanBegin
  <2> QED
    BY <1>0, <1>5, <2>1 DEF UpToDate, ReaderPCs
<1>6. CASE q = p /\ (RReadFails(p) \/ ROpenFails(p))
  <2>1. /\ pc[p] \in ReaderPCs /\ pc'[p] \in {"rPick", "error"}
        /\ asOf' = asOf
    BY <1>6 DEF TypeOK, RReadFails, ROpenFails, Reopen, ReaderPCs
  <2> QED
    BY <1>0, <1>6, <2>1 DEF UpToDate, ReaderPCs
<1>7. CASE q = p /\ (RRead(p) \/ ROpenSegment(p) \/ ROpenDone(p) \/ RUnlock(p))
  <2>1. /\ pc[p] \in ReaderPCs \ {"rPick", "rScan"}
        /\ pc'[p] \in ReaderPCs \ {"rPick", "rScan"}
        /\ asOf' = asOf /\ gen' = gen
    BY <1>7 DEF TypeOK, RRead, ROpenSegment, ROpenDone, RUnlock, ReaderPCs
  <2> QED
    BY <1>0, <1>7, <2>1 DEF UpToDate, ReaderPCs
<1>8. CASE q = p /\ RClose(p)
  BY <1>2, <1>8 DEF TypeOK, RClose, ReaderPCs
<1>9. CASE q = p /\ ~ReaderStep(p)
  <2> USE DEF TypeOK, ReaderPCs
  <2>1. CASE IndexerStep(p)
    BY <1>2, <1>9, <2>1 DEF IndexerStep, IxBegin, IxIsLocked, IxCutoff,
       IxPrep, IxMergeLock, IxFinish, IxNothing, IxPublish, IxAbandon,
       IxUnmerge, IxUnlock
  <2>2. CASE MergerStep(p)
    BY <1>2, <1>9, <2>2 DEF MergerStep, MBegin, MLock, MRead, MEmpty, MOpen,
       MCutoff, MUnlock, MSkip, MPrep, MWrite, MRelock, MCarryNothing,
       MCarry, MCarryFails, MPublish, MAbandon, MUnmerge, MUnjson, MDone
  <2>3. CASE Purge(p)
    BY <1>2, <1>9, <2>3 DEF Purge, PurgeSkip, PurgeStart, SweepSegment,
       SweepSegmentFails, SweepMergeJson, SweepSnapshot, PurgeEnd, Sweep,
       AfterZap, AfterSweep, Sweeping
  <2>4. CASE Exit(p)
    BY <1>2, <1>9, <2>4 DEF Exit
  <2> QED
    BY <1>9, <2>1, <2>2, <2>3, <2>4 DEF Step
<1> QED
  BY <1>1, <1>3, <1>4, <1>5, <1>6, <1>7, <1>8, <1>9 DEF ReaderStep

\* Together they hold from the beginning on.
LEMMA ReadersInvInit ==
    ASSUME Init
    PROVE  ReadersInv
<1>1. Present = {}
  BY DEF Init, Present
<1>2. PublishedBelow
  BY <1>1 DEF Init, PublishedBelow, WorkingPCs
<1>3. LockedSafe
  BY DEF Init, LockedSafe
<1>4. \A p \in Proc : OpeningInv(p) /\ UpToDate(p)
  BY DEF Init, OpeningInv, UpToDate, OpeningPCs, ReaderPCs
<1> QED
  BY <1>2, <1>3, <1>4 DEF ReadersInv

LEMMA ReadersInvKept ==
    ASSUME TypeOK, TypeOK', IndexInv, ReadersInv, [Next]_vars
    PROVE  ReadersInv'
<1>1. ASSUME NEW p \in Proc, Step(p)
      PROVE  ReadersInv'
  <2>1. PublishedBelow' /\ LockedSafe'
    BY <1>1, PublishedBelowKept, LockedSafeKept DEF ReadersInv
  <2>2. \A q \in Proc : OpeningInv(q)'
    BY <1>1, OpeningKept, OpeningKeptByOthers
  <2>3. \A q \in Proc : UpToDate(q)'
    BY <1>1, UpToDateKept
  <2> QED
    BY <2>1, <2>2, <2>3 DEF ReadersInv
<1>2. CASE UNCHANGED vars
  <2> USE DEF vars, folder, locks, local, purge, watch
  <2>1. Present' = Present /\ Latest' = Latest /\ LatestSegs' = LatestSegs
    BY <1>2, SnapsFrame
  <2>2. PublishedBelow'
    BY <1>2, <2>1 DEF ReadersInv, PublishedBelow
  <2>3. LockedSafe'
    BY <1>2, <2>1 DEF ReadersInv, LockedSafe
  <2>4. \A q \in Proc : OpeningInv(q)' /\ UpToDate(q)'
    BY <1>2, <2>1 DEF ReadersInv, OpeningInv, UpToDate
  <2> QED
    BY <2>2, <2>3, <2>4 DEF ReadersInv
<1> QED
  BY <1>1, <1>2, NextIsStep

\* The strengthening that the next three theorems rest on: sessions write
\* beyond everything that was ever listed, purges spare what is locked, and
\* for a reader that holds the deletion lock nothing goes away.
THEOREM ReadersInvariant == Spec => []ReadersInv
<1>1. /\ TypeOK /\ TypeOK' /\ IndexInv /\ ReadersInv /\ [Next]_vars
      => ReadersInv'
  BY ReadersInvKept
<1> QED
  BY <1>1, ReadersInvInit, TypeCorrect, IndexInvariant, PTL DEF Spec

\* Whatever is purged, by however many sessions, a snapshot that somebody
\* reads keeps its file and all its segments until the read lock goes.
THEOREM LockedStays == Spec => []LockedIntact
<1>1. ReadersInv => LockedIntact
  BY DEF ReadersInv, LockedSafe, LockedIntact, Present
<1> QED
  BY <1>1, ReadersInvariant, PTL

\* Segments are written once: a directory that a snapshot has listed, even
\* one that is gone, is never made or finished again by any session.
THEOREM PublishedWrittenOnce == Spec => PublishedImmutable
<1> DEFINE Once == \A n \in published : /\ n \in dirs' => n \in dirs
                                        /\ n \in complete' => n \in complete
<1>1. ASSUME TypeOK, IndexInv, ReadersInv, [Next]_vars
      PROVE  Once
  <2>1. CASE UNCHANGED vars
    BY <2>1 DEF vars, folder
  <2>2. ASSUME NEW p \in Proc, Step(p)
        PROVE  Once
    <3>1. CASE \E n \in Segs \ published : Writes(n)
      BY <3>1 DEF Writes
    <3>2. CASE dirs' \subseteq dirs /\ complete' \subseteq complete
      BY <3>2
    <3> QED
      BY <1>1, <2>2, <3>1, <3>2, FolderStep DEF ReadersInv
  <2> QED
    BY <1>1, <2>1, <2>2, NextIsStep
<1>2. TypeOK /\ IndexInv /\ ReadersInv /\ [Next]_vars => [Once]_vars
  BY <1>1
<1> QED
  BY <1>2, TypeCorrect, IndexInvariant, ReadersInvariant, PTL
  DEF Spec, PublishedImmutable

\* Whoever opens the index with a manager gets the snapshot that was the
\* latest when it began, or a later one, however its directory scans are torn.
THEOREM ReadersGetTheLatest == Spec => []ReadersUpToDate
<1>1. ReadersInv => ReadersUpToDate
  BY DEF ReadersInv, UpToDate, ReadersUpToDate, ReaderPCs, Proc
<1> QED
  BY <1>1, ReadersInvariant, PTL

-----------------------------------------------------------------------------
(* Why NothingLeaks holds.                                                 *)

\* What a purge has on its list is accounted for: every directory that a
\* snapshot file to be deleted lists is to go, could not be deleted or is
\* listed by a snapshot file that stays.
PurgeAccounts ==
    /\ oldSnaps \subseteq Present
    /\ \A g \in oldSnaps :
           snaps[g] \cap dirs
               \subseteq goners \cup failures \cup ListedBy(Present \ oldSnaps)

\* Only purges, and the end of one, change what there is to delete.
LEMMA NotAPurge ==
    ASSUME TypeOK, NEW p \in Proc,
           IndexerStep(p) \/ MergerStep(p) \/ ReaderStep(p)
    PROVE  UNCHANGED purge /\ ~Sweeping(p)
<1> USE DEF Sweeping, AfterSweep
<1>1. CASE IndexerStep(p)
  BY <1>1 DEF IndexerStep, IxBegin, IxIsLocked, IxCutoff, IxPrep, IxMergeLock,
     IxFinish, IxNothing, IxPublish, IxAbandon, IxUnmerge, IxUnlock
<1>2. CASE MergerStep(p)
  BY <1>2 DEF MergerStep, MBegin, MLock, MRead, MEmpty, MOpen, MCutoff,
     MUnlock, MSkip, MPrep, MWrite, MRelock, MCarryNothing, MCarry,
     MCarryFails, MPublish, MAbandon, MUnmerge, MUnjson, MDone
<1>3. CASE ReaderStep(p)
  BY <1>3 DEF ReaderStep, RBegin, RScanBegin, RScanEnd, Pick, RRead,
     RReadFails, ROpenSegment, ROpenFails, Reopen, ROpenDone, RUnlock, RClose
<1> QED
  BY <1>1, <1>2, <1>3

\* A snapshot file is deleted when each of its directories is gone or is
\* listed elsewhere.
LEMMA LeaksKept ==
    ASSUME TypeOK, IndexInv, ReadersInv, PurgeAccounts, NothingLeaks,
           NEW p \in Proc, Step(p)
    PROVE  PurgeAccounts' /\ NothingLeaks'
<1> DEFINE Kept == ListedBy(Present \ oldSnaps)
<1> USE DEF folder, locks, local, purge, watch
<1>0. \A g \in Present : snaps[g] \subseteq published
  BY DEF ReadersInv, PublishedBelow
<1>1. \A n \in dirs' : n \in dirs \/ n \notin published
  BY FolderStep DEF ReadersInv, Writes
<1>2. CASE UNCHANGED <<snaps, published, goners, oldSnaps, failures>>
  <2>1. Present' = Present
    BY <1>2, SnapsFrame
  <2>2. Kept' = Kept
    BY <1>2, <2>1 DEF ListedBy
  <2>3. PurgeAccounts'
    BY <1>0, <1>1, <1>2, <2>1, <2>2 DEF PurgeAccounts
  <2>4. NothingLeaks'
    BY <1>1, <1>2, <2>1 DEF NothingLeaks
  <2> QED
    BY <2>3, <2>4
<1>3. CASE Publishes(p) /\ UNCHANGED <<goners, oldSnaps, failures>>
  <2>1. /\ Present' = Present \cup {NextGen} /\ NextGen \notin Present
        /\ \A g \in Present : snaps'[g] = snaps[g]
        /\ snaps'[NextGen] = view[p]
        /\ published' = published \cup view[p] /\ dirs' = dirs
    BY <1>3, PublishedFacts DEF Publishes, Publish
  <2>2. PurgeAccounts'
    <3>1. ASSUME NEW n \in Kept
          PROVE  n \in Kept'
      <4>1. PICK g \in Present \ oldSnaps : n \in snaps[g]
        BY DEF ListedBy
      <4>2. g \in Present' \ oldSnaps' /\ n \in snaps'[g]
        BY <1>3, <2>1, <4>1
      <4> QED
        BY <4>2 DEF ListedBy
    <3> QED
      BY <1>3, <2>1, <3>1 DEF PurgeAccounts
  <2>3. NothingLeaks'
    BY <2>1 DEF NothingLeaks
  <2> QED
    BY <2>2, <2>3
<1>4. CASE IndexerStep(p) \/ MergerStep(p) \/ ReaderStep(p)
  BY <1>2, <1>3, <1>4, NotAPurge, SnapshotStep DEF Drops
<1>5. CASE Exit(p)
  <2>1. UNCHANGED <<snaps, published, dirs>>
    BY <1>5 DEF Exit
  <2>2. oldSnaps' = {} \/ UNCHANGED <<goners, oldSnaps, failures>>
    BY <1>5 DEF Exit
  <2>3. CASE oldSnaps' = {}
    BY <2>1, <2>3, SnapsFrame DEF PurgeAccounts, NothingLeaks
  <2> QED
    BY <1>2, <2>1, <2>2, <2>3
<1>6. CASE PurgeSkip(p) \/ SweepMergeJson(p)
  BY <1>2, <1>6 DEF PurgeSkip, SweepMergeJson
<1>7. CASE PurgeStart(p)
  <2>1. /\ UNCHANGED <<snaps, dirs, published>>
        /\ oldSnaps' = Unused(p)
        /\ ListedBy(Unused(p)) \ Spared(p) \subseteq goners'
        /\ pc[p] \in DOMAIN Sweep
    BY <1>7 DEF PurgeStart
  <2>2. Present' = Present
    BY <2>1, SnapsFrame
  <2>3. OwnGen(p) = Latest /\ OwnList(p) = LatestSegs
    BY <2>1, OwnIsLatest
  <2>4. Unused(p) \subseteq Present \ {Latest}
    BY <2>3 DEF Unused
  <2>5. ASSUME NEW n \in Spared(p)
        PROVE  n \in ListedBy(Present \ Unused(p))
    <3>1. CASE n \in LatestSegs
      <4>1. Latest \in Present /\ n \in snaps[Latest]
        BY <3>1, LatestType DEF LatestSegs
      <4> QED
        BY <2>4, <4>1 DEF ListedBy
    <3>2. CASE n \notin LatestSegs
      BY <2>3, <2>5, <3>2 DEF Spared, ListedBy
    <3> QED
      BY <3>1, <3>2
  <2>6. PurgeAccounts'
    <3>1. Kept' = ListedBy(Present \ Unused(p))
      BY <2>1, <2>2 DEF ListedBy
    <3>2. \A g \in Unused(p) : snaps[g] \subseteq ListedBy(Unused(p))
      BY DEF ListedBy
    <3> QED
      BY <2>1, <2>2, <2>4, <2>5, <3>1, <3>2 DEF PurgeAccounts
  <2> QED
    BY <2>1, <2>2, <2>6 DEF NothingLeaks
<1>8. CASE SweepSegment(p) \/ SweepSegmentFails(p)
  <2>1. /\ UNCHANGED <<snaps, oldSnaps, published>>
        /\ goners \cap dirs' \subseteq goners' \cup failures'
        /\ failures \subseteq failures'
        /\ dirs' \subseteq dirs
    BY <1>8 DEF SweepSegment, SweepSegmentFails
  <2>2. Present' = Present
    BY <2>1, SnapsFrame
  <2>3. Kept' = Kept
    BY <2>1, <2>2 DEF ListedBy
  <2> QED
    BY <2>1, <2>2, <2>3 DEF PurgeAccounts, NothingLeaks
<1>9. CASE SweepSnapshot(p)
  <2>1. PICK g \in oldSnaps :
            /\ oldSnaps' = oldSnaps \ {g}
            /\ snaps' = IF snaps[g] \cap failures = {}
                        THEN [snaps EXCEPT ![g] = NoFile] ELSE snaps
    BY <1>9 DEF SweepSnapshot
  <2>2. goners = {} /\ UNCHANGED <<dirs, published, goners, failures>>
    BY <1>9 DEF SweepSnapshot
  <2>3. /\ Present \ {g} \subseteq Present' /\ Present' \subseteq Present
        /\ \A h \in Present' : snaps'[h] = snaps[h]
    <3>1. CASE snaps' = snaps
      BY <3>1, SnapsFrame
    <3>2. CASE snaps' = [snaps EXCEPT ![g] = NoFile]
      BY <3>2, DroppedFacts
    <3> QED
      BY <2>1, <3>1, <3>2
  <2>4. Kept \subseteq Kept'
    <3>1. Present \ oldSnaps \subseteq Present' \ oldSnaps'
      BY <2>1, <2>3
    <3> QED
      BY <2>3, <3>1 DEF ListedBy
  <2>5. PurgeAccounts'
    BY <2>1, <2>2, <2>3, <2>4 DEF PurgeAccounts
  <2>6. ASSUME NEW n \in published \cap dirs
        PROVE  \E h \in Present' : n \in snaps'[h]
    <3>1. PICK h \in Present : n \in snaps[h]
      BY DEF NothingLeaks
    <3>2. CASE h \in Present'
      BY <2>3, <3>1, <3>2
    <3>3. CASE h \notin Present'
      <4>1. h = g /\ snaps[g] \cap failures = {}
        <5>1. h = g
          BY <2>3, <3>1, <3>3
        <5>2. snaps' # snaps
          BY <3>3, SnapsFrame
        <5> QED
          BY <2>1, <5>1, <5>2
      <4>2. n \in Kept
        BY <2>1, <2>2, <3>1, <4>1 DEF PurgeAccounts
      <4>3. n \in Kept'
        BY <2>4, <4>2
      <4> QED
        BY <4>3 DEF ListedBy
    <3> QED
      BY <3>2, <3>3
  <2> QED
    BY <2>2, <2>5, <2>6 DEF NothingLeaks
<1>10. CASE PurgeEnd(p)
  <2>1. UNCHANGED <<snaps, dirs, published, oldSnaps>> /\ oldSnaps = {}
    BY <1>10 DEF PurgeEnd
  <2> QED
    BY <2>1, SnapsFrame DEF PurgeAccounts, NothingLeaks
<1> QED
  BY <1>4, <1>5, <1>6, <1>7, <1>8, <1>9, <1>10 DEF Step, Purge

\* Nothing published is forgotten: as long as the directory of a segment
\* exists some snapshot file lists it, whatever could not be deleted and
\* wherever a purge was cut short, so that a later purge finds it.
THEOREM NothingIsForgotten == Spec => []NothingLeaks
<1>1. Init => PurgeAccounts /\ NothingLeaks
  BY DEF Init, PurgeAccounts, NothingLeaks
<1>2. ASSUME TypeOK, IndexInv, ReadersInv, [Next]_vars,
             PurgeAccounts, NothingLeaks
      PROVE  (PurgeAccounts /\ NothingLeaks)'
  <2>1. CASE UNCHANGED vars
    <3>1. Present' = Present
      BY <2>1, SnapsFrame DEF vars, folder
    <3>2. ListedBy(Present \ oldSnaps)' = ListedBy(Present \ oldSnaps)
      BY <2>1, <3>1 DEF ListedBy, vars, folder, purge
    <3> QED
      BY <1>2, <2>1, <3>1, <3>2
      DEF PurgeAccounts, NothingLeaks, vars, folder, purge, watch
  <2> QED
    BY <1>2, <2>1, NextIsStep, LeaksKept
<1>3. /\ TypeOK /\ IndexInv /\ ReadersInv /\ [Next]_vars
      /\ PurgeAccounts /\ NothingLeaks
      => (PurgeAccounts /\ NothingLeaks)'
  BY <1>2
<1> QED
  BY <1>1, <1>3, TypeCorrect, IndexInvariant, ReadersInvariant, PTL DEF Spec

-----------------------------------------------------------------------------
(* Why ReadersSucceed holds.                                               *)

\* What a directory scan can find is not beyond the latest snapshot, and
\* unless one was published meanwhile it is sure to find the latest.
ScanInv(p) ==
    pc[p] = "rScan" =>
        /\ \A g \in sure[p] \cup maybe[p] : g <= Latest
        /\ p \in Peekers \ overtaken => Latest \in sure[p] \cup {0}

\* What a reader with a manager is opening is locked, and what another found
\* by a scan that was not overtaken was the latest then, beyond the generation
\* that failed before.
RetryInv(p) ==
    /\ pc[p] \notin ReaderPCs \cup {"error"} => lastGen[p] = 0
    /\ pc[p] \in {"rPick", "rScan"} =>
           /\ lastGen[p] = 0 \/ lastGen[p] < Latest
           /\ asOf[p] <= Latest
    /\ pc[p] \in {"rRead", "rOpen"} =>
           /\ gen[p] # 0 /\ gen[p] <= Latest
           /\ asOf[p] <= Latest
           /\ p \in Readers => readLock[p] = gen[p]
           /\ p \in Peekers \ overtaken => lastGen[p] < gen[p]
    /\ pc[p] = "rOpen" /\ gen[p] \in Present
           => toOpen[p] \subseteq snaps[gen[p]]
    /\ pc[p] \in ReaderPCs \ {"rPick", "rScan"} /\ p \in Peekers \ overtaken
           => gen[p] >= asOf[p]

\* What cannot be opened is not the latest any more, nor is it locked.
LEMMA FailureIsOld ==
    ASSUME TypeOK, IndexInv, ReadersInv, NEW p \in Proc, RetryInv(p),
           RReadFails(p) \/ ROpenFails(p)
    PROVE  gen[p] < Latest /\ p \notin Readers
<1>1. /\ pc[p] \in {"rRead", "rOpen"}
      /\ pc[p] = "rRead" => snaps[gen[p]] = NoFile
      /\ pc[p] = "rOpen" => ~(toOpen[p] \subseteq complete)
  BY DEF RReadFails, ROpenFails
<1>2. /\ gen[p] # 0 /\ gen[p] <= Latest
      /\ p \in Readers => readLock[p] = gen[p]
      /\ pc[p] = "rOpen" /\ gen[p] \in Present
             => toOpen[p] \subseteq snaps[gen[p]]
  BY <1>1 DEF RetryInv
<1>3. ~(gen[p] \in Present /\ snaps[gen[p]] \subseteq complete)
  BY <1>1, <1>2 DEF Present
<1>4. p \notin Readers
  BY <1>2, <1>3 DEF ReadersInv, LockedSafe
<1>5. gen[p] # Latest
  BY <1>2, <1>3, LatestType DEF IndexInv, LatestIntact, LatestSegs
<1>6. gen[p] \in Nat /\ Latest \in Nat
  BY LatestType DEF TypeOK, Gens
<1> QED
  BY <1>2, <1>4, <1>5, <1>6

\* A snapshot that others publish during a scan may be missed by it, and they
\* purge all but the latest.
LEMMA ScanKeptByOthers ==
    ASSUME TypeOK, TypeOK', IndexInv, NEW p \in Proc, Step(p),
           NEW q \in Proc, q # p, ScanInv(q)
    PROVE  ScanInv(q)'
<1>1. /\ pc'[q] = pc[q]
      /\ \A g \in sure[q] : g \in Present' => g \in sure'[q]
      /\ sure'[q] \subseteq sure[q]
      /\ \/ maybe'[q] = maybe[q] /\ (q \in overtaken' <=> q \in overtaken)
         \/ Publishes(p)
  BY OthersStay
<1>2. \A g \in sure[q] \cup maybe[q] : g \in Nat
  BY DEF TypeOK, Gens
<1> SUFFICES ASSUME pc[q] = "rScan"
             PROVE  /\ \A g \in sure'[q] \cup maybe'[q] : g <= Latest'
                    /\ q \in Peekers \ overtaken'
                           => Latest' \in sure'[q] \cup {0}
  BY <1>1 DEF ScanInv
<1>3. /\ \A g \in sure[q] \cup maybe[q] : g <= Latest
      /\ q \in Peekers \ overtaken => Latest \in sure[q] \cup {0}
  BY DEF ScanInv
<1>4. CASE Publishes(p)
  <2>1. Latest' = NextGen /\ Latest < NextGen
    BY <1>4, PublishedFacts
  <2>2. Latest \in Nat /\ NextGen \in Nat
    BY LatestType DEF Gens, NextGen
  <2>3. /\ maybe'[q] \subseteq maybe[q] \cup {NextGen}
        /\ q \in Peekers => q \in overtaken'
    BY <1>4 DEF Publishes, Publish
  <2>4. \A g \in sure'[q] \cup maybe'[q] : g \in Nat /\ g <= NextGen
    BY <1>1, <1>2, <1>3, <2>1, <2>2, <2>3
  <2> QED
    BY <2>1, <2>3, <2>4
<1>5. CASE ~Publishes(p)
  <2>1. Latest' = Latest /\ (Latest # 0 => Latest \in Present')
    <3>1. Latest \in Present \cup {0}
      BY LatestType
    <3>2. CASE snaps' = snaps
      BY <3>1, <3>2, SnapsFrame
    <3>3. ASSUME NEW g \in oldSnaps, Drops(p, g)
          PROVE  Latest' = Latest /\ (Latest # 0 => Latest \in Present')
      BY <3>1, <3>3, DroppedFacts DEF Drops
    <3> QED
      BY <1>5, <3>2, <3>3, SnapshotStep
  <2> QED
    BY <1>1, <1>3, <1>5, <2>1
<1> QED
  BY <1>4, <1>5

\* What others do cannot make a generation that is being opened the latest
\* again.
LEMMA RetryKeptByOthers ==
    ASSUME TypeOK, TypeOK', IndexInv, NEW p \in Proc, Step(p),
           NEW q \in Proc, q # p, RetryInv(q)
    PROVE  RetryInv(q)'
<1>1. /\ pc'[q] = pc[q] /\ gen'[q] = gen[q] /\ readLock'[q] = readLock[q]
      /\ toOpen'[q] = toOpen[q] /\ lastGen'[q] = lastGen[q]
      /\ asOf'[q] = asOf[q]
  BY OthersStay
<1>2. q \in overtaken => q \in overtaken'
  <2>1. CASE Publishes(p)
    BY <2>1 DEF Publishes, Publish
  <2>2. CASE ~Publishes(p)
    BY <2>2, OthersStay
  <2> QED
    BY <2>1, <2>2
<1>3. /\ gen[q] \in Nat /\ lastGen[q] \in Nat /\ asOf[q] \in Nat
      /\ Latest \in Nat /\ Latest' \in Nat /\ Latest <= Latest'
  <2>1. gen[q] \in Nat /\ lastGen[q] \in Nat /\ asOf[q] \in Nat
    BY DEF TypeOK, Gens
  <2>2. Latest \in Nat
    BY LatestType DEF Gens
  <2> QED
    BY <2>1, <2>2, LatestRises
<1>4. ASSUME NEW g \in Present', g <= Latest
      PROVE  g \in Present /\ snaps'[g] = snaps[g]
  <2>1. CASE snaps' = snaps
    BY <2>1, SnapsFrame
  <2>2. CASE Publishes(p)
    <3>1. Latest < NextGen /\ NextGen \in Nat
      <4>1. Latest < NextGen /\ NextGen \in Gens
        BY <2>2, PublishedFacts DEF Publishes
      <4> QED
        BY <4>1 DEF Gens
    <3>2. g # NextGen
      BY <1>3, <1>4, <3>1
    <3> QED
      BY <2>2, <3>2, PublishedFacts
  <2>3. ASSUME NEW h \in oldSnaps, Drops(p, h)
        PROVE  g \in Present /\ snaps'[g] = snaps[g]
    <3>1. snaps' = [snaps EXCEPT ![h] = NoFile]
      BY <2>3 DEF Drops
    <3> QED
      BY <3>1, DroppedFacts
  <2> QED
    BY <2>1, <2>2, <2>3, SnapshotStep
<1> QED
  BY <1>1, <1>2, <1>3, <1>4 DEF RetryInv

\* A failure leaves behind a generation that the next scan is beyond.
LEMMA RetryKept ==
    ASSUME TypeOK, TypeOK', IndexInv, ReadersInv, NEW p \in Proc, Step(p),
           RetryInv(p), ScanInv(p)
    PROVE  RetryInv(p)' /\ ScanInv(p)'
<1> USE DEF folder, locks, local, purge, watch, Goto
<1>0. /\ Latest \in Nat /\ gen[p] \in Nat /\ lastGen[p] \in Nat
      /\ asOf[p] \in Nat
  BY LatestType DEF TypeOK, Gens
<1>1. CASE ~ReaderStep(p)
  <2>1. pc'[p] \notin ReaderPCs
        /\ (pc'[p] # "error" => lastGen'[p] = 0)
    <3> USE DEF TypeOK, RetryInv, ReaderPCs
    <3>1. CASE IndexerStep(p)
      BY <3>1 DEF IndexerStep, IxBegin, IxIsLocked, IxCutoff, IxPrep,
         IxMergeLock, IxFinish, IxNothing, IxPublish, IxAbandon, IxUnmerge,
         IxUnlock, Forget
    <3>2. CASE MergerStep(p)
      BY <3>2 DEF MergerStep, MBegin, MLock, MRead, MEmpty, MOpen, MCutoff,
         MUnlock, MSkip, MPrep, MWrite, MRelock, MCarryNothing, MCarry,
         MCarryFails, MPublish, MAbandon, MUnmerge, MUnjson, MDone, Forget
    <3>3. CASE Purge(p)
      BY <3>3 DEF Purge, PurgeSkip, PurgeStart, SweepSegment,
         SweepSegmentFails, SweepMergeJson, SweepSnapshot, PurgeEnd, Sweep,
         AfterZap, AfterSweep, Sweeping
    <3>4. CASE Exit(p)
      BY <3>4 DEF Exit, Forget
    <3> QED
      BY <1>1, <3>1, <3>2, <3>3, <3>4 DEF Step
  <2> QED
    BY <2>1 DEF RetryInv, ScanInv, ReaderPCs
<1>2. CASE ReaderStep(p)
  <2>0. /\ snaps' = snaps /\ Present' = Present /\ Latest' = Latest
    <3>1. snaps' = snaps
      BY <1>2 DEF ReaderStep, RBegin, RScanBegin, RScanEnd, Pick, RRead,
         RReadFails, ROpenSegment, ROpenFails, Reopen, ROpenDone, RUnlock,
         RClose
    <3> QED
      BY <3>1, SnapsFrame
  <2>1. CASE RBegin(p)
    <3>1. /\ pc'[p] = "rPick" /\ pc[p] = "idle" /\ lastGen' = lastGen
          /\ asOf'[p] = Latest
      BY <2>1 DEF TypeOK, RBegin
    <3>2. lastGen[p] = 0
      BY <3>1 DEF RetryInv, ReaderPCs
    <3> QED
      BY <1>0, <2>0, <3>1, <3>2 DEF RetryInv, ScanInv, ReaderPCs
  <2>2. CASE RScanBegin(p)
    <3>1. /\ pc[p] = "rPick" /\ pc'[p] = "rScan"
          /\ sure'[p] = Present /\ maybe'[p] = Present
          /\ lastGen' = lastGen /\ asOf' = asOf
      BY <2>2 DEF TypeOK, RScanBegin
    <3>2. /\ \A g \in Present : g <= Latest
          /\ Latest \in Present \cup {0}
      BY LatestType
    <3> QED
      BY <2>0, <3>1, <3>2 DEF RetryInv, ScanInv, ReaderPCs
  <2>3. CASE RScanEnd(p)
    <3>1. pc[p] = "rScan"
      BY <2>3 DEF RScanEnd
    <3>2. PICK chance \in SUBSET (maybe[p] \ sure[p]) :
              Pick(p, Highest(sure[p] \cup chance))
      BY <2>3 DEF RScanEnd
    <3> DEFINE S == sure[p] \cup chance
               g == Highest(S)
    <3>3. S \in SUBSET (1..MaxGen)
      BY DEF TypeOK, Gens
    <3>4. g \in S \cup {0} /\ g \in 0..MaxGen /\ \A m \in S : m <= g
      BY <3>3, BoundsAssumption, HighestIsHighest
    <3>5. Pick(p, g)
      BY <3>2
    <3>6. sure[p] \subseteq S /\ S \subseteq sure[p] \cup maybe[p]
      OBVIOUS
    <3> HIDE DEF g, S
    <3>7. /\ gen'[p] = g /\ lastGen' = lastGen /\ asOf' = asOf
          /\ pc'[p] = IF g = 0 THEN "rUnlock" ELSE "rRead"
          /\ p \in Readers => readLock'[p] = g
          /\ overtaken' = overtaken
      <4>1. g \in Gens \cup {0}
        BY <3>4, BoundsAssumption DEF Gens
      <4> QED
        BY <3>5, <4>1 DEF TypeOK, Pick
    <3>8. /\ g \in Nat /\ g <= Latest
          /\ p \in Peekers \ overtaken => g = Latest
      <4>1. /\ \A h \in sure[p] \cup maybe[p] : h <= Latest
            /\ p \in Peekers \ overtaken => Latest \in sure[p] \cup {0}
        BY <3>1 DEF ScanInv
      <4>2. g \in Nat /\ g <= Latest
        BY <1>0, <3>4, <3>6, <4>1, BoundsAssumption
      <4>3. ASSUME p \in Peekers \ overtaken
            PROVE  g >= Latest
        BY <1>0, <3>4, <3>6, <4>1, <4>2, <4>3
      <4> QED
        BY <1>0, <4>2, <4>3
    <3>9. /\ lastGen[p] = 0 \/ lastGen[p] < Latest
          /\ asOf[p] <= Latest
      BY <3>1 DEF RetryInv
    <3>10. pc'[p] = "rRead" /\ p \in Peekers \ overtaken => lastGen[p] < g
      <4>1. pc'[p] = "rRead" => g # 0
        BY <3>7
      <4> QED
        BY <1>0, <3>8, <3>9, <4>1
    <3> QED
      BY <1>0, <2>0, <3>7, <3>8, <3>9, <3>10
      DEF RetryInv, ScanInv, ReaderPCs
  <2>4. CASE RReadFails(p) \/ ROpenFails(p)
    <3>1. /\ pc[p] \in {"rRead", "rOpen"} /\ pc'[p] \in {"rPick", "error"}
          /\ pc'[p] = "rPick" => lastGen'[p] = gen[p]
          /\ asOf' = asOf
      BY <2>4 DEF TypeOK, RReadFails, ROpenFails, Reopen
    <3>2. gen[p] < Latest
      BY <2>4, FailureIsOld
    <3>3. asOf[p] <= Latest
      BY <3>1 DEF RetryInv
    <3> QED
      BY <2>0, <3>1, <3>2, <3>3 DEF RetryInv, ScanInv, ReaderPCs
  <2>5. CASE RRead(p)
    <3>1. /\ pc[p] = "rRead" /\ pc'[p] = "rOpen"
          /\ toOpen'[p] = snaps[gen[p]]
          /\ gen' = gen /\ lastGen' = lastGen /\ readLock' = readLock
          /\ asOf' = asOf /\ overtaken' = overtaken
      BY <2>5 DEF TypeOK, RRead
    <3> QED
      BY <2>0, <3>1 DEF RetryInv, ScanInv, ReaderPCs
  <2>6. CASE ROpenSegment(p)
    <3>1. /\ pc[p] = "rOpen" /\ pc'[p] = "rOpen"
          /\ toOpen'[p] \subseteq toOpen[p]
          /\ gen' = gen /\ lastGen' = lastGen /\ readLock' = readLock
          /\ asOf' = asOf /\ overtaken' = overtaken
      BY <2>6 DEF TypeOK, ROpenSegment
    <3> QED
      BY <2>0, <3>1 DEF RetryInv, ScanInv, ReaderPCs
  <2>7. CASE ROpenDone(p) \/ RUnlock(p)
    <3>1. /\ pc[p] \in {"rOpen", "rUnlock"} /\ pc'[p] \in {"rUnlock", "open"}
          /\ gen' = gen /\ asOf' = asOf /\ overtaken' = overtaken
      BY <2>7 DEF TypeOK, ROpenDone, RUnlock
    <3> QED
      BY <3>1 DEF RetryInv, ScanInv, ReaderPCs
  <2>8. CASE RClose(p)
    <3>1. pc'[p] = "idle" /\ lastGen'[p] = 0
      BY <2>8 DEF TypeOK, RClose, Forget
    <3> QED
      BY <3>1 DEF RetryInv, ScanInv, ReaderPCs
  <2> QED
    BY <1>2, <2>1, <2>2, <2>3, <2>4, <2>5, <2>6, <2>7, <2>8 DEF ReaderStep
<1> QED
  BY <1>1, <1>2

\* Opening an index never fails for a deletion by a concurrent session, nor
\* finds an index older than when it began, where the reader has a manager or
\* no snapshot was published during its last directory scan, however many were
\* before and after and whatever was purged: the retry rule of
\* PolyReader_do_open takes none of those deletions for a real error.
THEOREM ReadersNeverFail ==
    ASSUME (Readers \cup Peekers) \cap (Indexers \cup Mergers) = {}
    PROVE  Spec => []ReadersSucceed
<1> DEFINE NoneGivesUp == \A p \in Readers \cup Peekers :
                              pc[p] = "error" => p \in overtaken \ Readers
           Inv == NoneGivesUp /\ \A p \in Proc : RetryInv(p) /\ ScanInv(p)
<1>1. Init => Inv
  BY DEF Init, RetryInv, ScanInv, ReaderPCs, Proc
<1>2. ASSUME TypeOK, TypeOK', IndexInv, ReadersInv, Inv, [Next]_vars
      PROVE  Inv'
  <2>1. CASE UNCHANGED vars
    <3>1. Present' = Present /\ Latest' = Latest
      BY <2>1, SnapsFrame DEF vars, folder
    <3> QED
      BY <1>2, <2>1, <3>1
      DEF RetryInv, ScanInv, vars, folder, locks, local, watch
  <2>2. ASSUME NEW p \in Proc, Step(p),
               p \in Indexers \cup Mergers \/ ReaderStep(p) \/ Exit(p)
        PROVE  Inv'
    <3>1. \A q \in Proc : RetryInv(q)' /\ ScanInv(q)'
      BY <1>2, <2>2, RetryKept, RetryKeptByOthers, ScanKeptByOthers
    <3>2. ASSUME NEW q \in Readers \cup Peekers, q # p, pc'[q] = "error"
          PROVE  q \in overtaken' \ Readers
      <4>1. pc[q] = "error"
        BY <1>2, <2>2, <3>2, OthersStay DEF Proc
      <4>2. q \in overtaken \ Readers
        BY <1>2, <4>1
      <4>3. q \in overtaken'
        <5>1. CASE Publishes(p)
          BY <4>2, <5>1 DEF Publishes, Publish
        <5>2. CASE ~Publishes(p)
          BY <1>2, <2>2, <3>2, <4>2, <5>2, OthersStay DEF Proc
        <5> QED
          BY <5>1, <5>2
      <4> QED
        BY <4>2, <4>3
    <3>3. ASSUME p \in Readers \cup Peekers, ReaderStep(p), pc'[p] = "error"
          PROVE  p \in overtaken' \ Readers
      <4> USE DEF TypeOK, Goto
      <4>1. CASE RReadFails(p) \/ ROpenFails(p)
        <5>1. /\ pc[p] \in {"rRead", "rOpen"} /\ ~IsNews(p)
              /\ overtaken' = overtaken
          BY <1>2, <3>3, <4>1 DEF RReadFails, ROpenFails, Reopen, watch
        <5>2. p \notin Readers
          BY <1>2, <2>2, <4>1, FailureIsOld
        <5>3. p \in Peekers \ overtaken => lastGen[p] < gen[p]
          BY <1>2, <5>1 DEF RetryInv
        <5> QED
          BY <3>3, <5>1, <5>2, <5>3 DEF IsNews
      <4>2. CASE RScanEnd(p)
        <5>1. PICK g : Pick(p, g)
          BY <4>2 DEF RScanEnd
        <5> QED
          BY <1>2, <3>3, <5>1 DEF Pick
      <4>3. CASE ~(RReadFails(p) \/ ROpenFails(p) \/ RScanEnd(p))
        BY <1>2, <3>3, <4>3 DEF ReaderStep, RBegin, RScanBegin, RRead,
           ROpenSegment, ROpenDone, RUnlock, RClose
      <4> QED
        BY <4>1, <4>2, <4>3
    <3>4. ASSUME Exit(p)
          PROVE  pc'[p] # "error"
      BY <1>2, <3>4 DEF TypeOK, Exit, Goto
    <3> QED
      BY <2>2, <3>1, <3>2, <3>3, <3>4
  <2> QED
    BY <1>2, <2>1, <2>2, NextIsStep
<1>3. /\ TypeOK /\ TypeOK' /\ IndexInv /\ ReadersInv /\ Inv /\ [Next]_vars
      => Inv'
  BY <1>2
<1>4. Inv => ReadersSucceed
  BY DEF RetryInv, ReadersSucceed, ReaderPCs, Proc
<1> HIDE DEF Inv
<1> QED
  BY <1>1, <1>3, <1>4, TypeCorrect, IndexInvariant, ReadersInvariant, PTL
  DEF Spec
=============================================================================
