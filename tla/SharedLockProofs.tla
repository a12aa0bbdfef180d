-------------------------- MODULE SharedLockProofs --------------------------
(***************************************************************************)
(* What TLAPS proves of SharedLock.tla for any number of processes and     *)
(* lock objects, where callers release what they hold and Clear_Stale      *)
(* deletes what it has read: every holder has a lock file of its own, and  *)
(* a scan of the directory comes by the file of everyone who has held a    *)
(* lock since it began.                                                    *)
(***************************************************************************)
EXTENDS SharedLock, TLAPS

-----------------------------------------------------------------------------
(* The inductive invariant.                                                *)

RequestPCs == {"request", "retry", "refused"}
NumberPCs == {"probe", "exists", "open", "link", "won", "lost", "beaten"}

\* A process that is inside a method of an object is its owner's; while it
\* obtains, the object has a number and is not held yet; what it releases is.
CallInv(p) ==
    /\ pc[p] \in RequestPCs \cup NumberPCs \cup {"unlock"} =>
           obj[p] \in Objs /\ Owner[obj[p]] = p
    /\ pc[p] \in NumberPCs => obj[p] \notin held /\ num[obj[p]] # 0
    /\ pc[p] = "unlock" => obj[p] \in held

\* The lock file of a holder names the process of the holder.
FileInv(o) == o \in Holders => num[o] # 0 /\ files[num[o]] = Owner[o]

SharedInv ==
    /\ \A p \in Proc : CallInv(p)
    /\ \A o \in Objs : FileInv(o)
    /\ \A o1, o2 \in Holders : num[o1] = num[o2] => o1 = o2

\* What TypeOK says of the code's own variables.
Typed ==
    /\ files \in [Nums -> Proc \cup {None}]
    /\ linkFiles \subseteq Proc
    /\ pc \in [Proc -> PCs]
    /\ obj \in [Proc -> Objs \cup {None}]
    /\ num \in [Objs -> Nums \cup {0}]
    /\ held \in SUBSET Objs
    /\ toScan \in [Proc -> SUBSET Nums]
    /\ target \in [Proc -> Nums \cup {0}]
    /\ tries \in [Proc -> 0..Tries]

-----------------------------------------------------------------------------
(* Lemmas.                                                                 *)

\* Every object lives in a process.
LEMMA OwnerIs == Owner \in [Objs -> Proc]
<1>1. ASSUME NEW o \in Objs
      PROVE  (CHOOSE p \in Proc : {p, o} \in Lives) \in Proc
  BY <1>1, LivesAssumption
<1> QED
  BY <1>1 DEF Owner

\* A step that adds no holder and leaves the numbers and the files of those
\* that remain keeps what is known of holders.
LEMMA HoldersFrame ==
    ASSUME SharedInv, Holders' \subseteq Holders,
           \A o \in Holders' : /\ num'[o] = num[o]
                               /\ files'[num[o]] = files[num[o]]
    PROVE  /\ \A o \in Objs : FileInv(o)'
           /\ \A o1, o2 \in Holders' : num'[o1] = num'[o2] => o1 = o2
BY DEF SharedInv, FileInv, Holders

\* What one process does with its own objects keeps the others' CallInv.
LEMMA OthersFrame ==
    ASSUME Typed, NEW p \in Proc, NEW q \in Proc, q # p, CallInv(q),
           pc'[q] = pc[q], obj'[q] = obj[q],
           \A o \in Objs : Owner[o] # p =>
               num'[o] = num[o] /\ (o \in held' <=> o \in held)
    PROVE  CallInv(q)'
BY DEF CallInv, RequestPCs, NumberPCs

-----------------------------------------------------------------------------
(* Steps.                                                                  *)

LEMMA StepTyped ==
    ASSUME Typed, NEW p \in Proc, CallInv(p), OtherStep(p) \/ DeleteStale(p)
    PROVE  Typed'
<1> USE DEF Typed, Goto, disk, call, PCs, Path
<1>1. CASE ClearStart(p)
  BY <1>1 DEF ClearStart
<1>2. CASE ClearEntry(p)
  BY <1>2 DEF ClearEntry
<1>3. CASE ClearEnd(p)
  BY <1>3 DEF ClearEnd
<1>4. CASE ObtainStart(p)
  BY <1>4, BoundsAssumption DEF ObtainStart
<1>5. CASE RequestAgain(p)
  BY <1>5 DEF RequestAgain
<1>6. CASE RequestNew(p)
  BY <1>6, BoundsAssumption DEF RequestNew, CallInv, RequestPCs, Nums
<1>7. CASE Probe(p)
  <2>1. obj[p] \in Objs /\ num[obj[p]] \in Nums
    BY <1>7 DEF Probe, CallInv, NumberPCs
  <2>2. num[obj[p]] < MaxNum => num[obj[p]] + 1 \in Nums
    BY <2>1, BoundsAssumption DEF Nums
  <2> QED
    BY <1>7, <2>1, <2>2 DEF Probe
<1>8. CASE Exists(p)
  BY <1>8 DEF Exists, CallInv, NumberPCs
<1>9. CASE Open(p)
  BY <1>9 DEF Open, CallInv, NumberPCs
<1>10. CASE Link(p)
  BY <1>10 DEF Link, CallInv, NumberPCs
<1>11. CASE WriteFails(p)
  BY <1>11 DEF WriteFails, CallInv, NumberPCs
<1>12. CASE Unlink(p)
  BY <1>12 DEF Unlink, CallInv, NumberPCs
<1>13. CASE Retry(p)
  BY <1>13, BoundsAssumption DEF Retry
<1>14. CASE GiveUp(p)
  BY <1>14 DEF GiveUp
<1>15. CASE Release(p)
  BY <1>15 DEF Release
<1>16. CASE ReleaseDelete(p)
  BY <1>16 DEF ReleaseDelete
<1>17. CASE ScanStart(p)
  BY <1>17 DEF ScanStart
<1>18. CASE ScanEntry(p)
  BY <1>18 DEF ScanEntry
<1>19. CASE SaysUnlocked(p)
  BY <1>19 DEF SaysUnlocked
<1>20. CASE Crash(p) \/ UnlinkFails(p)
  BY <1>20 DEF Crash, UnlinkFails, Die
<1>21. CASE Restart(p)
  BY <1>21 DEF Restart
<1>22. CASE DeleteStale(p)
  BY <1>22 DEF DeleteStale
<1> QED
  BY <1>1, <1>2, <1>3, <1>4, <1>5, <1>6, <1>7, <1>8, <1>9, <1>10, <1>11, <1>12,
     <1>13, <1>14, <1>15, <1>16, <1>17, <1>18, <1>19, <1>20, <1>21, <1>22
  DEF OtherStep

\* Each step moves one process and touches the objects of that process only.
LEMMA StepLocal ==
    ASSUME Typed, NEW p \in Proc, CallInv(p), OtherStep(p) \/ DeleteStale(p),
           NEW q \in Proc, q # p
    PROVE  /\ pc'[q] = pc[q] /\ obj'[q] = obj[q]
           /\ \A o \in Objs : Owner[o] # p =>
                  num'[o] = num[o] /\ (o \in held' <=> o \in held)
<1> USE DEF Typed, Goto, disk, call
<1>1. CASE ClearStart(p)
  BY <1>1 DEF ClearStart
<1>2. CASE ClearEntry(p)
  BY <1>2 DEF ClearEntry
<1>3. CASE ClearEnd(p)
  BY <1>3 DEF ClearEnd
<1>4. CASE ObtainStart(p)
  BY <1>4 DEF ObtainStart
<1>5. CASE RequestAgain(p)
  BY <1>5 DEF RequestAgain
<1>6. CASE RequestNew(p)
  BY <1>6 DEF RequestNew, CallInv, RequestPCs, NumberPCs
<1>7. CASE Probe(p)
  BY <1>7 DEF Probe, CallInv, RequestPCs, NumberPCs
<1>8. CASE Exists(p)
  BY <1>8 DEF Exists
<1>9. CASE Open(p)
  BY <1>9 DEF Open
<1>10. CASE Link(p)
  BY <1>10 DEF Link
<1>11. CASE WriteFails(p)
  BY <1>11 DEF WriteFails
<1>12. CASE Unlink(p)
  BY <1>12 DEF Unlink, CallInv, RequestPCs, NumberPCs
<1>13. CASE Retry(p)
  BY <1>13 DEF Retry
<1>14. CASE GiveUp(p)
  BY <1>14 DEF GiveUp
<1>15. CASE Release(p)
  BY <1>15 DEF Release
<1>16. CASE ReleaseDelete(p)
  BY <1>16 DEF ReleaseDelete, CallInv, RequestPCs, NumberPCs
<1>17. CASE ScanStart(p)
  BY <1>17 DEF ScanStart
<1>18. CASE ScanEntry(p)
  BY <1>18 DEF ScanEntry
<1>19. CASE SaysUnlocked(p)
  BY <1>19 DEF SaysUnlocked
<1>20. CASE Crash(p) \/ UnlinkFails(p)
  BY <1>20 DEF Crash, UnlinkFails, Die
<1>21. CASE Restart(p)
  BY <1>21 DEF Restart
<1>22. CASE DeleteStale(p)
  BY <1>22 DEF DeleteStale
<1> QED
  BY <1>1, <1>2, <1>3, <1>4, <1>5, <1>6, <1>7, <1>8, <1>9, <1>10, <1>11, <1>12,
     <1>13, <1>14, <1>15, <1>16, <1>17, <1>18, <1>19, <1>20, <1>21, <1>22
  DEF OtherStep

\* An object that is held has its file, so RequestNew never sees one: a
\* double obtain is noticed.
LEMMA StepCall ==
    ASSUME Typed, SharedInv, ~ReleaseAll,
           NEW p \in Proc, OtherStep(p) \/ DeleteStale(p)
    PROVE  CallInv(p)'
<1>0. CallInv(p)
  BY DEF SharedInv
<1> USE <1>0 DEF Typed, Goto, disk, call, Path, CallInv, RequestPCs, NumberPCs
<1>1. CASE ClearStart(p)
  BY <1>1 DEF ClearStart
<1>2. CASE ClearEntry(p)
  BY <1>2 DEF ClearEntry
<1>3. CASE ClearEnd(p)
  BY <1>3 DEF ClearEnd
<1>4. CASE ObtainStart(p)
  BY <1>4 DEF ObtainStart
<1>5. CASE RequestAgain(p)
  BY <1>5 DEF RequestAgain
<1>6. CASE RequestNew(p)
  <2>1. FileAt(num[obj[p]]) = None /\ obj[p] \in Objs /\ Owner[obj[p]] = p
    BY <1>6 DEF RequestNew
  <2>2. obj[p] \notin Holders
    BY <2>1, NoneAssumption DEF SharedInv, FileInv, FileAt
  <2>3. obj[p] \notin held
    BY <2>1, <2>2 DEF Holders
  <2> QED
    BY <1>6, <2>1, <2>3 DEF RequestNew
<1>7. CASE Probe(p)
  BY <1>7 DEF Probe, Nums
<1>8. CASE Exists(p)
  BY <1>8 DEF Exists
<1>9. CASE Open(p)
  BY <1>9 DEF Open
<1>10. CASE Link(p)
  BY <1>10 DEF Link
<1>11. CASE WriteFails(p)
  BY <1>11 DEF WriteFails
<1>12. CASE Unlink(p)
  BY <1>12 DEF Unlink
<1>13. CASE Retry(p)
  BY <1>13 DEF Retry
<1>14. CASE GiveUp(p)
  BY <1>14 DEF GiveUp
<1>15. CASE Release(p)
  BY <1>15 DEF Release
<1>16. CASE ReleaseDelete(p)
  BY <1>16 DEF ReleaseDelete
<1>17. CASE ScanStart(p)
  BY <1>17 DEF ScanStart
<1>18. CASE ScanEntry(p)
  BY <1>18 DEF ScanEntry
<1>19. CASE SaysUnlocked(p)
  BY <1>19 DEF SaysUnlocked
<1>20. CASE Crash(p) \/ UnlinkFails(p)
  BY <1>20 DEF Crash, UnlinkFails, Die
<1>21. CASE Restart(p)
  BY <1>21 DEF Restart
<1>22. CASE DeleteStale(p)
  BY <1>22 DEF DeleteStale
<1> QED
  BY <1>1, <1>2, <1>3, <1>4, <1>5, <1>6, <1>7, <1>8, <1>9, <1>10, <1>11, <1>12,
     <1>13, <1>14, <1>15, <1>16, <1>17, <1>18, <1>19, <1>20, <1>21, <1>22
  DEF OtherStep

\* Only Link makes a holder, and no step changes the number of one or the
\* file of that number.
LEMMA StepHolders ==
    ASSUME Typed, SharedInv, ~ReleaseAll, NEW p \in Proc,
           OtherStep(p) \/ (DeleteStale(p) /\ DeletesWhatItRead(p)),
           ~Link(p), NEW o \in Holders'
    PROVE  /\ o \in Holders
           /\ num'[o] = num[o]
           /\ files'[num[o]] = files[num[o]]
<1>0. /\ o \in Objs /\ held \subseteq Holders
      /\ CallInv(p)
      /\ \A x \in Holders : num[x] # 0 /\ files[num[x]] = Owner[x]
      /\ \A x, y \in Holders : num[x] = num[y] => x = y
  BY DEF Holders, SharedInv, FileInv, Typed
<1>p. Owner[o] \in Proc /\ Owner[o] # None
  BY <1>0, OwnerIs, NoneAssumption
<1> USE <1>0, <1>p DEF Typed, Goto, disk, call, Path, Holders
<1>1. CASE ClearStart(p)
  BY <1>1 DEF ClearStart
<1>2. CASE ClearEntry(p)
  BY <1>2 DEF ClearEntry
<1>3. CASE ClearEnd(p)
  BY <1>3 DEF ClearEnd
<1>4. CASE ObtainStart(p)
  BY <1>4 DEF ObtainStart
<1>5. CASE RequestAgain(p)
  BY <1>5 DEF RequestAgain
<1>6. CASE RequestNew(p)
  <2>1. OtherStep(p)
    BY <1>6 DEF OtherStep
  <2>2. CallInv(p)'
    BY <2>1, StepCall
  <2>3. obj[p] \notin held /\ held' = held /\ Owner[obj[p]] = p
    BY <1>6, <2>2 DEF RequestNew, CallInv, NumberPCs, RequestPCs
  <2> QED
    BY <1>6, <2>3 DEF RequestNew
<1>7. CASE Probe(p)
  BY <1>7, <1>0 DEF Probe, CallInv, NumberPCs
<1>8. CASE Exists(p)
  BY <1>8 DEF Exists
<1>9. CASE Open(p)
  BY <1>9 DEF Open
<1>10. CASE WriteFails(p)
  BY <1>10 DEF WriteFails
<1>11. CASE Unlink(p)
  BY <1>11, <1>0 DEF Unlink, CallInv, NumberPCs
<1>12. CASE Retry(p)
  BY <1>12 DEF Retry
<1>13. CASE GiveUp(p)
  BY <1>13 DEF GiveUp
<1>14. CASE Release(p)
  BY <1>14 DEF Release
<1>15. CASE ReleaseDelete(p)
  BY <1>15, <1>0 DEF ReleaseDelete, CallInv, NumberPCs
<1>16. CASE ScanStart(p)
  BY <1>16 DEF ScanStart
<1>17. CASE ScanEntry(p)
  BY <1>17 DEF ScanEntry
<1>18. CASE SaysUnlocked(p)
  BY <1>18 DEF SaysUnlocked
<1>19. CASE Crash(p) \/ UnlinkFails(p)
  BY <1>19 DEF Crash, UnlinkFails, Die
<1>20. CASE Restart(p)
  BY <1>20 DEF Restart
<1>21. CASE DeleteStale(p) /\ DeletesWhatItRead(p)
  BY <1>21 DEF DeleteStale, DeletesWhatItRead
<1> QED
  BY <1>1, <1>2, <1>3, <1>4, <1>5, <1>6, <1>7, <1>8, <1>9, <1>10, <1>11, <1>12,
     <1>13, <1>14, <1>15, <1>16, <1>17, <1>18, <1>19, <1>20, <1>21
  DEF OtherStep

LEMMA LinkHolders ==
    ASSUME Typed, SharedInv, NEW p \in Proc, Link(p)
    PROVE  /\ \A o \in Objs : FileInv(o)'
           /\ \A o1, o2 \in Holders' : num'[o1] = num'[o2] => o1 = o2
<1>0. CallInv(p) /\ num' = num
  BY DEF SharedInv, Link
<1>1. \A o \in Holders : files[num[o]] # None /\ num[o] # 0
  BY OwnerIs, NoneAssumption DEF SharedInv, FileInv, Holders
<1>2. CASE files[Path(p)] = None
  <2>1. /\ obj[p] \in Objs /\ Owner[obj[p]] = p
        /\ num[obj[p]] \in Nums /\ num[obj[p]] # 0
    BY <1>0 DEF Link, Typed, CallInv, NumberPCs
  <2>2. \A o \in Holders' : o \in Holders \/ o = obj[p]
    BY <1>2, OwnerIs DEF Link, Typed, Goto, Holders, disk, call
  <2>3. \A o \in Holders : /\ num[o] # num[obj[p]]
                           /\ files'[num[o]] = files[num[o]]
    BY <1>1, <1>2, <2>1 DEF Link, Typed, Path, Holders
  <2>4. files'[num[obj[p]]] = p
    BY <1>2, <2>1 DEF Link, Typed, Path
  <2> QED
    BY <1>0, <2>1, <2>2, <2>3, <2>4 DEF SharedInv, FileInv
<1>3. CASE files[Path(p)] # None
  <2>1. Holders' \subseteq Holders /\ files' = files
    BY <1>3, OwnerIs DEF Link, Typed, Goto, Holders, disk, call
  <2> QED
    BY <1>0, <2>1, HoldersFrame
<1> QED
  BY <1>2, <1>3

LEMMA InvKept ==
    ASSUME TypeOK, SharedInv, ~ReleaseAll, [CarefulNext]_vars
    PROVE  TypeOK' /\ SharedInv'
<1>0. Typed
  BY DEF TypeOK, Typed
<1>1. ASSUME NEW p \in Proc, Watch,
             OtherStep(p) \/ (DeleteStale(p) /\ DeletesWhatItRead(p))
      PROVE  TypeOK' /\ SharedInv'
  <2>1. Typed'
    BY <1>0, <1>1, StepTyped DEF SharedInv
  <2>2. TypeOK'
    <3>1. Holders' \in SUBSET Objs
      BY DEF Holders
    <3> QED
      BY <1>1, <2>1, <3>1 DEF Typed, TypeOK, Watch
  <2>3. \A q \in Proc : CallInv(q)'
    <3>1. ASSUME NEW q \in Proc, q # p
          PROVE  CallInv(q)'
      <4>1. CallInv(p) /\ CallInv(q)
        BY DEF SharedInv
      <4>2. /\ pc'[q] = pc[q] /\ obj'[q] = obj[q]
            /\ \A o \in Objs : Owner[o] # p =>
                  num'[o] = num[o] /\ (o \in held' <=> o \in held)
        BY <1>0, <1>1, <3>1, <4>1, StepLocal
      <4> QED
        BY <1>0, <3>1, <4>1, <4>2, OthersFrame
    <3> QED
      BY <1>0, <1>1, <3>1, StepCall
  <2>4. /\ \A o \in Objs : FileInv(o)'
        /\ \A o1, o2 \in Holders' : num'[o1] = num'[o2] => o1 = o2
    <3>1. CASE Link(p)
      BY <1>0, <3>1, LinkHolders
    <3>2. CASE ~Link(p)
      <4>1. \A o \in Holders' : /\ o \in Holders /\ num'[o] = num[o]
                                /\ files'[num[o]] = files[num[o]]
        BY <1>0, <1>1, <3>2, StepHolders
      <4> QED
        BY <4>1, HoldersFrame
    <3> QED
      BY <3>1, <3>2
  <2> QED
    BY <2>2, <2>3, <2>4 DEF SharedInv
<1>2. CASE UNCHANGED vars
  BY <1>2 DEF vars, disk, call, watch, TypeOK, SharedInv, CallInv, FileInv,
     Holders
<1> QED
  BY <1>1, <1>2 DEF CarefulNext

LEMMA InvHolds ==
    ASSUME ~ReleaseAll
    PROVE  CarefulSpec => [](TypeOK /\ SharedInv)
<1>1. Init => TypeOK /\ SharedInv
  BY OwnerIs, BoundsAssumption
  DEF Init, TypeOK, SharedInv, CallInv, FileInv, Holders, PCs, RequestPCs,
      NumberPCs
<1>2. TypeOK /\ SharedInv /\ [CarefulNext]_vars => (TypeOK /\ SharedInv)'
  BY InvKept
<1> QED
  BY <1>1, <1>2, PTL DEF CarefulSpec

\* The lock objects and the processes keep their types.
THEOREM TypeCorrect ==
    ASSUME ~ReleaseAll
    PROVE  CarefulSpec => []TypeOK
BY InvHolds, PTL

\* Every holder of a read lock has a numbered file of its own, which names
\* its process, however many objects race for the numbers and whatever
\* crashes: "each caller gets its own lockfile" (SharedLock.cfh).
THEOREM EveryHolderHasItsFile ==
    ASSUME ~ReleaseAll
    PROVE  CarefulSpec => []OwnFile
<1>1. SharedInv => OwnFile
  BY DEF SharedInv, FileInv, OwnFile, Holders
<1> QED
  BY <1>1, InvHolds, PTL

-----------------------------------------------------------------------------
(* A scan of the directory.                                                *)

\* Whoever has held a lock since p's scan began has a number that the scan is
\* still to meet.
ScanInv(p) ==
    pc[p] = "scan" =>
        \A o \in steady[p] : o \in Holders /\ num[o] \in toScan[p]

\* A scan begins with all numbers and passes only those without a file.
LEMMA StepScan ==
    ASSUME Typed, NEW p \in Proc, OtherStep(p) \/ DeleteStale(p),
           NEW q \in Proc, pc'[q] = "scan"
    PROVE  \/ pc[q] # "scan" /\ toScan'[q] = Nums
           \/ pc[q] = "scan" /\ toScan'[q] = toScan[q]
           \/ /\ pc[q] = "scan"
              /\ \E n \in Nums : /\ files[n] = None
                                 /\ toScan'[q] = toScan[q] \ {n}
<1> USE DEF Typed, Goto, disk, call
<1>1. CASE ClearStart(p)
  BY <1>1 DEF ClearStart
<1>2. CASE ClearEntry(p)
  BY <1>2 DEF ClearEntry
<1>3. CASE ClearEnd(p)
  BY <1>3 DEF ClearEnd
<1>4. CASE ObtainStart(p)
  BY <1>4 DEF ObtainStart
<1>5. CASE RequestAgain(p)
  BY <1>5 DEF RequestAgain
<1>6. CASE RequestNew(p)
  BY <1>6 DEF RequestNew
<1>7. CASE Probe(p)
  BY <1>7 DEF Probe
<1>8. CASE Exists(p)
  BY <1>8 DEF Exists
<1>9. CASE Open(p)
  BY <1>9 DEF Open
<1>10. CASE Link(p)
  BY <1>10 DEF Link
<1>11. CASE WriteFails(p)
  BY <1>11 DEF WriteFails
<1>12. CASE Unlink(p)
  BY <1>12 DEF Unlink
<1>13. CASE Retry(p)
  BY <1>13 DEF Retry
<1>14. CASE GiveUp(p)
  BY <1>14 DEF GiveUp
<1>15. CASE Release(p)
  BY <1>15 DEF Release
<1>16. CASE ReleaseDelete(p)
  BY <1>16 DEF ReleaseDelete
<1>17. CASE ScanStart(p)
  BY <1>17 DEF ScanStart
<1>18. CASE ScanEntry(p)
  BY <1>18 DEF ScanEntry
<1>19. CASE SaysUnlocked(p)
  BY <1>19 DEF SaysUnlocked
<1>20. CASE Crash(p) \/ UnlinkFails(p)
  BY <1>20 DEF Crash, UnlinkFails, Die
<1>21. CASE Restart(p)
  BY <1>21 DEF Restart
<1>22. CASE DeleteStale(p)
  BY <1>22 DEF DeleteStale
<1> QED
  BY <1>1, <1>2, <1>3, <1>4, <1>5, <1>6, <1>7, <1>8, <1>9, <1>10, <1>11, <1>12,
     <1>13, <1>14, <1>15, <1>16, <1>17, <1>18, <1>19, <1>20, <1>21, <1>22
  DEF OtherStep

LEMMA ScanInvKept ==
    ASSUME TypeOK, SharedInv, TypeOK', SharedInv', ~ReleaseAll,
           \A q \in Proc : ScanInv(q), [CarefulNext]_vars
    PROVE  \A q \in Proc : ScanInv(q)'
<1>1. ASSUME NEW p \in Proc, Watch,
             OtherStep(p) \/ (DeleteStale(p) /\ DeletesWhatItRead(p)),
             NEW q \in Proc, pc'[q] = "scan", NEW o \in steady'[q]
      PROVE  o \in Holders' /\ num'[o] \in toScan'[q]
  <2>0. Typed
    BY DEF TypeOK, Typed
  <2>1. o \in Holders'
    BY <1>1 DEF Watch
  <2>2. num'[o] \in Nums
    BY <2>1 DEF TypeOK, SharedInv, FileInv, Holders
  <2>3. CASE pc[q] = "scan"
    <3>1. /\ o \in Holders /\ num[o] \in toScan[q]
          /\ files[num[o]] # None
      <4>1. o \in steady[q]
        BY <1>1, <2>3 DEF Watch
      <4>2. o \in Holders /\ num[o] \in toScan[q] /\ o \in Objs
        BY <2>3, <4>1 DEF ScanInv, Holders
      <4> QED
        BY <4>2, OwnerIs, NoneAssumption DEF SharedInv, FileInv
    <3>2. num'[o] = num[o]
      <4>1. CASE Link(p)
        BY <4>1 DEF Link
      <4>2. CASE ~Link(p)
        BY <1>1, <2>0, <2>1, <4>2, StepHolders
      <4> QED
        BY <4>1, <4>2
    <3>3. \/ toScan'[q] = toScan[q]
          \/ \E n \in Nums : files[n] = None /\ toScan'[q] = toScan[q] \ {n}
      BY <1>1, <2>0, <2>3, StepScan
    <3> QED
      BY <2>1, <3>1, <3>2, <3>3
  <2>4. CASE pc[q] # "scan"
    BY <1>1, <2>0, <2>1, <2>2, <2>4, StepScan
  <2> QED
    BY <2>3, <2>4
<1>2. CASE UNCHANGED vars
  BY <1>2 DEF vars, disk, call, watch, ScanInv, Holders
<1> QED
  BY <1>1, <1>2 DEF CarefulNext, ScanInv

\* Is_Locked does not miss a lock that is held all the while it looks: the
\* file of its holder keeps its number, so the scan comes by it.
THEOREM SteadyHoldersAreSeen ==
    ASSUME ~ReleaseAll
    PROVE  CarefulSpec => SteadyHolderSeen
<1> DEFINE Inv == \A q \in Proc : ScanInv(q)
<1>1. Init => Inv
  BY DEF Init, ScanInv
<1>2. ASSUME TypeOK, SharedInv, TypeOK', SharedInv', Inv, [CarefulNext]_vars
      PROVE  Inv'
  BY <1>2, ScanInvKept
<1>3. /\ TypeOK /\ SharedInv /\ TypeOK' /\ SharedInv' /\ Inv
      /\ [CarefulNext]_vars
      => Inv'
  BY <1>2
<1>4. Inv => \A p \in Proc : SaysUnlocked(p) => steady[p] = {}
  BY DEF ScanInv, SaysUnlocked
<1> HIDE DEF Inv
<1>5. Inv => [\A p \in Proc : SaysUnlocked(p) => steady[p] = {}]_vars
  BY <1>4
<1> QED
  BY <1>1, <1>3, <1>5, InvHolds, PTL DEF CarefulSpec, SteadyHolderSeen
=============================================================================
