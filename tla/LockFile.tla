------------------------------ MODULE LockFile ------------------------------
(***************************************************************************)
(* Lucy::Store::LockFileLock (Store/Lock.c): an interprocess mutex made of *)
(* a file "locks/<name>.lock" whose JSON content names a pid and a host.   *)
(* A process writes a private file and hard-links it to the lock path,     *)
(* which is the atomic step; a lock whose pid is dead is deleted by the    *)
(* next process that calls Clear_Stale.  Every file system call that       *)
(* another process can come between is a step of its own.                  *)
(***************************************************************************)
EXTENDS Integers, TLAPS

CONSTANTS Proc,        \* processes, each with its own pid
          None,        \* "no file" and "nobody"
          Hosts,       \* the sets of processes whose managers have one host
          Clearers,    \* the processes that call Clear_Stale before Obtain
          MayCrash,    \* the processes that may exit at any moment
          PidReuse,    \* whether a dead pid may come back to life
          Timeout,     \* milliseconds to keep trying
          Interval     \* milliseconds between two tries

ASSUME NoneAssumption == None \notin Proc
ASSUME ProcsAssumption == Clearers \subseteq Proc /\ MayCrash \subseteq Proc
ASSUME PidReuseAssumption == PidReuse \in BOOLEAN
ASSUME TimesAssumption == Timeout \in Nat /\ Interval \in Nat

VARIABLES lockFile,    \* whom the file at lock_path names; None: no file
          linkFiles,   \* whose private file at link_path exists
          pc,          \* where each process stands; "dead": it has exited
          seen,        \* the content Maybe_Delete_File read
          timeLeft     \* time_left of Lock_Obtain

vars == <<lockFile, linkFiles, pc, seen, timeLeft>>

PCs == {"idle", "clear", "judge", "unstale", "request", "open", "link",
        "won", "lost", "retry", "held", "unlock", "dead"}

TypeOK ==
    /\ lockFile \in Proc \cup {None}
    /\ linkFiles \subseteq Proc
    /\ pc \in [Proc -> PCs]
    /\ seen \in [Proc -> Proc \cup {None}]
    /\ timeLeft \in [Proc -> (-Interval)..Timeout]

Init ==
    /\ lockFile = None
    /\ linkFiles = {}
    /\ pc = [p \in Proc |-> "idle"]
    /\ seen = [p \in Proc |-> None]
    /\ timeLeft = [p \in Proc |-> 0]

PIDActive(p) == pc[p] # "dead"

\* The host id in the lock file of p is the one in the IndexManager of q.
SameHost(p, q) == \E H \in Hosts : {p, q} \subseteq H

\* The process believes it holds the lock: its hard link succeeded and its
\* release has not yet deleted the file.
Holds(p) == pc[p] \in {"won", "held", "unlock"}

Goto(p, label) == pc' = [pc EXCEPT ![p] = label]

Forget(p) == seen' = [seen EXCEPT ![p] = None]

-----------------------------------------------------------------------------
(* Clear_Stale: Maybe_Delete_File with delete_other.                       *)

\* A caller starts its Clear_Stale-then-Obtain, or its bare Obtain.
Start(p) ==
    /\ pc[p] = "idle"
    /\ Goto(p, IF p \in Clearers THEN "clear" ELSE "request")
    /\ timeLeft' = [timeLeft EXCEPT ![p] = IF Interval = 0 THEN 0 ELSE Timeout]
    /\ UNCHANGED <<lockFile, linkFiles, seen>>

\* Folder_Exists and Json_slurp_json; no file is no hash and no deletion.
ReadLockFile(p) ==
    /\ pc[p] = "clear"
    /\ seen' = [seen EXCEPT ![p] = lockFile]
    /\ Goto(p, IF lockFile = None THEN "request" ELSE "judge")
    /\ UNCHANGED <<lockFile, linkFiles, timeLeft>>

\* Mutant: a stale lock is kept unless its pid is this process's own.
JudgeOwnerMineOnly(p) ==
    /\ pc[p] = "judge"
    /\ Goto(p, IF seen[p] = p THEN "unstale" ELSE "request")
    /\ UNCHANGED <<lockFile, linkFiles, seen, timeLeft>>

\* The host must match and the pid must be dead.
JudgeOwner(p) ==
    /\ pc[p] = "judge"
    /\ \/ /\ SameHost(seen[p], p) /\ ~PIDActive(seen[p])
          /\ Goto(p, "unstale")
          /\ UNCHANGED seen
       \/ /\ ~SameHost(seen[p], p) \/ PIDActive(seen[p])
          /\ Goto(p, "request")
          /\ Forget(p)
    /\ UNCHANGED <<lockFile, linkFiles, timeLeft>>

\* Folder_Delete removes whatever is at the path by now.  When nothing is,
\* it fails and the caller throws, which ends the process.
DeleteStale(p) ==
    /\ pc[p] = "unstale"
    /\ lockFile' = None
    /\ Goto(p, IF lockFile = None THEN "dead" ELSE "request")
    /\ Forget(p)
    /\ UNCHANGED <<linkFiles, timeLeft>>

-----------------------------------------------------------------------------
(* Lock_Obtain and LFLock_Request.                                         *)

RequestExists(p) ==
    /\ pc[p] = "request"
    /\ Goto(p, IF lockFile = None THEN "open" ELSE "retry")
    /\ UNCHANGED <<lockFile, linkFiles, seen, timeLeft>>

\* Folder_Open_Out creates the private file with O_EXCL.
RequestOpen(p) ==
    /\ pc[p] = "open"
    /\ linkFiles' = linkFiles \cup {p}
    /\ Goto(p, IF p \in linkFiles THEN "retry" ELSE "link")
    /\ UNCHANGED <<lockFile, seen, timeLeft>>

\* Mutant: rename instead of a hard link, which replaces an existing lock.
RequestLinkReplaces(p) ==
    /\ pc[p] = "link"
    /\ lockFile' = p
    /\ Goto(p, "won")
    /\ UNCHANGED <<linkFiles, seen, timeLeft>>

RequestLink(p) ==
    /\ pc[p] = "link"
    /\ lockFile' = IF lockFile = None THEN p ELSE lockFile
    /\ Goto(p, IF lockFile = None THEN "won" ELSE "lost")
    /\ UNCHANGED <<linkFiles, seen, timeLeft>>

\* Mutant: success although the lock file could not be written.
RequestWriteFailsWins(p) ==
    /\ pc[p] = "link"
    /\ Goto(p, "won")
    /\ UNCHANGED <<lockFile, linkFiles, seen, timeLeft>>

\* S_write_lockfile_json throws and Err_trap catches it: no link is tried.
RequestWriteFails(p) ==
    /\ pc[p] = "link"
    /\ Goto(p, "lost")
    /\ UNCHANGED <<lockFile, linkFiles, seen, timeLeft>>

RequestUnlink(p) ==
    /\ pc[p] \in {"won", "lost"}
    /\ linkFiles' = linkFiles \ {p}
    /\ Goto(p, IF pc[p] = "won" THEN "held" ELSE "retry")
    /\ UNCHANGED <<lockFile, seen, timeLeft>>

\* When the private file cannot be deleted Request throws, which ends the
\* process; a lock file it has linked stays.
RequestUnlinkFails(p) ==
    /\ pc[p] \in {"won", "lost"}
    /\ Goto(p, "dead")
    /\ UNCHANGED <<lockFile, linkFiles, seen, timeLeft>>

\* Mutant: time_left is never charged with the interval.
RetryUncharged(p) ==
    /\ pc[p] = "retry"
    /\ Goto(p, IF timeLeft[p] - Interval <= 0 THEN "idle" ELSE "request")
    /\ UNCHANGED <<lockFile, linkFiles, seen, timeLeft>>

\* Lock_Obtain sleeps and requests again until time_left is used up.
Retry(p) ==
    /\ pc[p] = "retry"
    /\ timeLeft' = [timeLeft EXCEPT ![p] = @ - Interval]
    /\ Goto(p, IF timeLeft[p] - Interval <= 0 THEN "idle" ELSE "request")
    /\ UNCHANGED <<lockFile, linkFiles, seen>>

-----------------------------------------------------------------------------
(* LFLock_Release: Maybe_Delete_File with delete_mine.                     *)

ReleaseRead(p) ==
    /\ pc[p] = "held"
    /\ Goto(p, IF lockFile = p THEN "unlock" ELSE "idle")
    /\ UNCHANGED <<lockFile, linkFiles, seen, timeLeft>>

ReleaseDelete(p) ==
    /\ pc[p] = "unlock"
    /\ lockFile' = None
    /\ Goto(p, IF lockFile = None THEN "dead" ELSE "idle")
    /\ UNCHANGED <<linkFiles, seen, timeLeft>>

-----------------------------------------------------------------------------
(* The environment.                                                        *)

Crash(p) ==
    /\ p \in MayCrash
    /\ PIDActive(p)
    /\ Goto(p, "dead")
    /\ Forget(p)
    /\ UNCHANGED <<lockFile, linkFiles, timeLeft>>

\* A new process of the same program gets the pid of a dead one.
Restart(p) ==
    /\ PidReuse
    /\ pc[p] = "dead"
    /\ Goto(p, "idle")
    /\ UNCHANGED <<lockFile, linkFiles, seen, timeLeft>>

-----------------------------------------------------------------------------
ClearStep(p) == ReadLockFile(p) \/ JudgeOwner(p) \/ DeleteStale(p)

ObtainStep(p) ==
    \/ RequestExists(p) \/ RequestOpen(p) \/ RequestLink(p)
    \/ RequestWriteFails(p) \/ RequestUnlink(p) \/ RequestUnlinkFails(p)
    \/ Retry(p)

ReleaseStep(p) == ReleaseRead(p) \/ ReleaseDelete(p)

\* Everything but the deletion of a stale lock.
OtherStep(p) ==
    \/ Start(p) \/ ReadLockFile(p) \/ JudgeOwner(p) \/ ObtainStep(p)
    \/ ReleaseStep(p) \/ Crash(p) \/ Restart(p)

Next == \E p \in Proc : OtherStep(p) \/ DeleteStale(p)

Spec == Init /\ [][Next]_vars

\* A process that is inside a call runs on; nothing makes it start one, and
\* nothing makes a holder release.
FairSpec == Spec /\ \A p \in Proc : WF_vars(ClearStep(p) \/ ObtainStep(p))

\* Between the read of a stale lock and its deletion another process may
\* have replaced the file.  CarefulSpec is the code without that accident:
\* what Clear_Stale deletes is the stale file it read, or nothing.
DeletesWhatItRead(p) == lockFile \in {seen[p], None} /\ ~Holds(seen[p])

CarefulNext ==
    \E p \in Proc : OtherStep(p) \/ (DeleteStale(p) /\ DeletesWhatItRead(p))

CarefulSpec == Init /\ [][CarefulNext]_vars

-----------------------------------------------------------------------------
(* Properties.                                                             *)

\* Mutual exclusion: no two live processes both believe they hold the lock
\* (Lock.cfh: an exclusive lock fails while another one is held).
MutualExclusion == \A p, q \in Proc : Holds(p) /\ Holds(q) => p = q

\* The lock file names its holder as long as the holder believes in it, so
\* Is_Locked is true for everyone else until Release.
HolderOwnsFile == \A p \in Proc : Holds(p) => lockFile = p

\* Lock_Obtain ends: a process that starts a request comes to hold the lock,
\* gives up after its timeout or exits, whatever the others do.
ObtainEnds ==
    \A p \in Proc : pc[p] \in {"clear", "request"} ~>
                        pc[p] \in {"held", "idle", "dead"}

\* A process that clears before it obtains gets rid of the lock file of a
\* dead process of its host, or exits before it does.
StaleIsCleared ==
    \A p, d \in Proc :
        (pc[p] = "clear" /\ lockFile = d /\ ~PIDActive(d) /\ SameHost(d, p))
            ~> (lockFile # d \/ ~PIDActive(p))

\* The steps of Mutex.tla are all this implementation ever takes.
AbstractLock == INSTANCE Mutex WITH owner <- lockFile,
                                    holders <- {p \in Proc : Holds(p)}
ImplementsMutex == AbstractLock!Spec

-----------------------------------------------------------------------------
(* The proofs.  Only the deletion of a file that is not the stale one that *)
(* was read lets two processes hold the lock at once.                      *)

\* time_left is not negative while a request is being made.
TimeLeftOK ==
    \A p \in Proc :
        pc[p] \in {"clear", "judge", "unstale", "request", "open", "link",
                   "won", "lost", "retry"} => timeLeft[p] >= 0

\* A process that judges a lock has read one.
JudgesSomebody ==
    \A p \in Proc : pc[p] \in {"judge", "unstale"} => seen[p] \in Proc

\* The typing facts that no step of Next can disturb.
Typing == TypeOK /\ TimeLeftOK /\ JudgesSomebody

LEMMA InitTyping == Init => Typing
  BY TimesAssumption, NoneAssumption
     DEF Init, Typing, TypeOK, TimeLeftOK, JudgesSomebody, PCs

LEMMA NextTyping == Typing /\ [Next]_vars => Typing'
<1> SUFFICES ASSUME Typing, [Next]_vars PROVE Typing'
  OBVIOUS
<1> USE TimesAssumption, NoneAssumption
<1> USE DEF Typing, TypeOK, TimeLeftOK, JudgesSomebody, PCs, Goto, Forget
<1>1. CASE UNCHANGED vars
  BY <1>1 DEF vars
<1>2. ASSUME NEW p \in Proc, Start(p) PROVE Typing'
  BY <1>2 DEF Start
<1>3. ASSUME NEW p \in Proc, ReadLockFile(p) PROVE Typing'
  BY <1>3 DEF ReadLockFile
<1>4. ASSUME NEW p \in Proc, JudgeOwner(p) PROVE Typing'
  BY <1>4 DEF JudgeOwner
<1>5. ASSUME NEW p \in Proc, DeleteStale(p) PROVE Typing'
  BY <1>5 DEF DeleteStale
<1>6. ASSUME NEW p \in Proc, RequestExists(p) PROVE Typing'
  BY <1>6 DEF RequestExists
<1>7. ASSUME NEW p \in Proc, RequestOpen(p) PROVE Typing'
  BY <1>7 DEF RequestOpen
<1>8. ASSUME NEW p \in Proc, RequestLink(p) \/ RequestWriteFails(p)
      PROVE  Typing'
  BY <1>8 DEF RequestLink, RequestWriteFails
<1>9. ASSUME NEW p \in Proc, RequestUnlink(p) \/ RequestUnlinkFails(p)
      PROVE  Typing'
  BY <1>9 DEF RequestUnlink, RequestUnlinkFails
<1>10. ASSUME NEW p \in Proc, Retry(p) PROVE Typing'
  BY <1>10 DEF Retry
<1>11. ASSUME NEW p \in Proc, ReleaseRead(p) \/ ReleaseDelete(p) PROVE Typing'
  BY <1>11 DEF ReleaseRead, ReleaseDelete
<1>12. ASSUME NEW p \in Proc, Crash(p) \/ Restart(p) PROVE Typing'
  BY <1>12 DEF Crash, Restart
<1>13. QED
  BY <1>1, <1>2, <1>3, <1>4, <1>5, <1>6, <1>7, <1>8, <1>9, <1>10, <1>11, <1>12
     DEF Next, OtherStep, ObtainStep, ReleaseStep

\* Every variable keeps its type and time_left stays between -interval and
\* the timeout, for any number of processes and any timeout and interval.
THEOREM TypeCorrect == Spec => []TypeOK
<1>1. Typing => TypeOK
  BY DEF Typing
<1>2. QED
  BY InitTyping, NextTyping, <1>1, PTL DEF Spec

-----------------------------------------------------------------------------
IInv == Typing /\ HolderOwnsFile

LEMMA HolderOwnsFileStep ==
    ASSUME IInv, CarefulNext
    PROVE  HolderOwnsFile'
<1> USE NoneAssumption
<1> USE DEF IInv, Typing, TypeOK, HolderOwnsFile, Holds, PCs, Goto, Forget
<1>1. ASSUME NEW p \in Proc, Start(p) PROVE HolderOwnsFile'
  BY <1>1 DEF Start
<1>2. ASSUME NEW p \in Proc, ReadLockFile(p) \/ JudgeOwner(p)
      PROVE  HolderOwnsFile'
  BY <1>2 DEF ReadLockFile, JudgeOwner
<1>3. ASSUME NEW p \in Proc, DeletesWhatItRead(p), DeleteStale(p)
      PROVE  HolderOwnsFile'
  <2>1. lockFile \in {seen[p], None} /\ ~Holds(seen[p])
    BY <1>3 DEF DeletesWhatItRead
  <2>2. \A q \in Proc : ~Holds(q)
    BY <2>1
  <2>3. QED
    BY <1>3, <2>2 DEF DeleteStale
<1>4. ASSUME NEW p \in Proc, RequestExists(p) \/ RequestOpen(p)
      PROVE  HolderOwnsFile'
  BY <1>4 DEF RequestExists, RequestOpen
<1>5. ASSUME NEW p \in Proc, RequestLink(p) PROVE HolderOwnsFile'
  BY <1>5 DEF RequestLink
<1>6. ASSUME NEW p \in Proc, RequestWriteFails(p)
                              \/ RequestUnlink(p) \/ Retry(p)
      PROVE  HolderOwnsFile'
  BY <1>6 DEF RequestWriteFails, RequestUnlink, Retry
<1>7. ASSUME NEW p \in Proc, ReleaseRead(p) PROVE HolderOwnsFile'
  BY <1>7 DEF ReleaseRead
<1>8. ASSUME NEW p \in Proc, ReleaseDelete(p) PROVE HolderOwnsFile'
  BY <1>8 DEF ReleaseDelete
<1>9. ASSUME NEW p \in Proc,
             RequestUnlinkFails(p) \/ Crash(p) \/ Restart(p)
      PROVE  HolderOwnsFile'
  BY <1>9 DEF RequestUnlinkFails, Crash, Restart
<1>10. QED
  BY <1>1, <1>2, <1>3, <1>4, <1>5, <1>6, <1>7, <1>8, <1>9
     DEF CarefulNext, OtherStep, ObtainStep, ReleaseStep

LEMMA InitIInv == Init => IInv
  BY InitTyping DEF Init, IInv, HolderOwnsFile, Holds

LEMMA NextIInv == IInv /\ [CarefulNext]_vars => IInv'
<1>1. ASSUME IInv, UNCHANGED vars PROVE IInv'
  BY <1>1 DEF vars, IInv, Typing, TypeOK, TimeLeftOK, JudgesSomebody,
              HolderOwnsFile, Holds
<1>2. ASSUME IInv, CarefulNext PROVE IInv'
  <2>1. Next
    BY <1>2 DEF CarefulNext, Next
  <2>2. QED
    BY <1>2, <2>1, NextTyping, HolderOwnsFileStep DEF IInv
<1>3. QED
  BY <1>1, <1>2

\* As long as Clear_Stale deletes only what it read, the lock file names
\* whoever believes it holds the lock: nobody's release or clean-up takes it.
THEOREM HoldersOwnTheirFile == CarefulSpec => []HolderOwnsFile
<1>1. IInv => HolderOwnsFile
  BY DEF IInv
<1>2. QED
  BY InitIInv, NextIInv, <1>1, PTL DEF CarefulSpec

\* As long as Clear_Stale deletes only what it read, no two processes hold
\* the lock at once, whatever crashes and pid reuse there are.
THEOREM CarefulMutualExclusion == CarefulSpec => []MutualExclusion
<1>1. IInv => MutualExclusion
  BY DEF IInv, HolderOwnsFile, MutualExclusion
<1>2. QED
  BY InitIInv, NextIInv, <1>1, PTL DEF CarefulSpec

\* And then every step is a step of the abstract mutex, or invisible to it.
THEOREM CarefulImplementsMutex == CarefulSpec => ImplementsMutex
<1> DEFINE holding == {p \in Proc : Holds(p)}
<1>1. Init => AbstractLock!Init
  BY DEF Init, AbstractLock!Init, Holds
<1>2. ASSUME IInv, [CarefulNext]_vars
      PROVE  [AbstractLock!Next]_AbstractLock!vars
  <2> USE <1>2, NoneAssumption
  <2> USE DEF IInv, Typing, TypeOK, HolderOwnsFile, Holds, PCs, Goto, Forget
  <2> USE DEF AbstractLock!vars, AbstractLock!Next
  <2>1. ASSUME NEW p \in Proc, RequestLink(p), lockFile = None
        PROVE  AbstractLock!Acquire(p)
    <3>1. holding' = holding \cup {p}
      BY <2>1 DEF RequestLink
    <3>2. QED
      BY <2>1, <3>1 DEF RequestLink, AbstractLock!Acquire
  <2>2. ASSUME NEW p \in Proc, ReleaseDelete(p) PROVE AbstractLock!Release(p)
    <3>1. lockFile = p
      BY <2>2 DEF ReleaseDelete
    <3>2. holding' = holding \ {p}
      BY <2>2 DEF ReleaseDelete
    <3>3. QED
      BY <2>2, <3>1, <3>2 DEF ReleaseDelete, AbstractLock!Release
  <2>3. ASSUME NEW p \in Proc, Crash(p) \/ RequestUnlinkFails(p), Holds(p)
        PROVE  AbstractLock!Abandon(p)
    <3>1. holding' = holding \ {p}
      BY <2>3 DEF Crash, RequestUnlinkFails
    <3>2. QED
      BY <2>3, <3>1 DEF Crash, RequestUnlinkFails, AbstractLock!Abandon
  <2>4. ASSUME NEW p \in Proc, DeletesWhatItRead(p), DeleteStale(p),
               lockFile # None
        PROVE  AbstractLock!Reclaim
    <3>1. lockFile = seen[p] /\ ~Holds(seen[p])
      BY <2>4 DEF DeletesWhatItRead
    <3>2. holding' = holding
      BY <2>4 DEF DeleteStale
    <3>3. QED
      BY <2>4, <3>1, <3>2 DEF DeleteStale, AbstractLock!Reclaim
  <2>5. ASSUME NEW p \in Proc, DeleteStale(p), lockFile = None
        PROVE  UNCHANGED AbstractLock!vars
    <3>1. holding' = holding
      BY <2>5 DEF DeleteStale
    <3>2. QED
      BY <2>5, <3>1 DEF DeleteStale
  <2>6. ASSUME NEW p \in Proc, RequestLink(p), lockFile # None
        PROVE  UNCHANGED AbstractLock!vars
    <3>1. holding' = holding
      BY <2>6 DEF RequestLink
    <3>2. QED
      BY <2>6, <3>1 DEF RequestLink
  <2>7. ASSUME NEW p \in Proc, Crash(p) \/ RequestUnlinkFails(p), ~Holds(p)
        PROVE  UNCHANGED AbstractLock!vars
    <3>1. holding' = holding
      BY <2>7 DEF Crash, RequestUnlinkFails
    <3>2. QED
      BY <2>7, <3>1 DEF Crash, RequestUnlinkFails
  <2>8. ASSUME NEW p \in Proc,
               \/ Start(p) \/ ReadLockFile(p) \/ JudgeOwner(p)
               \/ RequestExists(p) \/ RequestOpen(p) \/ RequestWriteFails(p)
               \/ RequestUnlink(p) \/ Retry(p) \/ ReleaseRead(p) \/ Restart(p)
        PROVE  UNCHANGED AbstractLock!vars
    <3>1. lockFile' = lockFile
      BY <2>8 DEF Start, ReadLockFile, JudgeOwner, RequestExists, RequestOpen,
                  RequestWriteFails, RequestUnlink, Retry, ReleaseRead, Restart
    <3>2. CASE Start(p) \/ ReadLockFile(p) \/ JudgeOwner(p)
      <4>1. holding' = holding
        BY <3>2 DEF Start, ReadLockFile, JudgeOwner
      <4>2. QED  BY <3>1, <4>1
    <3>3. CASE RequestExists(p) \/ RequestOpen(p) \/ RequestWriteFails(p)
      <4>1. holding' = holding
        BY <3>3 DEF RequestExists, RequestOpen, RequestWriteFails
      <4>2. QED  BY <3>1, <4>1
    <3>4. CASE RequestUnlink(p) \/ Retry(p)
      <4>1. holding' = holding
        BY <3>4 DEF RequestUnlink, Retry
      <4>2. QED  BY <3>1, <4>1
    <3>5. CASE ReleaseRead(p) \/ Restart(p)
      <4>1. holding' = holding
        BY <3>5 DEF ReleaseRead, Restart
      <4>2. QED  BY <3>1, <4>1
    <3>6. QED
      BY <2>8, <3>2, <3>3, <3>4, <3>5
  <2>9. CASE UNCHANGED vars
    <3>1. holding' = holding
      BY <2>9 DEF vars
    <3>2. QED
      BY <2>9, <3>1 DEF vars
  <2>10. QED
    BY <2>1, <2>2, <2>3, <2>4, <2>5, <2>6, <2>7, <2>8, <2>9
       DEF CarefulNext, OtherStep, ObtainStep, ReleaseStep
<1>3. QED
  BY InitIInv, NextIInv, <1>1, <1>2, PTL
     DEF CarefulSpec, ImplementsMutex, AbstractLock!Spec
=============================================================================
