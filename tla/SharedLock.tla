----------------------------- MODULE SharedLock -----------------------------
(***************************************************************************)
(* Lucy::Store::SharedLock (Store/SharedLock.c): the read lock on a        *)
(* snapshot.  Each lock object gets a file "locks/<name>-<i>.lock" of its  *)
(* own, with the first free number i, by the means of LockFileLock: a      *)
(* private file and a hard link.  Several objects may belong to one        *)
(* process; a process is inside one call at a time.  All files are on one  *)
(* host, and LockFile.tla has the rest of what hosts and time do.          *)
(***************************************************************************)
EXTENDS Integers

CONSTANTS Proc,       \* processes, each with its own pid
          Objs,       \* lock objects of one lock name
          Lives,      \* the sets of an object and the process it lives in
          None,       \* "no file"
          MaxNum,     \* bound on the numbers of lock files
          Tries,      \* requests that fit into the timeout
          Pollers,    \* the processes that call Clear_Stale and Is_Locked
          MayCrash,   \* the processes that may exit at any moment
          ReleaseAll  \* whether callers release what they did not obtain

ASSUME NoneAssumption == None \notin Proc \cup Objs
ASSUME LivesAssumption == \A o \in Objs : \E p \in Proc : {p, o} \in Lives
ASSUME BoundsAssumption == MaxNum \in Nat \ {0} /\ Tries \in Nat \ {0}
ASSUME CallersAssumption ==
    Pollers \subseteq Proc /\ MayCrash \subseteq Proc /\ ReleaseAll \in BOOLEAN

Nums == 1..MaxNum

Owner == [o \in Objs |-> CHOOSE p \in Proc : {p, o} \in Lives]

VARIABLES files,      \* files[n]: whose pid the file numbered n names, or None
          linkFiles,  \* the processes whose private file exists
          pc,
          obj,        \* the object whose method the process is in
          num,        \* the number in an object's lock_path; 0: empty path
          held,       \* the objects that Obtain has returned true for
          toScan,     \* the numbers a directory scan has still to meet
          target,     \* the number of the file that is about to be deleted
          tries,      \* requests left
          steady,     \* history: objects held ever since p's scan began
          never       \* history: during p's scan there was never no holder

disk == <<files, linkFiles>>
call == <<obj, toScan, target, tries>>
watch == <<steady, never>>
vars == <<disk, pc, num, held, call, watch>>

PCs == {"idle", "clear", "unstale", "request", "probe", "exists", "open",
        "link", "won", "lost", "beaten", "retry", "refused", "unlock", "scan",
        "dead"}

TypeOK ==
    /\ files \in [Nums -> Proc \cup {None}]
    /\ linkFiles \subseteq Proc
    /\ pc \in [Proc -> PCs]
    /\ obj \in [Proc -> Objs \cup {None}]
    /\ num \in [Objs -> Nums \cup {0}]
    /\ held \in SUBSET Objs
    /\ toScan \in [Proc -> SUBSET Nums]
    /\ target \in [Proc -> Nums \cup {0}]
    /\ tries \in [Proc -> 0..Tries]
    /\ steady \in [Proc -> SUBSET Objs]
    /\ never \in [Proc -> BOOLEAN]

Init ==
    /\ files = [n \in Nums |-> None]
    /\ linkFiles = {}
    /\ pc = [p \in Proc |-> "idle"]
    /\ obj = [p \in Proc |-> None]
    /\ num = [o \in Objs |-> 0]
    /\ held = {}
    /\ toScan = [p \in Proc |-> {}]
    /\ target = [p \in Proc |-> 0]
    /\ tries = [p \in Proc |-> 0]
    /\ steady = [p \in Proc |-> {}]
    /\ never = [p \in Proc |-> FALSE]

Goto(p, label) == pc' = [pc EXCEPT ![p] = label]

PIDActive(p) == pc[p] # "dead"

\* The object's hard link was made and its release has not deleted the file.
Holders ==
    {o \in Objs : o \in held \/ (pc[Owner[o]] = "won" /\ obj[Owner[o]] = o)}

\* The number in the lock_path of the object that p is working with.
Path(p) == num[obj[p]]

\* Folder_Exists of a lock_path, which may be empty.
FileAt(n) == IF n = 0 THEN None ELSE files[n]

\* The process exits and its objects are gone.
Die(p) ==
    /\ Goto(p, "dead")
    /\ held' = {o \in held : Owner[o] # p}
    /\ num' = [o \in Objs |-> IF Owner[o] = p THEN 0 ELSE num[o]]
    /\ target' = [target EXCEPT ![p] = 0]
    /\ toScan' = [toScan EXCEPT ![p] = {}]
    /\ UNCHANGED <<disk, obj, tries>>

-----------------------------------------------------------------------------
(* Clear_Stale: every lock file whose name begins with the lock's name goes *)
(* through Maybe_Delete_File, in the order in which readdir returns them.   *)

ClearStart(p) ==
    /\ pc[p] = "idle" /\ p \in Pollers
    /\ toScan' = [toScan EXCEPT ![p] = Nums]
    /\ Goto(p, "clear")
    /\ UNCHANGED <<disk, num, held, obj, target, tries>>

\* One directory entry, if it is still there: read the pid it names.
ClearEntry(p) ==
    /\ pc[p] = "clear"
    /\ \E n \in toScan[p] :
         /\ toScan' = [toScan EXCEPT ![p] = @ \ {n}]
         /\ IF files[n] # None /\ ~PIDActive(files[n])
            THEN target' = [target EXCEPT ![p] = n] /\ Goto(p, "unstale")
            ELSE UNCHANGED <<pc, target>>
    /\ UNCHANGED <<disk, num, held, obj, tries>>

\* Folder_Delete removes whatever has the name by now; when nothing has, it
\* fails, and Maybe_Delete_File throws, which ends the process.
DeleteStale(p) ==
    /\ pc[p] = "unstale"
    /\ files' = [files EXCEPT ![target[p]] = None]
    /\ Goto(p, IF files[target[p]] = None THEN "dead" ELSE "clear")
    /\ target' = [target EXCEPT ![p] = 0]
    /\ held' = IF files[target[p]] = None
               THEN {o \in held : Owner[o] # p} ELSE held
    /\ num' = IF files[target[p]] = None
              THEN [o \in Objs |-> IF Owner[o] = p THEN 0 ELSE num[o]] ELSE num
    /\ UNCHANGED <<linkFiles, obj, toScan, tries>>

ClearEnd(p) ==
    /\ pc[p] = "clear"
    /\ toScan[p] = {}
    /\ Goto(p, "idle")
    /\ UNCHANGED <<disk, num, held, call>>

-----------------------------------------------------------------------------
(* Obtain: ShLock_Request, which picks a number, and LFLock_Request.       *)

ObtainStart(p) ==
    /\ pc[p] = "idle"
    /\ \E o \in Objs : Owner[o] = p /\ obj' = [obj EXCEPT ![p] = o]
    /\ tries' = [tries EXCEPT ![p] = Tries]
    /\ Goto(p, "request")
    /\ UNCHANGED <<disk, num, held, toScan, target>>

\* A lock_path whose file exists counts as this object's own lock, whoever
\* made that file.
RequestAgain(p) ==
    /\ pc[p] = "request"
    /\ FileAt(Path(p)) # None
    /\ Goto(p, IF obj[p] \in held THEN "retry" ELSE "refused")
    /\ UNCHANGED <<disk, num, held, call>>

RequestNew(p) ==
    /\ pc[p] = "request"
    /\ FileAt(Path(p)) = None
    /\ num' = [num EXCEPT ![obj[p]] = 1]
    /\ Goto(p, "probe")
    /\ UNCHANGED <<disk, held, call>>

\* The do-while loop: the first number without a file.
Probe(p) ==
    /\ pc[p] = "probe"
    /\ IF files[Path(p)] = None
       THEN Goto(p, "exists") /\ UNCHANGED num
       ELSE /\ Path(p) < MaxNum
            /\ num' = [num EXCEPT ![obj[p]] = @ + 1]
            /\ UNCHANGED pc
    /\ UNCHANGED <<disk, held, call>>

\* LFLock_Request looks again before it does anything.
Exists(p) ==
    /\ pc[p] = "exists"
    /\ Goto(p, IF files[Path(p)] = None THEN "open" ELSE "refused")
    /\ UNCHANGED <<disk, num, held, call>>

\* Folder_Open_Out creates the private file with O_EXCL.
Open(p) ==
    /\ pc[p] = "open"
    /\ linkFiles' = linkFiles \cup {p}
    /\ Goto(p, IF p \in linkFiles THEN "retry" ELSE "link")
    /\ UNCHANGED <<files, num, held, call>>

\* Mutant: rename in place of the hard link.
LinkReplaces(p) ==
    /\ pc[p] = "link"
    /\ files' = [files EXCEPT ![Path(p)] = p]
    /\ Goto(p, "won")
    /\ UNCHANGED <<linkFiles, num, held, call>>

\* Folder_Hard_Link does not replace a file.
Link(p) ==
    /\ pc[p] = "link"
    /\ IF files[Path(p)] = None
       THEN files' = [files EXCEPT ![Path(p)] = p] /\ Goto(p, "won")
       ELSE Goto(p, "beaten") /\ UNCHANGED files
    /\ UNCHANGED <<linkFiles, num, held, call>>

\* S_write_lockfile_json throws, and no link is tried.
WriteFails(p) ==
    /\ pc[p] = "link"
    /\ Goto(p, "lost")
    /\ UNCHANGED <<disk, num, held, call>>

Unlink(p) ==
    /\ pc[p] \in {"won", "lost", "beaten"}
    /\ linkFiles' = linkFiles \ {p}
    /\ held' = IF pc[p] = "won" THEN held \cup {obj[p]} ELSE held
    /\ Goto(p, CASE pc[p] = "won"  -> "idle"
                 [] pc[p] = "lost" -> "retry"
                 [] OTHER          -> "refused")
    /\ UNCHANGED <<files, num, call>>

\* A private file that cannot be deleted makes Request throw, which ends the
\* process; what it has linked stays.
UnlinkFails(p) == pc[p] \in {"won", "lost", "beaten"} /\ Die(p)

\* Lock_Obtain's loop: sleep and request again while there is time.
Retry(p) ==
    /\ pc[p] \in {"retry", "refused"}
    /\ tries[p] > 1
    /\ tries' = [tries EXCEPT ![p] = @ - 1]
    /\ Goto(p, "request")
    /\ UNCHANGED <<disk, num, held, obj, toScan, target>>

\* Obtain returns false.
GiveUp(p) ==
    /\ pc[p] \in {"retry", "refused"}
    /\ tries[p] = 1
    /\ Goto(p, "idle")
    /\ UNCHANGED <<disk, num, held, call>>

-----------------------------------------------------------------------------
(* Release: Maybe_Delete_File for this process's own pid, then an empty    *)
(* lock_path.  Lucy drops a lock that it could not obtain; other callers    *)
(* may well release it first.                                              *)

Release(p) ==
    /\ pc[p] = "idle"
    /\ \E o \in Objs :
         /\ Owner[o] = p /\ num[o] # 0
         /\ o \in held \/ ReleaseAll
         /\ obj' = [obj EXCEPT ![p] = o]
         /\ IF files[num[o]] = p
            THEN /\ Goto(p, "unlock")
                 /\ UNCHANGED <<num, held>>
            ELSE /\ num' = [num EXCEPT ![o] = 0]
                 /\ held' = held \ {o}
                 /\ UNCHANGED pc
    /\ UNCHANGED <<disk, toScan, target, tries>>

ReleaseDelete(p) ==
    /\ pc[p] = "unlock"
    /\ files' = [files EXCEPT ![Path(p)] = None]
    /\ IF files[Path(p)] = None
       THEN /\ Goto(p, "dead")
            /\ held' = {o \in held : Owner[o] # p}
            /\ num' = [o \in Objs |-> IF Owner[o] = p THEN 0 ELSE num[o]]
       ELSE /\ Goto(p, "idle")
            /\ held' = held \ {obj[p]}
            /\ num' = [num EXCEPT ![obj[p]] = 0]
    /\ UNCHANGED <<linkFiles, call>>

-----------------------------------------------------------------------------
(* Is_Locked: any file with the lock's name and a number will do.          *)

\* Mutant: only the file with the first number is looked for.
ScanStartFirst(p) ==
    /\ pc[p] = "idle" /\ p \in Pollers
    /\ toScan' = [toScan EXCEPT ![p] = {1}]
    /\ Goto(p, "scan")
    /\ UNCHANGED <<disk, num, held, obj, target, tries>>

ScanStart(p) ==
    /\ pc[p] = "idle" /\ p \in Pollers
    /\ toScan' = [toScan EXCEPT ![p] = Nums]
    /\ Goto(p, "scan")
    /\ UNCHANGED <<disk, num, held, obj, target, tries>>

\* readdir may come by a number at any moment of the scan.
ScanEntry(p) ==
    /\ pc[p] = "scan"
    /\ \E n \in toScan[p] :
         IF files[n] = None
         THEN toScan' = [toScan EXCEPT ![p] = @ \ {n}] /\ UNCHANGED pc
         ELSE toScan' = [toScan EXCEPT ![p] = {}] /\ Goto(p, "idle")
    /\ UNCHANGED <<disk, num, held, obj, target, tries>>

\* Is_Locked returns false.
SaysUnlocked(p) ==
    /\ pc[p] = "scan"
    /\ toScan[p] = {}
    /\ Goto(p, "idle")
    /\ UNCHANGED <<disk, num, held, call>>

-----------------------------------------------------------------------------
Crash(p) == p \in MayCrash /\ PIDActive(p) /\ Die(p)

\* A new process gets the pid of a dead one.
Restart(p) ==
    /\ pc[p] = "dead"
    /\ Goto(p, "idle")
    /\ UNCHANGED <<disk, num, held, call>>

\* What a scan under way could have known.
Watch ==
    /\ steady' = [p \in Proc |->
                     IF pc'[p] # "scan" THEN {}
                     ELSE IF pc[p] # "scan" THEN Holders'
                     ELSE steady[p] \cap Holders']
    /\ never' = [p \in Proc |-> /\ pc'[p] = "scan"
                                /\ Holders' # {}
                                /\ pc[p] = "scan" => never[p]]

OtherStep(p) ==
    \/ ClearStart(p) \/ ClearEntry(p) \/ ClearEnd(p)
    \/ ObtainStart(p) \/ RequestAgain(p) \/ RequestNew(p) \/ Probe(p)
    \/ Exists(p) \/ Open(p) \/ Link(p) \/ WriteFails(p) \/ Unlink(p)
    \/ UnlinkFails(p) \/ Retry(p) \/ GiveUp(p)
    \/ Release(p) \/ ReleaseDelete(p)
    \/ ScanStart(p) \/ ScanEntry(p) \/ SaysUnlocked(p)
    \/ Crash(p) \/ Restart(p)

Next == \E p \in Proc : (OtherStep(p) \/ DeleteStale(p)) /\ Watch

Spec == Init /\ [][Next]_vars

\* Between the read of a stale file and its deletion another process may have
\* deleted it, and a third one may have made a new file of that number.
\* CarefulSpec is the code without that accident.
DeletesWhatItRead(p) ==
    files[target[p]] # None => \A o \in Holders : num[o] # target[p]

CarefulNext ==
    \E p \in Proc :
        /\ OtherStep(p) \/ (DeleteStale(p) /\ DeletesWhatItRead(p))
        /\ Watch

CarefulSpec == Init /\ [][CarefulNext]_vars

-----------------------------------------------------------------------------
(* Properties.                                                             *)

\* Each caller gets a lock file of its own, which names it: no two objects
\* hold the same number, in one process or in two.
OwnFile ==
    /\ \A o \in Holders : num[o] # 0 /\ files[num[o]] = Owner[o]
    /\ \A o1, o2 \in Holders : num[o1] = num[o2] => o1 = o2

\* Is_Locked does not miss a lock that was held all the time it looked.
SteadyHolderSeen == [][\A p \in Proc : SaysUnlocked(p) => steady[p] = {}]_vars

\* SharedLock.cfh: "Is_Locked returns true so long as some lock, somewhere is
\* holding a lock on name."
AnyHolderSeen == [][\A p \in Proc : SaysUnlocked(p) => ~never[p]]_vars

\* SharedLock.cfh: "Obtain will not fail if another lock is held against the
\* resource": an Obtain fails for other reasons only.
OthersDoNotMatter == [][\A p \in Proc : GiveUp(p) => pc[p] # "refused"]_vars
=============================================================================
