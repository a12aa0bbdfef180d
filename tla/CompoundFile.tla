---------------------------- MODULE CompoundFile ----------------------------
(***************************************************************************)
(* The directory of one segment, from the session that prepares it to the  *)
(* readers of the commit: SegWriter_Prep_Seg_Dir and Folder_Delete_Tree,   *)
(* the data files, CompoundFileWriter's collapse of them into cf.dat, and  *)
(* the CompoundFileReader through which a Folder shows them afterwards.    *)
(*                                                                         *)
(* Sessions exclude one another (the write lock, LockFile.tla).  Those     *)
(* that crash, or are dropped before they commit, leave the directory to   *)
(* the next, which takes the same segment name: no snapshot lists it yet.  *)
(*                                                                         *)
(* Paths name files of the directory that is there now; an open handle on  *)
(* cf.dat stays with the session that wrote it.  Bytes are a session.      *)
(***************************************************************************)
EXTENDS Integers, FiniteSets, Functions

CONSTANTS Process,
          DataFile,   \* what the data writers leave in the directory
          Keepers,    \* processes that pass one Folder object to every session
          MaxSession, \* a bound on the sessions
          None, Gone

ASSUME BoundAssumption == MaxSession \in Nat
ASSUME NamesAssumption ==
    DataFile \cap {"segmeta.json", "cf.dat", "cfmeta.json",
                   "cfmeta.json.temp"} = {}

Session == 1..MaxSession
Name == DataFile \cup {"segmeta.json", "cf.dat", "cfmeta.json",
                       "cfmeta.json.temp"}

\* What a Folder has in its entries under the segment's name: a plain
\* FSFolder, or a CompoundFileReader with the records of one session's
\* cfmeta.json and a handle on the cf.dat of (the same or another) session.
Plain == [cf |-> FALSE, meta |-> 0, blob |-> 0, records |-> {}]
Entry == {Plain} \cup [cf : {TRUE}, meta : Session, blob : Session,
                       records : SUBSET DataFile]

ASSUME NoneAssumption == None \notin Entry
ASSUME GoneAssumption == \A N \in SUBSET Name : Gone \notin [N -> Session]

VARIABLES dir,       \* Gone, or the files in the directory and who wrote them
          blob,      \* blob[s]: whose bytes have reached the cf.dat of s
          names,     \* names[s]: the files that the cfmeta of s lists
          entry,     \* entry[p]: what the Folder of p has cached, or None
          pc,
          session,   \* the session that each process is in, or was
          virtual,   \* names still to delete or to absorb, and
          real,      \*     those that are deleted after them
          buffer,    \* absorbed and not flushed
          committed, \* the session whose snapshot lists the segment, or 0
          failed     \* why sessions gave up, other than by choice

vars == <<dir, blob, names, entry, pc, session, virtual, real, buffer,
          committed, failed>>

folder == <<dir, blob, names>>

PCs == {"idle", "prep", "list", "delete", "rmdir", "mkdir", "write", "start",
        "cleanup", "absorb", "temp", "rename", "close", "merged", "open",
        "prepared"}

TypeOK ==
    /\ dir = Gone \/ dir \in UNION {[N -> Session] : N \in SUBSET Name}
    /\ blob \in [Session -> SUBSET DataFile]
    /\ names \in [Session -> SUBSET DataFile]
    /\ entry \in [Process -> Entry \cup {None}]
    /\ pc \in [Process -> PCs]
    /\ session \in [Process -> Session \cup {0}]
    /\ virtual \subseteq Name /\ real \subseteq Name
    /\ buffer \subseteq DataFile
    /\ committed \in Session \cup {0}
    /\ failed \subseteq {"cannot remove", "crash", "exists", "not merged"}

Init ==
    /\ dir = Gone
    /\ blob = [s \in Session |-> {}] /\ names = [s \in Session |-> {}]
    /\ entry = [p \in Process |-> None]
    /\ pc = [p \in Process |-> "idle"]
    /\ session = [p \in Process |-> 0]
    /\ virtual = {} /\ real = {} /\ buffer = {}
    /\ committed = 0
    /\ failed = {}

Files == IF dir = Gone THEN {} ELSE DOMAIN dir
Without(N) == Restrict(dir, Files \ N)
With(n, s) == [m \in Files \cup {n} |-> IF m = n THEN s ELSE dir[m]]

Goto(p, label) == pc' = [pc EXCEPT ![p] = label]

\* The process leaves its session; its Folder is dropped, unless it keeps it.
Leave(p) ==
    /\ Goto(p, "idle")
    /\ entry' = [entry EXCEPT ![p] = IF p \in Keepers THEN @ ELSE None]
    /\ virtual' = {} /\ real' = {} /\ buffer' = {}

Fail(p, why) ==
    /\ Leave(p)
    /\ failed' = failed \cup {why}
    /\ UNCHANGED <<folder, session, committed>>

\* What FSFolder_Local_Find_Folder finds when it has nothing in its entries.
Found ==
    IF {"cfmeta.json", "cf.dat"} \subseteq Files
    THEN [cf |-> TRUE, meta |-> dir["cfmeta.json"], blob |-> dir["cf.dat"],
          records |-> names[dir["cfmeta.json"]]]
    ELSE Plain

-----------------------------------------------------------------------------
(* The directory is prepared.                                              *)

Begin(p) ==
    /\ \A q \in Process : pc[q] = "idle"
    /\ committed = 0
    /\ \E s \in Session :
        /\ \A q \in Process : session[q] < s
        /\ \A r \in Session : r < s => \E q \in Process : session[q] >= r
        /\ session' = [session EXCEPT ![p] = s]
    /\ Goto(p, "prep")
    /\ UNCHANGED <<folder, entry, virtual, real, buffer, committed, failed>>

\* Folder_Exists: a cached entry is enough.
Prep(p) ==
    /\ pc[p] = "prep"
    /\ Goto(p, IF dir # Gone \/ entry[p] # None THEN "list" ELSE "mkdir")
    /\ UNCHANGED <<folder, entry, session, virtual, real, buffer, committed,
                   failed>>

\* Delete_Tree lists the folder: records first, then the real files.  That of
\* a plain folder finds no directory to open, and goes on; a compound file
\* reader uses the handle that it did not get.
List(p) ==
    LET e == IF entry[p] = None THEN Found ELSE entry[p] IN
    /\ pc[p] = "list"
    /\ IF dir = Gone /\ e.cf
       THEN Fail(p, "crash")
       ELSE /\ entry' = [entry EXCEPT ![p] = e]
            /\ virtual' = e.records /\ real' = Files
            /\ Goto(p, "delete")
            /\ UNCHANGED <<folder, session, buffer, committed, failed>>

\* CFReader_Local_Delete of a name among the records: when the last one goes,
\* the compound files go with it.
DeleteRecord(p, n) ==
    LET rest == entry[p].records \ {n}
        gone == IF rest # {} THEN {}
                ELSE IF "cf.dat" \in Files THEN {"cf.dat", "cfmeta.json"}
                ELSE {}
        success == rest # {} \/ {"cf.dat", "cfmeta.json"} \subseteq Files
    IN  /\ dir' = Without(gone)
        /\ entry' = [entry EXCEPT ![p].records = rest]
        /\ IF success \/ n \notin Files
           THEN virtual' = virtual \ {n} /\ UNCHANGED <<real, pc>>
           ELSE virtual' = {} /\ real' = {} /\ Goto(p, "rmdir")

DeleteReal(p, n) ==
    /\ dir' = Without({n})
    /\ UNCHANGED <<entry, pc>>

Delete(p) ==
    /\ pc[p] = "delete"
    /\ \/ \E n \in virtual : DeleteRecord(p, n)
       \/ /\ virtual = {}
          /\ \E n \in real : real' = real \ {n} /\ DeleteReal(p, n)
          /\ UNCHANGED virtual
       \/ /\ virtual = {} /\ real = {}
          /\ Goto(p, "rmdir")
          /\ UNCHANGED <<dir, entry, virtual, real>>
    /\ UNCHANGED <<blob, names, session, buffer, committed, failed>>

\* The entry is dropped, whether rmdir succeeds or not.
RmDir(p) ==
    /\ pc[p] = "rmdir"
    /\ IF dir # Gone /\ Files = {}
       THEN /\ dir' = Gone
            /\ entry' = [entry EXCEPT ![p] = None]
            /\ Goto(p, "mkdir")
            /\ UNCHANGED <<blob, names, session, virtual, real, buffer,
                           committed, failed>>
       ELSE /\ Goto(p, "idle")
            /\ entry' = [entry EXCEPT ![p] = None]
            /\ failed' = failed \cup {"cannot remove"}
            /\ UNCHANGED <<folder, session, virtual, real, buffer, committed>>

MkDir(p) ==
    /\ pc[p] = "mkdir"
    /\ IF dir # Gone
       THEN Fail(p, "exists")
       ELSE /\ dir' = <<>>
            /\ Goto(p, "write")
            /\ UNCHANGED <<blob, names, entry, session, virtual, real, buffer,
                           committed, failed>>

-----------------------------------------------------------------------------
(* The data writers and Seg_Write_File, then Folder_Consolidate.           *)

\* Files are created, never overwritten; the folder is opened for the first.
Write(p) ==
    /\ pc[p] = "write"
    /\ entry' = [entry EXCEPT ![p] = IF @ = None THEN Found ELSE @]
    /\ \/ \E d \in DataFile \ Files :
            /\ dir' = With(d, session[p])
            /\ UNCHANGED pc
       \/ /\ DataFile \subseteq Files
          /\ dir' = With("segmeta.json", session[p])
          /\ Goto(p, "start")
    /\ UNCHANGED <<blob, names, session, virtual, real, buffer, committed,
                   failed>>

Consolidate(p) ==
    /\ pc[p] = "start"
    /\ IF entry[p].cf \/ "cfmeta.json" \in Files
       THEN Fail(p, "not merged")
       ELSE /\ Goto(p, "cleanup")
            /\ UNCHANGED <<folder, entry, session, virtual, real, buffer,
                           committed, failed>>

\* Left-overs go; the files to merge are listed; cf.dat is created.
CleanUp(p) ==
    LET s == session[p] IN
    /\ pc[p] = "cleanup"
    /\ dir' = [m \in (Files \ {"cfmeta.json.temp"}) \cup {"cf.dat"} |->
                  IF m = "cf.dat" THEN s ELSE dir[m]]
    /\ virtual' = Files \cap DataFile
    /\ Goto(p, "absorb")
    /\ UNCHANGED <<blob, names, entry, session, real, buffer, committed,
                   failed>>

\* Bytes go to the buffer of the stream, which is flushed as it fills up.
Absorb(p) ==
    LET s == session[p] IN
    /\ pc[p] = "absorb"
    /\ \/ \E d \in virtual :
            /\ virtual' = virtual \ {d}
            /\ names' = [names EXCEPT ![s] = @ \cup {d}]
            /\ \E kept \in {{}, {d}, buffer \cup {d}} :
                /\ buffer' = kept
                /\ blob' = [blob EXCEPT ![s] =
                                @ \cup ((buffer \cup {d}) \ kept)]
            /\ UNCHANGED pc
       \/ /\ virtual = {}
          /\ Goto(p, "temp")
          /\ UNCHANGED <<virtual, names, buffer, blob>>
    /\ UNCHANGED <<dir, entry, session, real, committed, failed>>

WriteTemp(p) ==
    /\ pc[p] = "temp"
    /\ dir' = With("cfmeta.json.temp", session[p])
    /\ Goto(p, "rename")
    /\ UNCHANGED <<blob, names, entry, session, virtual, real, buffer,
                   committed, failed>>

RenameMeta(p) ==
    /\ pc[p] = "rename"
    /\ dir' = [m \in (Files \ {"cfmeta.json.temp"}) \cup {"cfmeta.json"} |->
                  IF m = "cfmeta.json" THEN dir["cfmeta.json.temp"] ELSE dir[m]]
    /\ Goto(p, "close")
    /\ UNCHANGED <<blob, names, entry, session, virtual, real, buffer,
                   committed, failed>>

\* Mutant: the stream is not closed.
CloseNever(p) ==
    /\ pc[p] = "close"
    /\ virtual' = names[session[p]]
    /\ Goto(p, "merged")
    /\ UNCHANGED <<folder, entry, session, real, buffer, committed, failed>>

CloseOut(p) ==
    /\ pc[p] = "close"
    /\ blob' = [blob EXCEPT ![session[p]] = @ \cup buffer]
    /\ buffer' = {}
    /\ virtual' = names[session[p]]
    /\ Goto(p, "merged")
    /\ UNCHANGED <<dir, names, entry, session, real, committed, failed>>

DeleteMerged(p) ==
    /\ pc[p] = "merged"
    /\ \/ \E d \in virtual :
            /\ dir' = Without({d})
            /\ virtual' = virtual \ {d}
            /\ UNCHANGED pc
       \/ /\ virtual = {}
          /\ Goto(p, "open")
          /\ UNCHANGED <<dir, virtual>>
    /\ UNCHANGED <<blob, names, entry, session, real, buffer, committed,
                   failed>>

\* The new reader takes the place of the plain folder.
OpenReader(p) ==
    /\ pc[p] = "open"
    /\ entry' = [entry EXCEPT ![p] = Found]
    /\ Goto(p, "prepared")
    /\ UNCHANGED <<folder, session, virtual, real, buffer, committed, failed>>

\* The snapshot that lists the segment is put in place.
Commit(p) ==
    /\ pc[p] = "prepared"
    /\ committed' = session[p]
    /\ Leave(p)
    /\ UNCHANGED <<folder, session, failed>>

\* The caller drops the Indexer without a commit, or an exception does.
Abandon(p) ==
    /\ pc[p] \in {"write", "prepared"}
    /\ Leave(p)
    /\ UNCHANGED <<folder, session, committed, failed>>

\* The process dies, and with it its Folder and what its stream had buffered.
Crash(p) ==
    /\ pc[p] # "idle" \/ entry[p] # None
    /\ entry' = [entry EXCEPT ![p] = None]
    /\ Goto(p, "idle")
    /\ IF pc[p] # "idle" THEN virtual' = {} /\ real' = {} /\ buffer' = {}
                         ELSE UNCHANGED <<virtual, real, buffer>>
    /\ UNCHANGED <<folder, session, committed, failed>>

Next ==
    \E p \in Process :
        \/ Begin(p) \/ Prep(p) \/ List(p) \/ Delete(p) \/ RmDir(p) \/ MkDir(p)
        \/ Write(p) \/ Consolidate(p) \/ CleanUp(p) \/ Absorb(p) \/ WriteTemp(p)
        \/ RenameMeta(p) \/ CloseOut(p) \/ DeleteMerged(p) \/ OpenReader(p)
        \/ Commit(p) \/ Abandon(p) \/ Crash(p)

Spec == Init /\ [][Next]_vars

-----------------------------------------------------------------------------
(* Properties.                                                             *)

\* Whatever an earlier session left behind, the next one prepares the
\* directory and merges its files: it does not meet an error of its own making.
SessionsGetThrough == failed = {}

\* What the Folder of p reads under the name of a data file: a session's
\* bytes, or None when it cannot be opened or is cut short.
Bytes(p, d) ==
    LET e == IF entry[p] = None THEN Found ELSE entry[p] IN
    IF d \in e.records
    THEN IF e.meta = e.blob /\ d \in blob[e.blob] THEN e.blob ELSE None
    ELSE IF d \in Files THEN dir[d] ELSE None

\* Readers of the commit, the committer's own Folder included, see the data
\* files of the session that committed.
ReadersSeeTheCommit ==
    committed # 0 => \A p \in Process, d \in DataFile : Bytes(p, d) = committed

\* At no moment of the merge is a data file in neither place, so that a crash
\* loses nothing that a later reader of the directory could have had.
NothingLost ==
    \A p \in Process :
        pc[p] \in {"start", "cleanup", "absorb", "temp", "rename", "close",
                   "merged", "open", "prepared"} =>
            \A d \in DataFile :
                \/ d \in Files /\ dir[d] = session[p]
                \/ /\ {"cfmeta.json", "cf.dat"} \subseteq Files
                   /\ Found.meta = session[p] /\ Found.blob = session[p]
                   /\ d \in names[session[p]] \cap blob[session[p]]

\* All three: no session meets an error of an earlier one's making, whatever
\* crashed; readers of a commit see the committed data; and no crash in a merge
\* loses any.
CommitsSurvive == SessionsGetThrough /\ ReadersSeeTheCommit /\ NothingLost

\* "The commit point is a rename op": once cfmeta.json is there, cf.dat has
\* what it lists.
CommitPointHolds ==
    {"cfmeta.json", "cf.dat"} \subseteq Files =>
        names[dir["cfmeta.json"]] \subseteq blob[dir["cf.dat"]]
=============================================================================
