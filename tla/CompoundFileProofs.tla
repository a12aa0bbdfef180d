-------------------------- MODULE CompoundFileProofs --------------------------
(***************************************************************************)
(* What CompoundFile.tla promises of a segment's directory, for any number *)
(* of processes, data files and sessions, provided that no process passes  *)
(* a Folder on from one session to the next (Keepers).                     *)
(*                                                                         *)
(* One session is at work at a time, and what its directory and its cached *)
(* Folder look like is known at each of its steps (WorkInv); what a        *)
(* session has left that crashed is known only so far that it is a         *)
(* directory, which is all that the next one needs to clear it away.       *)
(***************************************************************************)
EXTENDS CompoundFile, TLAPS

\* Nobody else is at work.
Alone == \A p, q \in Process : pc[p] # "idle" /\ pc[q] # "idle" => p = q

\* A session that has not begun has written nothing.
FreshInv ==
    \A s \in Session : (\A q \in Process : session[q] < s) =>
                           blob[s] = {} /\ names[s] = {}

\* The data files of session s are there, as it has written them.
DataThere(s) == DataFile \subseteq Files /\ \A d \in DataFile : dir[d] = s

\* The compound file of session s stands for them.
Merged(s) ==
    /\ {"cfmeta.json", "cf.dat"} \subseteq Files
    /\ dir["cfmeta.json"] = s /\ dir["cf.dat"] = s
    /\ names[s] = DataFile /\ DataFile \subseteq blob[s]

\* The directory is empty of what older sessions have left, but for nothing.
WriteInv(s, e) ==
    /\ dir # Gone /\ Files \subseteq DataFile
    /\ \A d \in Files : dir[d] = s
    /\ names[s] = {} /\ blob[s] = {}
    /\ e \in {None, Plain}

\* The old directory's records go first, while both compound files are there,
\* and then everything that was in it.
DeleteInv(e) ==
    /\ dir # Gone /\ Files \subseteq real
    /\ e # None
    /\ virtual # {} => /\ e.cf /\ e.records = virtual
                       /\ {"cfmeta.json", "cf.dat"} \subseteq Files

\* All data files are written and none is absorbed yet.
FullInv(s, e) ==
    /\ dir # Gone /\ Files = DataFile \cup {"segmeta.json"}
    /\ DataThere(s)
    /\ names[s] = {} /\ blob[s] = {} /\ buffer = {}
    /\ e = Plain

\* They are being absorbed: what is listed has gone to the file or is on its
\* way there.
AbsorbInv(s) ==
    /\ dir # Gone /\ DataThere(s)
    /\ "cf.dat" \in Files /\ dir["cf.dat"] = s
    /\ names[s] \subseteq blob[s] \cup buffer

WorkInv(p) ==
    LET s == session[p]
        e == entry[p]
    IN  /\ pc[p] # "idle" => s \in Session /\ committed = 0
        /\ pc[p] \in {"idle", "prep", "list", "mkdir"} => e = None
        /\ pc[p] \in {"prep", "list", "delete", "rmdir", "mkdir"} =>
               names[s] = {} /\ blob[s] = {}
        /\ pc[p] = "list" => dir # Gone
        /\ pc[p] = "delete" => DeleteInv(e)
        /\ pc[p] = "rmdir" => dir # Gone /\ Files = {}
        /\ pc[p] = "mkdir" => dir = Gone
        /\ pc[p] \in {"prep", "list", "delete", "rmdir", "mkdir", "write",
                      "start", "cleanup"} => buffer = {}
        /\ pc[p] = "write" => WriteInv(s, e)
        /\ pc[p] \in {"start", "cleanup"} => FullInv(s, e)
        /\ pc[p] = "absorb" => AbsorbInv(s) /\ names[s] \cup virtual = DataFile
        /\ pc[p] \in {"temp", "rename", "close"} =>
               AbsorbInv(s) /\ names[s] = DataFile
        /\ pc[p] = "rename" => /\ "cfmeta.json.temp" \in Files
                               /\ dir["cfmeta.json.temp"] = s
        /\ pc[p] = "close" => /\ "cfmeta.json" \in Files
                              /\ dir["cfmeta.json"] = s
        /\ pc[p] \in {"merged", "open", "prepared"} => dir # Gone /\ Merged(s)
        /\ pc[p] = "merged" => virtual \subseteq DataFile

Inv == /\ TypeOK
       /\ Alone
       /\ FreshInv
       /\ \A p \in Process : WorkInv(p)
       /\ committed # 0 => /\ Merged(committed) /\ dir # Gone
                           /\ \A p \in Process : pc[p] = "idle"
       /\ (\A p \in Process : pc[p] = "idle") => buffer = {}
       /\ failed = {}

-----------------------------------------------------------------------------
(* The parts of a step.                                                    *)

\* What a directory is once it is there.
LEMMA DirIs ==
    ASSUME TypeOK, dir # Gone
    PROVE  /\ dir \in [Files -> Session] /\ Files \in SUBSET Name
           /\ Files = DOMAIN dir
<1>1. PICK N \in SUBSET Name : dir \in [N -> Session]
  BY DEF TypeOK
<1>2. DOMAIN dir = N
  BY <1>1
<1> QED
  BY <1>1, <1>2 DEF Files

LEMMA DirBecomes ==
    ASSUME NEW N \in SUBSET Name, NEW f \in [N -> Session]
    PROVE  /\ f # Gone /\ DOMAIN f = N
           /\ f \in UNION {[M -> Session] : M \in SUBSET Name}
<1>1. f # Gone
  BY GoneAssumption
<1> QED
  BY <1>1

\* Files go, the directory stays.
LEMMA WithoutIs ==
    ASSUME TypeOK, dir # Gone, NEW N, dir' = Without(N)
    PROVE  /\ dir' # Gone /\ Files' = Files \ N
           /\ \A m \in Files' : dir'[m] = dir[m]
           /\ dir' \in UNION {[M -> Session] : M \in SUBSET Name}
<1>1. dir \in [Files -> Session] /\ Files \in SUBSET Name
  BY DirIs
<1> DEFINE R == Files \ N
<1>2. dir' = [m \in R |-> dir[m]]
  BY DEF Without, Restrict
<1>3. R \in SUBSET Name /\ dir' \in [R -> Session]
  BY <1>1, <1>2
<1>4. /\ dir' # Gone /\ DOMAIN dir' = R
      /\ dir' \in UNION {[M -> Session] : M \in SUBSET Name}
  BY <1>3, DirBecomes
<1>5. Files' = R
  BY <1>4 DEF Files
<1> QED
  BY <1>2, <1>4, <1>5

\* A file comes.
LEMMA WithIs ==
    ASSUME TypeOK, dir # Gone, NEW n \in Name, NEW s \in Session,
           dir' = With(n, s)
    PROVE  /\ dir' # Gone /\ Files' = Files \cup {n}
           /\ \A m \in Files' : dir'[m] = IF m = n THEN s ELSE dir[m]
           /\ dir' \in UNION {[M -> Session] : M \in SUBSET Name}
<1>1. dir \in [Files -> Session] /\ Files \in SUBSET Name
  BY DirIs
<1> DEFINE R == Files \cup {n}
<1>2. dir' = [m \in R |-> IF m = n THEN s ELSE dir[m]]
  BY DEF With
<1>3. R \in SUBSET Name /\ dir' \in [R -> Session]
  BY <1>1, <1>2
<1>4. /\ dir' # Gone /\ DOMAIN dir' = R
      /\ dir' \in UNION {[M -> Session] : M \in SUBSET Name}
  BY <1>3, DirBecomes
<1>5. Files' = R
  BY <1>4 DEF Files
<1> QED
  BY <1>2, <1>4, <1>5

\* The others stand still while one is at work.
LEMMA Others ==
    ASSUME Inv, NEW p \in Process, pc[p] # "idle",
           \A q \in Process : q # p => pc'[q] = pc[q] /\ entry'[q] = entry[q]
    PROVE  Alone' /\ \A q \in Process : q # p => pc'[q] = "idle" /\ WorkInv(q)'
<1>1. \A q \in Process : q # p => pc[q] = "idle"
  BY DEF Inv, Alone
<1>2. \A q \in Process : q # p => entry[q] = None
  BY <1>1 DEF Inv, WorkInv
<1>3. \A q \in Process : q # p => pc'[q] = "idle" /\ entry'[q] = None
  BY <1>1, <1>2
<1>4. Alone'
  BY <1>3 DEF Alone
<1>5. \A q \in Process : q # p => WorkInv(q)'
  BY <1>3 DEF WorkInv
<1> QED
  BY <1>3, <1>4, <1>5

\* A step of a session, which writes under its own number only.
LEMMA SessionSteps ==
    ASSUME Inv, NEW p \in Process, pc[p] # "idle",
           \A q \in Process : q # p => pc'[q] = pc[q] /\ entry'[q] = entry[q],
           session' = session, committed' = committed, failed' = failed,
           \A s \in Session : s # session[p] => /\ blob'[s] = blob[s]
                                                /\ names'[s] = names[s],
           TypeOK', WorkInv(p)', pc'[p] # "idle" \/ buffer' = {}
    PROVE  Inv'
<1>1. Alone' /\ \A q \in Process : WorkInv(q)'
  BY Others
<1>2. session[p] \in Session /\ committed = 0
  BY DEF Inv, WorkInv
<1>3. FreshInv'
  <2> SUFFICES ASSUME NEW s \in Session, \A q \in Process : session[q] < s
               PROVE  blob'[s] = {} /\ names'[s] = {}
    BY DEF FreshInv
  <2>1. s # session[p]
    BY <1>2, BoundAssumption DEF Session
  <2> QED
    BY <2>1 DEF Inv, FreshInv
<1> QED
  BY <1>1, <1>2, <1>3 DEF Inv

-----------------------------------------------------------------------------
(* The directory is prepared.                                              *)

LEMMA BeginKeeps ==
    ASSUME Inv, NEW p \in Process, Begin(p)
    PROVE  Inv'
<1>1. PICK s \in Session : /\ \A q \in Process : session[q] < s
                           /\ session' = [session EXCEPT ![p] = s]
  BY DEF Begin
<1>2. /\ TypeOK /\ \A q \in Process : pc[q] = "idle"
      /\ committed = 0
      /\ pc' = [pc EXCEPT ![p] = "prep"]
      /\ UNCHANGED <<dir, blob, names, entry, virtual, real, buffer, committed,
                     failed>>
  BY DEF Inv, Begin, Goto, folder
<1>3. TypeOK'
  BY <1>1, <1>2 DEF TypeOK, PCs
<1>4. blob[s] = {} /\ names[s] = {}
  BY <1>1 DEF Inv, FreshInv
<1>5. \A q \in Process : entry[q] = None
  BY <1>2 DEF Inv, WorkInv
<1>6. buffer = {} /\ failed = {}
  BY <1>2 DEF Inv
<1>7. \A q \in Process : pc'[q] = IF q = p THEN "prep" ELSE "idle"
  BY <1>2 DEF TypeOK
<1>8. session'[p] = s
  BY <1>1, <1>2 DEF TypeOK
<1>9. \A q \in Process : WorkInv(q)'
  BY <1>1, <1>2, <1>4, <1>5, <1>6, <1>7, <1>8 DEF WorkInv
<1>10. Alone'
  BY <1>7 DEF Alone
<1>11. FreshInv'
  <2> SUFFICES ASSUME NEW r \in Session, \A q \in Process : session'[q] < r
               PROVE  blob[r] = {} /\ names[r] = {}
    BY <1>2 DEF FreshInv
  <2>1. \A q \in Process : session[q] < r
    <3>1. s < r /\ s \in Nat /\ r \in Nat
      BY <1>8, BoundAssumption DEF Session
    <3> SUFFICES ASSUME NEW q \in Process PROVE session[q] < r
      OBVIOUS
    <3>2. session[q] < s
      BY <1>1
    <3>3. session[q] \in Session \cup {0}
      BY <1>2 DEF TypeOK
    <3>4. session[q] \in Nat
      BY <3>3, BoundAssumption DEF Session
    <3> QED
      BY <3>1, <3>2, <3>4
  <2> QED
    BY <2>1 DEF Inv, FreshInv
<1> QED
  BY <1>2, <1>3, <1>6, <1>7, <1>9, <1>10, <1>11 DEF Inv

LEMMA PrepKeeps ==
    ASSUME Inv, NEW p \in Process, Prep(p)
    PROVE  Inv'
<1>1. /\ TypeOK /\ pc[p] = "prep" /\ WorkInv(p)
      /\ UNCHANGED <<dir, blob, names, entry, session, virtual, real, buffer,
                     committed, failed>>
  BY DEF Inv, Prep, folder
<1>2. entry[p] = None
  BY <1>1 DEF WorkInv
<1>3. pc' = [pc EXCEPT ![p] = IF dir # Gone THEN "list" ELSE "mkdir"]
  BY <1>2 DEF Prep, Goto
<1>4. TypeOK'
  BY <1>1, <1>3 DEF TypeOK, PCs
<1>5. WorkInv(p)'
  BY <1>1, <1>2, <1>3 DEF WorkInv, TypeOK
<1> QED
  BY <1>1, <1>3, <1>4, <1>5, SessionSteps DEF TypeOK

LEMMA ListKeeps ==
    ASSUME Inv, NEW p \in Process, List(p)
    PROVE  Inv'
<1>1. TypeOK /\ pc[p] = "list" /\ WorkInv(p)
  BY DEF Inv, List
<1>2. entry[p] = None /\ dir # Gone
  BY <1>1 DEF WorkInv
<1>3. /\ entry' = [entry EXCEPT ![p] = Found]
      /\ virtual' = Found.records /\ real' = Files
      /\ pc' = [pc EXCEPT ![p] = "delete"]
      /\ UNCHANGED <<dir, blob, names, session, buffer, committed, failed>>
  BY <1>2 DEF List, Goto, folder
<1>4. /\ Found \in Entry /\ Found.records \subseteq DataFile
      /\ Found.records # {} => /\ Found.cf
                               /\ {"cfmeta.json", "cf.dat"} \subseteq Files
  <2>1. CASE {"cfmeta.json", "cf.dat"} \subseteq Files
    <3>1. dir["cfmeta.json"] \in Session /\ dir["cf.dat"] \in Session
      BY <1>1, <1>2, <2>1, DirIs
    <3>2. names[dir["cfmeta.json"]] \in SUBSET DataFile
      BY <1>1, <3>1 DEF TypeOK
    <3> QED
      BY <2>1, <3>1, <3>2 DEF Found, Entry
  <2>2. CASE ~ ({"cfmeta.json", "cf.dat"} \subseteq Files)
    BY <2>2 DEF Found, Entry, Plain
  <2> QED
    BY <2>1, <2>2
<1>5. Found # None
  BY <1>4, NoneAssumption
<1>6. Files \in SUBSET Name
  BY <1>1, <1>2, DirIs
<1>7. TypeOK'
  BY <1>1, <1>3, <1>4, <1>6 DEF TypeOK, PCs, Name
<1>8. Files' = Files
  BY <1>3 DEF Files
<1>9. entry'[p] = Found /\ pc'[p] = "delete"
  BY <1>1, <1>3 DEF TypeOK
<1>10. DeleteInv(entry[p])'
  BY <1>2, <1>3, <1>4, <1>5, <1>8, <1>9 DEF DeleteInv
<1>11. WorkInv(p)'
  BY <1>1, <1>3, <1>9, <1>10 DEF WorkInv
<1> QED
  BY <1>1, <1>3, <1>7, <1>9, <1>11, SessionSteps DEF TypeOK

LEMMA DeleteKeeps ==
    ASSUME Inv, NEW p \in Process, Delete(p)
    PROVE  Inv'
<1>1. /\ TypeOK /\ pc[p] = "delete" /\ WorkInv(p)
      /\ UNCHANGED <<blob, names, session, buffer, committed, failed>>
  BY DEF Inv, Delete
<1>2. dir # Gone /\ DeleteInv(entry[p]) /\ Files \subseteq real
  BY <1>1 DEF WorkInv, DeleteInv
<1>3. ASSUME NEW n \in virtual, DeleteRecord(p, n)
      PROVE  Inv'
  <2> DEFINE rest == entry[p].records \ {n}
             gone == IF rest # {} THEN {} ELSE {"cf.dat", "cfmeta.json"}
  <2>1. /\ entry[p].cf /\ entry[p].records = virtual
        /\ {"cfmeta.json", "cf.dat"} \subseteq Files
    BY <1>2, <1>3 DEF DeleteInv
  <2>2. /\ dir' = Without(gone)
        /\ entry' = [entry EXCEPT ![p].records = rest]
        /\ virtual' = rest
        /\ UNCHANGED <<real, pc>>
    BY <1>3, <2>1 DEF DeleteRecord
  <2>3. /\ dir' # Gone /\ Files' = Files \ gone
        /\ dir' \in UNION {[M -> Session] : M \in SUBSET Name}
    BY <1>1, <1>2, <2>2, WithoutIs
  <2>4. entry'[p] = [entry[p] EXCEPT !.records = rest]
    BY <1>1, <2>2 DEF TypeOK
  <2>5. /\ entry[p] \in [cf : {TRUE}, meta : Session, blob : Session,
                         records : SUBSET DataFile]
    <3>1. entry[p] \in Entry
      BY <1>1, <1>2 DEF TypeOK, DeleteInv
    <3>2. entry[p] # Plain
      BY <2>1 DEF Plain
    <3> QED
      BY <3>1, <3>2 DEF Entry
  <2>6. /\ entry'[p] \in Entry /\ entry'[p].cf /\ entry'[p].records = rest
    <3>1. rest \in SUBSET DataFile
      BY <2>5
    <3> HIDE DEF rest
    <3>2. entry'[p] \in [cf : {TRUE}, meta : Session, blob : Session,
                         records : SUBSET DataFile]
      BY <2>4, <2>5, <3>1
    <3> QED
      BY <2>4, <2>5, <3>2 DEF Entry
  <2>7. entry'[p] # None
    BY <2>6, NoneAssumption
  <2>8. TypeOK'
    <3>1. entry' \in [Process -> Entry \cup {None}]
      <4>1. entry' = [entry EXCEPT ![p] = entry'[p]]
        BY <1>1, <2>2, <2>4 DEF TypeOK
      <4> QED
        BY <1>1, <2>6, <4>1 DEF TypeOK
    <3> QED
      BY <1>1, <2>1, <2>2, <2>3, <3>1 DEF TypeOK
  <2>9. DeleteInv(entry[p])'
    BY <1>2, <2>1, <2>2, <2>3, <2>6, <2>7 DEF DeleteInv
  <2>10. WorkInv(p)'
    BY <1>1, <2>2, <2>9 DEF WorkInv
  <2> QED
    BY <1>1, <2>2, <2>8, <2>10, SessionSteps DEF TypeOK
<1>4. ASSUME virtual = {}, NEW n \in real, real' = real \ {n}, DeleteReal(p, n),
             UNCHANGED virtual
      PROVE  Inv'
  <2>1. dir' = Without({n}) /\ UNCHANGED <<entry, pc>>
    BY <1>4 DEF DeleteReal
  <2>2. /\ dir' # Gone /\ Files' = Files \ {n}
        /\ dir' \in UNION {[M -> Session] : M \in SUBSET Name}
    BY <1>1, <1>2, <2>1, WithoutIs
  <2>3. TypeOK'
    BY <1>1, <1>4, <2>1, <2>2 DEF TypeOK
  <2>4. DeleteInv(entry[p])'
    BY <1>2, <1>4, <2>1, <2>2 DEF DeleteInv
  <2>5. WorkInv(p)'
    BY <1>1, <2>1, <2>4 DEF WorkInv
  <2> QED
    BY <1>1, <2>1, <2>3, <2>5, SessionSteps
<1>5. ASSUME virtual = {}, real = {}, Goto(p, "rmdir"),
             UNCHANGED <<dir, entry, virtual, real>>
      PROVE  Inv'
  <2>1. Files' = Files /\ Files = {}
    BY <1>2, <1>5 DEF Files
  <2>2. pc' = [pc EXCEPT ![p] = "rmdir"]
    BY <1>5 DEF Goto
  <2>3. TypeOK'
    BY <1>1, <1>5, <2>2 DEF TypeOK, PCs
  <2>4. WorkInv(p)'
    BY <1>1, <1>2, <1>5, <2>1, <2>2 DEF WorkInv, TypeOK
  <2> QED
    BY <1>1, <1>5, <2>2, <2>3, <2>4, SessionSteps DEF TypeOK
<1> QED
  BY <1>3, <1>4, <1>5 DEF Delete

LEMMA RmDirKeeps ==
    ASSUME Inv, NEW p \in Process, RmDir(p)
    PROVE  Inv'
<1>1. TypeOK /\ pc[p] = "rmdir" /\ WorkInv(p)
  BY DEF Inv, RmDir
<1>2. dir # Gone /\ Files = {}
  BY <1>1 DEF WorkInv
<1>3. /\ dir' = Gone
      /\ entry' = [entry EXCEPT ![p] = None]
      /\ pc' = [pc EXCEPT ![p] = "mkdir"]
      /\ UNCHANGED <<blob, names, session, virtual, real, buffer, committed,
                     failed>>
  BY <1>2 DEF RmDir, Goto
<1>4. TypeOK'
  BY <1>1, <1>3 DEF TypeOK, PCs
<1>5. WorkInv(p)'
  BY <1>1, <1>3 DEF WorkInv, TypeOK
<1> QED
  BY <1>1, <1>3, <1>4, <1>5, SessionSteps DEF TypeOK

LEMMA MkDirKeeps ==
    ASSUME Inv, NEW p \in Process, MkDir(p)
    PROVE  Inv'
<1>1. TypeOK /\ pc[p] = "mkdir" /\ WorkInv(p)
  BY DEF Inv, MkDir
<1>2. /\ dir' = <<>>
      /\ pc' = [pc EXCEPT ![p] = "write"]
      /\ UNCHANGED <<blob, names, entry, session, virtual, real, buffer,
                     committed, failed>>
  BY <1>1 DEF MkDir, Goto, WorkInv
<1>3. <<>> \in [{} -> Session]
  OBVIOUS
<1>4. /\ dir' # Gone /\ DOMAIN dir' = {}
      /\ dir' \in UNION {[M -> Session] : M \in SUBSET Name}
  BY <1>2, <1>3, DirBecomes
<1>5. Files' = {}
  BY <1>4 DEF Files
<1>6. TypeOK'
  BY <1>1, <1>2, <1>4 DEF TypeOK, PCs
<1>7. pc'[p] = "write" /\ entry[p] = None
  BY <1>1, <1>2 DEF WorkInv, TypeOK
<1>8. WriteInv(session[p], entry[p])'
  BY <1>1, <1>2, <1>4, <1>5, <1>7 DEF WriteInv, WorkInv
<1>9. WorkInv(p)'
  BY <1>1, <1>2, <1>7, <1>8 DEF WorkInv
<1> QED
  BY <1>1, <1>2, <1>6, <1>7, <1>9, SessionSteps DEF TypeOK

-----------------------------------------------------------------------------
(* The segment is written and its files are merged.                        *)

\* While a session writes, the Folder it has opened is a plain one.
LEMMA WriteKeeps ==
    ASSUME Inv, NEW p \in Process, Write(p)
    PROVE  Inv'
<1> DEFINE s == session[p]
<1>1. /\ TypeOK /\ pc[p] = "write" /\ WorkInv(p)
      /\ entry' = [entry EXCEPT ![p] = IF @ = None THEN Found ELSE @]
      /\ UNCHANGED <<blob, names, session, virtual, real, buffer, committed,
                     failed>>
  BY DEF Inv, Write
<1>2. /\ WriteInv(s, entry[p]) /\ s \in Session /\ buffer = {} /\ dir # Gone
      /\ Files \subseteq DataFile /\ committed = 0
  BY <1>1 DEF WorkInv, WriteInv
<1>3. Plain # None /\ Plain \in Entry
  BY NoneAssumption DEF Entry
<1>4. entry' = [entry EXCEPT ![p] = Plain]
  <2>1. Found = Plain
    BY <1>2, NamesAssumption DEF Found
  <2>2. entry[p] \in {None, Plain}
    BY <1>2 DEF WriteInv
  <2> QED
    BY <1>1, <2>1, <2>2
<1>5. entry' \in [Process -> Entry \cup {None}] /\ entry'[p] = Plain
  BY <1>1, <1>3, <1>4 DEF TypeOK
<1>6. ASSUME NEW d \in DataFile \ Files, dir' = With(d, s), UNCHANGED pc
      PROVE  Inv'
  <2>1. /\ dir' # Gone /\ Files' = Files \cup {d}
        /\ \A m \in Files' : dir'[m] = IF m = d THEN s ELSE dir[m]
        /\ dir' \in UNION {[M -> Session] : M \in SUBSET Name}
    BY <1>1, <1>2, <1>6, WithIs DEF Name
  <2>2. TypeOK'
    BY <1>1, <1>5, <1>6, <2>1 DEF TypeOK
  <2>3. WriteInv(s, entry[p])'
    BY <1>1, <1>2, <1>5, <2>1 DEF WriteInv
  <2>4. WorkInv(p)'
    BY <1>1, <1>2, <1>6, <2>3 DEF WorkInv
  <2> QED
    BY <1>1, <1>4, <1>6, <2>2, <2>4, SessionSteps DEF TypeOK
<1>7. ASSUME DataFile \subseteq Files, dir' = With("segmeta.json", s),
             Goto(p, "start")
      PROVE  Inv'
  <2>1. /\ dir' # Gone /\ Files' = Files \cup {"segmeta.json"}
        /\ \A m \in Files' : dir'[m] = IF m = "segmeta.json" THEN s ELSE dir[m]
        /\ dir' \in UNION {[M -> Session] : M \in SUBSET Name}
    BY <1>1, <1>2, <1>7, WithIs DEF Name
  <2>2. pc' = [pc EXCEPT ![p] = "start"] /\ pc'[p] = "start"
    BY <1>1, <1>7 DEF Goto, TypeOK
  <2>3. TypeOK'
    BY <1>1, <1>5, <2>1, <2>2 DEF TypeOK, PCs
  <2>4. DataThere(s)'
    BY <1>1, <1>2, <1>7, <2>1, NamesAssumption DEF DataThere, WriteInv
  <2>5. FullInv(s, entry[p])'
    BY <1>1, <1>2, <1>5, <1>7, <2>1, <2>4 DEF FullInv, WriteInv
  <2>6. WorkInv(p)'
    BY <1>1, <1>2, <2>2, <2>5 DEF WorkInv
  <2> QED
    BY <1>1, <1>4, <2>2, <2>3, <2>6, SessionSteps DEF TypeOK
<1> QED
  BY <1>6, <1>7 DEF Write

LEMMA ConsolidateKeeps ==
    ASSUME Inv, NEW p \in Process, Consolidate(p)
    PROVE  Inv'
<1>1. TypeOK /\ pc[p] = "start" /\ WorkInv(p)
  BY DEF Inv, Consolidate
<1>2. FullInv(session[p], entry[p])
  BY <1>1 DEF WorkInv
<1>3. ~entry[p].cf /\ "cfmeta.json" \notin Files
  BY <1>2, NamesAssumption DEF FullInv, Plain
<1>4. /\ pc' = [pc EXCEPT ![p] = "cleanup"]
      /\ UNCHANGED <<dir, blob, names, entry, session, virtual, real, buffer,
                     committed, failed>>
  BY <1>3 DEF Consolidate, Goto, folder
<1>5. pc'[p] = "cleanup" /\ Files' = Files
  BY <1>1, <1>4 DEF TypeOK, Files
<1>6. TypeOK'
  BY <1>1, <1>4 DEF TypeOK, PCs
<1>7. FullInv(session[p], entry[p])'
  BY <1>2, <1>4, <1>5 DEF FullInv, DataThere
<1>8. WorkInv(p)'
  BY <1>1, <1>4, <1>5, <1>7 DEF WorkInv
<1> QED
  BY <1>1, <1>4, <1>6, <1>8, SessionSteps DEF TypeOK

LEMMA CleanUpKeeps ==
    ASSUME Inv, NEW p \in Process, CleanUp(p)
    PROVE  Inv'
<1> DEFINE s == session[p]
           R == (Files \ {"cfmeta.json.temp"}) \cup {"cf.dat"}
<1>1. /\ TypeOK /\ pc[p] = "cleanup" /\ WorkInv(p)
      /\ UNCHANGED <<blob, names, entry, session, real, buffer, committed,
                     failed>>
      /\ virtual' = Files \cap DataFile
      /\ dir' = [m \in R |-> IF m = "cf.dat" THEN s ELSE dir[m]]
      /\ pc' = [pc EXCEPT ![p] = "absorb"]
  BY DEF Inv, CleanUp, Goto
<1>2. FullInv(s, entry[p]) /\ s \in Session /\ committed = 0
  BY <1>1 DEF WorkInv
<1>3. dir # Gone /\ Files = DataFile \cup {"segmeta.json"} /\ DataThere(s)
  BY <1>2 DEF FullInv
<1>4. dir \in [Files -> Session] /\ Files \in SUBSET Name
  BY <1>1, <1>3, DirIs
<1>5. R \in SUBSET Name /\ dir' \in [R -> Session]
  BY <1>1, <1>2, <1>4 DEF Name
<1>6. /\ dir' # Gone /\ DOMAIN dir' = R
      /\ dir' \in UNION {[M -> Session] : M \in SUBSET Name}
  BY <1>5, DirBecomes
<1>7. Files' = R
  BY <1>6 DEF Files
<1>8. DataFile \subseteq R /\ "cf.dat" \in R /\ "cf.dat" \notin DataFile
  BY <1>3, NamesAssumption
<1>9. AbsorbInv(s)'
  BY <1>1, <1>2, <1>3, <1>6, <1>7, <1>8 DEF AbsorbInv, DataThere, FullInv
<1>10. names' [s] \cup virtual' = DataFile
  BY <1>1, <1>2, <1>3 DEF FullInv
<1>11. virtual' \subseteq Name
  BY <1>1, <1>4
<1>12. TypeOK'
  BY <1>1, <1>6, <1>11 DEF TypeOK, PCs
<1>13. pc'[p] = "absorb"
  BY <1>1 DEF TypeOK
<1>14. WorkInv(p)'
  BY <1>1, <1>2, <1>9, <1>10, <1>13 DEF WorkInv
<1> QED
  BY <1>1, <1>12, <1>13, <1>14, SessionSteps DEF TypeOK

\* What is absorbed is in the buffer until it is flushed.
LEMMA AbsorbKeeps ==
    ASSUME Inv, NEW p \in Process, Absorb(p)
    PROVE  Inv'
<1> DEFINE s == session[p]
<1>1. /\ TypeOK /\ pc[p] = "absorb" /\ WorkInv(p)
      /\ UNCHANGED <<dir, entry, session, real, committed, failed>>
  BY DEF Inv, Absorb
<1>2. /\ AbsorbInv(s) /\ names[s] \cup virtual = DataFile /\ s \in Session
      /\ committed = 0
  BY <1>1 DEF WorkInv
<1>3. Files' = Files /\ DataThere(s)'
  BY <1>1, <1>2 DEF Files, AbsorbInv, DataThere
<1>4. ASSUME NEW d \in virtual, NEW kept \in {{}, {d}, buffer \cup {d}},
             virtual' = virtual \ {d},
             names' = [names EXCEPT ![s] = @ \cup {d}],
             buffer' = kept,
             blob' = [blob EXCEPT ![s] = @ \cup ((buffer \cup {d}) \ kept)],
             UNCHANGED pc
      PROVE  Inv'
  <2>1. d \in DataFile /\ buffer \subseteq DataFile /\ kept \subseteq DataFile
    BY <1>1, <1>2, <1>4 DEF TypeOK
  <2>2. /\ names'[s] = names[s] \cup {d}
        /\ blob'[s] = blob[s] \cup ((buffer \cup {d}) \ kept)
    BY <1>1, <1>2, <1>4 DEF TypeOK
  <2>3. names' \in [Session -> SUBSET DataFile]
    <3>1. names[s] \cup {d} \in SUBSET DataFile
      BY <1>1, <1>2, <2>1 DEF TypeOK
    <3> QED
      BY <1>1, <1>4, <3>1 DEF TypeOK
  <2>4. blob' \in [Session -> SUBSET DataFile]
    <3>1. blob[s] \cup ((buffer \cup {d}) \ kept) \in SUBSET DataFile
      BY <1>1, <1>2, <2>1 DEF TypeOK
    <3> QED
      BY <1>1, <1>4, <3>1 DEF TypeOK
  <2>5. TypeOK'
    BY <1>1, <1>4, <2>1, <2>3, <2>4 DEF TypeOK
  <2>6. AbsorbInv(s)'
    BY <1>1, <1>2, <1>3, <1>4, <2>2 DEF AbsorbInv
  <2>7. names'[s] \cup virtual' = DataFile
    BY <1>2, <1>4, <2>2
  <2>8. WorkInv(p)'
    BY <1>1, <1>2, <1>4, <2>6, <2>7 DEF WorkInv
  <2>9. \A r \in Session : r # s => names'[r] = names[r] /\ blob'[r] = blob[r]
    BY <1>1, <1>4 DEF TypeOK
  <2> QED
    BY <1>1, <1>4, <2>5, <2>8, <2>9, SessionSteps
<1>5. ASSUME virtual = {}, Goto(p, "temp"),
             UNCHANGED <<virtual, names, buffer, blob>>
      PROVE  Inv'
  <2>1. pc' = [pc EXCEPT ![p] = "temp"] /\ pc'[p] = "temp"
    BY <1>1, <1>5 DEF Goto, TypeOK
  <2>2. TypeOK'
    BY <1>1, <1>5, <2>1 DEF TypeOK, PCs
  <2>3. AbsorbInv(s)'
    BY <1>1, <1>2, <1>3, <1>5 DEF AbsorbInv
  <2>4. WorkInv(p)'
    BY <1>1, <1>2, <1>5, <2>1, <2>3 DEF WorkInv
  <2> QED
    BY <1>1, <1>5, <2>1, <2>2, <2>4, SessionSteps DEF TypeOK
<1> QED
  BY <1>4, <1>5 DEF Absorb

LEMMA WriteTempKeeps ==
    ASSUME Inv, NEW p \in Process, WriteTemp(p)
    PROVE  Inv'
<1> DEFINE s == session[p]
           temp == "cfmeta.json.temp"
<1>1. /\ TypeOK /\ pc[p] = "temp" /\ WorkInv(p)
      /\ UNCHANGED <<blob, names, entry, session, virtual, real, buffer,
                     committed, failed>>
      /\ dir' = With(temp, s) /\ pc' = [pc EXCEPT ![p] = "rename"]
  BY DEF Inv, WriteTemp, Goto
<1>2. AbsorbInv(s) /\ names[s] = DataFile /\ s \in Session /\ committed = 0
  BY <1>1 DEF WorkInv
<1>3. dir # Gone /\ temp \in Name
  BY <1>2 DEF AbsorbInv, Name
<1>4. /\ dir' # Gone /\ Files' = Files \cup {temp}
      /\ \A m \in Files' : dir'[m] = IF m = temp THEN s ELSE dir[m]
      /\ dir' \in UNION {[M -> Session] : M \in SUBSET Name}
  BY <1>1, <1>2, <1>3, WithIs
<1>5. AbsorbInv(s)'
  BY <1>1, <1>2, <1>4, NamesAssumption DEF AbsorbInv, DataThere
<1>6. pc'[p] = "rename"
  BY <1>1 DEF TypeOK
<1>7. TypeOK'
  BY <1>1, <1>4 DEF TypeOK, PCs
<1>8. WorkInv(p)'
  BY <1>1, <1>2, <1>4, <1>5, <1>6 DEF WorkInv
<1> QED
  BY <1>1, <1>6, <1>7, <1>8, SessionSteps DEF TypeOK

LEMMA RenameMetaKeeps ==
    ASSUME Inv, NEW p \in Process, RenameMeta(p)
    PROVE  Inv'
<1> DEFINE s == session[p]
           R == (Files \ {"cfmeta.json.temp"}) \cup {"cfmeta.json"}
<1>1. /\ TypeOK /\ pc[p] = "rename" /\ WorkInv(p)
      /\ UNCHANGED <<blob, names, entry, session, virtual, real, buffer,
                     committed, failed>>
      /\ dir' = [m \in R |-> IF m = "cfmeta.json" THEN dir["cfmeta.json.temp"]
                                                  ELSE dir[m]]
      /\ pc' = [pc EXCEPT ![p] = "close"]
  BY DEF Inv, RenameMeta, Goto
<1>2. /\ AbsorbInv(s) /\ names[s] = DataFile /\ s \in Session /\ committed = 0
      /\ dir["cfmeta.json.temp"] = s
  BY <1>1 DEF WorkInv
<1>3. dir # Gone /\ DataThere(s) /\ "cf.dat" \in Files
  BY <1>2 DEF AbsorbInv
<1>4. dir \in [Files -> Session] /\ Files \in SUBSET Name
  BY <1>1, <1>3, DirIs
<1>5. R \in SUBSET Name /\ dir' \in [R -> Session]
  BY <1>1, <1>2, <1>4 DEF Name
<1>6. /\ dir' # Gone /\ DOMAIN dir' = R
      /\ dir' \in UNION {[M -> Session] : M \in SUBSET Name}
  BY <1>5, DirBecomes
<1>7. Files' = R
  BY <1>6 DEF Files
<1>8. AbsorbInv(s)'
  BY <1>1, <1>2, <1>3, <1>6, <1>7, NamesAssumption DEF AbsorbInv, DataThere
<1>9. pc'[p] = "close"
  BY <1>1 DEF TypeOK
<1>10. TypeOK'
  BY <1>1, <1>6 DEF TypeOK, PCs
<1>11. WorkInv(p)'
  BY <1>1, <1>2, <1>7, <1>8, <1>9 DEF WorkInv
<1> QED
  BY <1>1, <1>9, <1>10, <1>11, SessionSteps DEF TypeOK

\* Only now are the bytes of all that the records list in cf.dat.
LEMMA CloseOutKeeps ==
    ASSUME Inv, NEW p \in Process, CloseOut(p)
    PROVE  Inv'
<1> DEFINE s == session[p]
<1>1. /\ TypeOK /\ pc[p] = "close" /\ WorkInv(p)
      /\ UNCHANGED <<dir, names, entry, session, real, committed, failed>>
      /\ blob' = [blob EXCEPT ![s] = @ \cup buffer]
      /\ buffer' = {} /\ virtual' = names[s]
      /\ pc' = [pc EXCEPT ![p] = "merged"]
  BY DEF Inv, CloseOut, Goto
<1>2. /\ AbsorbInv(s) /\ names[s] = DataFile /\ s \in Session /\ committed = 0
      /\ "cfmeta.json" \in Files /\ dir["cfmeta.json"] = s
  BY <1>1 DEF WorkInv
<1>3. blob'[s] = blob[s] \cup buffer
  BY <1>1, <1>2 DEF TypeOK
<1>4. blob' \in [Session -> SUBSET DataFile]
  <2>1. blob[s] \cup buffer \in SUBSET DataFile
    BY <1>1, <1>2 DEF TypeOK
  <2> QED
    BY <1>1, <2>1 DEF TypeOK
<1>5. Files' = Files /\ Merged(s)'
  BY <1>1, <1>2, <1>3 DEF Files, Merged, AbsorbInv
<1>6. pc'[p] = "merged"
  BY <1>1 DEF TypeOK
<1>7. TypeOK'
  BY <1>1, <1>2, <1>4 DEF TypeOK, PCs, Name
<1>8. WorkInv(p)'
  BY <1>1, <1>2, <1>5, <1>6 DEF WorkInv, AbsorbInv
<1>9. \A r \in Session : r # s => blob'[r] = blob[r]
  BY <1>1 DEF TypeOK
<1> QED
  BY <1>1, <1>6, <1>7, <1>8, <1>9, SessionSteps DEF TypeOK

LEMMA DeleteMergedKeeps ==
    ASSUME Inv, NEW p \in Process, DeleteMerged(p)
    PROVE  Inv'
<1> DEFINE s == session[p]
<1>1. /\ TypeOK /\ pc[p] = "merged" /\ WorkInv(p)
      /\ UNCHANGED <<blob, names, entry, session, real, buffer, committed,
                     failed>>
  BY DEF Inv, DeleteMerged
<1>2. /\ dir # Gone /\ Merged(s) /\ s \in Session /\ committed = 0
      /\ virtual \subseteq DataFile
  BY <1>1 DEF WorkInv
<1>3. ASSUME NEW d \in virtual, dir' = Without({d}), virtual' = virtual \ {d},
             UNCHANGED pc
      PROVE  Inv'
  <2>1. /\ dir' # Gone /\ Files' = Files \ {d}
        /\ \A m \in Files' : dir'[m] = dir[m]
        /\ dir' \in UNION {[M -> Session] : M \in SUBSET Name}
    BY <1>1, <1>2, <1>3, WithoutIs
  <2>2. Merged(s)'
    BY <1>1, <1>2, <2>1, NamesAssumption DEF Merged
  <2>3. TypeOK'
    BY <1>1, <1>3, <2>1 DEF TypeOK
  <2>4. WorkInv(p)'
    BY <1>1, <1>2, <1>3, <2>1, <2>2 DEF WorkInv
  <2> QED
    BY <1>1, <1>3, <2>3, <2>4, SessionSteps
<1>4. ASSUME virtual = {}, Goto(p, "open"), UNCHANGED <<dir, virtual>>
      PROVE  Inv'
  <2>1. pc' = [pc EXCEPT ![p] = "open"] /\ pc'[p] = "open"
    BY <1>1, <1>4 DEF Goto, TypeOK
  <2>2. Merged(s)'
    BY <1>1, <1>2, <1>4 DEF Merged, Files
  <2>3. TypeOK'
    BY <1>1, <1>4, <2>1 DEF TypeOK, PCs
  <2>4. WorkInv(p)'
    BY <1>1, <1>2, <1>4, <2>1, <2>2 DEF WorkInv
  <2> QED
    BY <1>1, <1>4, <2>1, <2>3, <2>4, SessionSteps DEF TypeOK
<1> QED
  BY <1>3, <1>4 DEF DeleteMerged

LEMMA OpenReaderKeeps ==
    ASSUME Inv, NEW p \in Process, OpenReader(p)
    PROVE  Inv'
<1> DEFINE s == session[p]
<1>1. /\ TypeOK /\ pc[p] = "open" /\ WorkInv(p)
      /\ UNCHANGED <<dir, blob, names, session, virtual, real, buffer,
                     committed, failed>>
      /\ entry' = [entry EXCEPT ![p] = Found]
      /\ pc' = [pc EXCEPT ![p] = "prepared"]
  BY DEF Inv, OpenReader, Goto, folder
<1>2. dir # Gone /\ Merged(s) /\ s \in Session /\ committed = 0
  BY <1>1 DEF WorkInv
<1>3. Found \in Entry
  <2>1. Found = [cf |-> TRUE, meta |-> s, blob |-> s, records |-> DataFile]
    BY <1>2 DEF Merged, Found
  <2> QED
    BY <1>2, <2>1 DEF Entry
<1>4. TypeOK'
  BY <1>1, <1>3 DEF TypeOK, PCs
<1>5. pc'[p] = "prepared"
  BY <1>1 DEF TypeOK
<1>6. Merged(s)'
  BY <1>1, <1>2 DEF Merged, Files
<1>7. WorkInv(p)'
  BY <1>1, <1>2, <1>5, <1>6 DEF WorkInv
<1> QED
  BY <1>1, <1>4, <1>5, <1>7, SessionSteps DEF TypeOK

-----------------------------------------------------------------------------
(* The session ends, one way or another.                                   *)

LEMMA LeavingKeeps ==
    ASSUME Inv, NEW p \in Process, pc[p] # "idle",
           pc' = [pc EXCEPT ![p] = "idle"],
           entry' = [entry EXCEPT ![p] = None],
           virtual' = {}, real' = {}, buffer' = {},
           UNCHANGED <<dir, blob, names, session, failed>>,
           \/ committed' = committed
           \/ committed' = session[p] /\ Merged(session[p]) /\ dir # Gone
    PROVE  Inv'
<1>1. TypeOK /\ session[p] \in Session /\ committed = 0
  BY DEF Inv, WorkInv
<1>2. TypeOK'
  BY <1>1 DEF TypeOK, PCs
<1>3. \A q \in Process : q # p => pc'[q] = pc[q] /\ entry'[q] = entry[q]
  BY <1>1 DEF TypeOK
<1>4. pc'[p] = "idle" /\ entry'[p] = None
  BY <1>1 DEF TypeOK
<1>5. Alone' /\ \A q \in Process : q # p => pc'[q] = "idle" /\ WorkInv(q)'
  BY <1>3, Others
<1>6. WorkInv(p)'
  BY <1>4 DEF WorkInv
<1>7. FreshInv'
  BY DEF Inv, FreshInv
<1>8. Merged(session[p]) => Merged(session[p])'
  BY DEF Merged, Files
<1>9. committed' # 0 => Merged(committed)' /\ dir' # Gone
  BY <1>1, <1>8 DEF Merged
<1>10. failed' = {}
  BY DEF Inv
<1>11. \A q \in Process : pc'[q] = "idle" /\ WorkInv(q)'
  BY <1>4, <1>5, <1>6
<1> QED
  BY <1>2, <1>5, <1>7, <1>9, <1>10, <1>11 DEF Inv

LEMMA EndingKeeps ==
    ASSUME Inv, Keepers = {}, NEW p \in Process,
           Commit(p) \/ Abandon(p) \/ Crash(p)
    PROVE  Inv'
<1>1. Leave(p) => /\ pc' = [pc EXCEPT ![p] = "idle"]
                  /\ entry' = [entry EXCEPT ![p] = None]
                  /\ virtual' = {} /\ real' = {} /\ buffer' = {}
  BY DEF Leave, Goto
<1>2. CASE Commit(p)
  <2>1. Merged(session[p]) /\ dir # Gone
    BY <1>2 DEF Commit, Inv, WorkInv
  <2> QED
    BY <1>1, <1>2, <2>1, LeavingKeeps DEF Commit, folder
<1>3. CASE Abandon(p)
  BY <1>1, <1>3, LeavingKeeps DEF Abandon, folder
<1>4. CASE Crash(p)
  <2>1. pc[p] # "idle"
    BY <1>4 DEF Crash, Inv, WorkInv
  <2> QED
    BY <1>4, <2>1, LeavingKeeps DEF Crash, Goto, folder
<1> QED
  BY <1>2, <1>3, <1>4

-----------------------------------------------------------------------------
(* The theorems.                                                           *)

LEMMA Initially ==
    ASSUME Init
    PROVE  Inv
<1>1. TypeOK
  BY DEF Init, TypeOK, PCs
<1>2. Alone /\ FreshInv
  BY DEF Init, Alone, FreshInv
<1>3. \A p \in Process : WorkInv(p)
  BY DEF Init, WorkInv
<1> QED
  BY <1>1, <1>2, <1>3 DEF Inv, Init

LEMMA Inductive ==
    ASSUME Inv, Keepers = {}, [Next]_vars
    PROVE  Inv'
<1>1. ASSUME NEW p \in Process,
             \/ Begin(p) \/ Prep(p) \/ List(p) \/ Delete(p) \/ RmDir(p)
             \/ MkDir(p) \/ Write(p) \/ Consolidate(p) \/ CleanUp(p)
             \/ Absorb(p) \/ WriteTemp(p) \/ RenameMeta(p) \/ CloseOut(p)
             \/ DeleteMerged(p) \/ OpenReader(p)
      PROVE  Inv'
  BY <1>1, BeginKeeps, PrepKeeps, ListKeeps, DeleteKeeps, RmDirKeeps,
     MkDirKeeps, WriteKeeps, ConsolidateKeeps, CleanUpKeeps, AbsorbKeeps,
     WriteTempKeeps, RenameMetaKeeps, CloseOutKeeps, DeleteMergedKeeps,
     OpenReaderKeeps
<1>2. ASSUME NEW p \in Process, Commit(p) \/ Abandon(p) \/ Crash(p)
      PROVE  Inv'
  BY <1>2, EndingKeeps
<1>3. ASSUME UNCHANGED vars
      PROVE  Inv'
  <2>1. TypeOK'
    BY <1>3 DEF Inv, TypeOK, vars
  <2>2. Alone' /\ FreshInv'
    BY <1>3 DEF Inv, Alone, FreshInv, vars
  <2>3. Files' = Files
    BY <1>3 DEF Files, vars
  <2>4. \A p \in Process : WorkInv(p)'
    BY <1>3, <2>3 DEF Inv, WorkInv, vars, DeleteInv, WriteInv, FullInv,
                      AbsorbInv, DataThere, Merged
  <2>5. committed' # 0 => /\ Merged(committed)' /\ dir' # Gone
                          /\ \A p \in Process : pc'[p] = "idle"
    BY <1>3, <2>3 DEF Inv, Merged, vars
  <2> QED
    BY <1>3, <2>1, <2>2, <2>4, <2>5 DEF Inv, vars
<1> QED
  BY <1>1, <1>2, <1>3 DEF Next

LEMMA InvSuffices ==
    ASSUME Inv
    PROVE  CommitsSurvive
<1>1. SessionsGetThrough
  BY DEF Inv, SessionsGetThrough
<1>2. ReadersSeeTheCommit
  <2> SUFFICES ASSUME committed # 0, NEW p \in Process, NEW d \in DataFile
               PROVE  Bytes(p, d) = committed
    BY DEF ReadersSeeTheCommit
  <2>1. Merged(committed) /\ entry[p] = None
    BY DEF Inv, WorkInv
  <2>2. Found = [cf |-> TRUE, meta |-> committed, blob |-> committed,
                 records |-> DataFile]
    BY <2>1 DEF Merged, Found
  <2> QED
    BY <2>1, <2>2 DEF Bytes, Merged
<1>3. NothingLost
  <2> SUFFICES ASSUME NEW p \in Process,
                      pc[p] \in {"start", "cleanup", "absorb", "temp", "rename",
                                 "close", "merged", "open", "prepared"},
                      NEW d \in DataFile
               PROVE  \/ d \in Files /\ dir[d] = session[p]
                      \/ /\ {"cfmeta.json", "cf.dat"} \subseteq Files
                         /\ Found.meta = session[p] /\ Found.blob = session[p]
                         /\ d \in names[session[p]] \cap blob[session[p]]
    BY DEF NothingLost
  <2>1. WorkInv(p)
    BY DEF Inv
  <2>2. CASE pc[p] \in {"merged", "open", "prepared"}
    BY <2>1, <2>2 DEF WorkInv, Merged, Found
  <2>3. CASE pc[p] \in {"start", "cleanup"}
    BY <2>1, <2>3 DEF WorkInv, FullInv, DataThere
  <2>4. CASE pc[p] \in {"absorb", "temp", "rename", "close"}
    BY <2>1, <2>4 DEF WorkInv, AbsorbInv, DataThere
  <2> QED
    BY <2>2, <2>3, <2>4
<1> QED
  BY <1>1, <1>2, <1>3 DEF CommitsSurvive

LEMMA Always ==
    ASSUME Keepers = {}
    PROVE  Spec => []Inv
<1>1. Init => Inv
  BY Initially
<1>2. Inv /\ [Next]_vars => Inv'
  BY Inductive
<1> QED
  BY <1>1, <1>2, PTL DEF Spec

-----------------------------------------------------------------------------
(* Types, which do not depend on who keeps a Folder.                       *)

Doing(p) == /\ pc[p] # "idle" => session[p] \in Session
            /\ pc[p] = "delete" => entry[p] # None
            /\ pc[p] = "absorb" => virtual \subseteq DataFile
            /\ pc[p] = "rename" => "cfmeta.json.temp" \in Files

Typing == TypeOK /\ Alone /\ \A p \in Process : Doing(p)

\* A directory of some of the names has files, or is not there.
LEMMA FilesAre ==
    ASSUME TypeOK
    PROVE  /\ Files \in SUBSET Name
           /\ \A m \in Files : dir[m] \in Session
<1>1. CASE dir = Gone
  BY <1>1 DEF Files
<1>2. CASE dir # Gone
  BY <1>2, DirIs
<1> QED
  BY <1>1, <1>2

\* Whatever is written where a directory is, or was, makes a directory.
LEMMA DirTyped ==
    ASSUME NEW N \in SUBSET Name, NEW f, f = [m \in N |-> f[m]],
           \A m \in N : f[m] \in Session
    PROVE  f # Gone /\ f \in UNION {[M -> Session] : M \in SUBSET Name}
<1>1. f \in [N -> Session]
  OBVIOUS
<1> QED
  BY <1>1, DirBecomes

\* CFReader_Local_Delete leaves an entry of a Folder an entry.
LEMMA EntryIs ==
    ASSUME NEW e \in Entry, NEW rest \in SUBSET e.records
    PROVE  /\ e.records \in SUBSET DataFile
           /\ [e EXCEPT !.records = rest] \in Entry
<1>1. CASE e = Plain
  <2>1. e.records = {} /\ rest = {}
    BY <1>1 DEF Plain
  <2>2. [e EXCEPT !.records = rest] = Plain
    BY <1>1, <2>1 DEF Plain
  <2> QED
    BY <2>1, <2>2 DEF Entry
<1>2. CASE e # Plain
  <2>1. e \in [cf : {TRUE}, meta : Session, blob : Session,
                records : SUBSET DataFile]
    BY <1>2 DEF Entry
  <2>2. [e EXCEPT !.records = rest]
            \in [cf : {TRUE}, meta : Session, blob : Session,
                 records : SUBSET DataFile]
    BY <2>1
  <2> QED
    BY <2>1, <2>2 DEF Entry
<1> QED
  BY <1>1, <1>2

LEMMA WithoutTyped ==
    ASSUME TypeOK, NEW N
    PROVE  Without(N) \in UNION {[M -> Session] : M \in SUBSET Name}
<1>1. Without(N) = [m \in Files \ N |-> dir[m]]
  BY DEF Without, Restrict
<1>2. Files \ N \in SUBSET Name /\ \A m \in Files \ N : dir[m] \in Session
  BY FilesAre
<1> QED
  BY <1>1, <1>2, DirTyped

LEMMA WithTyped ==
    ASSUME TypeOK, NEW n \in Name, NEW s \in Session
    PROVE  With(n, s) \in UNION {[M -> Session] : M \in SUBSET Name}
<1>1. /\ Files \cup {n} \in SUBSET Name
      /\ \A m \in Files \cup {n} :
             (IF m = n THEN s ELSE dir[m]) \in Session
  BY FilesAre
<1>2. With(n, s) = [m \in Files \cup {n} |-> IF m = n THEN s ELSE dir[m]]
  BY DEF With
<1> QED
  BY <1>1, <1>2, DirTyped

LEMMA FoundTyped == TypeOK => Found \in Entry
<1> SUFFICES ASSUME TypeOK, {"cfmeta.json", "cf.dat"} \subseteq Files
             PROVE  Found \in Entry
  BY DEF Found, Entry
<1>1. /\ dir["cfmeta.json"] \in Session /\ dir["cf.dat"] \in Session
      /\ names[dir["cfmeta.json"]] \subseteq DataFile
  BY FilesAre DEF TypeOK
<1> QED
  BY <1>1 DEF Found, Entry

\* One process moves, which is the only one at work.
LEMMA TypingStep ==
    ASSUME Typing, NEW p \in Process, pc[p] # "idle", TypeOK', Doing(p)',
           \A q \in Process : q # p => pc'[q] = pc[q]
    PROVE  Typing'
<1>1. \A q \in Process : q # p => pc'[q] = "idle"
  BY DEF Typing, Alone
<1> QED
  BY <1>1 DEF Typing, Alone, Doing

LEMMA PreparingTyped ==
    ASSUME Typing, NEW p \in Process,
           \/ Begin(p) \/ Prep(p) \/ List(p) \/ Delete(p) \/ RmDir(p)
           \/ MkDir(p)
    PROVE  Typing'
<1>1. TypeOK /\ Alone /\ Doing(p) /\ \A q \in Process : Doing(q)
  BY DEF Typing
<1>2. CASE Begin(p)
  <2>1. TypeOK'
    BY <1>1, <1>2 DEF Begin, TypeOK, Goto, PCs, folder
  <2>2. \A q \in Process : /\ q # p => pc'[q] = "idle"
                           /\ q = p => pc'[q] = "prep"
    BY <1>1, <1>2 DEF Begin, Goto, TypeOK
  <2>3. session'[p] \in Session
    BY <1>1, <1>2 DEF Begin, TypeOK
  <2> QED
    BY <2>1, <2>2, <2>3 DEF Typing, Alone, Doing
<1>3. CASE Prep(p)
  <2>1. TypeOK'
    BY <1>1, <1>3 DEF Prep, TypeOK, Goto, PCs, folder
  <2>2. Doing(p)'
    BY <1>1, <1>3 DEF Prep, Goto, TypeOK, Doing
  <2> QED
    BY <1>3, <2>1, <2>2, TypingStep DEF Prep, Goto, Typing, TypeOK
<1>4. CASE List(p)
  <2> DEFINE e == IF entry[p] = None THEN Found ELSE entry[p]
  <2>1. e \in Entry /\ e # None
    BY <1>1, FoundTyped, NoneAssumption DEF TypeOK
  <2>2. e.records \subseteq Name
    BY <2>1, EntryIs DEF Name
  <2>3. CASE dir = Gone /\ e.cf
    <3>1. Fail(p, "crash")
      BY <1>4, <2>3 DEF List
    <3>2. TypeOK' /\ Doing(p)'
      BY <1>1, <3>1
         DEF Fail, Leave, Goto, TypeOK, PCs, folder, Doing
    <3> QED
      BY <1>4, <3>1, <3>2, TypingStep
         DEF List, Fail, Leave, Goto, Typing, TypeOK
  <2>4. CASE ~(dir = Gone /\ e.cf)
    <3>1. /\ entry' = [entry EXCEPT ![p] = e]
          /\ virtual' = e.records /\ real' = Files
          /\ Goto(p, "delete") /\ pc[p] = "list"
          /\ UNCHANGED <<folder, session, buffer, committed, failed>>
      BY <1>4, <2>4 DEF List
    <3> HIDE DEF e
    <3>2. TypeOK'
      BY <1>1, <2>1, <2>2, <3>1, FilesAre DEF Goto, TypeOK, PCs, folder
    <3>3. Doing(p)'
      BY <1>1, <2>1, <3>1 DEF Goto, TypeOK, Doing
    <3> QED
      BY <3>1, <3>2, <3>3, TypingStep DEF Goto, Typing, TypeOK
  <2> QED
    BY <2>3, <2>4
<1>5. CASE Delete(p)
  <2>1. /\ pc[p] = "delete" /\ entry[p] \in Entry
        /\ UNCHANGED <<blob, names, session, buffer, committed, failed>>
    BY <1>1, <1>5 DEF Delete, Doing, TypeOK
  <2>2. CASE \E n \in virtual : DeleteRecord(p, n)
    <3>1. PICK n \in virtual : DeleteRecord(p, n)
      BY <2>2
    <3> DEFINE rest == entry[p].records \ {n}
    <3>2. entry'[p] \in Entry /\ entry'[p] # None
      <4>1. entry'[p] = [entry[p] EXCEPT !.records = rest]
        BY <1>1, <3>1 DEF DeleteRecord, TypeOK
      <4>2. rest \in SUBSET entry[p].records
        OBVIOUS
      <4> QED
        BY <2>1, <4>1, <4>2, EntryIs, NoneAssumption
    <3>3. \A q \in Process : q # p => entry'[q] = entry[q]
      BY <1>1, <3>1 DEF DeleteRecord, TypeOK
    <3>4. entry' \in [Process -> Entry \cup {None}]
      BY <1>1, <3>1, <3>2, <3>3 DEF DeleteRecord, TypeOK
    <3>5. dir' \in UNION {[M -> Session] : M \in SUBSET Name}
      BY <1>1, <3>1, WithoutTyped DEF DeleteRecord
    <3>6. /\ pc' \in [Process -> PCs]
          /\ virtual' \subseteq Name /\ real' \subseteq Name
          /\ pc'[p] \in {"delete", "rmdir"}
          /\ \A q \in Process : q # p => pc'[q] = pc[q]
      BY <1>1, <2>1, <3>1 DEF DeleteRecord, Goto, TypeOK, PCs
    <3>7. TypeOK'
      BY <1>1, <2>1, <3>4, <3>5, <3>6 DEF TypeOK
    <3>8. Doing(p)'
      BY <1>1, <2>1, <3>2, <3>6 DEF Doing
    <3> QED
      BY <2>1, <3>6, <3>7, <3>8, TypingStep
  <2>3. CASE \E n \in real : real' = real \ {n} /\ DeleteReal(p, n)
                             /\ UNCHANGED virtual
    <3>1. dir' \in UNION {[M -> Session] : M \in SUBSET Name}
      BY <1>1, <2>3, WithoutTyped DEF DeleteReal
    <3>2. /\ real' \subseteq Name
          /\ UNCHANGED <<entry, pc, virtual>>
      BY <1>1, <2>3 DEF DeleteReal, TypeOK
    <3>3. TypeOK' /\ Doing(p)'
      BY <1>1, <2>1, <3>1, <3>2 DEF TypeOK, Doing
    <3> QED
      BY <2>1, <3>2, <3>3, TypingStep
  <2>4. CASE Goto(p, "rmdir") /\ UNCHANGED <<dir, entry, virtual, real>>
    <3>1. TypeOK' /\ Doing(p)'
      BY <1>1, <2>1, <2>4 DEF TypeOK, Doing, Goto, PCs
    <3> QED
      BY <1>1, <2>1, <2>4, <3>1, TypingStep DEF Goto, TypeOK
  <2> QED
    BY <1>5, <2>2, <2>3, <2>4 DEF Delete
<1>6. CASE RmDir(p)
  <2>1. <<>> \in UNION {[M -> Session] : M \in SUBSET Name}
    OBVIOUS
  <2>2. TypeOK' /\ Doing(p)'
    BY <1>1, <1>6 DEF RmDir, Goto, TypeOK, PCs, folder, Doing
  <2> QED
    BY <1>1, <1>6, <2>2, TypingStep DEF RmDir, Goto, TypeOK
<1>7. CASE MkDir(p)
  <2>1. <<>> \in [{} -> Session]
    OBVIOUS
  <2>2. <<>> \in UNION {[M -> Session] : M \in SUBSET Name}
    BY <2>1
  <2>3. TypeOK' /\ Doing(p)'
    BY <1>1, <1>7, <2>2
       DEF MkDir, Fail, Leave, Goto, TypeOK, PCs, folder, Doing
  <2> QED
    BY <1>1, <1>7, <2>3, TypingStep DEF MkDir, Fail, Leave, Goto, TypeOK
<1> QED
  BY <1>2, <1>3, <1>4, <1>5, <1>6, <1>7

LEMMA WritingTyped ==
    ASSUME Typing, NEW p \in Process,
           \/ Write(p) \/ Consolidate(p) \/ CleanUp(p) \/ Absorb(p)
           \/ WriteTemp(p)
    PROVE  Typing'
<1>1. /\ TypeOK /\ Alone /\ Doing(p)
      /\ Found \in Entry /\ Found # None
      /\ Files \in SUBSET Name /\ \A m \in Files : dir[m] \in Session
  BY FoundTyped, FilesAre, NoneAssumption DEF Typing
<1>2. CASE Write(p)
  <2>1. pc[p] = "write" /\ session[p] \in Session
    BY <1>1, <1>2 DEF Write, Doing
  <2>2. dir' \in UNION {[M -> Session] : M \in SUBSET Name}
    <3>1. PICK n \in DataFile \cup {"segmeta.json"} :
                 dir' = With(n, session[p])
      BY <1>2 DEF Write
    <3> QED
      BY <1>1, <2>1, <3>1, WithTyped DEF Name
  <2>3. TypeOK' /\ Doing(p)'
    BY <1>1, <1>2, <2>1, <2>2 DEF Write, Goto, TypeOK, PCs, Doing
  <2> QED
    BY <1>1, <1>2, <2>1, <2>3, TypingStep DEF Write, Goto, TypeOK
<1>3. CASE Consolidate(p)
  <2>1. TypeOK' /\ Doing(p)'
    BY <1>1, <1>3
       DEF Consolidate, Fail, Leave, Goto, TypeOK, PCs, folder, Doing
  <2> QED
    BY <1>1, <1>3, <2>1, TypingStep
       DEF Consolidate, Fail, Leave, Goto, TypeOK
<1>4. CASE CleanUp(p)
  <2> DEFINE N == (Files \ {"cfmeta.json.temp"}) \cup {"cf.dat"}
  <2>1. /\ pc[p] = "cleanup" /\ session[p] \in Session
        /\ dir' = [m \in N |-> IF m = "cf.dat" THEN session[p] ELSE dir[m]]
    BY <1>1, <1>4 DEF CleanUp, Doing
  <2>2. N \in SUBSET Name /\ \A m \in N : dir'[m] \in Session
    BY <1>1, <2>1 DEF Name
  <2>3. dir' \in UNION {[M -> Session] : M \in SUBSET Name}
    BY <2>1, <2>2, DirTyped
  <2>4. TypeOK' /\ Doing(p)'
    BY <1>1, <1>4, <2>1, <2>3 DEF CleanUp, Goto, TypeOK, PCs, Name, Doing
  <2> QED
    BY <1>1, <1>4, <2>1, <2>4, TypingStep DEF CleanUp, Goto, TypeOK
<1>5. CASE Absorb(p)
  <2>1. /\ pc[p] = "absorb" /\ virtual \subseteq DataFile
        /\ session[p] \in Session /\ session'[p] \in Session
    BY <1>1, <1>5 DEF Absorb, Doing
  <2>2. /\ names' \in [Session -> SUBSET DataFile]
        /\ blob' \in [Session -> SUBSET DataFile]
        /\ buffer' \subseteq DataFile
    <3>1. CASE UNCHANGED <<virtual, names, buffer, blob>>
      BY <1>1, <3>1 DEF TypeOK
    <3>2. ASSUME NEW d \in virtual, NEW kept \in {{}, {d}, buffer \cup {d}},
                 names' = [names EXCEPT ![session[p]] = @ \cup {d}],
                 buffer' = kept,
                 blob' = [blob EXCEPT ![session[p]] =
                              @ \cup ((buffer \cup {d}) \ kept)]
          PROVE  /\ names' \in [Session -> SUBSET DataFile]
                 /\ blob' \in [Session -> SUBSET DataFile]
                 /\ buffer' \subseteq DataFile
      <4>1. d \in DataFile /\ buffer \subseteq DataFile
        BY <1>1, <2>1 DEF TypeOK
      <4> QED
        BY <1>1, <2>1, <3>2, <4>1 DEF TypeOK
    <3> QED
      BY <1>5, <3>1, <3>2 DEF Absorb
  <2>3. virtual' \subseteq virtual
    BY <1>5 DEF Absorb
  <2>4. TypeOK'
    BY <1>1, <1>5, <2>2, <2>3 DEF Absorb, Goto, TypeOK, PCs
  <2>5. Doing(p)'
    BY <1>1, <1>5, <2>1, <2>3 DEF Absorb, Goto, TypeOK, Doing
  <2> QED
    BY <1>1, <1>5, <2>1, <2>4, <2>5, TypingStep DEF Absorb, Goto, TypeOK
<1>6. CASE WriteTemp(p)
  <2>1. pc[p] = "temp" /\ session[p] \in Session
    BY <1>1, <1>6 DEF WriteTemp, Doing
  <2>2. dir' \in UNION {[M -> Session] : M \in SUBSET Name}
    BY <1>1, <1>6, <2>1, WithTyped DEF WriteTemp, Name
  <2>3. TypeOK'
    BY <1>1, <1>6, <2>2 DEF WriteTemp, Goto, TypeOK, PCs
  <2>4. "cfmeta.json.temp" \in Files'
    <3>1. DOMAIN dir' = Files \cup {"cfmeta.json.temp"}
      BY <1>6 DEF WriteTemp, With
    <3>2. dir' # Gone
      BY <2>2, GoneAssumption
    <3> QED
      BY <3>1, <3>2 DEF Files
  <2>5. Doing(p)'
    BY <1>1, <1>6, <2>1, <2>4 DEF WriteTemp, Goto, TypeOK, Doing
  <2> QED
    BY <1>1, <1>6, <2>1, <2>3, <2>5, TypingStep DEF WriteTemp, Goto, TypeOK
<1> QED
  BY <1>2, <1>3, <1>4, <1>5, <1>6

LEMMA MergingTyped ==
    ASSUME Typing, NEW p \in Process,
           RenameMeta(p) \/ CloseOut(p) \/ DeleteMerged(p) \/ OpenReader(p)
    PROVE  Typing'
<1>1. /\ TypeOK /\ Alone /\ Doing(p) /\ Found \in Entry
      /\ Files \in SUBSET Name /\ \A m \in Files : dir[m] \in Session
  BY FoundTyped, FilesAre DEF Typing
<1>2. CASE RenameMeta(p)
  <2> DEFINE N == (Files \ {"cfmeta.json.temp"}) \cup {"cfmeta.json"}
  <2>1. /\ pc[p] = "rename" /\ "cfmeta.json.temp" \in Files
        /\ dir' = [m \in N |-> IF m = "cfmeta.json"
                               THEN dir["cfmeta.json.temp"] ELSE dir[m]]
    BY <1>1, <1>2 DEF RenameMeta, Doing
  <2>2. N \in SUBSET Name /\ \A m \in N : dir'[m] \in Session
    BY <1>1, <2>1 DEF Name
  <2>3. dir' \in UNION {[M -> Session] : M \in SUBSET Name}
    BY <2>1, <2>2, DirTyped
  <2>4. TypeOK' /\ Doing(p)'
    BY <1>1, <1>2, <2>3 DEF RenameMeta, Goto, TypeOK, PCs, Doing
  <2> QED
    BY <1>1, <1>2, <2>4, TypingStep DEF RenameMeta, Goto, TypeOK
<1>3. CASE CloseOut(p)
  <2>1. session[p] \in Session /\ pc[p] = "close"
    BY <1>1, <1>3 DEF CloseOut, Doing
  <2>2. TypeOK' /\ Doing(p)'
    BY <1>1, <1>3, <2>1 DEF CloseOut, Goto, TypeOK, PCs, Name, Doing
  <2> QED
    BY <1>1, <1>3, <2>1, <2>2, TypingStep DEF CloseOut, Goto, TypeOK
<1>4. CASE DeleteMerged(p)
  <2>1. /\ pc[p] = "merged" /\ session[p] \in Session
        /\ \/ dir' \in UNION {[M -> Session] : M \in SUBSET Name}
           \/ dir' = dir
    BY <1>1, <1>4, WithoutTyped DEF DeleteMerged, Doing
  <2>2. TypeOK' /\ Doing(p)'
    BY <1>1, <1>4, <2>1 DEF DeleteMerged, Goto, TypeOK, PCs, Doing
  <2> QED
    BY <1>1, <1>4, <2>1, <2>2, TypingStep DEF DeleteMerged, Goto, TypeOK
<1>5. CASE OpenReader(p)
  <2>1. TypeOK' /\ Doing(p)'
    BY <1>1, <1>5 DEF OpenReader, Goto, TypeOK, PCs, Doing, folder
  <2> QED
    BY <1>1, <1>5, <2>1, TypingStep DEF OpenReader, Goto, TypeOK
<1> QED
  BY <1>2, <1>3, <1>4, <1>5

LEMMA TypingKept ==
    ASSUME Typing, [Next]_vars
    PROVE  Typing'
<1>1. TypeOK /\ Alone /\ \A q \in Process : Doing(q)
  BY DEF Typing
<1>2. ASSUME NEW p \in Process, Commit(p) \/ Abandon(p)
      PROVE  Typing'
  <2>1. pc[p] # "idle" /\ session[p] \in Session
    BY <1>1, <1>2 DEF Commit, Abandon, Doing
  <2>2. TypeOK' /\ Doing(p)'
    BY <1>1, <1>2, <2>1
       DEF Commit, Abandon, Leave, Goto, TypeOK, PCs, Doing, folder
  <2> QED
    BY <1>1, <1>2, <2>1, <2>2, TypingStep
       DEF Commit, Abandon, Leave, Goto, TypeOK
<1>3. ASSUME NEW p \in Process, Crash(p)
      PROVE  Typing'
  <2>1. TypeOK' /\ Doing(p)'
    BY <1>1, <1>3 DEF Crash, Goto, TypeOK, PCs, Doing, folder
  <2>2. CASE pc[p] # "idle"
    BY <1>1, <1>3, <2>1, <2>2, TypingStep DEF Crash, Goto, TypeOK
  <2>3. CASE pc[p] = "idle"
    <3>1. UNCHANGED <<pc, session, virtual, dir>>
      BY <1>1, <1>3, <2>3 DEF Crash, Goto, TypeOK, folder
    <3>2. \A q \in Process : q # p => entry'[q] = entry[q]
      BY <1>1, <1>3 DEF Crash, TypeOK
    <3> QED
      BY <1>1, <2>1, <3>1, <3>2 DEF Typing, Alone, Doing, Files
  <2> QED
    BY <2>2, <2>3
<1>4. ASSUME UNCHANGED vars
      PROVE  Typing'
  BY <1>1, <1>4 DEF Typing, TypeOK, Alone, Doing, Files, vars
<1> QED
  BY <1>2, <1>3, <1>4, PreparingTyped, WritingTyped, MergingTyped DEF Next

-----------------------------------------------------------------------------
(* The theorems.                                                           *)

\* The files, the records and the bytes of a segment are those of sessions
\* that there were, whoever keeps a Folder.
THEOREM TypeCorrect == Spec => []TypeOK
<1>1. Init => Typing
  BY DEF Init, Typing, TypeOK, Alone, Doing, PCs
<1>2. Typing /\ [Next]_vars => Typing'
  BY TypingKept
<1>3. Typing => TypeOK
  BY DEF Typing
<1> QED
  BY <1>1, <1>2, <1>3, PTL DEF Spec

\* Whichever sessions crash at whichever of their steps, the next one clears
\* the directory away and merges its files, a merge loses no data file, and
\* readers of a commit find what the session that committed has written.  The
\* first and the third are false of processes that keep a Folder.
THEOREM SegmentsSurviveCrashes ==
    ASSUME Keepers = {}
    PROVE  Spec => []CommitsSurvive
<1>1. Inv => CommitsSurvive
  BY InvSuffices
<1> QED
  BY <1>1, Always, PTL
=============================================================================
