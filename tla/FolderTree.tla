------------------------------ MODULE FolderTree -------------------------------
(***************************************************************************)
(* Lucy::Store::Folder and its FSFolder and RAMFolder: a tree of entries,  *)
(* the Folder objects an FSFolder caches for its subdirectories, and the   *)
(* calls that walk, change, delete and rename.  What other programs do to  *)
(* the directory on disk is a step of its own.  Compound files are those   *)
(* of CompoundFile.                                                        *)
(***************************************************************************)
EXTENDS Integers, FiniteSets, SequencesExt

CONSTANTS Medium,    \* "FS" or "RAM"
          Names,
          MaxDepth,  \* bound on the length of a path
          LinkTo,    \* the directory to which every symlink leads
          Renames,   \* what is renamed: "file", "dir", a dir to its "inside"
          Others,    \* what other programs do: "make", "link", "remove"
          MaxCalls   \* bound on the calls

VARIABLES disk,    \* the kind of every entry, by its path
          cached,  \* the paths of the Folder objects in the entries tables
          out,     \* the last call and its answer
          calls    \* (bound) how many there have been

vars == <<disk, cached, out, calls>>

Paths == UNION {[1..n -> Names] : n \in 1..MaxDepth}

\* A state of the tree and the cache, which a call works on step by step.
Here == [disk |-> disk, cached |-> cached]

Under(p, q) == IsStrictPrefix(p, q)

-----------------------------------------------------------------------------
(* The file system.                                                        *)

\* What a path leads to when its symlinks are followed.
Real(s, p) == FoldLeft(LAMBDA at, n : LET q == Append(at, n) IN
                           IF q \in DOMAIN s.disk /\ s.disk[q] = "link"
                           THEN LinkTo ELSE q, <<>>, p)

\* The entry itself, which may be a symlink.
Entry(s, p) == Append(Real(s, Front(p)), Last(p))

There(s, p) == Real(s, p) \in DOMAIN s.disk

IsDir(s, p) == Real(s, p) = <<>> \/ (There(s, p) /\ s.disk[Real(s, p)] = "dir")

Kind(s, p) == s.disk[Entry(s, p)]

Children(s, p) == {n \in Names : Append(Real(s, p), n) \in DOMAIN s.disk}

\* unlink of a file or a symlink, rmdir of a directory that is empty.
Removable(s, p) ==
    /\ IsDir(s, Front(p)) /\ Entry(s, p) \in DOMAIN s.disk
    /\ Kind(s, p) = "dir" => Children(s, Entry(s, p)) = {}

Removed(s, p) ==
    [s EXCEPT !.disk = RestrictDomain(@, LAMBDA q : q # Entry(s, p))]

Made(s, p, kind) == [s EXCEPT !.disk = (Entry(s, p) :> kind) @@ @]

Makable(s, p) == IsDir(s, Front(p)) /\ Entry(s, p) \notin DOMAIN s.disk

-----------------------------------------------------------------------------
(* Local operations of a Folder, for the entry of path p.                  *)

\* Local_Find_Folder: the cached object, or a new one if it is a directory.
Found(s, p) == p \in s.cached \/ IsDir(s, p)

Cache(s, p) == IF Medium = "FS" /\ p # <<>>
               THEN [s EXCEPT !.cached = @ \cup {p}] ELSE s

\* FSFolder looks at its cache before the disk.
Local_Exists(s, p) == p \in s.cached \/ There(s, p)

Local_Is_Directory(s, p) == p \in s.cached \/ IsDir(s, p)

\* The object goes, and those cached in it.
Forget(s, p) ==
    [s EXCEPT !.cached = {q \in @ : q # p /\ ~Under(p, q)}]

\* Local_Delete forgets the folder, whether it is deleted or not.
Local_Delete(s, p) ==
    LET ok == Removable(s, p)
    IN  [tree |-> Forget(IF ok THEN Removed(s, p) ELSE s, p), ok |-> ok]

\* Enclosing_Folder: the folders on the way are found and cached one by one.
Way(p) == [n \in 1..(Len(p) - 1) |-> SubSeq(p, 1, n)]

Walk(s, p) == FoldLeft(LAMBDA w, d :
    IF w.ok /\ Found(w.tree, d) THEN [tree |-> Cache(w.tree, d), ok |-> TRUE]
    ELSE [w EXCEPT !.ok = FALSE], [tree |-> s, ok |-> TRUE], Way(p))

-----------------------------------------------------------------------------
(* Delete_Tree.                                                            *)

\* A turn of a loop that calls a function on q, given what the call may come
\* to: the loop breaks when it has failed and the entry is still there.
Turn(o, q, results) ==
    IF o.broken THEN {o}
    ELSE {[tree |-> r.tree, broken |-> ~r.ok /\ Local_Exists(r.tree, q)] :
             r \in results}

Unbroken(o) == [o EXCEPT !.broken = FALSE]

FilesToDelete(files, dirs) == files

\* In which order a DirHandle returns the entries of a directory.
Listings(s, p) == SetToSeqs(Children(s, p))

\* The directories among them that are no symlinks.
DirsOf(s, p, files) ==
    SelectSeq(files, LAMBDA n : s.disk[Append(Real(s, p), n)] = "dir")

\* The loop that is to delete the directories fetches as many names as there
\* are directories, but from the files.
NamesOfDirs(files, dirs) == SubSeq(files, 1, Len(dirs))

\* The outcomes of Delete_Tree, for an entry of a folder that is found.
RECURSIVE TreeDeletions(_, _)
TreeDeletions(s, p) ==
    LET inner == Cache(s, p)
        emptied(files) ==
            LET dirs == DirsOf(s, p, files)
                start == {[tree |-> inner, broken |-> FALSE]}
                tree(os, n) == UNION {
                    Turn(o, Append(p, n), TreeDeletions(o.tree, Append(p, n)))
                    : o \in os}
                one(os, n) == UNION {
                    Turn(o, Append(p, n), {Local_Delete(o.tree, Append(p, n))})
                    : o \in os}
                first == FoldLeft(tree, start, NamesOfDirs(files, dirs))
            IN  FoldLeft(one, {Unbroken(o) : o \in first},
                         FilesToDelete(files, dirs))
    IN  IF ~Local_Is_Directory(s, p) THEN {Local_Delete(s, p)}
        ELSE IF ~IsDir(s, p) THEN {Local_Delete(inner, p)}
        ELSE UNION {{Local_Delete(o.tree, p) : o \in emptied(files)} :
                       files \in Listings(s, p)}

-----------------------------------------------------------------------------

Init == /\ disk = [p \in {} |-> "dir"] /\ cached = {}
        /\ out = <<"none">> /\ calls = 0

Return(s, answer) ==
    /\ calls < MaxCalls /\ calls' = calls + 1
    /\ disk' = s.disk /\ cached' = s.cached /\ out' = answer

\* A call for a path whose enclosing folder is not found.
NoFolder(call) == \E p \in Paths :
    /\ ~Walk(Here, p).ok
    /\ Return(Walk(Here, p).tree, <<call, p, FALSE>>)

Calls == {"MkDir", "Open_Out", "Exists", "Is_Directory", "Find_Folder",
          "Delete", "Delete_Tree"}

Invalid == \E call \in Calls : NoFolder(call)

Make(call, kind) == \E p \in Paths :
    LET w == Walk(Here, p)
        ok == Makable(w.tree, p)
    IN  /\ w.ok
        /\ Return(IF ok THEN Made(w.tree, p, kind) ELSE w.tree, <<call, p, ok>>)

MkDir == Make("MkDir", "dir")

\* With FH_EXCLUSIVE: the file is new.
Open_Out == Make("Open_Out", "file")

Exists == \E p \in Paths : LET w == Walk(Here, p) IN
    w.ok /\ Return(w.tree, <<"Exists", p, Local_Exists(w.tree, p)>>)

Is_Directory == \E p \in Paths : LET w == Walk(Here, p) IN
    w.ok /\ Return(w.tree, <<"Is_Directory", p, Local_Is_Directory(w.tree, p)>>)

\* As Open_Dir, List and Consolidate do.
Find_Folder == \E p \in Paths : LET w == Walk(Here, p) IN
    /\ w.ok
    /\ Return(IF Found(w.tree, p) THEN Cache(w.tree, p) ELSE w.tree,
              <<"Find_Folder", p, Found(w.tree, p)>>)

Delete == \E p \in Paths : LET w == Walk(Here, p) IN
    /\ w.ok
    /\ LET d == Local_Delete(w.tree, p)
       IN  Return(d.tree, <<"Delete", p, d.ok>>)

Delete_Tree == \E p \in Paths : LET w == Walk(Here, p) IN
    /\ w.ok
    /\ \E d \in TreeDeletions(w.tree, p) :
          Return(d.tree, <<"Delete_Tree", p, d.ok>>)

\* A mutant: the entry is stored under the new name, and not deleted.
Copied(s, from, to) == (to :> s.disk[from]) @@ s.disk

\* The tree after from has become to.
Moved(s, from, to) ==
    LET below == {p \in DOMAIN s.disk : from = p \/ Under(from, p)}
        after(p) == to \o SubSeq(p, Len(from) + 1, Len(p))
    IN  [q \in (DOMAIN s.disk \ below) \cup {after(p) : p \in below} |->
            LET was == {p \in below : after(p) = q}
            IN  s.disk[IF was = {} THEN q ELSE CHOOSE p \in was : TRUE]]

\* What is moved into itself is stored in a folder that nothing holds any more.
Lost(s, from) == RestrictDomain(s.disk, LAMBDA q : q # from /\ ~Under(from, q))

\* The results are undefined when there is something at to.
Renaming(from, to) ==
    /\ from \in DOMAIN disk /\ Kind(Here, from) # "link"
    /\ Kind(Here, from) = "file" => "file" \in Renames
    /\ Kind(Here, from) = "dir" =>
           (IF Under(from, to) THEN "inside" ELSE "dir") \in Renames
    /\ Real(Here, Front(from)) = Front(from)
    /\ Real(Here, Front(to)) = Front(to)
    /\ to \notin DOMAIN disk
    /\ Len(to) - Len(from) + Max({Len(p) : p \in DOMAIN disk}) <= MaxDepth

\* FSFolder has the system rename, and leaves its cache as it is.
FSFolder_Rename == \E from, to \in Paths :
    LET ok == IsDir(Here, Front(to)) /\ ~Under(from, to)
    IN  /\ Medium = "FS" /\ Renaming(from, to)
        /\ Return(IF ok THEN [Here EXCEPT !.disk = Moved(Here, from, to)]
                  ELSE Here, <<"Rename", to, ok>>)

\* RAMFolder moves the object from one folder's entries to another's.
RAMFolder_Rename == \E from, to \in Paths :
    LET ok == IsDir(Here, Front(to))
        new == IF Under(from, to) THEN Lost(Here, from)
                                  ELSE Moved(Here, from, to)
    IN  /\ Medium = "RAM" /\ Renaming(from, to)
        /\ Return(IF ok THEN [Here EXCEPT !.disk = new] ELSE Here,
                  <<"Rename", to, ok>>)

\* Other programs, which know nothing of the cache.
OtherMakes == \E p \in Paths, kind \in {"dir", "file"} :
    /\ "make" \in Others /\ Makable(Here, p)
    /\ Return(Made(Here, p, kind), <<"other">>)

OtherLinks == \E p \in Paths :
    /\ "link" \in Others /\ Makable(Here, p) /\ Real(Here, p) = p
    /\ ~Under(LinkTo, p) /\ LinkTo # p
    /\ Return(Made(Here, p, "link"), <<"other">>)

OtherRemoves == \E p \in Paths :
    /\ "remove" \in Others /\ Removable(Here, p)
    /\ Return(Removed(Here, p), <<"other">>)

Next == \/ Invalid \/ MkDir \/ Open_Out \/ Exists \/ Is_Directory
        \/ Find_Folder \/ Delete \/ Delete_Tree
        \/ FSFolder_Rename \/ RAMFolder_Rename
        \/ OtherMakes \/ OtherLinks \/ OtherRemoves

Spec == Init /\ [][Next]_vars

-----------------------------------------------------------------------------

\* A cached Folder stands for a directory that is there: what Delete and
\* Delete_Tree do to the directories of a tree they do to the cache of every
\* folder of it.  So Exists and Is_Directory, which trust it, tell the truth.
CacheTrue == \A p \in cached : IsDir(Here, p)

\* Delete_Tree leaves nothing of a directory in which there are no directories,
\* whatever the order of its entries: so much Prep_Seg_Dir needs to clear away
\* a segment that a crash has left.
FlatTreesGo == [][\A p \in Paths :
    out' # out /\ out'[1] = "Delete_Tree" /\ out'[2] = p /\ p \in DOMAIN disk
    /\ (\A n \in Names : Append(p, n) \in DOMAIN disk
                            => disk[Append(p, n)] = "file")
    => p \notin DOMAIN disk']_vars

\* A Rename that says so has put what there was under the new name, and has
\* lost nothing.
Kept == out' # out /\ out'[1] = "Rename" /\ out'[3]
            => /\ out'[2] \in DOMAIN disk'
               /\ Cardinality(DOMAIN disk') = Cardinality(DOMAIN disk)

RenameKeeps == [][Kept]_vars

\* "Delete recursively, starting at `path`" (Folder.cfh:141): with nobody in
\* the way, nothing is left.
TreesGo == [][out' # out /\ out'[1] = "Delete_Tree"
    => out'[2] \notin DOMAIN disk']_vars

\* "Delete_Tree() did not follow directory symlink" (TestFSFolder.c:147): what
\* a symlink in the tree leads to stays.
LinksNotFollowed == [][
    out' # out /\ out'[1] = "Delete_Tree"
    /\ out'[2] \in DOMAIN disk /\ Kind(Here, out'[2]) = "dir"
    => \A q \in DOMAIN disk : q \in DOMAIN disk'
          \/ q = out'[2] \/ Under(out'[2], q)]_vars

\* Exists: "true if `path` exists" (Folder.cfh:120).
ExistsTells == out[1] = "Exists" /\ out[3] => There(Here, out[2])

=============================================================================
