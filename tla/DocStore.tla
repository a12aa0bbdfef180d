------------------------------ MODULE DocStore ------------------------------
(***************************************************************************)
(* What an index is to its users: a set of committed documents and one     *)
(* indexing session at a time that drafts the next one.  There are no      *)
(* segments, no deletions files and no merges here; IndexContent.tla       *)
(* implements these steps and every merge is a step that changes nothing.  *)
(***************************************************************************)
CONSTANT Docs          \* every document that may ever be added

VARIABLES committed,   \* what a reader that opens the index now finds
          draft,       \* what it would find after Commit
          inSession    \* whether an Indexer is at work

vars == <<committed, draft, inSession>>

Init == committed = {} /\ draft = {} /\ inSession = FALSE

\* Indexer_init, with TRUNCATE or without.
Begin(truncate) ==
    /\ ~inSession
    /\ inSession' = TRUE
    /\ draft' = IF truncate THEN {} ELSE committed
    /\ UNCHANGED committed

\* Add_Doc and Add_Index.
Add(new) ==
    /\ inSession
    /\ draft' = draft \cup new
    /\ UNCHANGED <<committed, inSession>>

\* Delete_By_Term, Delete_By_Query and Delete_By_Doc_ID reach documents that
\* were committed before the session, never those that it has added itself.
Delete(matching) ==
    /\ inSession
    /\ draft' = draft \ (matching \cap committed)
    /\ UNCHANGED <<committed, inSession>>

Commit ==
    /\ inSession
    /\ committed' = draft
    /\ draft' = {}
    /\ inSession' = FALSE

\* The session is dropped or its process dies.
Abandon ==
    /\ inSession
    /\ draft' = {}
    /\ inSession' = FALSE
    /\ UNCHANGED committed

Next ==
    \/ \E truncate \in BOOLEAN : Begin(truncate)
    \/ \E new \in SUBSET Docs : Add(new)
    \/ \E matching \in SUBSET Docs : Delete(matching)
    \/ Commit
    \/ Abandon

Spec == Init /\ [][Next]_vars
=============================================================================
