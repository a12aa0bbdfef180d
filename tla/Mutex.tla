------------------------------- MODULE Mutex -------------------------------
(***************************************************************************)
(* What Lucy::Store::Lock promises for an exclusive lock (Lock.cfh): at    *)
(* most one process holds it; a holder that dies leaves the lock taken,    *)
(* and the lock of a dead holder may be cleared away.  LockFile.tla is the *)
(* dot-lock implementation; IndexFiles.tla uses locks with these steps.    *)
(***************************************************************************)
CONSTANTS Proc,      \* the processes that share the index folder
          None       \* nobody

VARIABLES owner,     \* whom the lock file names, or None
          holders    \* the live processes whose Obtain succeeded

vars == <<owner, holders>>

Init == owner = None /\ holders = {}

Acquire(p) ==
    /\ owner = None
    /\ owner' = p
    /\ holders' = holders \cup {p}

Release(p) ==
    /\ p \in holders
    /\ owner = p
    /\ owner' = None
    /\ holders' = holders \ {p}

\* The holder exits without releasing: the lock stays taken.
Abandon(p) ==
    /\ p \in holders
    /\ holders' = holders \ {p}
    /\ UNCHANGED owner

\* A stale lock, one whose owner holds nothing any more, is cleared.
Reclaim ==
    /\ owner # None
    /\ owner \notin holders
    /\ owner' = None
    /\ UNCHANGED holders

Next == \/ \E p \in Proc : Acquire(p) \/ Release(p) \/ Abandon(p)
        \/ Reclaim

Spec == Init /\ [][Next]_vars
=============================================================================
