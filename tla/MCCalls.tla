------------------------------ MODULE MCCalls ------------------------------
(***************************************************************************)
(* Calls that others can get in the way of, in one run with fairness:      *)
(* those of threads on the class registry (LockFreeRegistry), and those of *)
(* processes on a lock file (LockFile) of which some exit half way.  They  *)
(* share nothing, so a behaviour exercises one of them, its part.          *)
(***************************************************************************)
EXTENDS LockFreeRegistry

VARIABLES part,
          lockFile, linkFiles, proc_pc, seen, timeLeft

lockVars == <<lockFile, linkFiles, proc_pc, seen, timeLeft>>
allVars == <<part, vars, lockVars>>

MCShared == [k \in Key |-> CHOOSE x \in Bucket : TRUE]

MCProc == {"p1", "p2", "p3"}

\* p1 never crashes; p3 does not clear away what it finds.
Lock == INSTANCE LockFile WITH
    pc <- proc_pc, Proc <- MCProc, Hosts <- {MCProc},
    Clearers <- {"p1", "p2"}, MayCrash <- {"p2", "p3"}, PidReuse <- FALSE,
    Timeout <- 2, Interval <- 1

MCInit == part \in {"registry", "lock"} /\ Init /\ Lock!Init

RegistryStep == part = "registry" /\ Next /\ UNCHANGED <<part, lockVars>>

LockStep == part = "lock" /\ Lock!Next /\ UNCHANGED <<part, vars>>

MCNext == RegistryStep \/ LockStep

\* A thread or process that is inside a call runs on; nothing makes it start
\* one, and nothing makes a holder release.
RunsOn(p) == /\ part = "lock" /\ (Lock!ClearStep(p) \/ Lock!ObtainStep(p))
             /\ UNCHANGED <<part, vars>>

MCSpec == /\ MCInit /\ [][MCNext]_allVars
          /\ \A t \in Thread : WF_vars(Step(t))
          /\ \A p \in MCProc : WF_lockVars(RunsOn(p))

-----------------------------------------------------------------------------

\* Lock_Obtain ends: the process comes to hold the lock, gives up after its
\* timeout or exits, whatever the others do.
ObtainEnds == Lock!ObtainEnds

\* A process that clears before it obtains gets rid of the lock file of a dead
\* process of its host, or exits before it does.
StaleIsCleared == Lock!StaleIsCleared
=============================================================================
