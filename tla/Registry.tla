------------------------------ MODULE Registry ------------------------------
(***************************************************************************)
(* What a registry promises to the threads that share it: a map that each  *)
(* call of register or fetch reads, and register may extend, at a single   *)
(* moment between its start and its return.  What is in it never changes.  *)
(***************************************************************************)
CONSTANTS Thread, Key, Value, None

VARIABLES map,     \* map[k]: the value registered under k, or None
          call,    \* what each thread is calling, or None
          answer   \* what that call is going to return, or None

vars == <<map, call, answer>>

Call == [op : {"register", "fetch"}, key : Key, value : Value]

\* What a call returns when it finds m.
Answer(c, m) ==
    CASE c.op = "register" ->
           (IF m[c.key] = None THEN "registered" ELSE "refused")
      [] c.op = "fetch"    -> IF m[c.key] = None THEN "nothing" ELSE m[c.key]

Init ==
    /\ map = [k \in Key |-> None]
    /\ call = [t \in Thread |-> None]
    /\ answer = [t \in Thread |-> None]

Begin(t) ==
    /\ call[t] = None
    /\ \E c \in Call : call' = [call EXCEPT ![t] = c]
    /\ UNCHANGED <<map, answer>>

Act(t) ==
    /\ call[t] # None /\ answer[t] = None
    /\ answer' = [answer EXCEPT ![t] = Answer(call[t], map)]
    /\ map' = IF answer'[t] = "registered"
              THEN [map EXCEPT ![call[t].key] = call[t].value]
              ELSE map
    /\ UNCHANGED call

End(t) ==
    /\ answer[t] # None
    /\ call' = [call EXCEPT ![t] = None]
    /\ answer' = [answer EXCEPT ![t] = None]
    /\ UNCHANGED map

Next == \E t \in Thread : Begin(t) \/ Act(t) \/ End(t)

Spec == Init /\ [][Next]_vars
=============================================================================
