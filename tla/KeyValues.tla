------------------------------- MODULE KeyValues -------------------------------
(***************************************************************************)
(* What a Hash promises (Hash.cfh): a set of key-value pairs, one for each *)
(* key, and what each call returns.                                        *)
(***************************************************************************)
EXTENDS FiniteSets, Integers

CONSTANTS Keys,
          Values,  \* what may be stored
          Null     \* the answer when a key is not there; it may be stored too

VARIABLES pairs,   \* the key-value pairs
          result   \* what the last call returned

vars == <<pairs, result>>

Without(k) == {p \in pairs : p[1] # k}

\* The value of a key, or Null.
ValueOf(k) == IF \E p \in pairs : p[1] = k
              THEN (CHOOSE p \in pairs : p[1] = k)[2] ELSE Null

Init == pairs = {} /\ result = <<"new">>

\* A hash that can not grow any more refuses (TooLarge).
Store == \E k \in Keys, v \in Values :
    /\ pairs' = Without(k) \union {<<k, v>>}
    /\ result' = <<"stored", k>>

TooLarge == UNCHANGED pairs /\ result' = <<"too large">>

Fetch == \E k \in Keys : UNCHANGED pairs /\ result' = <<"value", k, ValueOf(k)>>

Has_Key == \E k \in Keys :
    UNCHANGED pairs /\ result' = <<"has", k, \E p \in pairs : p[1] = k>>

Delete == \E k \in Keys :
    pairs' = Without(k) /\ result' = <<"deleted", k, ValueOf(k)>>

Clear == pairs' = {} /\ result' = <<"cleared">>

Get_Size == UNCHANGED pairs /\ result' = <<"size", Cardinality(pairs)>>

Next == \/ Store \/ TooLarge \/ Fetch \/ Has_Key \/ Delete \/ Clear \/ Get_Size

Spec == Init /\ [][Next]_vars

\* What one step may do.
Step == [Next]_vars
=============================================================================
