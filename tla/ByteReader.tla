------------------------------ MODULE ByteReader ------------------------------
(***************************************************************************)
(* What an InStream promises (InStream.cfh): a view of len bytes of a      *)
(* file, from first on, and a position in it.  A byte is told by its place *)
(* in the file.                                                            *)
(***************************************************************************)
EXTENDS Integers

CONSTANTS FileLen,
          Sizes    \* the sizes and positions that are asked for

VARIABLES first, len, pos,
          out    \* what the last call returned

vars == <<first, len, pos, out>>

Init == first = 0 /\ len = FileLen /\ pos = 0 /\ out = <<"opened">>

\* n bytes are read, or an error is thrown and some may have been.
Read == \E n \in Sizes :
    /\ \/ n <= len - pos /\ pos' = pos + n /\ out' = <<"bytes", first + pos, n>>
       \/ n > len - pos /\ pos' \in pos..len /\ out' = <<"error">>
    /\ UNCHANGED <<first, len>>

Seek == \E target \in Sizes :
    /\ \/ target <= len /\ pos' = target /\ out' = <<"moved">>
       \/ target > len /\ UNCHANGED pos /\ out' = <<"error">>
    /\ UNCHANGED <<first, len>>

Tell == UNCHANGED <<first, len, pos>> /\ out' = <<"at", pos>>

\* There are as many bytes at Buf as were requested, or all there are.
Buf == \E request, n \in Sizes :
    /\ n <= len - pos /\ (n >= request \/ n = len - pos)
    /\ out' = <<"buffer", first + pos, n>>
    /\ UNCHANGED <<first, len, pos>>

\* The client has used n bytes of those at Buf.
Advance_Buf == \E n \in Sizes :
    /\ \/ n <= len - pos /\ pos' = pos + n /\ out' = <<"moved">>
       \/ UNCHANGED pos /\ out' = <<"error">>
    /\ UNCHANGED <<first, len>>

Fill == UNCHANGED <<first, len, pos>> /\ out' \in {<<"filled">>, <<"error">>}

\* The client goes on with the new stream.
Reopen == \E o, l \in Sizes :
    \/ /\ o + l <= FileLen
       /\ first' = o /\ len' = l /\ pos' = 0 /\ out' = <<"opened">>
    \/ /\ o + l > FileLen
       /\ out' = <<"error">> /\ UNCHANGED <<first, len, pos>>

Clone == UNCHANGED <<first, len, pos>> /\ out' = <<"cloned">>

Next == Read \/ Seek \/ Tell \/ Buf \/ Advance_Buf \/ Fill \/ Reopen \/ Clone

Spec == Init /\ [][Next]_vars

\* What one step may do.
Step == [Next]_vars
=============================================================================
