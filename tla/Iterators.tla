----------------------------- MODULE Iterators ------------------------------
(***************************************************************************)
(* What the iterators of the index promise.  A Matcher visits a set of     *)
(* documents in ascending order, or the first from a target on, and then   *)
(* is exhausted (Search/Matcher.cfh).  A PostingList is one over the       *)
(* documents of the term sought last (Index/PostingList.cfh).  A Lexicon   *)
(* visits terms in sorted order, each once, and can be moved anywhere      *)
(* (Index/Lexicon.cfh).  Terms are numbers, in sort order.                 *)
(***************************************************************************)
EXTENDS Integers, FiniteSetsExt

CONSTANTS Items,       \* the documents or terms there may be
          Start, End   \* where it is before the first and after the last

VARIABLES items,  \* the documents that match, or the terms of the field
          call,   \* the last call: its target, or its name and target
          cur     \* the current item, or Start or End

vars == <<items, call, cur>>

FirstFrom(t) ==
    IF \E i \in items : i >= t THEN Min({i \in items : i >= t}) ELSE End

Init == items \in SUBSET Items /\ cur = Start

-----------------------------------------------------------------------------
(* A Matcher.  The target of Next is the next document.                    *)

Visit(target) ==
    /\ target > cur
    /\ call' = target
    /\ cur' = IF cur = End THEN End ELSE FirstFrom(target)
    /\ UNCHANGED items

MatcherNext == \E target \in Items : Visit(target)

Matcher == Init /\ [][MatcherNext]_vars

MatcherStep == [MatcherNext]_vars

-----------------------------------------------------------------------------
(* A PostingList.                                                          *)

SeekTerm == items' \in SUBSET Items /\ call' = Start /\ cur' = Start

PostingList == Init /\ [][MatcherNext \/ SeekTerm]_vars

PostingStep == [MatcherNext \/ SeekTerm]_vars

-----------------------------------------------------------------------------
(* A Lexicon.                                                              *)

Next == /\ call' = <<"Next">>
        /\ cur' = IF cur = End THEN End ELSE FirstFrom(cur + 1)

Seek == \E t \in Items : call' = <<"Seek", t>> /\ cur' = FirstFrom(t)

Reset == call' = <<"Reset">> /\ cur' = Start

LexiconNext == (Next \/ Seek \/ Reset) /\ UNCHANGED items

Lexicon == Init /\ [][LexiconNext]_vars

LexiconStep == [LexiconNext]_vars
=============================================================================
