------------------------------- MODULE InStreams -------------------------------
(***************************************************************************)
(* Lucy::Store::InStream (Store/InStream.c) over a FileHandle: a buffer    *)
(* that is a piece of the window that the FileHandle gives of a file, and  *)
(* a virtual file that may be a part of that file.  Pointers are integers. *)
(***************************************************************************)
EXTENDS Integers

CONSTANTS FileLen,             \* the length of the file
          IO_STREAM_BUF_SIZE,
          Page,     \* where windows begin: page_size; 1 on 64 bits and in RAM
          Sizes,    \* the sizes and positions that are asked for
          ClonesOf  \* which streams are cloned: of a "whole" file or a "part"

VARIABLES offset, len,  \* the virtual file
          buf, limit,   \* pointers: what is next, and the end of the buffer
          window,       \* the FileWindow: its buf, offset and len
          out,          \* what the last call returned
          first         \* (history) where the virtual file should begin

vars == <<offset, len, buf, limit, window, out, first>>

NULL == 0

\* The address at which the file is mapped; a page at a time elsewhere (Page
\* above 1), where it could be any.
Base == 100

NoWindow == [buf |-> NULL, offset |-> 0, len |-> 0]

Smaller(a, b) == IF a < b THEN a ELSE b

\* SI_tell.
Tell == (buf - window.buf) + window.offset - offset

Remaining == len - Tell

\* The place in the file of the byte at the buffer of a state.
Place(s) == s.buf - s.window.buf + s.window.offset

Init ==
    /\ offset = 0 /\ len = FileLen
    /\ buf = NULL /\ limit = NULL /\ window = NoWindow
    /\ out = <<"opened">> /\ first = 0

-----------------------------------------------------------------------------
(* FH_Window of the FileHandles, for a piece of the file.                  *)

WindowOf(start, amount) ==
    LET adjusted == start - (start % Page)
    IN  [buf |-> Base + adjusted, offset |-> adjusted,
         len |-> amount + (start % Page)]

\* S_fill: the buffer and limit after it, with the new window.
S_fill(at, amount) ==
    LET w == WindowOf(at + offset, amount)
        b == w.buf - w.offset + offset + at
        end == w.buf + w.len
    IN  [window |-> w, buf |-> b,
         limit |-> IF end - b > len - at THEN b + (len - at) ELSE end]

\* A stream whose buffer is that of state s, and n bytes of which are used.
Use(s, n) == /\ buf' = s.buf + n
             /\ limit' = s.limit /\ window' = s.window

Current == [window |-> window, buf |-> buf, limit |-> limit]

Result(r) == out' = r /\ UNCHANGED <<offset, len, first>>

Throw == out' = <<"error">> /\ UNCHANGED <<offset, len, first>>

\* What S_refill asks for.
RefillAmount(remaining) == Smaller(remaining, IO_STREAM_BUF_SIZE)

-----------------------------------------------------------------------------

\* A mutant: in the window, the offset of the virtual file is forgotten.
SoughtInFile(s, o, target) ==
    LET top == s.window.offset
    IN  IF target >= top /\ target <= top + s.window.len
        THEN [s EXCEPT !.buf = s.window.buf - s.window.offset + target]
        ELSE [buf |-> NULL, limit |-> NULL,
              window |-> [NoWindow EXCEPT !.offset = o + target]]

\* The state after a Seek to target, which is in the window or outside it.
Sought(s, o, target) ==
    LET top == s.window.offset - o
    IN  IF target >= top /\ target <= top + s.window.len
        THEN [s EXCEPT !.buf = s.window.buf - s.window.offset + o + target]
        ELSE [buf |-> NULL, limit |-> NULL,
              window |-> [NoWindow EXCEPT !.offset = o + target]]

InWindow(target) == /\ target >= window.offset - offset
                    /\ target <= window.offset - offset + window.len

Seek == \E target \in Sizes :
    IF InWindow(target) \/ target <= len
    THEN Use(Sought(Current, offset, target), 0) /\ Result(<<"moved">>)
    ELSE Throw /\ UNCHANGED <<buf, limit, window>>

GetTell == Result(<<"at", Tell>>) /\ UNCHANGED <<buf, limit, window>>

\* SI_read_bytes, when the buffer has them all.
ReadFromBuffer == \E n \in Sizes :
    /\ limit - buf >= n
    /\ Use(Current, n) /\ Result(<<"bytes", Place(Current), n>>)

Available == IF limit - buf > 0 THEN limit - buf ELSE 0

\* n bytes read: the available ones, and the others from a place in the file.
Joined(n, place) ==
    IF Available = 0 THEN <<"bytes", place, n>>
    ELSE IF Place(Current) + Available = place
    THEN <<"bytes", Place(Current), n>> ELSE <<"torn">>

\* When it has not: the rest is few bytes, and the buffer is refilled.
ReadByRefill == \E n \in Sizes :
    LET rest == n - Available
        here == Tell + Available
        amount == RefillAmount(len - here)
        filled == S_fill(here, amount)
    IN  /\ limit - buf < n /\ rest < IO_STREAM_BUF_SIZE
        /\ IF len = here THEN Use(Current, Available) /\ Throw
           ELSE IF amount < rest THEN Use(filled, 0) /\ Throw
           ELSE Use(filled, rest) /\ Result(Joined(n, Place(filled)))

\* Or many bytes, and they are read from the FileHandle.
ReadDirectly == \E n \in Sizes :
    LET rest == n - Available
        here == Tell + Available
        before == [Current EXCEPT !.buf = @ + Available]
    IN  /\ limit - buf < n /\ rest >= IO_STREAM_BUF_SIZE
        /\ IF offset + here + rest > FileLen THEN Use(before, 0) /\ Throw
           ELSE IF here + rest > len /\ ~InWindow(here + rest)
           THEN Use(before, 0) /\ Throw
           ELSE /\ Use(Sought(before, offset, here + rest), 0)
                /\ Result(Joined(n, offset + here))

\* S_refill.
Refilled == S_fill(Tell, RefillAmount(Remaining))

Read_U8 ==
    IF buf < limit
    THEN Use(Current, 1) /\ Result(<<"bytes", Place(Current), 1>>)
    ELSE IF Remaining = 0 THEN Throw /\ UNCHANGED <<buf, limit, window>>
    ELSE Use(Refilled, 1) /\ Result(<<"bytes", Place(Refilled), 1>>)

\* Buf: what is returned is what there is from the pointer up to the limit.
Buf == \E request \in Sizes :
    LET bumped == IF request < IO_STREAM_BUF_SIZE THEN IO_STREAM_BUF_SIZE
                                                  ELSE request
        amount == Smaller(bumped, Remaining)
        s == IF request > limit - buf /\ amount > limit - buf
             THEN S_fill(Tell, amount) ELSE Current
    IN  Use(s, 0) /\ Result(<<"buffer", Place(s), s.limit - s.buf>>)

\* By n bytes, more than there are or not; the client does not go backwards.
Advance_Buf == \E n \in Sizes :
    IF n > limit - buf THEN Throw /\ UNCHANGED <<buf, limit, window>>
                       ELSE Use(Current, n) /\ Result(<<"moved">>)

Fill == \E amount \in Sizes :
    IF amount > Remaining THEN Throw /\ UNCHANGED <<buf, limit, window>>
                          ELSE Use(S_fill(Tell, amount), 0)
                               /\ Result(<<"filled">>)

Refill ==
    IF Remaining = 0 THEN Throw /\ UNCHANGED <<buf, limit, window>>
    ELSE Use(Refilled, 0) /\ Result(<<"filled">>)

New == [buf |-> NULL, limit |-> NULL, window |-> NoWindow]

Reopen == \E o, l \in Sizes :
    IF o + l > FileLen THEN Throw /\ UNCHANGED <<buf, limit, window>>
    ELSE /\ offset' = o /\ len' = l /\ first' = o
         /\ Use(Sought(New, o, 0), 0)
         /\ out' = <<"opened">>

\* The new stream is one of the whole file, at Tell.
Clone ==
    /\ (IF offset = 0 /\ len = FileLen THEN "whole" ELSE "part") \in ClonesOf
    /\ offset' = 0 /\ len' = FileLen
    /\ Use(Sought(New, 0, Tell), 0)
    /\ out' = <<"cloned">> /\ UNCHANGED first

Next == \/ Seek \/ GetTell \/ ReadFromBuffer \/ ReadByRefill \/ ReadDirectly
        \/ Read_U8 \/ Buf \/ Advance_Buf \/ Fill \/ Refill \/ Reopen \/ Clone

Spec == Init /\ [][Next]_vars

-----------------------------------------------------------------------------

\* What is in the buffer is in the window, the window is in the file, and the
\* buffer does not go past the end of the virtual file.
BufferInWindow ==
    /\ limit # NULL =>
          /\ window.buf <= buf /\ buf <= limit
          /\ limit <= window.buf + window.len
          /\ Place([Current EXCEPT !.buf = limit]) <= offset + len
    /\ limit = NULL => buf = NULL /\ window.len = 0
    /\ window.offset >= 0 /\ window.offset + window.len <= FileLen

\* Whatever the calls before, a stream reads the bytes of its part of the file
\* from its position on, and not one from before or after it.
Reader == INSTANCE ByteReader WITH pos <- Tell

ReadsItsPart == Reader!Spec

\* "Clones share the same underlying FileHandle and start at the current file
\* position" (InStream.cfh:69).
CloneStaysInPlace == out = <<"cloned">> => offset = first
=============================================================================
