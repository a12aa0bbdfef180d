------------------------------ MODULE OutStreams ------------------------------
(***************************************************************************)
(* Lucy::Store::OutStream (Store/OutStream.c): a buffer in front of a      *)
(* FileHandle, whose writes may fail half way.  The bytes of a stream are  *)
(* told apart by their number, in the order in which they are written.     *)
(* Absorb and Align, which write piece by piece, are modelled so.          *)
(***************************************************************************)
EXTENDS Integers, Sequences

CONSTANTS IO_STREAM_BUF_SIZE,
          MaxBytes,    \* bound on the bytes written
          Moduli,      \* the arguments of Align
          MaxThrows,   \* bound on the calls that throw
          WriteClosed  \* whether a closed stream is written to

VARIABLES buf,        \* what is in the buffer, up to buf_pos
          buf_start,
          file,       \* the bytes of the file
          state,      \* "open", "closed" (no file_handle) or "destroyed"
          absorb,     \* how many bytes Absorb has left to write
          align,      \* how many Align has
          written,    \* (history) how many bytes the calls have written
          failed      \* (history) how many have thrown

stream == <<buf, buf_start, file>>
vars == <<buf, buf_start, file, state, absorb, align, written, failed>>

Tell == buf_start + Len(buf)

\* The next n bytes.
Bytes(n) == [i \in 1..n |-> written + i]

Min2(a, b) == IF a < b THEN a ELSE b

Init == /\ buf = <<>> /\ buf_start = 0 /\ file = <<>> /\ state = "open"
        /\ absorb = 0 /\ align = 0 /\ written = 0 /\ failed = 0

-----------------------------------------------------------------------------

\* What a failing FH_Write of the bytes bs may have written: not all of them.
Parts(bs) == {SubSeq(bs, 1, n) : n \in 0..(Len(bs) - 1)}

\* A call throws: what it was doing is over.
Throw == /\ failed < MaxThrows /\ failed' = failed + 1
        /\ absorb' = 0 /\ align' = 0 /\ UNCHANGED written

\* S_flush writes the whole buffer and starts it anew ...
FlushTo(rest) == /\ state = "open" /\ file' = file \o buf
                 /\ buf_start' = Tell /\ buf' = rest

\* ... or throws and leaves it as it is: there is no handle, or the write
\* fails.
FlushFails == /\ \/ state = "closed" /\ UNCHANGED file
                 \/ /\ state = "open"
                    /\ \E part \in Parts(buf) : file' = file \o part
              /\ UNCHANGED <<buf, buf_start>> /\ Throw

\* As many bytes as the buffer holds, or more, go to the file after a flush.
WritePast(n) ==
    /\ n >= IO_STREAM_BUF_SIZE /\ state = "open"
    /\ file' = file \o buf \o Bytes(n) /\ buf_start' = Tell + n /\ buf' = <<>>

WritePastFails(n) ==
    /\ n >= IO_STREAM_BUF_SIZE /\ state = "open"
    /\ \E part \in Parts(Bytes(n)) : file' = file \o buf \o part
    /\ buf_start' = Tell /\ buf' = <<>> /\ Throw

\* Others go to the buffer, which is flushed before if they would fill it.
WriteToBuffer(n) ==
    /\ n < IO_STREAM_BUF_SIZE
    /\ \/ Len(buf) + n >= IO_STREAM_BUF_SIZE /\ FlushTo(Bytes(n))
       \/ /\ Len(buf) + n < IO_STREAM_BUF_SIZE
          /\ buf' = buf \o Bytes(n) /\ UNCHANGED <<buf_start, file>>

\* What is left of an Absorb follows.
SI_write_bytes(n, left) ==
    \/ /\ WritePast(n) \/ WriteToBuffer(n)
       /\ written' = written + n /\ absorb' = left
       /\ UNCHANGED <<align, failed>>
    \/ WritePastFails(n)
    \/ Len(buf) + n >= IO_STREAM_BUF_SIZE /\ FlushFails

\* A byte is looked at differently: whether the buffer is full, not whether it
\* will be.  What is left of an Align follows.
SI_write_u8(left) ==
    \/ /\ \/ Len(buf) >= IO_STREAM_BUF_SIZE /\ FlushTo(Bytes(1))
          \/ /\ Len(buf) < IO_STREAM_BUF_SIZE
             /\ buf' = buf \o Bytes(1) /\ UNCHANGED <<buf_start, file>>
       /\ written' = written + 1 /\ align' = left
       /\ UNCHANGED <<absorb, failed>>
    \/ Len(buf) >= IO_STREAM_BUF_SIZE /\ FlushFails

-----------------------------------------------------------------------------

Room == MaxBytes - written
Idle == absorb = 0 /\ align = 0

\* A call may write: to an open stream, or to a closed one.
MayWrite == /\ Idle
            /\ state = "open" \/ (state = "closed" /\ WriteClosed)

Write_Bytes == /\ MayWrite /\ UNCHANGED state
               /\ \E n \in 0..Room : SI_write_bytes(n, 0)

Write_U8 == /\ MayWrite /\ UNCHANGED state /\ Room > 0 /\ SI_write_u8(0)

\* Align begins: it writes as many bytes as are missing, if any.
Filler(m) == (m - (Tell % m)) % m

Align == \E m \in Moduli :
    /\ MayWrite /\ Filler(m) \in 1..Room
    /\ align' = Filler(m)
    /\ UNCHANGED <<stream, state, absorb, written, failed>>

AlignStep == align > 0 /\ SI_write_u8(align - 1) /\ UNCHANGED state

\* Absorb begins, and writes block by block.
Absorb == \E n \in 1..Room :
    /\ Idle /\ state = "open" /\ absorb' = n
    /\ UNCHANGED <<stream, state, align, written, failed>>

AbsorbStep == LET n == Min2(absorb, IO_STREAM_BUF_SIZE) IN
    /\ absorb > 0 /\ SI_write_bytes(n, absorb - n) /\ UNCHANGED state

Flush == /\ Idle /\ state /= "destroyed"
         /\ \/ FlushTo(<<>>) /\ UNCHANGED <<absorb, align, written, failed>>
            \/ FlushFails
         /\ UNCHANGED state

\* Close flushes and lets go of the handle, unless it cannot be closed; a second
\* one does nothing.
Close == /\ Idle /\ state = "open"
         /\ \/ /\ FlushTo(<<>>) /\ state' = "closed"
               /\ UNCHANGED <<absorb, align, written, failed>>
            \/ FlushFails /\ UNCHANGED state
            \/ FlushTo(<<>>) /\ Throw /\ UNCHANGED state

\* A mutant: Destroy drops what is in the buffer.
DestroyUnflushed ==
    /\ Idle /\ state \in {"open", "closed"} /\ state' = "destroyed"
    /\ UNCHANGED <<stream, absorb, align, written, failed>>

\* Destroy writes what is in the buffer if there is a handle, and does not
\* look whether that works.
Destroy ==
    /\ Idle /\ state \in {"open", "closed"} /\ state' = "destroyed"
    /\ \/ state = "open" /\ file' = file \o buf /\ UNCHANGED failed
       \/ /\ state = "open" /\ failed < MaxThrows /\ failed' = failed + 1
          /\ \E part \in Parts(buf) : file' = file \o part
       \/ state = "closed" /\ UNCHANGED <<file, failed>>
    /\ UNCHANGED <<buf, buf_start, absorb, align, written>>

Next == \/ Write_Bytes \/ Write_U8 \/ Align \/ AlignStep
        \/ Absorb \/ AbsorbStep \/ Flush \/ Close \/ Destroy
        \/ state = "destroyed" /\ UNCHANGED vars

Spec == Init /\ [][Next]_vars

-----------------------------------------------------------------------------

\* A buffer never holds more than it has room for: Write_U8 fills it to the
\* last byte, Write_Bytes to the last but one, and Align and Absorb go on
\* from there.
BufferFits == Len(buf) <= IO_STREAM_BUF_SIZE

\* As long as nothing has thrown, the file and then the buffer hold what has
\* been written, in its order and once, however bytes and blocks follow each
\* other, and Tell is their number.
InOrder == state /= "destroyed" /\ failed = 0 =>
    file \o buf = [i \in 1..written |-> i] /\ Tell = written

\* A file whose stream is gone without an error holds all that was written.
NothingLost == state = "destroyed" /\ failed = 0 => Len(file) = written

=============================================================================
