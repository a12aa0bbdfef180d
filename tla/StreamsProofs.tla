----------------------------- MODULE StreamsProofs -----------------------------
(***************************************************************************)
(* What InStreams.tla promises, for a file and windows of any size: the    *)
(* buffer stays within its window and the stream's part of the file, and   *)
(* every call does what ByteReader.tla says.  What OutStreams.tla          *)
(* promises, for buffers of any size: the bytes of the file are those that *)
(* were written, in their order.  And what SegLexicon.tla promises, for    *)
(* any terms and any spacing of the index: a lexicon visits the terms in   *)
(* their order, and what it and a look-up find is what was written.  And   *)
(* what PostingList.tla promises, for any documents and any spacing of the *)
(* skip records: a posting list visits the documents of its term, and has  *)
(* counted those that it skipped.                                          *)
(***************************************************************************)
EXTENDS InStreams, Sequences, SequenceTheorems, FiniteSetTheorems,
        WellFoundedInduction, TLAPS

\* A client may ask for any piece of the file.  Parts are not cloned: their
\* clones are of the whole file, which CloneStaysInPlace is about.
ConstantsOK ==
    /\ FileLen \in Nat
    /\ IO_STREAM_BUF_SIZE \in Nat \ {0}
    /\ Page \in Nat \ {0}
    /\ 0..FileLen \subseteq Sizes /\ Sizes \subseteq Nat
    /\ ClonesOf \subseteq {"whole"}

\* There is no window, or one that is mapped where the file is, ends with the
\* buffer, and does not go past the stream's part of the file.
WindowOK ==
    /\ window.offset \in Nat /\ window.len \in Nat
    /\ \/ /\ window.buf = NULL /\ window.len = 0
          /\ buf = NULL /\ limit = NULL
       \/ /\ window.buf = Base + window.offset
          /\ limit = window.buf + window.len
          /\ buf \in window.buf..limit
          /\ window.offset + window.len <= offset + len

Inv ==
    /\ offset \in Nat /\ len \in Nat /\ offset + len <= FileLen
    /\ first = offset
    /\ window \in [buf : Nat, offset : Nat, len : Nat]
    /\ buf \in Nat /\ limit \in Nat
    /\ WindowOK
    /\ Tell \in 0..len

-----------------------------------------------------------------------------

LEMMA ModIs ==
    ASSUME NEW a \in Nat, NEW p \in Nat \ {0}
    PROVE  a % p \in 0..a
<1>1. a = p * (a \div p) + (a % p) /\ a \div p \in Int /\ a % p \in 0..(p - 1)
  OBVIOUS
<1>2. a \div p >= 0
  OBVIOUS
<1>3. p * (a \div p) >= 0
  BY <1>2, <1>1
<1> QED
  BY <1>1, <1>3

\* A buffer that is filled for amount bytes at a position begins there and has
\* as many.
LEMMA FillIs ==
    ASSUME ConstantsOK, offset \in Nat, len \in Nat, offset + len <= FileLen,
           NEW at \in Nat, NEW amount \in Nat, at + amount <= len
    PROVE  LET s == S_fill(at, amount)
               w == s.window
           IN  /\ w \in [buf : Nat, offset : Nat, len : Nat]
               /\ w.buf = Base + w.offset
               /\ w.offset + w.len = offset + at + amount
               /\ s.buf = Base + offset + at /\ s.buf >= w.buf
               /\ s.limit = w.buf + w.len
               /\ Place(s) = offset + at
<1> DEFINE w == WindowOf(at + offset, amount)
           b == w.buf - w.offset + offset + at
<1>1. PICK m : m = (at + offset) % Page /\ m \in 0..(at + offset)
  BY ModIs DEF ConstantsOK
<1>2. Base = 100
  BY DEF Base
<1>3. w = [buf |-> Base + ((at + offset) - m), offset |-> (at + offset) - m,
           len |-> amount + m]
  BY <1>1 DEF WindowOf
<1>4. /\ w.buf = Base + ((at + offset) - m) /\ w.offset = (at + offset) - m
      /\ w.len = amount + m
  BY <1>3
<1>5. S_fill(at, amount) =
        [window |-> w, buf |-> b,
         limit |-> IF (w.buf + w.len) - b > len - at THEN b + (len - at)
                   ELSE w.buf + w.len]
  BY DEF S_fill
<1>6. w \in [buf : Nat, offset : Nat, len : Nat]
  BY <1>1, <1>2, <1>3
<1> HIDE DEF w
<1>7. b = Base + offset + at
  BY <1>1, <1>2, <1>4
<1>8. (w.buf + w.len) - b = amount
  BY <1>1, <1>2, <1>4
<1> HIDE DEF b
<1>9. S_fill(at, amount) =
          [window |-> w, buf |-> b, limit |-> w.buf + w.len]
  BY <1>5, <1>8
<1>10. Place(S_fill(at, amount)) = offset + at
  BY <1>1, <1>2, <1>4, <1>7, <1>9 DEF Place
<1> QED
  BY <1>1, <1>2, <1>4, <1>6, <1>7, <1>9, <1>10

-----------------------------------------------------------------------------
(* How the parts move.                                                     *)

LEMMA PositionIs ==
    ASSUME Inv
    PROVE  /\ Available = limit - buf /\ Available \in Nat
           /\ Tell \in Nat /\ Tell + Available <= len
           /\ Place(Current) = offset + Tell
<1>1. limit - buf \in Nat /\ Tell + (limit - buf) <= len
  BY DEF Inv, WindowOK, Tell, NULL
<1>2. Available = limit - buf
  BY <1>1 DEF Available
<1>3. Place(Current) = offset + Tell
  BY DEF Inv, Place, Current, Tell
<1> QED
  BY <1>1, <1>2, <1>3 DEF Inv

LEMMA Moved ==
    ASSUME Inv, NEW n \in Nat, n <= limit - buf,
           Use(Current, n), UNCHANGED <<offset, len, first>>
    PROVE  Inv' /\ Tell' = Tell + n
<1>1. buf' = buf + n /\ limit' = limit /\ window' = window
  BY DEF Use, Current
<1>2. Tell' = Tell + n
  BY <1>1 DEF Tell, Inv
<1>3. Tell' \in 0..len
  BY <1>1, <1>2, PositionIs DEF Inv
<1>4. WindowOK'
  BY <1>1 DEF Inv, WindowOK, NULL
<1> QED
  BY <1>1, <1>2, <1>3, <1>4 DEF Inv

LEMMA Filled ==
    ASSUME ConstantsOK, Inv, NEW at \in Nat, NEW amount \in Nat,
           at + amount <= len, NEW n \in 0..amount,
           Use(S_fill(at, amount), n), UNCHANGED <<offset, len, first>>
    PROVE  Inv' /\ Tell' = at + n
<1> DEFINE s == S_fill(at, amount)
           w == s.window
<1>1. /\ w \in [buf : Nat, offset : Nat, len : Nat]
      /\ w.buf = Base + w.offset
      /\ w.offset + w.len = offset + at + amount
      /\ s.buf = Base + offset + at /\ s.buf >= w.buf
      /\ s.limit = w.buf + w.len
  BY FillIs DEF Inv
<1>2. buf' = s.buf + n /\ limit' = s.limit /\ window' = w
  BY DEF Use
<1>3. Base = 100
  BY DEF Base
<1> HIDE DEF s, w
<1>4. Tell' = at + n
  BY <1>1, <1>2, <1>3 DEF Tell, Inv
<1>5. WindowOK'
  BY <1>1, <1>2, <1>3 DEF Inv, WindowOK
<1> QED
  BY <1>1, <1>2, <1>3, <1>4, <1>5 DEF Inv

\* Whatever has been read before: s is the state with the window as it is.
LEMMA SoughtIs ==
    ASSUME Inv, NEW target \in Nat, InWindow(target) \/ target <= len,
           NEW b, Use(Sought([Current EXCEPT !.buf = b], offset, target), 0),
           UNCHANGED <<offset, len, first>>
    PROVE  Inv' /\ Tell' = target
<1> DEFINE s == [Current EXCEPT !.buf = b]
<1>1. s = [window |-> window, buf |-> b, limit |-> limit]
  BY DEF Current
<1>2. CASE InWindow(target)
  <2>1. Sought(s, offset, target) =
          [window |-> window, limit |-> limit,
           buf |-> window.buf - window.offset + offset + target]
    BY <1>1, <1>2 DEF Sought, InWindow
  <2>2. /\ Sought(s, offset, target).limit = limit
        /\ Sought(s, offset, target).window = window
        /\ Sought(s, offset, target).buf =
               window.buf - window.offset + offset + target
    BY <2>1
  <2>3. /\ buf' = window.buf - window.offset + offset + target
        /\ limit' = limit /\ window' = window
    BY <2>2 DEF Use, Inv
  <2>4. Tell' = target
    BY <2>3 DEF Tell, Inv
  <2>5. WindowOK'
    BY <1>2, <2>3 DEF Inv, WindowOK, InWindow, NULL
  <2>6. target <= len
    BY <1>2 DEF Inv, WindowOK, InWindow, Tell, NULL
  <2> QED
    BY <2>3, <2>4, <2>5, <2>6 DEF Inv, WindowOK, NULL
<1>3. CASE ~InWindow(target)
  <2>1. Sought(s, offset, target) =
          [buf |-> NULL, limit |-> NULL,
           window |-> [NoWindow EXCEPT !.offset = offset + target]]
    BY <1>1, <1>3 DEF Sought, InWindow
  <2>2. /\ buf' = 0 /\ limit' = 0
        /\ window' = [buf |-> 0, offset |-> offset + target, len |-> 0]
    BY <2>1 DEF Use, NULL, NoWindow
  <2> QED
    BY <1>3, <2>2, SMTT(30) DEF Inv, WindowOK, Tell, NULL
<1> QED
  BY <1>2, <1>3

LEMMA Opened ==
    ASSUME NEW o \in Nat, NEW l \in Nat, o + l <= FileLen, NEW at \in 0..l,
           offset' = o, len' = l, first' = o, Use(Sought(New, o, at), 0)
    PROVE  Inv' /\ Tell' = at
<1>1. /\ buf' = 0 /\ limit' = 0
      /\ window' = [buf |-> 0, offset |-> o + at, len |-> 0]
  <2>1. CASE o + at = 0
    BY <2>1 DEF Sought, New, Use, NULL, NoWindow
  <2>2. CASE o + at # 0
    <3>1. Sought(New, o, at) =
            [buf |-> NULL, limit |-> NULL,
             window |-> [NoWindow EXCEPT !.offset = o + at]]
      BY <2>2 DEF Sought, New, NoWindow
    <3> QED
      BY <3>1 DEF Use, NULL, NoWindow
  <2> QED
    BY <2>1, <2>2
<1> QED
  BY <1>1 DEF Inv, WindowOK, Tell, NULL

-----------------------------------------------------------------------------
(* The calls.  Each is a step of the reader, or reads some bytes more.     *)

LEMMA QuietKeeps ==
    ASSUME Inv, UNCHANGED <<offset, len, first, buf, limit, window>>
    PROVE  Inv' /\ Tell' = Tell
  BY DEF Inv, WindowOK, Tell

LEMMA SeekKeeps ==
    ASSUME ConstantsOK, Inv, Seek
    PROVE  Inv' /\ Reader!Seek
<1>1. PICK target \in Sizes :
         IF InWindow(target) \/ target <= len
         THEN Use(Sought(Current, offset, target), 0) /\ Result(<<"moved">>)
         ELSE Throw /\ UNCHANGED <<buf, limit, window>>
  BY DEF Seek
<1>2. target \in Nat /\ UNCHANGED <<offset, len, first>>
  BY <1>1 DEF ConstantsOK, Result, Throw
<1>3. CASE InWindow(target) \/ target <= len
  <2>1. [Current EXCEPT !.buf = buf] = Current
    BY DEF Current
  <2>2. Inv' /\ Tell' = target
    BY <1>1, <1>2, <1>3, <2>1, SoughtIs
  <2>3. target <= len
    BY <2>2, <1>2 DEF Inv
  <2> QED
    BY <1>1, <1>2, <1>3, <2>2, <2>3 DEF Reader!Seek, Result
<1>4. CASE ~ (InWindow(target) \/ target <= len)
  <2>1. Inv' /\ Tell' = Tell
    BY <1>1, <1>2, <1>4, QuietKeeps
  <2>2. target > len
    BY <1>2, <1>4 DEF Inv
  <2> QED
    BY <1>1, <1>2, <1>4, <2>1, <2>2 DEF Reader!Seek, Throw
<1> QED
  BY <1>3, <1>4

LEMMA GetTellKeeps ==
    ASSUME Inv, GetTell
    PROVE  Inv' /\ Reader!Tell
<1>1. Inv' /\ Tell' = Tell
  BY QuietKeeps DEF GetTell, Result
<1> QED
  BY <1>1 DEF GetTell, Result, Reader!Tell

LEMMA ReadFromBufferKeeps ==
    ASSUME ConstantsOK, Inv, ReadFromBuffer
    PROVE  Inv' /\ Reader!Read
<1>1. PICK n \in Sizes :
         /\ limit - buf >= n
         /\ Use(Current, n) /\ Result(<<"bytes", Place(Current), n>>)
  BY DEF ReadFromBuffer
<1>2. n \in Nat /\ n <= limit - buf /\ UNCHANGED <<offset, len, first>>
  BY <1>1 DEF ConstantsOK, Result, Inv
<1>3. Inv' /\ Tell' = Tell + n
  BY <1>1, <1>2, Moved
<1>4. n <= len - Tell /\ out' = <<"bytes", first + Tell, n>>
  BY <1>1, <1>2, PositionIs DEF Result, Inv
<1> QED
  BY <1>2, <1>3, <1>4 DEF Reader!Read

\* The bytes that were in the buffer and those from the place after them.
LEMMA JoinedIs ==
    ASSUME Inv, NEW n \in Nat
    PROVE  Joined(n, offset + Tell + Available) =
               <<"bytes", first + Tell, n>>
  BY PositionIs DEF Joined, Inv

\* An error after some bytes have been used.
LEMMA ReadFails ==
    ASSUME Inv, NEW n \in Sizes, n > len - Tell, Throw,
           Tell' \in Tell..len
    PROVE  Reader!Read
  BY DEF Reader!Read, Throw

LEMMA ReadByRefillKeeps ==
    ASSUME ConstantsOK, Inv, ReadByRefill
    PROVE  Inv' /\ Reader!Read
<1> DEFINE here == Tell + Available
           amount == RefillAmount(len - here)
           filled == S_fill(here, amount)
<1>1. PICK n \in Sizes :
         /\ limit - buf < n /\ n - Available < IO_STREAM_BUF_SIZE
         /\ IF len = here THEN Use(Current, Available) /\ Throw
            ELSE IF amount < n - Available THEN Use(filled, 0) /\ Throw
            ELSE /\ Use(filled, n - Available)
                 /\ Result(Joined(n, Place(filled)))
  BY DEF ReadByRefill
<1>2. /\ n \in Nat /\ UNCHANGED <<offset, len, first>>
      /\ Available = limit - buf /\ Available \in Nat /\ Available < n
      /\ Tell \in Nat /\ here \in Nat /\ here <= len
      /\ offset \in Nat /\ len \in Nat
  BY <1>1, PositionIs DEF ConstantsOK, Result, Throw, Inv
<1>3. /\ amount \in Nat /\ here + amount <= len
      /\ amount = len - here \/ amount = IO_STREAM_BUF_SIZE
  BY <1>2 DEF RefillAmount, Smaller, ConstantsOK
<1>4. IO_STREAM_BUF_SIZE \in Nat
  BY DEF ConstantsOK
<1> HIDE DEF here, amount
<1>5. CASE len = here
  <2>1. Inv' /\ Tell' = Tell + Available
    BY <1>1, <1>2, <1>5, Moved
  <2>2. n > len - Tell /\ Tell' \in Tell..len
    BY <1>2, <1>5, <2>1 DEF here
  <2> QED
    BY <1>1, <1>5, <2>1, <2>2, ReadFails
<1>6. CASE len # here /\ amount < n - Available
  <2>1. Use(filled, 0) /\ Throw
    BY <1>1, <1>6
  <2>2. Inv' /\ Tell' = here + 0
    BY <1>2, <1>3, <2>1, Filled
  <2>3. amount = len - here
    BY <1>1, <1>2, <1>3, <1>4, <1>6
  <2>4. n > len - Tell /\ Tell' \in Tell..len
    BY <1>2, <1>6, <2>2, <2>3 DEF here
  <2> QED
    BY <2>1, <2>2, <2>4, ReadFails
<1>7. CASE len # here /\ ~ (amount < n - Available)
  <2>1. Use(filled, n - Available) /\ Result(Joined(n, Place(filled)))
    BY <1>1, <1>7
  <2>2. n - Available \in 0..amount
    BY <1>2, <1>3, <1>7
  <2>3. Inv' /\ Tell' = here + (n - Available)
    BY <1>2, <1>3, <2>1, <2>2, Filled
  <2>4. Place(filled) = offset + here
    BY <1>2, <1>3, FillIs DEF Inv
  <2>5. Place(filled) = offset + Tell + Available
    BY <1>2, <2>4 DEF here
  <2>6. out' = <<"bytes", first + Tell, n>>
    BY <1>2, <2>1, <2>5, JoinedIs DEF Result
  <2>7. Tell' = Tell + n /\ n <= len - Tell
    BY <1>2, <1>3, <2>2, <2>3 DEF here
  <2> QED
    BY <1>2, <2>3, <2>6, <2>7 DEF Reader!Read
<1> QED
  BY <1>5, <1>6, <1>7

LEMMA ReadDirectlyKeeps ==
    ASSUME ConstantsOK, Inv, ReadDirectly
    PROVE  Inv' /\ Reader!Read
<1> DEFINE here == Tell + Available
           before == [Current EXCEPT !.buf = @ + Available]
           moved == [Current EXCEPT !.buf = buf + Available]
<1>1. PICK n \in Sizes :
         /\ limit - buf < n /\ n - Available >= IO_STREAM_BUF_SIZE
         /\ IF offset + here + (n - Available) > FileLen
            THEN Use(before, 0) /\ Throw
            ELSE IF here + (n - Available) > len
                    /\ ~InWindow(here + (n - Available))
            THEN Use(before, 0) /\ Throw
            ELSE /\ Use(Sought(before, offset, here + (n - Available)), 0)
                 /\ Result(Joined(n, offset + here))
  BY DEF ReadDirectly
<1>2. /\ n \in Nat /\ UNCHANGED <<offset, len, first>>
      /\ Available = limit - buf /\ Available \in Nat /\ Available < n
      /\ Tell \in Nat /\ here \in Nat /\ here <= len
      /\ offset \in Nat /\ len \in Nat /\ offset + len <= FileLen
      /\ FileLen \in Nat
  BY <1>1, PositionIs DEF ConstantsOK, Result, Throw, Inv
<1>3. before = moved
  BY DEF Current
<1>4. here + (n - Available) = Tell + n
  BY <1>2
<1>5. Use(before, 0) => Use(Current, Available)
  BY <1>2 DEF Use, Current, Inv
<1>6. ASSUME Use(before, 0), Throw, n > len - Tell
      PROVE  Inv' /\ Reader!Read
  <2>1. Inv' /\ Tell' = Tell + Available
    BY <1>2, <1>5, <1>6, Moved
  <2>2. Tell' \in Tell..len
    BY <1>2, <2>1
  <2> QED
    BY <1>6, <2>1, <2>2, ReadFails
<1>7. CASE offset + here + (n - Available) > FileLen
  <2>1. n > len - Tell
    BY <1>2, <1>7
  <2> QED
    BY <1>1, <1>6, <1>7, <2>1
<1>8. CASE /\ ~ (offset + here + (n - Available) > FileLen)
           /\ here + (n - Available) > len
           /\ ~InWindow(here + (n - Available))
  <2>1. n > len - Tell
    BY <1>2, <1>8
  <2> QED
    BY <1>1, <1>6, <1>8, <2>1
<1>9. CASE /\ ~ (offset + here + (n - Available) > FileLen)
           /\ \/ ~ (here + (n - Available) > len)
              \/ InWindow(here + (n - Available))
  <2>1. /\ Use(Sought(before, offset, here + (n - Available)), 0)
        /\ Result(Joined(n, offset + here))
    BY <1>1, <1>9
  <2>2. Use(Sought(moved, offset, Tell + n), 0)
    BY <1>3, <1>4, <2>1
  <2>3. InWindow(Tell + n) \/ Tell + n <= len
    BY <1>2, <1>4, <1>9
  <2>4. Tell + n \in Nat
    BY <1>2
  <2> HIDE DEF moved
  <2>5. Inv' /\ Tell' = Tell + n
    BY <1>2, <2>2, <2>3, <2>4, SoughtIs DEF moved
  <2>6. offset + here = offset + Tell + Available
    BY <1>2
  <2>7. out' = <<"bytes", first + Tell, n>>
    BY <1>2, <2>1, <2>6, JoinedIs DEF Result
  <2>8. n <= len - Tell
    BY <1>2, <2>5 DEF Inv
  <2> QED
    BY <1>2, <2>5, <2>7, <2>8 DEF Reader!Read
<1> QED
  BY <1>7, <1>8, <1>9

\* A buffer that is refilled has a byte if there is one left.
LEMMA RefillIs ==
    ASSUME ConstantsOK, Inv
    PROVE  LET amount == RefillAmount(Remaining)
           IN  /\ Remaining = len - Tell /\ Tell \in Nat
               /\ amount \in Nat /\ Tell + amount <= len
               /\ Remaining # 0 => amount >= 1
  BY DEF RefillAmount, Smaller, Remaining, ConstantsOK, Inv

LEMMA Read_U8Keeps ==
    ASSUME ConstantsOK, Inv, Read_U8
    PROVE  Inv' /\ (Reader!Read \/ Reader!Fill)
<1>1. CASE buf < limit
  <2>1. Use(Current, 1) /\ Result(<<"bytes", Place(Current), 1>>)
    BY <1>1 DEF Read_U8
  <2>2. 1 \in Nat /\ 1 <= limit - buf /\ UNCHANGED <<offset, len, first>>
    BY <1>1, <2>1 DEF Result, Inv
  <2>3. Inv' /\ Tell' = Tell + 1
    BY <2>1, <2>2, Moved
  <2>4. 1 \in Sizes /\ 1 <= len - Tell
    BY <2>2, PositionIs DEF ConstantsOK, Inv
  <2>5. out' = <<"bytes", first + Tell, 1>>
    BY <2>1, PositionIs DEF Result, Inv
  <2> QED
    BY <2>2, <2>3, <2>4, <2>5 DEF Reader!Read
<1>2. CASE ~ (buf < limit) /\ Remaining = 0
  <2>1. Throw /\ UNCHANGED <<buf, limit, window>>
    BY <1>2 DEF Read_U8
  <2>2. Inv' /\ Tell' = Tell
    BY <2>1, QuietKeeps DEF Throw
  <2> QED
    BY <2>1, <2>2 DEF Throw, Reader!Fill
<1>3. CASE ~ (buf < limit) /\ Remaining # 0
  <2> DEFINE amount == RefillAmount(Remaining)
  <2>1. Use(Refilled, 1) /\ Result(<<"bytes", Place(Refilled), 1>>)
    BY <1>3 DEF Read_U8
  <2>2. /\ Remaining = len - Tell /\ Tell \in Nat
        /\ amount \in Nat /\ Tell + amount <= len /\ amount >= 1
    BY <1>3, RefillIs
  <2>3. UNCHANGED <<offset, len, first>>
    BY <2>1 DEF Result
  <2>4. 1 \in 0..amount
    BY <2>2
  <2>5. Refilled = S_fill(Tell, amount)
    BY DEF Refilled
  <2> HIDE DEF amount
  <2>6. Inv' /\ Tell' = Tell + 1
    BY <2>1, <2>2, <2>3, <2>4, <2>5, Filled
  <2>7. Place(Refilled) = offset + Tell
    BY <2>2, <2>5, FillIs DEF Inv
  <2>8. 1 \in Sizes /\ 1 <= len - Tell
    BY <2>2 DEF ConstantsOK, Inv
  <2>9. out' = <<"bytes", first + Tell, 1>>
    BY <2>1, <2>7 DEF Result, Inv
  <2> QED
    BY <2>3, <2>6, <2>8, <2>9 DEF Reader!Read
<1> QED
  BY <1>1, <1>2, <1>3

LEMMA BufKeeps ==
    ASSUME ConstantsOK, Inv, Buf
    PROVE  Inv' /\ Reader!Buf
<1> DEFINE Bumped(r) == IF r < IO_STREAM_BUF_SIZE THEN IO_STREAM_BUF_SIZE
                                                  ELSE r
           Amount(r) == Smaller(Bumped(r), Remaining)
           S(r) == IF r > limit - buf /\ Amount(r) > limit - buf
                   THEN S_fill(Tell, Amount(r)) ELSE Current
<1>1. PICK request \in Sizes :
         /\ Use(S(request), 0)
         /\ Result(<<"buffer", Place(S(request)),
                     S(request).limit - S(request).buf>>)
  BY DEF Buf
<1> DEFINE amount == Amount(request)
           s == S(request)
           n == s.limit - s.buf
<1>2. /\ request \in Nat /\ UNCHANGED <<offset, len, first>>
      /\ Tell \in Nat /\ Remaining = len - Tell /\ Remaining \in Nat
      /\ limit - buf \in Nat /\ Tell + (limit - buf) <= len
      /\ len \in Nat /\ len <= FileLen
  BY <1>1, PositionIs DEF ConstantsOK, Result, Inv, Remaining
<1>3. /\ amount \in Nat /\ Tell + amount <= len
      /\ amount >= request \/ amount = len - Tell
  BY <1>2 DEF Smaller, ConstantsOK
<1>4. /\ Inv' /\ Tell' = Tell /\ Place(s) = offset + Tell
      /\ n \in Nat /\ n <= len - Tell /\ (n >= request \/ n = len - Tell)
  <2>1. CASE request > limit - buf /\ amount > limit - buf
    <3>1. s = S_fill(Tell, amount)
      BY <2>1
    <3> HIDE DEF amount, s, Amount
    <3>2. Inv' /\ Tell' = Tell + 0
      BY <1>1, <1>2, <1>3, <3>1, Filled DEF s
    <3>3. Place(s) = offset + Tell /\ n = amount
      <4>1. /\ s.window.offset + s.window.len = offset + Tell + amount
            /\ s.window \in [buf : Nat, offset : Nat, len : Nat]
            /\ s.window.buf = Base + s.window.offset
            /\ s.buf = Base + offset + Tell
            /\ s.limit = s.window.buf + s.window.len
            /\ Place(s) = offset + Tell
        BY <1>2, <1>3, <3>1, FillIs DEF Inv
      <4> QED
        BY <1>2, <1>3, <4>1 DEF Base, Inv
    <3> QED
      BY <1>2, <1>3, <3>2, <3>3
  <2>2. CASE ~ (request > limit - buf /\ amount > limit - buf)
    <3>1. s = Current
      BY <2>2
    <3> HIDE DEF amount, s, Amount
    <3>2. Inv' /\ Tell' = Tell + 0
      BY <1>1, <1>2, <3>1, Moved DEF s
    <3>3. n = limit - buf /\ Place(s) = offset + Tell
      BY <3>1, PositionIs DEF Current
    <3> QED
      BY <1>2, <1>3, <2>2, <3>2, <3>3
  <2> QED
    BY <2>1, <2>2
<1>5. n \in Sizes
  BY <1>2, <1>4 DEF ConstantsOK
<1>6. out' = <<"buffer", first + Tell, n>>
  BY <1>1, <1>4 DEF Result, Inv
<1> HIDE DEF n
<1> QED
  BY <1>2, <1>4, <1>5, <1>6 DEF Reader!Buf

LEMMA Advance_BufKeeps ==
    ASSUME ConstantsOK, Inv, Advance_Buf
    PROVE  Inv' /\ Reader!Advance_Buf
<1>1. PICK n \in Sizes :
         IF n > limit - buf THEN Throw /\ UNCHANGED <<buf, limit, window>>
                            ELSE Use(Current, n) /\ Result(<<"moved">>)
  BY DEF Advance_Buf
<1>2. n \in Nat /\ UNCHANGED <<offset, len, first>>
  BY <1>1 DEF ConstantsOK, Result, Throw
<1>3. CASE n > limit - buf
  <2>1. Inv' /\ Tell' = Tell
    BY <1>1, <1>2, <1>3, QuietKeeps
  <2> QED
    BY <1>1, <1>2, <1>3, <2>1 DEF Reader!Advance_Buf, Throw
<1>4. CASE ~ (n > limit - buf)
  <2>1. n <= limit - buf
    BY <1>2, <1>4 DEF Inv
  <2>2. Inv' /\ Tell' = Tell + n
    BY <1>1, <1>2, <1>4, <2>1, Moved
  <2>3. n <= len - Tell
    BY <1>2, <2>1, PositionIs DEF Inv
  <2> QED
    BY <1>1, <1>2, <1>4, <2>2, <2>3 DEF Reader!Advance_Buf, Result
<1> QED
  BY <1>3, <1>4

LEMMA FillKeeps ==
    ASSUME ConstantsOK, Inv, Fill
    PROVE  Inv' /\ Reader!Fill
<1>1. PICK amount \in Sizes :
         IF amount > Remaining THEN Throw /\ UNCHANGED <<buf, limit, window>>
         ELSE Use(S_fill(Tell, amount), 0) /\ Result(<<"filled">>)
  BY DEF Fill
<1>2. amount \in Nat /\ UNCHANGED <<offset, len, first>>
  BY <1>1 DEF ConstantsOK, Result, Throw
<1>3. Inv' /\ Tell' = Tell
  <2>1. CASE amount > Remaining
    BY <1>1, <1>2, <2>1, QuietKeeps
  <2>2. CASE ~ (amount > Remaining)
    <3>1. Tell \in Nat /\ Tell + amount <= len
      BY <1>2, <2>2 DEF Remaining, Inv
    <3>2. Inv' /\ Tell' = Tell + 0
      BY <1>1, <1>2, <2>2, <3>1, Filled
    <3> QED
      BY <3>1, <3>2
  <2> QED
    BY <2>1, <2>2
<1>4. out' \in {<<"filled">>, <<"error">>}
  BY <1>1 DEF Result, Throw
<1> QED
  BY <1>2, <1>3, <1>4 DEF Reader!Fill

LEMMA RefillKeeps ==
    ASSUME ConstantsOK, Inv, Refill
    PROVE  Inv' /\ Reader!Fill
<1> DEFINE amount == RefillAmount(Remaining)
<1>1. IF Remaining = 0 THEN Throw /\ UNCHANGED <<buf, limit, window>>
      ELSE Use(S_fill(Tell, amount), 0) /\ Result(<<"filled">>)
  BY DEF Refill, Refilled
<1>2. UNCHANGED <<offset, len, first>>
  BY <1>1 DEF Result, Throw
<1>3. Tell \in Nat /\ amount \in Nat /\ Tell + amount <= len
  BY RefillIs
<1> HIDE DEF amount
<1>4. Inv' /\ Tell' = Tell
  <2>1. CASE Remaining = 0
    BY <1>1, <1>2, <2>1, QuietKeeps
  <2>2. CASE Remaining # 0
    <3>1. Inv' /\ Tell' = Tell + 0
      BY <1>1, <1>2, <1>3, <2>2, Filled
    <3> QED
      BY <1>3, <3>1
  <2> QED
    BY <2>1, <2>2
<1>5. out' \in {<<"filled">>, <<"error">>}
  BY <1>1 DEF Result, Throw
<1> QED
  BY <1>2, <1>4, <1>5 DEF Reader!Fill

LEMMA ReopenKeeps ==
    ASSUME ConstantsOK, Inv, Reopen
    PROVE  Inv' /\ Reader!Reopen
<1>1. PICK o \in Sizes, l \in Sizes :
         IF o + l > FileLen THEN Throw /\ UNCHANGED <<buf, limit, window>>
         ELSE /\ offset' = o /\ len' = l /\ first' = o
              /\ Use(Sought(New, o, 0), 0)
              /\ out' = <<"opened">>
  BY DEF Reopen
<1>2. o \in Nat /\ l \in Nat /\ FileLen \in Nat
  BY DEF ConstantsOK
<1>3. CASE o + l > FileLen
  <2>1. Inv' /\ Tell' = Tell
    BY <1>1, <1>3, QuietKeeps DEF Throw
  <2> QED
    BY <1>1, <1>3, <2>1 DEF Reader!Reopen, Throw
<1>4. CASE ~ (o + l > FileLen)
  <2>1. o + l <= FileLen /\ 0 \in 0..l
    BY <1>2, <1>4
  <2>2. Inv' /\ Tell' = 0
    BY <1>1, <1>2, <1>4, <2>1, Opened
  <2> QED
    BY <1>1, <1>4, <2>1, <2>2 DEF Reader!Reopen
<1> QED
  BY <1>3, <1>4

LEMMA CloneKeeps ==
    ASSUME ConstantsOK, Inv, Clone
    PROVE  Inv' /\ Reader!Clone
<1>1. /\ offset = 0 /\ len = FileLen /\ first = 0
      /\ offset' = 0 /\ len' = FileLen /\ first' = 0
      /\ Use(Sought(New, 0, Tell), 0) /\ out' = <<"cloned">>
  BY DEF Clone, ConstantsOK, Inv
<1>2. FileLen \in Nat /\ Tell \in 0..FileLen
  BY <1>1 DEF ConstantsOK, Inv
<1> DEFINE at == Tell
<1> HIDE DEF at
<1>3. Inv' /\ Tell' = at
  <2>1. at \in 0..FileLen /\ Use(Sought(New, 0, at), 0)
    BY <1>1, <1>2 DEF at
  <2> QED
    BY <1>1, <1>2, <2>1, Opened
<1> QED
  BY <1>1, <1>3 DEF Reader!Clone, at

LEMMA Steps ==
    ASSUME ConstantsOK, Inv, [Next]_vars
    PROVE  Inv' /\ [Reader!Next]_Reader!vars
<1>1. CASE UNCHANGED vars
  <2>1. UNCHANGED <<offset, len, first, buf, limit, window, out>>
    BY <1>1 DEF vars
  <2>2. Inv' /\ Tell' = Tell
    BY <2>1, QuietKeeps
  <2> QED
    BY <2>1, <2>2 DEF Reader!vars
<1>2. CASE Next
  <2>1. CASE Seek
    BY <2>1, SeekKeeps DEF Reader!Next
  <2>2. CASE GetTell
    BY <2>2, GetTellKeeps DEF Reader!Next
  <2>3. CASE ReadFromBuffer
    BY <2>3, ReadFromBufferKeeps DEF Reader!Next
  <2>4. CASE ReadByRefill
    BY <2>4, ReadByRefillKeeps DEF Reader!Next
  <2>5. CASE ReadDirectly
    BY <2>5, ReadDirectlyKeeps DEF Reader!Next
  <2>6. CASE Read_U8
    BY <2>6, Read_U8Keeps DEF Reader!Next
  <2>7. CASE Buf
    BY <2>7, BufKeeps DEF Reader!Next
  <2>8. CASE Advance_Buf
    BY <2>8, Advance_BufKeeps DEF Reader!Next
  <2>9. CASE Fill
    BY <2>9, FillKeeps DEF Reader!Next
  <2>10. CASE Refill
    BY <2>10, RefillKeeps DEF Reader!Next
  <2>11. CASE Reopen
    BY <2>11, ReopenKeeps DEF Reader!Next
  <2>12. CASE Clone
    BY <2>12, CloneKeeps DEF Reader!Next
  <2> QED
    BY <1>2, <2>1, <2>2, <2>3, <2>4, <2>5, <2>6, <2>7, <2>8, <2>9, <2>10,
       <2>11, <2>12 DEF Next
<1> QED
  BY <1>1, <1>2

LEMMA Initially ==
    ASSUME ConstantsOK, Init
    PROVE  Inv /\ Reader!Init
<1>1. Tell = 0
  BY DEF Init, Tell, NULL, NoWindow
<1>2. WindowOK
  BY DEF Init, WindowOK, NULL, NoWindow, ConstantsOK
<1> QED
  BY <1>1, <1>2 DEF Init, Inv, NULL, NoWindow, ConstantsOK, Reader!Init

-----------------------------------------------------------------------------

\* The buffer is a piece of its window, the window one of the file, and the
\* buffer does not go past the end of the stream's part, wherever windows begin
\* and however large they are.
THEOREM BuffersStayInTheirWindow ==
    ASSUME ConstantsOK
    PROVE  Spec => []BufferInWindow
<1>1. Init => Inv
  BY Initially
<1>2. Inv /\ [Next]_vars => Inv'
  BY Steps
<1>3. Inv => BufferInWindow
  <2> SUFFICES ASSUME Inv PROVE BufferInWindow
    OBVIOUS
  <2>1. Place([Current EXCEPT !.buf = limit]) =
            (limit - window.buf) + window.offset
    BY DEF Place, Current
  <2>2. window.offset + window.len <= FileLen
    BY DEF Inv, WindowOK, Tell, NULL, ConstantsOK
  <2>3. CASE window.buf = NULL /\ window.len = 0 /\ buf = NULL /\ limit = NULL
    BY <2>2, <2>3 DEF Inv, BufferInWindow
  <2>4. CASE /\ window.buf = Base + window.offset
             /\ limit = window.buf + window.len
             /\ buf \in window.buf..limit
             /\ window.offset + window.len <= offset + len
    BY <2>1, <2>2, <2>4 DEF Inv, BufferInWindow, Base, NULL
  <2> QED
    BY <2>3, <2>4 DEF Inv, WindowOK
<1> QED
  BY <1>1, <1>2, <1>3, PTL DEF Spec

\* Whatever the calls before, a stream reads the bytes of its part of the file
\* from its position on: buffers, windows and pages are invisible.
THEOREM StreamsImplementReaders ==
    ASSUME ConstantsOK
    PROVE  Spec => ReadsItsPart
<1>1. Init => Inv /\ Reader!Init
  BY Initially
<1>2. Inv /\ [Next]_vars => Inv' /\ [Reader!Next]_Reader!vars
  BY Steps
<1> QED
  BY <1>1, <1>2, PTL DEF Spec, ReadsItsPart, Reader!Spec

-----------------------------------------------------------------------------
(* OutStreams, with variables of their own.                                *)

CONSTANTS MaxBytes, Moduli, MaxThrows, WriteClosed

VARIABLES outbuf, buf_start, file, state, absorb, align, written, failed

Out == INSTANCE OutStreams WITH buf <- outbuf

OutConstantsOK == IO_STREAM_BUF_SIZE \in Nat \ {0} /\ MaxBytes \in Nat

\* The first n bytes.
Numbers(n) == [i \in 1..n |-> i]

\* What has been written is in the file and the buffer, and a closed stream's
\* buffer is empty unless it has been written to.
OutInv ==
    /\ outbuf \in Seq(Nat) /\ file \in Seq(Nat)
    /\ buf_start \in Nat /\ absorb \in Nat /\ align \in Nat
    /\ written \in Nat /\ failed \in Nat
    /\ state \in {"open", "closed", "destroyed"}
    /\ Len(outbuf) <= IO_STREAM_BUF_SIZE
    /\ state # "destroyed" /\ failed = 0 =>
           file \o outbuf = Numbers(written) /\ buf_start = Len(file)
    /\ state = "destroyed" /\ failed = 0 /\ ~WriteClosed =>
           Len(file) = written
    /\ state = "closed" /\ ~WriteClosed =>
           absorb = 0 /\ align = 0 /\ outbuf = <<>>
    /\ state = "destroyed" => absorb = 0 /\ align = 0

LEMMA ConcatIs ==
    ASSUME NEW s \in Seq(Nat), NEW t \in Seq(Nat)
    PROVE  /\ Len(s) \in Nat /\ Len(t) \in Nat
           /\ s \o t \in Seq(Nat) /\ Len(s \o t) = Len(s) + Len(t)
           /\ \A i \in 1..(Len(s) + Len(t)) : (s \o t)[i] =
                  IF i <= Len(s) THEN s[i] ELSE t[i - Len(s)]
           /\ \A u \in Seq(Nat) : (s \o t) \o u = s \o (t \o u)
<1>1. ASSUME NEW u \in Seq(Nat)
      PROVE  (s \o t) \o u = s \o (t \o u)
  BY ConcatAssociative, SMTT(30)
<1> QED
  BY <1>1, ConcatProperties, LenProperties, Zenon

\* The n bytes after the first w.
After(w, n) == [i \in 1..n |-> w + i]

LEMMA NumbersAre ==
    ASSUME NEW w \in Nat, NEW n \in Nat
    PROVE  /\ Numbers(w) \in Seq(Nat) /\ Len(Numbers(w)) = w
           /\ After(w, n) \in Seq(Nat) /\ Len(After(w, n)) = n
           /\ Numbers(w) \o After(w, n) = Numbers(w + n)
<1>1. ASSUME NEW m \in Nat
      PROVE  Numbers(m) \in Seq(Nat) /\ Len(Numbers(m)) = m
  <2>1. Numbers(m) \in [1..m -> Nat]
    BY DEF Numbers
  <2>2. Numbers(m) \in Seq(Nat)
    BY <2>1, SeqDef
  <2> QED
    BY <2>1, <2>2
<1>2. After(w, n) \in Seq(Nat) /\ Len(After(w, n)) = n
  <2>1. After(w, n) \in [1..n -> Nat]
    BY DEF After
  <2>2. After(w, n) \in Seq(Nat)
    BY <2>1, SeqDef
  <2> QED
    BY <2>1, <2>2
<1>3. Numbers(w) \o After(w, n) = Numbers(w + n)
  <2> DEFINE s == Numbers(w)
             t == After(w, n)
  <2>1. s \in Seq(Nat) /\ t \in Seq(Nat) /\ Len(s) = w /\ Len(t) = n
    BY <1>1, <1>2
  <2>2. (\A i \in 1..w : s[i] = i) /\ (\A i \in 1..n : t[i] = w + i)
    BY DEF Numbers, After
  <2>3. /\ Numbers(w + n) \in Seq(Nat) /\ Len(Numbers(w + n)) = w + n
        /\ \A i \in 1..(w + n) : Numbers(w + n)[i] = i
    BY <1>1 DEF Numbers
  <2> HIDE DEF s, t
  <2>4. /\ s \o t \in Seq(Nat) /\ Len(s \o t) = w + n
        /\ \A i \in 1..(w + n) : (s \o t)[i] = i
    <3>1. /\ s \o t \in Seq(Nat) /\ Len(s \o t) = w + n
          /\ \A i \in 1..(w + n) : (s \o t)[i] =
                 IF i <= w THEN s[i] ELSE t[i - w]
      BY <2>1, ConcatIs
    <3>2. ASSUME NEW i \in 1..(w + n)
          PROVE  (s \o t)[i] = i
      <4>1. CASE i <= w
        BY <2>2, <3>1, <4>1
      <4>2. CASE ~ (i <= w)
        BY <2>2, <3>1, <4>2
      <4> QED
        BY <4>1, <4>2
    <3> QED
      BY <3>1, <3>2
  <2>5. s \o t = Numbers(w + n)
    BY <2>3, <2>4, SeqEqual
  <2> QED
    BY <2>5 DEF s, t
<1> QED
  BY <1>1, <1>2, <1>3

\* The next n bytes.
LEMMA NextBytes ==
    ASSUME OutInv, NEW n \in Nat
    PROVE  /\ Out!Bytes(n) \in Seq(Nat) /\ Len(Out!Bytes(n)) = n
           /\ Numbers(written) \o Out!Bytes(n) = Numbers(written + n)
<1>1. Out!Bytes(n) = After(written, n)
  BY DEF Out!Bytes, After
<1> QED
  BY <1>1, NumbersAre, ZenonT(60) DEF OutInv

\* What an interrupted write has written.
LEMMA PartsAre ==
    ASSUME NEW bs \in Seq(Nat), NEW part \in Out!Parts(bs)
    PROVE  part \in Seq(Nat)
<1>1. PICK n \in 0..(Len(bs) - 1) : part = SubSeq(bs, 1, n)
  BY DEF Out!Parts
<1>2. \A i \in 1..n : bs[i] \in Nat
  BY <1>1, ElementOfSeq
<1> QED
  BY <1>1, <1>2, SubSeqProperties

\* A call that throws leaves a buffer that fits, and it is over.
LEMMA ThrowKeeps ==
    ASSUME OutConstantsOK, OutInv, Out!Throw, file' \in Seq(Nat),
           UNCHANGED state,
           \/ UNCHANGED <<outbuf, buf_start>>
           \/ outbuf' = <<>> /\ buf_start' \in Nat
    PROVE  OutInv'
<1>1. absorb' = 0 /\ align' = 0 /\ written' = written /\ failed' = failed + 1
  BY DEF Out!Throw
<1>2. failed' # 0 /\ failed' \in Nat
  BY <1>1 DEF OutInv
<1>3. /\ outbuf' \in Seq(Nat) /\ buf_start' \in Nat
      /\ outbuf' = outbuf \/ outbuf' = <<>>
  BY EmptySeq DEF OutInv
<1>4. Len(outbuf') <= IO_STREAM_BUF_SIZE
  BY <1>3, EmptySeq DEF OutInv, OutConstantsOK
<1> QED
  BY <1>1, <1>2, <1>3, <1>4 DEF OutInv


LEMMA FlushFailsKeeps ==
    ASSUME OutConstantsOK, OutInv, Out!FlushFails, UNCHANGED state
    PROVE  OutInv'
<1>1. outbuf \in Seq(Nat) /\ file \in Seq(Nat)
  BY DEF OutInv
<1>2. file' \in Seq(Nat)
  <2>1. CASE file' = file
    BY <1>1, <2>1
  <2>2. CASE \E part \in Out!Parts(outbuf) : file' = file \o part
    <3>1. PICK part \in Out!Parts(outbuf) : file' = file \o part
      BY <2>2
    <3> QED
      BY <1>1, <3>1, PartsAre
  <2> QED
    BY <2>1, <2>2 DEF Out!FlushFails
<1> QED
  BY <1>2, ThrowKeeps DEF Out!FlushFails

\* S_flush, with what the buffer is to hold then: a call that has written as
\* many bytes more.
LEMMA FlushedKeeps ==
    ASSUME OutConstantsOK, OutInv, NEW n \in 0..IO_STREAM_BUF_SIZE,
           Out!FlushTo(Out!Bytes(n)), written' = written + n,
           absorb' \in Nat, align' \in Nat, failed' = failed,
           state' = "open"
    PROVE  OutInv'
<1>1. /\ state = "open" /\ file' = file \o outbuf
      /\ buf_start' = buf_start + Len(outbuf) /\ outbuf' = Out!Bytes(n)
  BY DEF Out!FlushTo, Out!Tell
<1>2. /\ outbuf' \in Seq(Nat) /\ Len(outbuf') = n
      /\ Numbers(written) \o outbuf' = Numbers(written + n)
  <2>1. n \in Nat
    BY DEF OutConstantsOK
  <2> QED
    BY <1>1, <2>1, NextBytes
<1>3. /\ file' \in Seq(Nat) /\ Len(file') = Len(file) + Len(outbuf)
      /\ Len(outbuf) \in Nat
  BY <1>1, ConcatIs DEF OutInv
<1>4. failed = 0 => /\ file' \o outbuf' = Numbers(written')
                    /\ buf_start' = Len(file')
  BY <1>1, <1>2, <1>3 DEF OutInv
<1> QED
  BY <1>1, <1>2, <1>3, <1>4, SMTT(30) DEF OutInv

LEMMA SI_write_bytesKeeps ==
    ASSUME OutConstantsOK, OutInv, NEW n \in Nat, NEW left \in Nat,
           Out!SI_write_bytes(n, left), UNCHANGED state,
           state # "destroyed", state = "closed" => WriteClosed
    PROVE  OutInv'
<1> DEFINE bs == Out!Bytes(n)
<1>1. /\ bs \in Seq(Nat) /\ Len(bs) = n
      /\ Numbers(written) \o bs = Numbers(written + n)
  BY NextBytes
<1>2. IO_STREAM_BUF_SIZE \in Nat /\ outbuf \in Seq(Nat) /\ file \in Seq(Nat)
  BY DEF OutInv, OutConstantsOK
<1>3. ASSUME Out!WritePast(n), written' = written + n, absorb' = left,
             UNCHANGED <<align, failed>>
      PROVE  OutInv'
  <2>1. /\ file' = file \o outbuf \o bs
        /\ buf_start' = buf_start + Len(outbuf) + n /\ outbuf' = <<>>
        /\ state = "open"
    BY <1>3 DEF Out!WritePast, Out!Tell
  <2> HIDE DEF bs
  <2>2. /\ file' \in Seq(Nat) /\ Len(file') = Len(file) + Len(outbuf) + n
        /\ outbuf' \in Seq(Nat) /\ Len(outbuf') = 0
        /\ file' \o outbuf' = file'
    <3>1. /\ file \o outbuf \in Seq(Nat)
          /\ Len(file \o outbuf) = Len(file) + Len(outbuf)
      BY <1>2, ConcatIs
    <3>2. file' \in Seq(Nat) /\ Len(file') = Len(file) + Len(outbuf) + n
      BY <1>1, <2>1, <3>1, ConcatIs
    <3> QED
      BY <2>1, <3>2, ConcatEmptySeq, EmptySeq
  <2>3. failed = 0 => /\ file' = Numbers(written')
                      /\ buf_start' = Len(file')
    BY <1>1, <1>2, <1>3, <2>1, <2>2 DEF OutInv
  <2> QED
    BY <1>2, <1>3, <2>1, <2>2, <2>3, SMTT(30) DEF OutInv
<1>4. ASSUME Out!WriteToBuffer(n), written' = written + n, absorb' = left,
             UNCHANGED <<align, failed>>
      PROVE  OutInv'
  <2>1. CASE Out!FlushTo(bs)
    <3>1. n \in 0..IO_STREAM_BUF_SIZE
      BY <1>2, <1>4 DEF Out!WriteToBuffer
    <3>2. state' = "open" /\ align' \in Nat
      BY <1>4, <2>1 DEF Out!FlushTo, OutInv
    <3> QED
      BY <1>4, <2>1, <3>1, <3>2, FlushedKeeps
  <2>2. CASE /\ Len(outbuf) + n < IO_STREAM_BUF_SIZE
             /\ outbuf' = outbuf \o bs /\ UNCHANGED <<buf_start, file>>
    <3> HIDE DEF bs
    <3>1. outbuf' \in Seq(Nat) /\ Len(outbuf') = Len(outbuf) + n
      BY <1>1, <1>2, <2>2, ConcatIs
    <3>2. file \o outbuf' = (file \o outbuf) \o bs
      BY <1>1, <1>2, <2>2, ConcatIs
    <3>3. failed = 0 => file' \o outbuf' = Numbers(written')
      BY <1>1, <1>4, <2>2, <3>2 DEF OutInv
    <3> QED
      BY <1>2, <1>4, <2>2, <3>1, <3>3, SMTT(30) DEF OutInv
  <2> QED
    BY <1>4, <2>1, <2>2 DEF Out!WriteToBuffer
<1>5. ASSUME Out!WritePastFails(n)
      PROVE  OutInv'
  <2>1. PICK part \in Out!Parts(bs) : file' = file \o outbuf \o part
    BY <1>5 DEF Out!WritePastFails
  <2>2. part \in Seq(Nat)
    BY <1>1, PartsAre
  <2>3. file' \in Seq(Nat)
    BY <1>2, <2>1, <2>2
  <2>4. Out!Throw /\ outbuf' = <<>> /\ buf_start' = buf_start + Len(outbuf)
    BY <1>5 DEF Out!WritePastFails, Out!Tell
  <2>5. buf_start' \in Nat
    BY <1>2, <2>4 DEF OutInv
  <2> QED
    BY <2>3, <2>4, <2>5, ThrowKeeps
<1>6. ASSUME Out!FlushFails
      PROVE  OutInv'
  BY <1>6, FlushFailsKeeps
<1> QED
  BY <1>3, <1>4, <1>5, <1>6 DEF Out!SI_write_bytes

LEMMA SI_write_u8Keeps ==
    ASSUME OutConstantsOK, OutInv, NEW left \in Nat,
           Out!SI_write_u8(left), UNCHANGED state,
           state # "destroyed", state = "closed" => WriteClosed
    PROVE  OutInv'
<1> DEFINE bs == Out!Bytes(1)
<1>1. /\ bs \in Seq(Nat) /\ Len(bs) = 1
      /\ Numbers(written) \o bs = Numbers(written + 1)
  BY NextBytes
<1>2. /\ IO_STREAM_BUF_SIZE \in Nat \ {0}
      /\ outbuf \in Seq(Nat) /\ file \in Seq(Nat)
  BY DEF OutInv, OutConstantsOK
<1>3. CASE Out!FlushTo(bs) /\ written' = written + 1 /\ align' = left
           /\ UNCHANGED <<absorb, failed>>
  <2>1. 1 \in 0..IO_STREAM_BUF_SIZE
    BY <1>2
  <2>2. state' = "open" /\ absorb' \in Nat
    BY <1>3 DEF Out!FlushTo, OutInv
  <2> QED
    BY <1>3, <2>1, <2>2, FlushedKeeps
<1>4. CASE /\ Len(outbuf) < IO_STREAM_BUF_SIZE
           /\ outbuf' = outbuf \o bs /\ UNCHANGED <<buf_start, file>>
           /\ written' = written + 1 /\ align' = left
           /\ UNCHANGED <<absorb, failed>>
  <2> HIDE DEF bs
  <2>1. outbuf' \in Seq(Nat) /\ Len(outbuf') = Len(outbuf) + 1
    <3>1. /\ outbuf \o bs \in Seq(Nat)
          /\ Len(outbuf \o bs) = Len(outbuf) + Len(bs)
      BY <1>1, <1>2, ConcatIs
    <3> QED
      BY <1>1, <1>4, <3>1
  <2>2. file \o outbuf' = (file \o outbuf) \o bs
    BY <1>1, <1>2, <1>4, ConcatIs
  <2>3. failed = 0 => file' \o outbuf' = Numbers(written')
    BY <1>1, <1>4, <2>2 DEF OutInv
  <2>4. Len(outbuf') <= IO_STREAM_BUF_SIZE
    BY <1>2, <1>4, <2>1, ConcatIs
  <2> QED
    BY <1>2, <1>4, <2>1, <2>3, <2>4, SMTT(30) DEF OutInv
<1>5. CASE Out!FlushFails
  BY <1>5, FlushFailsKeeps
<1> QED
  BY <1>3, <1>4, <1>5 DEF Out!SI_write_u8

\* A flush that writes nothing new, as Flush and Close have it.
LEMMA EmptiedIs ==
    ASSUME OutConstantsOK, OutInv, Out!FlushTo(<<>>),
           UNCHANGED written, absorb' \in Nat, align' \in Nat,
           state' \in {"open", "closed"},
           state' = "closed" => absorb' = 0 /\ align' = 0,
           failed' = failed \/ failed' = failed + 1
    PROVE  OutInv'
<1>1. /\ state = "open" /\ file' = file \o outbuf
      /\ buf_start' = buf_start + Len(outbuf) /\ outbuf' = <<>>
  BY DEF Out!FlushTo, Out!Tell
<1>2. /\ file' \in Seq(Nat) /\ Len(file') = Len(file) + Len(outbuf)
      /\ Len(outbuf) \in Nat
  BY <1>1, ConcatIs DEF OutInv
<1>3. /\ outbuf' \in Seq(Nat) /\ Len(outbuf') = 0
      /\ file' \o outbuf' = file'
  BY <1>1, <1>2, ConcatEmptySeq, EmptySeq
<1>4. failed' = 0 => failed = 0
  BY DEF OutInv
<1>5. failed' = 0 => /\ file' \o outbuf' = Numbers(written')
                     /\ buf_start' = Len(file')
  BY <1>1, <1>2, <1>3, <1>4 DEF OutInv
<1>6. failed' \in Nat /\ 0 <= IO_STREAM_BUF_SIZE
  BY DEF OutInv, OutConstantsOK
<1> QED
  BY <1>1, <1>2, <1>3, <1>5, <1>6 DEF OutInv

LEMMA FlushKeeps ==
    ASSUME OutConstantsOK, OutInv, Out!Flush
    PROVE  OutInv'
<1>1. CASE Out!FlushTo(<<>>) /\ UNCHANGED <<absorb, align, written, failed>>
  <2>1. /\ absorb' = 0 /\ align' = 0 /\ state' = "open"
    BY <1>1 DEF Out!Flush, Out!Idle, Out!FlushTo
  <2> QED
    BY <1>1, <2>1, EmptiedIs
<1>2. CASE Out!FlushFails
  BY <1>2, FlushFailsKeeps DEF Out!Flush
<1> QED
  BY <1>1, <1>2 DEF Out!Flush

LEMMA CloseKeeps ==
    ASSUME OutConstantsOK, OutInv, Out!Close
    PROVE  OutInv'
<1>1. CASE /\ Out!FlushTo(<<>>) /\ state' = "closed"
           /\ UNCHANGED <<absorb, align, written, failed>>
  <2>1. absorb' = 0 /\ align' = 0
    BY <1>1 DEF Out!Close, Out!Idle
  <2> QED
    BY <1>1, <2>1, EmptiedIs
<1>2. CASE Out!FlushFails /\ UNCHANGED state
  BY <1>2, FlushFailsKeeps
<1>3. CASE Out!FlushTo(<<>>) /\ Out!Throw /\ UNCHANGED state
  <2>1. absorb' = 0 /\ align' = 0 /\ failed' = failed + 1 /\ written' = written
    BY <1>3 DEF Out!Throw
  <2>2. state' = "open"
    BY <1>3 DEF Out!Close
  <2> QED
    BY <1>3, <2>1, <2>2, EmptiedIs
<1> QED
  BY <1>1, <1>2, <1>3 DEF Out!Close

LEMMA DestroyKeeps ==
    ASSUME OutConstantsOK, OutInv, Out!Destroy
    PROVE  OutInv'
<1>1. /\ absorb = 0 /\ align = 0 /\ state \in {"open", "closed"}
      /\ state' = "destroyed"
      /\ UNCHANGED <<outbuf, buf_start, absorb, align, written>>
  BY DEF Out!Destroy, Out!Idle
<1>2. outbuf \in Seq(Nat) /\ file \in Seq(Nat) /\ failed \in Nat
  BY DEF OutInv
<1>3. CASE state = "open" /\ file' = file \o outbuf /\ UNCHANGED failed
  <2>1. file' \in Seq(Nat)
    BY <1>2, <1>3, ConcatIs
  <2>2. failed = 0 => Len(file') = written
    BY <1>1, <1>3, NumbersAre DEF OutInv
  <2> QED
    BY <1>1, <1>3, <2>1, <2>2 DEF OutInv
<1>4. CASE /\ state = "open" /\ failed' = failed + 1
           /\ \E part \in Out!Parts(outbuf) : file' = file \o part
  <2>1. PICK part \in Out!Parts(outbuf) : file' = file \o part
    BY <1>4
  <2>2. part \in Seq(Nat)
    BY <1>2, PartsAre
  <2>3. file' \in Seq(Nat)
    BY <1>2, <2>1, <2>2, ConcatIs
  <2>4. failed' # 0 /\ failed' \in Nat
    BY <1>2, <1>4
  <2> QED
    BY <1>1, <2>3, <2>4 DEF OutInv
<1>5. CASE state = "closed" /\ UNCHANGED <<file, failed>>
  <2>1. failed = 0 /\ ~WriteClosed => Len(file) = written
    <3> SUFFICES ASSUME failed = 0, ~WriteClosed PROVE Len(file) = written
      OBVIOUS
    <3>1. outbuf = <<>> /\ file \o outbuf = Numbers(written)
      BY <1>5 DEF OutInv
    <3>2. file = Numbers(written)
      BY <1>2, <3>1, ConcatEmptySeq
    <3> QED
      BY <3>2, NumbersAre DEF OutInv
  <2> QED
    BY <1>1, <1>5, <2>1 DEF OutInv
<1> QED
  BY <1>3, <1>4, <1>5 DEF Out!Destroy

LEMMA OutKept ==
    ASSUME OutConstantsOK, OutInv, [Out!Next]_(Out!vars)
    PROVE  OutInv'
<1>1. CASE UNCHANGED Out!vars
  BY <1>1 DEF Out!vars, OutInv
<1>2. /\ written \in Nat /\ absorb \in Nat /\ align \in Nat /\ MaxBytes \in Nat
      /\ IO_STREAM_BUF_SIZE \in Nat \ {0}
  BY DEF OutInv, OutConstantsOK
<1>3. Out!MayWrite => state # "destroyed" /\ (state = "closed" => WriteClosed)
  BY DEF Out!MayWrite
<1>4. absorb # 0 \/ align # 0 =>
          state # "destroyed" /\ (state = "closed" => WriteClosed)
  BY DEF OutInv
<1>5. CASE Out!Write_Bytes
  <2>1. PICK n \in 0..Out!Room : Out!SI_write_bytes(n, 0)
    BY <1>5 DEF Out!Write_Bytes
  <2>2. n \in Nat
    BY <1>2 DEF Out!Room
  <2> QED
    BY <1>3, <1>5, <2>1, <2>2, SI_write_bytesKeeps DEF Out!Write_Bytes
<1>6. CASE Out!Write_U8
  BY <1>3, <1>6, SI_write_u8Keeps DEF Out!Write_U8
<1>7. CASE Out!Align
  <2>1. PICK m \in Moduli :
           /\ Out!MayWrite /\ Out!Filler(m) \in 1..Out!Room
           /\ align' = Out!Filler(m)
           /\ UNCHANGED <<outbuf, buf_start, file, state, absorb, written,
                          failed>>
    BY <1>7 DEF Out!Align, Out!stream
  <2>2. align' \in Nat
    BY <1>2, <2>1 DEF Out!Room
  <2> QED
    BY <1>3, <2>1, <2>2 DEF OutInv
<1>8. CASE Out!AlignStep
  <2>1. align - 1 \in Nat /\ align # 0
    BY <1>2, <1>8 DEF Out!AlignStep
  <2> QED
    BY <1>4, <1>8, <2>1, SI_write_u8Keeps DEF Out!AlignStep
<1>9. CASE Out!Absorb
  <2>1. PICK n \in 1..Out!Room :
           /\ state = "open" /\ absorb' = n
           /\ UNCHANGED <<outbuf, buf_start, file, state, align, written,
                          failed>>
    BY <1>9 DEF Out!Absorb, Out!stream
  <2>2. absorb' \in Nat
    BY <1>2, <2>1 DEF Out!Room
  <2> QED
    BY <2>1, <2>2 DEF OutInv
<1>10. CASE Out!AbsorbStep
  <2> DEFINE n == Out!Min2(absorb, IO_STREAM_BUF_SIZE)
  <2>1. /\ absorb > 0 /\ Out!SI_write_bytes(n, absorb - n)
        /\ UNCHANGED state
    BY <1>10 DEF Out!AbsorbStep
  <2>2. n \in Nat /\ absorb - n \in Nat /\ absorb # 0
    BY <1>2, <2>1 DEF Out!Min2
  <2> HIDE DEF n
  <2> QED
    BY <1>4, <2>1, <2>2, SI_write_bytesKeeps
<1>11. CASE Out!Flush
  BY <1>11, FlushKeeps
<1>12. CASE Out!Close
  BY <1>12, CloseKeeps
<1>13. CASE Out!Destroy
  BY <1>13, DestroyKeeps
<1> QED
  BY <1>1, <1>5, <1>6, <1>7, <1>8, <1>9, <1>10, <1>11, <1>12, <1>13
     DEF Out!Next

LEMMA OutBegins ==
    ASSUME OutConstantsOK, Out!Init
    PROVE  OutInv
<1>1. /\ outbuf \in Seq(Nat) /\ file \in Seq(Nat) /\ Len(file) = 0
      /\ Len(outbuf) = 0 /\ file \o outbuf = <<>>
  BY EmptySeq, ConcatEmptySeq DEF Out!Init
<1>2. Numbers(0) \in Seq(Nat) /\ Len(Numbers(0)) = 0
  BY NumbersAre
<1>3. Numbers(0) = <<>>
  BY <1>2, EmptySeq
<1> QED
  BY <1>1, <1>3 DEF Out!Init, OutInv, OutConstantsOK

\* A buffer never holds more than it has room for, whatever follows each other.
THEOREM OutBuffersFit ==
    ASSUME OutConstantsOK
    PROVE  Out!Spec => []Out!BufferFits
<1>1. Out!Init => OutInv
  BY OutBegins
<1>2. OutInv /\ [Out!Next]_(Out!vars) => OutInv'
  BY OutKept
<1>3. OutInv => Out!BufferFits
  BY DEF OutInv, Out!BufferFits
<1> QED
  BY <1>1, <1>2, <1>3, PTL DEF Out!Spec

\* As long as nothing has thrown, the file and then the buffer hold each byte
\* that was written once and in its order, however bytes, blocks, Align and
\* Absorb follow each other, and Tell is their number.
THEOREM WrittenInOrder ==
    ASSUME OutConstantsOK
    PROVE  Out!Spec => []Out!InOrder
<1>1. Out!Init => OutInv
  BY OutBegins
<1>2. OutInv /\ [Out!Next]_(Out!vars) => OutInv'
  BY OutKept
<1>3. OutInv => Out!InOrder
  <2> SUFFICES ASSUME OutInv, state # "destroyed", failed = 0
               PROVE  file \o outbuf = Numbers(written) /\ Out!Tell = written
    BY DEF Out!InOrder, Numbers
  <2>1. file \o outbuf = Numbers(written) /\ buf_start = Len(file)
    BY DEF OutInv
  <2>2. Len(Numbers(written)) = written
    BY NumbersAre DEF OutInv
  <2>3. Len(file \o outbuf) = Len(file) + Len(outbuf)
    BY ConcatIs DEF OutInv
  <2> QED
    BY <2>1, <2>2, <2>3 DEF Out!Tell
<1> QED
  BY <1>1, <1>2, <1>3, PTL DEF Out!Spec

\* When a stream that no one writes to after Close is gone, and nothing has
\* thrown, its file holds all that was written.
THEOREM NothingWrittenIsLost ==
    ASSUME OutConstantsOK, ~WriteClosed
    PROVE  Out!Spec => []Out!NothingLost
<1>1. Out!Init => OutInv
  BY OutBegins
<1>2. OutInv /\ [Out!Next]_(Out!vars) => OutInv'
  BY OutKept
<1>3. OutInv => Out!NothingLost
  BY DEF OutInv, Out!NothingLost
<1> QED
  BY <1>1, <1>2, <1>3, PTL DEF Out!Spec

-----------------------------------------------------------------------------
(* Lexicons.                                                               *)

CONSTANTS LexTerms, IndexInterval, SkipInterval
VARIABLES lex_file, lex, lex_call, found

Lex == INSTANCE SegLexicon WITH
    Terms <- LexTerms, file <- lex_file, call <- lex_call, out <- found

\* A segment has finitely many terms, in some order, and index entries are a
\* number of terms apart.
LexConstantsOK ==
    /\ LexTerms \subseteq Nat /\ IsFiniteSet(LexTerms)
    /\ IndexInterval \in Nat \ {0}

-----------------------------------------------------------------------------
(* Numbers and loops.                                                      *)

LEMMA Least ==
    ASSUME NEW T \in SUBSET Nat, T # {}
    PROVE  \E x \in T : \A y \in T : x <= y
<1> DEFINE R == OpToRel(<, Nat)
<1>1. IsWellFoundedOn(R, Nat)
  BY NatLessThanWellFounded
<1>2. \A x, y \in Nat : <<y, x>> \in R <=> y < x
  BY DEF OpToRel
<1> HIDE DEF R
<1>3. PICK x \in T : \A y \in T : ~ (<<y, x>> \in R)
  BY <1>1, WFMin
<1>4. ASSUME NEW y \in T
      PROVE  x <= y
  <2>1. x \in Nat /\ y \in Nat
    OBVIOUS
  <2>2. ~ (y < x)
    BY <1>2, <1>3, <2>1, Zenon
  <2> QED
    BY <2>1, <2>2
<1> QED
  BY <1>4

LEMMA TimesMonotonic ==
    ASSUME NEW a \in Nat, NEW b \in Nat, NEW n \in Nat, a <= b
    PROVE  n * a <= n * b
<1>1. PICK d \in Nat : b = a + d
  BY b - a \in Nat
<1>2. n * b = n * a + n * d /\ n * d >= 0
  BY <1>1
<1> QED
  BY <1>2

\* A number is so many whole bytes and a rest.
LEMMA DivMod ==
    ASSUME NEW t \in Nat, NEW n \in Nat \ {0}
    PROVE  /\ t \div n \in Nat /\ t % n \in 0..(n - 1)
           /\ t = n * (t \div n) + (t % n)
<1>1. t = n * (t \div n) + (t % n) /\ t \div n \in Int /\ t % n \in 0..(n - 1)
  OBVIOUS
<1>2. t \div n >= 0
  OBVIOUS
<1> QED
  BY <1>1, <1>2

\* Counting up from 0 to N.
LEMMA CountUp ==
    ASSUME NEW N \in Nat, NEW T, 0 \in T,
           \A n \in 0..(N - 1) : n \in T => n + 1 \in T
    PROVE  \A n \in 0..N : n \in T
<1> DEFINE U == {n \in 0..N : n \notin T}
<1> SUFFICES ASSUME U # {}
             PROVE  FALSE
  OBVIOUS
<1>1. PICK m \in U : \A n \in U : m <= n
  <2>1. U \in SUBSET Nat
    OBVIOUS
  <2> QED
    BY <2>1, Least
<1>2. m \in 0..N /\ m # 0 /\ m \notin T
  OBVIOUS
<1>3. m - 1 \in 0..(N - 1) /\ m - 1 \in 0..N /\ (m - 1) + 1 = m
  BY <1>2
<1>4. m - 1 \notin U
  BY <1>1, <1>2
<1> QED
  BY <1>2, <1>3, <1>4

Rounds(N, S, step) == step \in [1..N -> [S -> S]]

Loop(N, S, x, step) ==
    \E g \in [0..N -> S] :
        g[0] = x /\ \A n \in 1..N : g[n] = step[n][g[n - 1]]

\* What is computed from the value before is a function.
LEMMA Iterated ==
    ASSUME NEW N \in Nat, NEW S, NEW x \in S, NEW step, Rounds(N, S, step)
    PROVE  Loop(N, S, x, step)
<1> DEFINE Good(m, g) ==
               \A n \in 0..m : g[n] = IF n = 0 THEN x ELSE step[n][g[n - 1]]
           T == {m \in 0..N : \E g \in [0..m -> S] : Good(m, g)}
<1>1. 0 \in T
  <2> DEFINE g == [n \in 0..0 |-> x]
  <2>1. g \in [0..0 -> S] /\ Good(0, g) /\ 0 \in 0..N
    OBVIOUS
  <2> HIDE DEF g, Good
  <2> QED
    BY <2>1
<1>2. ASSUME NEW m \in 0..(N - 1), m \in T
      PROVE  m + 1 \in T
  <2>1. PICK f \in [0..m -> S] : Good(m, f)
    BY <1>2
  <2> DEFINE y == step[m + 1][f[m]]
             g == [n \in 0..(m + 1) |-> IF n <= m THEN f[n] ELSE y]
  <2>2. y \in S
    <3> USE DEF Rounds
    <3>1. m + 1 \in 1..N /\ m \in 0..m
      OBVIOUS
    <3>2. step[m + 1] \in [S -> S] /\ f[m] \in S
      BY <3>1
    <3> QED
      BY <3>2
  <2>3. g \in [0..(m + 1) -> S]
    BY <2>2
  <2>4. ASSUME NEW n \in 0..(m + 1)
        PROVE  g[n] = IF n = 0 THEN x ELSE step[n][g[n - 1]]
    <3>1. CASE n <= m
      <4>1. n \in 0..m /\ (n # 0 => n - 1 \in 0..m /\ n - 1 \in 0..(m + 1))
        BY <3>1
      <4>2. g[n] = f[n] /\ (n # 0 => g[n - 1] = f[n - 1])
        BY <4>1
      <4> HIDE DEF g
      <4> QED
        BY <2>1, <4>1, <4>2
    <3>2. CASE n = m + 1
      <4>1. n - 1 = m /\ m \in 0..(m + 1) /\ n # 0 /\ ~(n <= m)
        BY <3>2
      <4>2. g[n] = y /\ g[m] = f[m]
        BY <4>1
      <4> HIDE DEF g
      <4> QED
        BY <3>2, <4>1, <4>2
    <3> QED
      BY <3>1, <3>2
  <2>5. m + 1 \in 0..N /\ Good(m + 1, g)
    BY <2>4
  <2> HIDE DEF g, Good
  <2> QED
    BY <2>3, <2>5
<1> HIDE DEF Good
<1>3. N \in T
  <2>1. \A n \in 0..N : n \in T
    <3> HIDE DEF T
    <3> QED
      BY <1>1, <1>2, CountUp
  <2> QED
    BY <2>1
<1>4. PICK g \in [0..N -> S] : Good(N, g)
  BY <1>3
<1>5. g[0] = x /\ \A n \in 1..N : g[n] = step[n][g[n - 1]]
  <2>1. \A n \in 0..N : g[n] = IF n = 0 THEN x ELSE step[n][g[n - 1]]
    BY <1>4 DEF Good
  <2> QED
    BY <2>1
<1> QED
  BY <1>5, Zenon DEF Loop

-----------------------------------------------------------------------------
(* Terms in order.                                                         *)

\* How many terms come before one.
Rank(terms, t) == Cardinality({u \in terms : u < t})

LEMMA RankIs ==
    ASSUME NEW terms \in SUBSET Nat, IsFiniteSet(terms)
    PROVE  /\ Cardinality(terms) \in Nat
           /\ \A t \in terms : Rank(terms, t) \in 0..(Cardinality(terms) - 1)
           /\ \A t, u \in terms : t < u => Rank(terms, t) < Rank(terms, u)
<1> DEFINE Less(t) == {u \in terms : u < t}
           n == Cardinality(terms)
<1>1. \A t \in terms : IsFiniteSet(Less(t))
  BY FS_Subset
<1>2. n \in Nat /\ \A t \in terms : Rank(terms, t) \in Nat
  <2>1. n \in Nat
    BY FS_CardinalityType
  <2>2. \A t \in terms : Cardinality(Less(t)) \in Nat
    BY <1>1, FS_CardinalityType
  <2> QED
    BY <2>1, <2>2, Zenon DEF Rank
<1>3. ASSUME NEW t \in terms
      PROVE  Rank(terms, t) < n
  <2>1. Less(t) \in SUBSET terms /\ t \notin Less(t)
    OBVIOUS
  <2>2. Rank(terms, t) <= n /\ Rank(terms, t) # n
    BY <2>1, FS_Subset DEF Rank
  <2>3. n \in Nat /\ Rank(terms, t) \in Nat
    BY <1>2
  <2> HIDE DEF n
  <2> QED
    BY <2>2, <2>3
<1>4. ASSUME NEW t \in terms, NEW u \in terms, t < u
      PROVE  Rank(terms, t) < Rank(terms, u)
  <2>1. \A v \in terms : v \in Nat
    OBVIOUS
  <2>2. Less(t) \in SUBSET Less(u)
    <3>1. ASSUME NEW v \in terms, v < t
          PROVE  v < u
      <4>1. v \in Nat /\ t \in Nat /\ u \in Nat
        BY <2>1
      <4> QED
        BY <1>4, <3>1, <4>1
    <3> QED
      BY <3>1
  <2>3. t \in Less(u) /\ t \notin Less(t)
    BY <1>4, <2>1
  <2>4. IsFiniteSet(Less(u)) /\ Less(t) # Less(u)
    BY <1>1, <2>3
  <2> HIDE DEF Less
  <2>5. Cardinality(Less(t)) <= Cardinality(Less(u))
        /\ Cardinality(Less(t)) # Cardinality(Less(u))
    BY <2>2, <2>4, FS_Subset
  <2>6. Rank(terms, t) <= Rank(terms, u) /\ Rank(terms, t) # Rank(terms, u)
    BY <2>5, Zenon DEF Rank, Less
  <2>7. Rank(terms, t) \in Nat /\ Rank(terms, u) \in Nat
    BY <1>2
  <2> QED
    BY <2>6, <2>7
<1>5. \A t \in terms : Rank(terms, t) \in 0..(n - 1)
  <2> HIDE DEF n
  <2> QED
    BY <1>2, <1>3
<1> QED
  BY <1>2, <1>4, <1>5

LEMMA RankOnto ==
    ASSUME NEW terms \in SUBSET Nat, IsFiniteSet(terms)
    PROVE  \A k \in 1..Cardinality(terms) :
               \E t \in terms : Rank(terms, t) = k - 1
<1> DEFINE n == Cardinality(terms)
           f == [t \in terms |-> Rank(terms, t) + 1]
<1>1. /\ n \in Nat
      /\ \A t \in terms : Rank(terms, t) \in 0..(n - 1)
      /\ \A t, u \in terms : t < u => Rank(terms, t) < Rank(terms, u)
  BY RankIs
<1>2. f \in Injection(terms, 1..n)
  <2>1. f \in [terms -> 1..n]
    BY <1>1
  <2>2. ASSUME NEW t \in terms, NEW u \in terms, f[t] = f[u]
        PROVE  t = u
    <3>1. Rank(terms, t) = Rank(terms, u)
      BY <1>1, <2>2
    <3>2. t \in Nat /\ u \in Nat /\ Rank(terms, t) \in Nat
      BY <1>1
    <3>3. ~(t < u) /\ ~(u < t)
      BY <1>1, <3>1, <3>2
    <3> QED
      BY <3>2, <3>3
  <2> HIDE DEF f
  <2> QED
    BY <2>1, <2>2 DEF Injection, IsInjective
<1>3. IsFiniteSet(1..n) /\ Cardinality(1..n) = n
  BY <1>1, FS_Interval
<1>4. f \in Surjection(terms, 1..n)
  <2> HIDE DEF f, n
  <2> QED
    BY <1>2, <1>3, FS_Injection DEF n
<1>5. \A k \in 1..n : \E t \in terms : f[t] = k
  BY <1>4 DEF Surjection
<1> QED
  BY <1>1, <1>5

LEMMA SortedIs ==
    ASSUME NEW terms \in SUBSET Nat, IsFiniteSet(terms)
    PROVE  LET s == Lex!Sorted(terms)
               n == Cardinality(terms)
           IN  /\ n \in Nat /\ s \in Seq(Nat) /\ Len(s) = n
               /\ \A k \in 1..n : s[k] \in terms
               /\ \A i, j \in 1..n : i < j => s[i] < s[j]
               /\ \A t \in terms : \E k \in 1..n : s[k] = t
<1> DEFINE s == Lex!Sorted(terms)
           n == Cardinality(terms)
<1>1. /\ n \in Nat
      /\ \A t \in terms : Rank(terms, t) \in 0..(n - 1)
      /\ \A t, u \in terms : t < u => Rank(terms, t) < Rank(terms, u)
  BY RankIs
<1>2. s = [k \in 1..n |-> CHOOSE t \in terms : Rank(terms, t) = k - 1]
  BY Zenon DEF Lex!Sorted, Rank, Lex!Cardinality, Cardinality
<1> HIDE DEF s
<1>3. \A k \in 1..n :
          s[k] \in terms /\ s[k] \in Nat /\ Rank(terms, s[k]) = k - 1
  BY <1>2, RankOnto
<1>4. s \in Seq(Nat) /\ Len(s) = n
  <2> HIDE DEF n
  <2> QED
    BY <1>1, <1>2, <1>3
<1>5. ASSUME NEW i \in 1..n, NEW j \in 1..n, i < j
      PROVE  s[i] < s[j]
  <2>1. s[i] \in terms /\ s[j] \in terms
        /\ Rank(terms, s[i]) < Rank(terms, s[j])
    BY <1>1, <1>3, <1>5
  <2>2. /\ s[i] \in Nat /\ s[j] \in Nat
        /\ Rank(terms, s[i]) \in Nat /\ Rank(terms, s[j]) \in Nat
    BY <1>1, <1>3, <2>1
  <2>3. s[i] # s[j] /\ ~(s[j] < s[i])
    BY <1>1, <2>1, <2>2
  <2> QED
    BY <2>2, <2>3
<1>6. ASSUME NEW t \in terms
      PROVE  \E k \in 1..n : s[k] = t
  <2> DEFINE k == Rank(terms, t) + 1
  <2>1. k \in 1..n /\ s[k] \in terms /\ Rank(terms, s[k]) = Rank(terms, t)
    BY <1>1, <1>3
  <2>2. t \in Nat /\ s[k] \in Nat /\ Rank(terms, t) \in Nat
    BY <1>1, <1>3, <2>1
  <2> HIDE DEF k
  <2>3. ~(s[k] < t) /\ ~(t < s[k])
    BY <1>1, <2>1, <2>2
  <2>4. s[k] = t
    BY <2>2, <2>3
  <2> QED
    BY <2>1, <2>4
<1> QED
  BY <1>1, <1>3, <1>4, <1>5, <1>6 DEF s

-----------------------------------------------------------------------------
(* What is written of a term, and the terms that are decoded.              *)

Infos == [term : Nat, doc_freq : Nat, post_filepos : Nat]

LEMMA InfoIs ==
    ASSUME NEW s \in Seq(Nat), NEW i \in 0..Len(s)
    PROVE  /\ Lex!Info(s, i) \in Infos
           /\ Lex!Info(s, i).term = IF i = 0 THEN 0 ELSE s[i]
           /\ i = 0 => Lex!Info(s, i) = Lex!Blank
<1> DEFINE n == Len(s)
           step == [k \in 1..n |-> [p \in Nat |-> p + Lex!Freq(s[k])]]
           F(f) == [k \in 0..n |->
                       IF k = 0 THEN 0 ELSE f[k - 1] + Lex!Freq(s[k])]
           upto == CHOOSE f : f = F(f)
<1>1. n \in Nat /\ \A k \in 1..n : s[k] \in Nat /\ Lex!Freq(s[k]) \in Nat
  <2>1. n \in Nat /\ \A k \in 1..n : s[k] \in Nat
    OBVIOUS
  <2>2. \A t \in Nat : Lex!Freq(t) \in Nat
    BY DEF Lex!Freq
  <2> QED
    BY <2>1, <2>2
<1> HIDE DEF n
<1>2. step \in [1..n -> [Nat -> Nat]]
  BY <1>1
<1>3. \E f \in [0..n -> Nat] :
          f[0] = 0 /\ \A k \in 1..n : f[k] = step[k][f[k - 1]]
  <2>1. n \in Nat /\ 0 \in Nat
    BY <1>1
  <2>2. Rounds(n, Nat, step)
    BY <1>2, Zenon DEF Rounds
  <2> HIDE DEF step
  <2>3. Loop(n, Nat, 0, step)
    BY <2>1, <2>2, Iterated, Zenon
  <2> QED
    BY <2>3, Zenon DEF Loop
<1>4. PICK g \in [0..n -> Nat] :
          g[0] = 0 /\ \A k \in 1..n : g[k] = step[k][g[k - 1]]
  BY <1>3
<1>5. \A k \in 0..n : g[k] = IF k = 0 THEN 0 ELSE g[k - 1] + Lex!Freq(s[k])
  <2> SUFFICES ASSUME NEW k \in 0..n, k # 0
               PROVE  g[k] = g[k - 1] + Lex!Freq(s[k])
    BY <1>4
  <2>1. k \in 1..n /\ k - 1 \in 0..n
    BY <1>1
  <2>2. g[k - 1] \in Nat
    BY <2>1
  <2> QED
    BY <1>4, <2>1, <2>2
<1>6. \E f : f = F(f)
  <2>1. g = F(g)
    BY <1>5
  <2> QED
    BY <2>1
<1>7. upto = F(upto)
  BY <1>6, Zenon
<1> HIDE DEF upto
<1>8. \A k \in 0..n : upto[k] \in Nat
  <2> DEFINE T == {k \in 0..n : upto[k] \in Nat}
  <2>1. \A k \in 0..n : upto[k] = IF k = 0 THEN 0
                                  ELSE upto[k - 1] + Lex!Freq(s[k])
    BY <1>7
  <2>2. 0 \in T
    BY <1>1, <2>1
  <2>3. ASSUME NEW k \in 0..(n - 1), k \in T
        PROVE  k + 1 \in T
    <3>1. k + 1 \in 0..n /\ k + 1 # 0 /\ (k + 1) - 1 = k /\ k + 1 \in 1..n
      BY <1>1
    <3> QED
      BY <1>1, <2>1, <2>3, <3>1
  <2>4. \A k \in 0..n : k \in T
    <3> HIDE DEF T
    <3> QED
      BY <1>1, <2>2, <2>3, CountUp
  <2> QED
    BY <2>4
<1>9. Lex!Info(s, i) =
          IF i = 0 THEN Lex!Blank
          ELSE [term |-> s[i], doc_freq |-> Lex!Freq(s[i]),
                post_filepos |-> upto[i - 1]]
  BY Zenon DEF Lex!Info, upto, n
<1>10. CASE i = 0
  BY <1>9, <1>10 DEF Lex!Blank, Lex!Empty, Infos
<1>11. CASE i # 0
  <2>1. i \in 1..n /\ i - 1 \in 0..n
    BY <1>1, <1>11 DEF n
  <2>2. s[i] \in Nat /\ Lex!Freq(s[i]) \in Nat /\ upto[i - 1] \in Nat
    BY <1>1, <1>8, <2>1
  <2> QED
    BY <1>9, <1>11, <2>2 DEF Infos
<1> QED
  BY <1>10, <1>11

\* The lexicon is on its k-th term, before the first one or after the last.
At(s, k, l) ==
    IF k <= Len(s)
    THEN l = [pos |-> k, term_num |-> k - 1, info |-> Lex!Info(s, k)]
    ELSE \E p \in Nat :
             l = [pos |-> p, term_num |-> Len(s), info |-> Lex!Blank]

Places(s) == 0..(Len(s) + 1)

\* The files for some terms.
FileOf(f, s) ==
    /\ s \in Seq(Nat)
    /\ f.dat = [i \in 1..Len(s) |->
                   Lex!Delta(Lex!Info(s, i - 1), Lex!Info(s, i))]
    /\ f.ix = Lex!IndexOf(s)

LEMMA DatIs ==
    ASSUME NEW s, NEW f, FileOf(f, s)
    PROVE  Len(f.dat) = Len(s) /\ Len(s) \in Nat
           /\ DOMAIN f.dat = 1..Len(s)
<1>1. Len(s) \in Nat
  BY DEF FileOf
<1> QED
  BY <1>1 DEF FileOf

LEMMA ReadIs ==
    ASSUME NEW s, NEW f, FileOf(f, s), NEW k \in 1..Len(s)
    PROVE  Lex!ReadDelta(Lex!Info(s, k - 1), f.dat[k]) = Lex!Info(s, k)
<1> DEFINE a == Lex!Info(s, k - 1)
           b == Lex!Info(s, k)
<1>1. s \in Seq(Nat) /\ Len(s) \in Nat
  BY DatIs DEF FileOf
<1>2. k - 1 \in 0..Len(s) /\ k \in 0..Len(s)
  BY <1>1
<1>3. a \in Infos /\ b \in Infos
  BY <1>1, <1>2, InfoIs
<1>4. f.dat[k] = Lex!Delta(a, b)
  BY DEF FileOf
<1> HIDE DEF a, b
<1>5. a.post_filepos \in Nat /\ b.post_filepos \in Nat
      /\ a.term = a.term
      /\ b = [term |-> b.term, doc_freq |-> b.doc_freq,
              post_filepos |-> b.post_filepos]
  BY <1>3 DEF Infos
<1>6. a.post_filepos + (b.post_filepos - a.post_filepos) = b.post_filepos
  BY <1>5
<1>7. Lex!ReadDelta(a, Lex!Delta(a, b)) =
          [term |-> b.term, doc_freq |-> b.doc_freq,
           post_filepos |-> b.post_filepos]
  BY <1>6 DEF Lex!ReadDelta, Lex!Delta
<1> QED
  BY <1>4, <1>5, <1>7 DEF a, b

\* Next moves it one place on.
LEMMA NextIs ==
    ASSUME NEW s, NEW f, FileOf(f, s), NEW k \in Places(s), NEW l, At(s, k, l)
    PROVE  At(s, IF k = Len(s) + 1 THEN k ELSE k + 1, Lex!NextTerm(f, l))
<1>1. Len(f.dat) = Len(s) /\ Len(s) \in Nat /\ k \in Nat
  BY DatIs DEF Places
<1>2. CASE k < Len(s)
  <2>1. l = [pos |-> k, term_num |-> k - 1, info |-> Lex!Info(s, k)]
    BY <1>1, <1>2 DEF At
  <2>2. ~(l.term_num + 1 >= Len(f.dat))
    BY <1>1, <1>2, <2>1
  <2>3. Lex!NextTerm(f, l) =
            [pos |-> k + 1, term_num |-> (k - 1) + 1,
             info |-> Lex!ReadDelta(Lex!Info(s, k), f.dat[k + 1])]
    BY <2>1, <2>2 DEF Lex!NextTerm
  <2>4. k + 1 \in 1..Len(s) /\ (k + 1) - 1 = k /\ (k - 1) + 1 = k
        /\ k + 1 <= Len(s) /\ k # Len(s) + 1
    BY <1>1, <1>2
  <2>5. Lex!ReadDelta(Lex!Info(s, k), f.dat[k + 1]) = Lex!Info(s, k + 1)
    BY <2>4, ReadIs
  <2> QED
    BY <2>3, <2>4, <2>5 DEF At
<1>3. CASE k = Len(s)
  <2>1. l = [pos |-> k, term_num |-> k - 1, info |-> Lex!Info(s, k)]
    BY <1>1, <1>3 DEF At
  <2>2. l.term_num + 1 >= Len(f.dat)
    BY <1>1, <1>3, <2>1
  <2>3. Lex!NextTerm(f, l) =
            [pos |-> k, term_num |-> Len(s), info |-> Lex!Blank]
    BY <1>1, <2>1, <2>2 DEF Lex!NextTerm
  <2>4. ~(k + 1 <= Len(s)) /\ k # Len(s) + 1
    BY <1>1, <1>3
  <2> QED
    BY <1>1, <2>3, <2>4 DEF At
<1>4. CASE k = Len(s) + 1
  <2>1. ~(k <= Len(s))
    BY <1>1, <1>4
  <2>2. PICK p \in Nat :
            l = [pos |-> p, term_num |-> Len(s), info |-> Lex!Blank]
    BY <2>1 DEF At
  <2>3. l.term_num + 1 >= Len(f.dat)
    BY <1>1, <2>2
  <2>4. Lex!NextTerm(f, l) =
            [pos |-> p, term_num |-> Len(s), info |-> Lex!Blank]
    BY <1>1, <2>2, <2>3 DEF Lex!NextTerm
  <2> QED
    BY <1>4, <2>1, <2>4 DEF At
<1> QED
  BY <1>1, <1>2, <1>3, <1>4 DEF Places

\* What can be told of a lexicon in a place.
LEMMA AtFacts ==
    ASSUME NEW s \in Seq(Nat), NEW k \in Places(s), NEW l, At(s, k, l)
    PROVE  /\ k = 0 => l.term_num = -1
           /\ k \in 1..Len(s) => /\ l.term_num \in 0..(Len(s) - 1)
                                 /\ l.term_num = k - 1
                                 /\ l.info = Lex!Info(s, k)
                                 /\ Lex!Get_Term(l) = s[k]
           /\ k = Len(s) + 1 => /\ l.term_num = Len(s)
                                /\ l.info = Lex!Blank
                                /\ Lex!Get_Term(l) = 0
<1>1. Len(s) \in Nat /\ k \in Nat
  BY DEF Places
<1>2. CASE k <= Len(s)
  <2>1. l = [pos |-> k, term_num |-> k - 1, info |-> Lex!Info(s, k)]
    BY <1>2 DEF At
  <2>2. k \in 0..Len(s)
    BY <1>1, <1>2
  <2>3. Lex!Info(s, k).term = IF k = 0 THEN 0 ELSE s[k]
    BY <2>2, InfoIs
  <2>4. l.term_num = k - 1 /\ l.info = Lex!Info(s, k)
        /\ Lex!Get_Term(l) = Lex!Info(s, k).term
    BY <2>1 DEF Lex!Get_Term
  <2> QED
    BY <1>1, <1>2, <2>3, <2>4
<1>3. CASE ~(k <= Len(s))
  <2>1. PICK p \in Nat :
            l = [pos |-> p, term_num |-> Len(s), info |-> Lex!Blank]
    BY <1>3 DEF At
  <2>2. l.term_num = Len(s) /\ l.info = Lex!Blank /\ Lex!Get_Term(l) = 0
    BY <2>1 DEF Lex!Get_Term, Lex!Blank, Lex!Empty
  <2> QED
    BY <1>1, <1>3, <2>2
<1> QED
  BY <1>2, <1>3

-----------------------------------------------------------------------------
(* The binary search.                                                      *)

Middle(s) == s.lo + ((s.hi - s.lo) \div 2)

Halved(ix, target, s) ==
    LET term == ix[Middle(s) + 1].info.term
    IN  IF s.hi < s.lo \/ target = term THEN s
        ELSE IF target < term THEN [s EXCEPT !.hi = Middle(s) - 1]
        ELSE [s EXCEPT !.lo = Middle(s) + 1]

\* What is left to search, with only lesser entries before it.
Searches(ix, target) ==
    {s \in [lo : 0..Len(ix), hi : -1..(Len(ix) - 1)] :
        /\ s.lo <= s.hi + 1
        /\ s.lo > 0 => ix[s.lo].info.term < target}

\* The search has hit, or has halved n times.
Searched(ix, target, n, s) ==
    \/ s.lo <= s.hi /\ ix[Middle(s) + 1].info.term = target
    \/ s.hi - s.lo + 1 <= Len(ix) - n

LEMMA MiddleIs ==
    ASSUME NEW lo \in Int, NEW hi \in Int, lo <= hi,
           NEW s, s.lo = lo, s.hi = hi
    PROVE  Middle(s) \in lo..hi
<1>1. (hi - lo) \div 2 \in 0..(hi - lo)
  OBVIOUS
<1> QED
  BY <1>1 DEF Middle

LEMMA HalvedIs ==
    ASSUME NEW ix, Len(ix) \in Nat, NEW target \in Nat,
           \A k \in 1..Len(ix) : ix[k].info.term \in Nat,
           NEW s \in Searches(ix, target)
    PROVE  /\ Halved(ix, target, s) \in Searches(ix, target)
           /\ \A n \in 0..(Len(ix) - 1) :
                  Searched(ix, target, n, s)
                      => Searched(ix, target, n + 1, Halved(ix, target, s))
<1> DEFINE t == ix[Middle(s) + 1].info.term
           m == Middle(s)
           r == Halved(ix, target, s)
           L == Len(ix)
<1>1. /\ L \in Nat /\ s \in [lo : 0..L, hi : -1..(L - 1)]
      /\ s.lo \in 0..L /\ s.hi \in -1..(L - 1) /\ s.lo <= s.hi + 1
      /\ s.lo > 0 => ix[s.lo].info.term < target
  BY DEF Searches
<1>2. r = IF s.hi < s.lo \/ target = t THEN s
          ELSE IF target < t THEN [s EXCEPT !.hi = m - 1]
          ELSE [s EXCEPT !.lo = m + 1]
  BY DEF Halved
<1> HIDE DEF t, m, r, L
<1>3. CASE s.hi < s.lo
  <2>1. r = s
    BY <1>2, <1>3
  <2>2. ASSUME NEW n \in 0..(L - 1)
        PROVE  Searched(ix, target, n + 1, s)
    BY <1>1, <1>3, <2>2 DEF Searched, L
  <2> QED
    BY <2>1, <2>2 DEF r, L
<1>4. CASE ~(s.hi < s.lo)
  <2>1. m \in s.lo..s.hi /\ m + 1 \in 1..L /\ t \in Nat
    <3>1. s.lo \in Int /\ s.hi \in Int /\ s.lo <= s.hi
      BY <1>1, <1>4
    <3>2. m \in s.lo..s.hi
      BY <3>1, MiddleIs DEF m
    <3>3. m + 1 \in 1..L
      BY <1>1, <3>1, <3>2
    <3> QED
      BY <3>2, <3>3 DEF t, m, L
  <2>2. CASE target = t
    <3>1. r = s /\ s.lo <= s.hi
      BY <1>1, <1>2, <1>4, <2>2
    <3> QED
      BY <2>2, <3>1 DEF r, t, Searched
  <2>3. CASE target < t
    <3>1. target # t /\ r = [s EXCEPT !.hi = m - 1]
      BY <1>2, <1>4, <2>1, <2>3
    <3>2. /\ r \in [lo : 0..L, hi : -1..(L - 1)]
          /\ r.lo = s.lo /\ r.hi = m - 1
      BY <1>1, <2>1, <3>1
    <3>3. r \in Searches(ix, target)
      <4>1. r.lo <= r.hi + 1
        BY <1>1, <2>1, <3>2
      <4> QED
        BY <1>1, <3>2, <4>1 DEF Searches, L
    <3>4. ASSUME NEW n \in 0..(L - 1), Searched(ix, target, n, s)
          PROVE  Searched(ix, target, n + 1, r)
      <4>1. s.hi - s.lo + 1 <= L - n
        BY <3>1, <3>4 DEF Searched, t, m, L
      <4>2. r.hi - r.lo + 1 <= L - (n + 1)
        BY <1>1, <2>1, <3>2, <4>1
      <4> QED
        BY <4>2 DEF Searched, L
    <3> QED
      BY <3>3, <3>4 DEF r, L
  <2>4. CASE target > t
    <3>1. target # t /\ ~(target < t) /\ r = [s EXCEPT !.lo = m + 1]
      BY <1>2, <1>4, <2>1, <2>4
    <3>2. /\ r \in [lo : 0..L, hi : -1..(L - 1)]
          /\ r.lo = m + 1 /\ r.hi = s.hi
      BY <1>1, <2>1, <3>1
    <3>3. r \in Searches(ix, target)
      <4>1. r.lo <= r.hi + 1
        BY <1>1, <2>1, <3>2
      <4>2. ix[r.lo].info.term < target
        BY <2>1, <2>4, <3>2 DEF t, m
      <4> QED
        BY <1>1, <3>2, <4>1, <4>2 DEF Searches, L
    <3>4. ASSUME NEW n \in 0..(L - 1), Searched(ix, target, n, s)
          PROVE  Searched(ix, target, n + 1, r)
      <4>1. s.hi - s.lo + 1 <= L - n
        BY <3>1, <3>4 DEF Searched, t, m, L
      <4>2. r.hi - r.lo + 1 <= L - (n + 1)
        BY <1>1, <2>1, <3>2, <4>1
      <4> QED
        BY <4>2 DEF Searched, L
    <3> QED
      BY <3>3, <3>4 DEF r, L
  <2> QED
    BY <2>1, <2>2, <2>3, <2>4
<1> QED
  BY <1>3, <1>4

LEMMA TickIs ==
    ASSUME NEW ix, Len(ix) \in Nat \ {0}, NEW target \in Nat,
           \A k \in 1..Len(ix) : ix[k].info.term \in Nat
    PROVE  LET tick == Lex!Tick(ix, target)
           IN  /\ tick \in 0..(Len(ix) - 1)
               /\ tick > 0 => ix[tick + 1].info.term <= target
<1> DEFINE L == Len(ix)
           S == Searches(ix, target)
           all == [lo |-> 0, hi |-> L - 1]
           step == [k \in 1..L |-> [s \in S |-> Halved(ix, target, s)]]
           F(f) == [k \in 0..L |-> IF k = 0 THEN all
                                   ELSE Halved(ix, target, f[k - 1])]
           after == CHOOSE f : f = F(f)
           last == after[L]
<1>1. L \in Nat /\ L > 0 /\ all \in S /\ Searched(ix, target, 0, all)
  BY DEF Searches, Searched
<1>2. \A s \in S : Halved(ix, target, s) \in S
  BY HalvedIs
<1> HIDE DEF S, all
<1>3. Loop(L, S, all, step)
  <2>1. Rounds(L, S, step)
    BY <1>2 DEF Rounds
  <2> HIDE DEF step, L
  <2> QED
    BY <1>1, <2>1, Iterated, Zenon
<1>4. PICK g \in [0..L -> S] :
          g[0] = all /\ \A k \in 1..L : g[k] = step[k][g[k - 1]]
  BY <1>3, Zenon DEF Loop
<1> HIDE DEF L
<1>5. g = F(g)
  <2>1. ASSUME NEW k \in 0..L
        PROVE  g[k] = IF k = 0 THEN all ELSE Halved(ix, target, g[k - 1])
    <3>1. CASE k = 0
      BY <1>4, <3>1
    <3>2. CASE k # 0
      <4>1. k \in 1..L /\ k - 1 \in 0..L
        BY <1>1, <3>2
      <4>2. g[k - 1] \in S
        BY <4>1
      <4> QED
        BY <1>4, <3>2, <4>1, <4>2
    <3> QED
      BY <3>1, <3>2
  <2> QED
    BY <2>1
<1>6. after = F(after)
  <2>1. \E f : f = F(f)
    BY <1>5
  <2> QED
    BY <2>1, Zenon
<1> HIDE DEF after
<1>7. \A k \in 0..L : after[k] = IF k = 0 THEN all
                                 ELSE Halved(ix, target, after[k - 1])
  BY <1>6
<1>8. last \in S /\ Searched(ix, target, L, last)
  <2> DEFINE T == {k \in 0..L :
                      after[k] \in S /\ Searched(ix, target, k, after[k])}
  <2>1. 0 \in T
    BY <1>1, <1>7
  <2>2. ASSUME NEW k \in 0..(L - 1), k \in T
        PROVE  k + 1 \in T
    <3>1. k + 1 \in 0..L /\ k + 1 # 0 /\ (k + 1) - 1 = k
      BY <1>1
    <3>2. after[k + 1] = Halved(ix, target, after[k])
      BY <1>7, <3>1
    <3>3. after[k] \in S /\ Searched(ix, target, k, after[k])
      BY <2>2
    <3>4. /\ after[k + 1] \in S
          /\ Searched(ix, target, k + 1, after[k + 1])
      BY <1>1, <3>2, <3>3, HalvedIs DEF S, L
    <3> QED
      BY <3>1, <3>4
  <2>3. \A k \in 0..L : k \in T
    <3> HIDE DEF T
    <3> QED
      BY <1>1, <2>1, <2>2, CountUp
  <2>4. L \in T
    BY <1>1, <2>3
  <2> QED
    BY <2>4
<1>9. Lex!Tick(ix, target) =
          IF last.hi < last.lo THEN Lex!Max({last.hi, 0}) ELSE Middle(last)
  BY Zenon DEF Lex!Tick, Lex!Repeat, Halved, Middle, after, L, all
<1> HIDE DEF last
<1>10. /\ last.lo \in 0..L /\ last.hi \in -1..(L - 1)
       /\ last.lo <= last.hi + 1
       /\ last.lo > 0 => ix[last.lo].info.term < target
  BY <1>8 DEF S, Searches, L
<1>11. CASE last.hi < last.lo
  <2>1. last.hi = last.lo - 1
    BY <1>10, <1>11
  <2>2. Lex!Max({last.hi, 0}) = IF last.hi < 0 THEN 0 ELSE last.hi
    <3> DEFINE M == Lex!Max({last.hi, 0})
    <3>1. \E x \in {last.hi, 0} : \A y \in {last.hi, 0} : x >= y
      BY <1>10
    <3>2. M \in {last.hi, 0} /\ \A y \in {last.hi, 0} : M >= y
      BY <3>1, Zenon DEF Lex!Max
    <3> HIDE DEF M
    <3>3. M = IF last.hi < 0 THEN 0 ELSE last.hi
      BY <1>10, <3>2
    <3> QED
      BY <3>3 DEF M
  <2>3. CASE last.hi < 0
    BY <1>1, <1>9, <1>11, <2>2, <2>3 DEF L
  <2>4. CASE ~(last.hi < 0)
    <3>1. Lex!Tick(ix, target) = last.hi /\ last.lo > 0
          /\ last.hi \in 0..(L - 1) /\ last.hi + 1 = last.lo
      BY <1>1, <1>9, <1>10, <1>11, <2>1, <2>2, <2>4
    <3>2. ix[last.hi + 1].info.term < target
          /\ ix[last.hi + 1].info.term \in Nat
      <4>1. last.lo \in 1..Len(ix)
        BY <1>10, <3>1 DEF L
      <4> QED
        BY <1>10, <3>1, <4>1
    <3> QED
      BY <3>1, <3>2 DEF L
  <2> QED
    BY <2>3, <2>4
<1>12. CASE ~(last.hi < last.lo)
  <2>1. last.lo \in Int /\ last.hi \in Int /\ last.lo <= last.hi
    BY <1>1, <1>10, <1>12
  <2>2. Middle(last) \in last.lo..last.hi
    BY <2>1, MiddleIs
  <2>3. Middle(last) \in 0..(L - 1)
    BY <1>1, <1>10, <2>2
  <2>4. ix[Middle(last) + 1].info.term = target
    BY <1>1, <1>8, <2>1 DEF Searched, L
  <2> QED
    BY <1>9, <1>12, <2>3, <2>4 DEF L
<1> QED
  BY <1>11, <1>12

-----------------------------------------------------------------------------
(* The scan to a term, and Seek.                                           *)

Rising(s) == \A i, j \in 1..Len(s) : i < j => s[i] < s[j]

\* The terms before place k are less than the target.
Below(s, target, k) == \A j \in 1..(k - 1) : j <= Len(s) => s[j] < target

\* The first place from which the terms are not less.
FirstPlace(s, target, k) ==
    k # 0 /\ Below(s, target, k) /\ (k <= Len(s) => s[k] >= target)

Stays(f, target, l) == \/ Lex!Get_Term(l) >= target /\ l.term_num # -1
                       \/ Lex!Exhausted(f, l)

Advanced(f, target, l) ==
    IF Stays(f, target, l) THEN l ELSE Lex!NextTerm(f, l)

\* There after n steps, or n places on.
Scanned(s, target, n, l) ==
    \E k \in Places(s) : /\ At(s, k, l) /\ Below(s, target, k)
                         /\ FirstPlace(s, target, k) \/ k >= n

LEMMA AdvancedIs ==
    ASSUME NEW s, NEW f, FileOf(f, s), NEW target \in Nat, NEW l, NEW n \in Nat,
           Scanned(s, target, n, l)
    PROVE  Scanned(s, target, n + 1, Advanced(f, target, l))
<1>1. PICK k \in Places(s) : /\ At(s, k, l) /\ Below(s, target, k)
                             /\ FirstPlace(s, target, k) \/ k >= n
  BY DEF Scanned
<1>2. /\ s \in Seq(Nat) /\ Len(s) \in Nat /\ Len(f.dat) = Len(s)
      /\ k \in 0..(Len(s) + 1)
      /\ \A j \in 1..Len(s) : s[j] \in Nat
  BY DatIs DEF FileOf, Places
<1>3. CASE Stays(f, target, l)
  <2>1. k # 0
    <3> SUFFICES ASSUME k = 0
                 PROVE  FALSE
      OBVIOUS
    <3>1. l.term_num = -1
      BY <1>1, <1>2, AtFacts
    <3> QED
      BY <1>2, <1>3, <3>1 DEF Stays, Lex!Exhausted
  <2>2. k <= Len(s) => s[k] >= target
    <3> SUFFICES ASSUME k <= Len(s)
                 PROVE  s[k] >= target
      OBVIOUS
    <3>1. k \in 1..Len(s)
      BY <1>2, <2>1
    <3>2. l.term_num = k - 1 /\ Lex!Get_Term(l) = s[k]
      BY <1>1, <1>2, <3>1, AtFacts
    <3> QED
      BY <1>2, <1>3, <3>1, <3>2 DEF Stays, Lex!Exhausted
  <2>3. FirstPlace(s, target, k)
    BY <1>1, <2>1, <2>2 DEF FirstPlace
  <2>4. Advanced(f, target, l) = l
    BY <1>3 DEF Advanced
  <2> QED
    BY <1>1, <2>3, <2>4 DEF Scanned
<1>4. CASE ~Stays(f, target, l)
  <2>1. /\ ~(Lex!Get_Term(l) >= target /\ l.term_num # -1)
        /\ ~Lex!Exhausted(f, l)
        /\ Advanced(f, target, l) = Lex!NextTerm(f, l)
    BY <1>4 DEF Advanced, Stays
  <2>2. k # Len(s) + 1
    <3> SUFFICES ASSUME k = Len(s) + 1
                 PROVE  FALSE
      OBVIOUS
    <3>1. l.term_num = Len(s)
      BY <1>1, <1>2, AtFacts
    <3> QED
      BY <1>2, <2>1, <3>1 DEF Lex!Exhausted
  <2>3. k + 1 \in Places(s) /\ At(s, k + 1, Advanced(f, target, l))
    BY <1>1, <1>2, <2>1, <2>2, NextIs DEF Places
  <2>4. k # 0 => s[k] < target
    <3> SUFFICES ASSUME k # 0
                 PROVE  s[k] < target
      OBVIOUS
    <3>1. k \in 1..Len(s)
      BY <1>2, <2>2
    <3>2. l.term_num = k - 1 /\ Lex!Get_Term(l) = s[k]
      BY <1>1, <1>2, <3>1, AtFacts
    <3> QED
      BY <1>2, <2>1, <3>1, <3>2
  <2>5. k >= n
    <3>1. ~FirstPlace(s, target, k)
      BY <1>2, <2>2, <2>4 DEF FirstPlace
    <3> QED
      BY <1>1, <3>1
  <2>6. Below(s, target, k + 1)
    <3> SUFFICES ASSUME NEW j \in 1..((k + 1) - 1), j <= Len(s)
                 PROVE  s[j] < target
      BY DEF Below
    <3>1. CASE j = k
      BY <2>4, <3>1
    <3>2. CASE j # k
      <4>1. j \in 1..(k - 1)
        BY <1>2, <3>2
      <4> QED
        BY <1>1, <4>1 DEF Below
    <3> QED
      BY <3>1, <3>2
  <2>7. k + 1 >= n + 1
    BY <1>2, <2>5
  <2> QED
    BY <2>3, <2>6, <2>7 DEF Scanned
<1> QED
  BY <1>3, <1>4

Steppers(s) == {y \in [pos : Nat, term_num : Int, info : Infos] :
                   \E k \in Places(s) : At(s, k, y)}

LEMMA AtTyped ==
    ASSUME NEW s \in Seq(Nat), NEW k \in Places(s), NEW l, At(s, k, l)
    PROVE  l \in Steppers(s)
<1>1. Len(s) \in Nat /\ k \in Nat
  BY DEF Places
<1>2. CASE k <= Len(s)
  <2>1. l = [pos |-> k, term_num |-> k - 1, info |-> Lex!Info(s, k)]
    BY <1>2 DEF At
  <2>2. k \in 0..Len(s)
    BY <1>1, <1>2
  <2>3. Lex!Info(s, k) \in Infos
    BY <2>2, InfoIs
  <2>4. l \in [pos : Nat, term_num : Int, info : Infos]
    BY <1>1, <2>1, <2>3
  <2> QED
    BY <2>4 DEF Steppers
<1>3. CASE ~(k <= Len(s))
  <2>1. PICK p \in Nat :
            l = [pos |-> p, term_num |-> Len(s), info |-> Lex!Blank]
    BY <1>3 DEF At
  <2>2. Lex!Blank \in Infos
    BY DEF Lex!Blank, Lex!Empty, Infos
  <2>3. l \in [pos : Nat, term_num : Int, info : Infos]
    BY <1>1, <2>1, <2>2
  <2> QED
    BY <2>3 DEF Steppers
<1> QED
  BY <1>2, <1>3

LEMMA ScanIs ==
    ASSUME NEW s, NEW f, FileOf(f, s), NEW target \in Nat, NEW l,
           NEW k \in Places(s), At(s, k, l), Below(s, target, k)
    PROVE  \E m \in Places(s) : /\ At(s, m, Lex!S_scan_to(f, l, target))
                                /\ FirstPlace(s, target, m)
<1> DEFINE N == Len(f.dat) + 1
           S == Steppers(s)
           step == [n \in 1..N |-> [x \in S |-> Advanced(f, target, x)]]
           F(g) == [n \in 0..N |-> IF n = 0 THEN l
                                   ELSE Advanced(f, target, g[n - 1])]
           after == CHOOSE g : g = F(g)
<1>1. /\ s \in Seq(Nat) /\ Len(s) \in Nat /\ N = Len(s) + 1 /\ N \in Nat
      /\ k \in Nat
  BY DatIs DEF FileOf, Places
<1>2. l \in S
  BY <1>1, AtTyped
<1>3. \A x \in S : Advanced(f, target, x) \in S
  <2> SUFFICES ASSUME NEW x \in S
               PROVE  Advanced(f, target, x) \in S
    OBVIOUS
  <2>1. PICK m \in Places(s) : At(s, m, x)
    BY DEF Steppers
  <2>2. At(s, IF m = Len(s) + 1 THEN m ELSE m + 1, Lex!NextTerm(f, x))
    BY <2>1, NextIs
  <2>3. (IF m = Len(s) + 1 THEN m ELSE m + 1) \in Places(s)
    BY <1>1 DEF Places
  <2>4. Lex!NextTerm(f, x) \in S
    BY <1>1, <2>2, <2>3, AtTyped
  <2> QED
    BY <2>4 DEF Advanced
<1> HIDE DEF S, N
<1>4. Loop(N, S, l, step)
  <2>1. Rounds(N, S, step)
    BY <1>3 DEF Rounds
  <2> HIDE DEF step
  <2> QED
    BY <1>1, <1>2, <2>1, Iterated, Zenon
<1>5. PICK g \in [0..N -> S] :
          g[0] = l /\ \A n \in 1..N : g[n] = step[n][g[n - 1]]
  BY <1>4, Zenon DEF Loop
<1>6. g = F(g)
  <2>1. ASSUME NEW n \in 0..N
        PROVE  g[n] = IF n = 0 THEN l ELSE Advanced(f, target, g[n - 1])
    <3>1. CASE n = 0
      BY <1>5, <3>1
    <3>2. CASE n # 0
      <4>1. n \in 1..N /\ n - 1 \in 0..N
        BY <1>1, <3>2
      <4>2. g[n - 1] \in S
        BY <4>1
      <4> QED
        BY <1>5, <3>2, <4>1, <4>2
    <3> QED
      BY <3>1, <3>2
  <2> QED
    BY <2>1
<1>7. after = F(after)
  <2>1. \E h : h = F(h)
    BY <1>6
  <2> QED
    BY <2>1, Zenon
<1> HIDE DEF after
<1>8. \A n \in 0..N : after[n] = IF n = 0 THEN l
                                 ELSE Advanced(f, target, after[n - 1])
  BY <1>7
<1>9. Scanned(s, target, N, after[N])
  <2> DEFINE T == {n \in 0..N : Scanned(s, target, n, after[n])}
  <2>1. 0 \in T
    <3>1. after[0] = l /\ 0 \in 0..N /\ k >= 0
      BY <1>1, <1>8
    <3>2. Scanned(s, target, 0, l)
      BY <3>1 DEF Scanned
    <3> QED
      BY <3>1, <3>2
  <2>2. ASSUME NEW n \in 0..(N - 1), n \in T
        PROVE  n + 1 \in T
    <3>1. n \in Nat /\ n + 1 \in 0..N /\ n + 1 # 0 /\ (n + 1) - 1 = n
      BY <1>1
    <3>2. after[n + 1] = Advanced(f, target, after[n])
      BY <1>8, <3>1
    <3>3. Scanned(s, target, n, after[n])
      BY <2>2
    <3>4. Scanned(s, target, n + 1, after[n + 1])
      BY <3>1, <3>2, <3>3, AdvancedIs
    <3> QED
      BY <3>1, <3>4
  <2>3. \A n \in 0..N : n \in T
    <3> HIDE DEF T
    <3> QED
      BY <1>1, <2>1, <2>2, CountUp
  <2>4. N \in T
    BY <1>1, <2>3
  <2> QED
    BY <2>4
<1>10. Lex!S_scan_to(f, l, target) = after[N]
  BY Zenon DEF Lex!S_scan_to, Lex!Repeat, Advanced, Stays, after, N
<1>11. PICK m \in Places(s) : /\ At(s, m, after[N]) /\ Below(s, target, m)
                              /\ FirstPlace(s, target, m) \/ m >= N
  BY <1>9 DEF Scanned
<1>12. CASE m >= N
  <2>1. m = Len(s) + 1 /\ m # 0 /\ ~(m <= Len(s))
    BY <1>1, <1>12 DEF Places
  <2>2. FirstPlace(s, target, m)
    BY <1>11, <2>1 DEF FirstPlace
  <2> QED
    BY <1>10, <1>11, <2>2
<1> QED
  BY <1>10, <1>11, <1>12

\* Where a Seek ends, whatever entry of the index it starts from.
LEMMA SeekIs ==
    ASSUME LexConstantsOK, NEW s, NEW f, FileOf(f, s), Len(s) > 0, Rising(s),
           NEW target \in Nat
    PROVE  \E m \in Places(s) : /\ At(s, m, Lex!SeekTerm(f, target))
                                /\ FirstPlace(s, target, m)
<1> DEFINE I == IndexInterval
           n == Len(s)
           L == (n + I - 1) \div I
           tick == Lex!Tick(f.ix, target)
           k == tick * I
           l == [pos |-> k, term_num |-> I * tick - 1, info |-> Lex!Info(s, k)]
<1>1. /\ s \in Seq(Nat) /\ n \in Nat /\ n > 0 /\ I \in Nat /\ I > 0
      /\ \A j \in 1..n : s[j] \in Nat
  BY DEF FileOf, LexConstantsOK
<1>2. f.ix = [j \in 1..L |-> [info |-> Lex!Info(s, (j - 1) * I),
                              lex_filepos |-> (j - 1) * I]]
  BY DEF FileOf, Lex!IndexOf
<1>3. /\ L \in Nat /\ (n + I - 1) % I \in 0..(I - 1)
      /\ n + I - 1 = I * L + ((n + I - 1) % I)
  <2>1. n + I - 1 \in Nat /\ I \in Nat \ {0}
    BY <1>1
  <2> QED
    BY <2>1, DivMod
<1> HIDE DEF L, n
<1>4. I * L <= n + I - 1 /\ L # 0
  BY <1>1, <1>3
<1>5. ASSUME NEW j \in 0..(L - 1)
      PROVE  j * I \in 0..(n - 1)
  <2>1. j + 1 \in Nat /\ L \in Nat /\ j + 1 <= L
    BY <1>3
  <2>2. I * (j + 1) <= I * L
    BY <1>1, <2>1, TimesMonotonic
  <2>3. I * (j + 1) = j * I + I /\ j * I \in Nat
    BY <1>1, <2>1
  <2> HIDE DEF I
  <2>4. j * I <= n - 1
    <3>1. I * L \in Nat
      BY <1>1, <2>1
    <3> QED
      BY <1>1, <1>4, <2>2, <2>3, <3>1
  <2> QED
    BY <1>1, <2>3, <2>4
<1>6. Len(f.ix) = L /\ Len(f.ix) \in Nat \ {0}
  BY <1>2, <1>3, <1>4
<1>7. ASSUME NEW j \in 1..L
      PROVE  /\ f.ix[j].info = Lex!Info(s, (j - 1) * I)
             /\ f.ix[j].lex_filepos = (j - 1) * I
             /\ f.ix[j].info.term \in Nat
  <2>1. (j - 1) * I \in 0..n
    <3>1. j - 1 \in 0..(L - 1)
      BY <1>3
    <3>2. (j - 1) * I \in 0..(n - 1)
      BY <1>5, <3>1
    <3> QED
      BY <1>1, <3>2
  <2>2. Lex!Info(s, (j - 1) * I).term \in Nat
    BY <1>1, <2>1, InfoIs DEF n, Infos
  <2> QED
    BY <1>2, <2>2
<1>8. /\ tick \in 0..(L - 1)
      /\ tick > 0 => f.ix[tick + 1].info.term <= target
  BY <1>6, <1>7, TickIs
<1> HIDE DEF tick
<1>9. /\ k \in 0..(n - 1) /\ tick + 1 \in 1..L /\ (tick + 1) - 1 = tick
      /\ I * tick = k
  <2>1. k \in 0..(n - 1)
    BY <1>5, <1>8
  <2>2. tick \in Nat /\ tick + 1 \in 1..L /\ (tick + 1) - 1 = tick
    BY <1>3, <1>8
  <2>3. I * tick = k
    BY <1>1, <2>2
  <2> QED
    BY <2>1, <2>2, <2>3
<1>10. /\ f.ix[tick + 1].info = Lex!Info(s, k)
       /\ f.ix[tick + 1].lex_filepos = k
  BY <1>7, <1>9
<1>11. Lex!SeekTerm(f, target) = Lex!S_scan_to(f, l, target)
  BY <1>10, Zenon DEF Lex!SeekTerm, tick, l, I
<1>12. At(s, k, l) /\ k \in Places(s)
  <2> HIDE DEF k, I
  <2>1. k <= Len(s) /\ k \in Places(s)
    BY <1>1, <1>9 DEF Places, n
  <2> QED
    BY <1>9, <2>1 DEF At
<1>13. Below(s, target, k)
  <2> SUFFICES ASSUME NEW j \in 1..(k - 1)
               PROVE  s[j] < target
    BY DEF Below
  <2>1. k \in 1..n /\ j \in 1..n /\ j < k
    BY <1>1, <1>9
  <2>2. tick > 0
    <3> SUFFICES ASSUME tick = 0
                 PROVE  FALSE
      BY <1>3, <1>8
    <3>1. k = 0
      BY <1>1
    <3> QED
      BY <2>1, <3>1
  <2>3. Lex!Info(s, k).term = s[k]
    BY <1>1, <2>1, InfoIs DEF n
  <2>4. s[k] <= target
    BY <1>8, <1>10, <2>2, <2>3
  <2>5. s[j] < s[k] /\ s[j] \in Nat /\ s[k] \in Nat
    BY <1>1, <2>1 DEF Rising, n
  <2> QED
    BY <2>4, <2>5
<1> HIDE DEF k, l
<1> QED
  BY <1>11, <1>12, <1>13, ScanIs

-----------------------------------------------------------------------------
(* An iterator over the terms.                                             *)

\* What the iterator is on.
LexCurrent(f, l) ==
    IF l.term_num = -1 THEN -1
    ELSE IF l.term_num \in 0..(Len(f.dat) - 1) THEN Lex!Get_Term(l)
    ELSE -2

\* What it is on in a place.
ItemAt(s, k) == IF k = 0 THEN -1 ELSE IF k <= Len(s) THEN s[k] ELSE -2

\* The files have all terms of the field, in order.
HasTerms(s, terms) ==
    /\ terms \in SUBSET Nat /\ terms \subseteq LexTerms
    /\ FileOf(lex_file, s) /\ Len(s) > 0 /\ Rising(s)
    /\ \A k \in 1..Len(s) : s[k] \in terms
    /\ \A t \in terms : \E k \in 1..Len(s) : s[k] = t
    /\ s = Lex!Sorted(terms)

\* What a look-up returns.
Answer(s, terms, t, info) ==
    /\ t \notin terms => info = Lex!Blank
    /\ \A k \in 1..Len(s) : s[k] = t => info = Lex!Info(s, k)

LexInv ==
    \E terms, s :
        /\ HasTerms(s, terms)
        /\ \E k \in Places(s) : At(s, k, lex)
        /\ \/ found[1] = Lex!Null
           \/ found[1] \in LexTerms /\ Answer(s, terms, found[1], found[2])

LEMMA LexCurrentIs ==
    ASSUME NEW s, NEW f, FileOf(f, s), NEW k \in Places(s), NEW l, At(s, k, l)
    PROVE  /\ LexCurrent(f, l) = ItemAt(s, k)
           /\ l.term_num \in 0..(Len(f.dat) - 1) <=> k \in 1..Len(s)
<1>1. /\ s \in Seq(Nat) /\ Len(s) \in Nat /\ Len(f.dat) = Len(s)
      /\ k \in 0..(Len(s) + 1)
  BY DatIs DEF FileOf, Places
<1>2. CASE k = 0
  <2>1. l.term_num = -1
    BY <1>1, <1>2, AtFacts
  <2> QED
    BY <1>1, <1>2, <2>1 DEF LexCurrent, ItemAt
<1>3. CASE k \in 1..Len(s)
  <2>1. l.term_num \in 0..(Len(s) - 1) /\ Lex!Get_Term(l) = s[k]
    BY <1>1, <1>3, AtFacts
  <2> QED
    BY <1>1, <1>3, <2>1 DEF LexCurrent, ItemAt
<1>4. CASE k = Len(s) + 1
  <2>1. l.term_num = Len(s)
    BY <1>1, <1>4, AtFacts
  <2> QED
    BY <1>1, <1>4, <2>1 DEF LexCurrent, ItemAt
<1> QED
  BY <1>1, <1>2, <1>3, <1>4

LEMMA TermsAre ==
    ASSUME NEW s, NEW terms, HasTerms(s, terms)
    PROVE  Lex!terms = terms
<1>1. s \in Seq(Nat) /\ Len(s) \in Nat /\ DOMAIN lex_file.dat = 1..Len(s)
  BY DatIs DEF HasTerms, FileOf
<1>2. \A k \in 1..Len(s) : lex_file.dat[k].term = s[k]
  <2> SUFFICES ASSUME NEW k \in 1..Len(s)
               PROVE  lex_file.dat[k].term = s[k]
    OBVIOUS
  <2>1. lex_file.dat[k].term = Lex!Info(s, k).term
    BY DEF HasTerms, FileOf, Lex!Delta
  <2>2. Lex!Info(s, k).term = s[k]
    BY <1>1, InfoIs
  <2> QED
    BY <2>1, <2>2
<1>3. Lex!terms = {lex_file.dat[i].term : i \in 1..Len(s)}
  BY <1>1 DEF Lex!terms
<1>4. Lex!terms = {s[i] : i \in 1..Len(s)}
  BY <1>2, <1>3
<1>5. /\ \A k \in 1..Len(s) : s[k] \in terms
      /\ \A t \in terms : \E k \in 1..Len(s) : s[k] = t
  BY DEF HasTerms
<1> QED
  BY <1>4, <1>5

\* The first term from a target on is in the first place from it on.
LEMMA FirstIs ==
    ASSUME NEW s, NEW terms, HasTerms(s, terms), NEW k \in Places(s),
           NEW target \in Nat, FirstPlace(s, target, k)
    PROVE  Lex!Iterator!FirstFrom(target) = ItemAt(s, k)
<1> DEFINE T == {t \in terms : t >= target}
           M == Lex!Iterator!Min(T)
<1>1. /\ s \in Seq(Nat) /\ Len(s) \in Nat /\ k \in 1..(Len(s) + 1)
      /\ \A j \in 1..Len(s) : s[j] \in Nat /\ s[j] \in terms
      /\ \A t \in terms : t \in Nat /\ \E j \in 1..Len(s) : s[j] = t
      /\ \A i, j \in 1..Len(s) : i < j => s[i] < s[j]
  BY DatIs DEF HasTerms, FileOf, Places, FirstPlace, Rising
<1>2. \A j \in 1..Len(s) : j < k => s[j] < target
  BY <1>1 DEF FirstPlace, Below
<1>3. Lex!Iterator!FirstFrom(target) =
          IF \E t \in terms : t >= target THEN M ELSE -2
  BY TermsAre, Zenon DEF Lex!Iterator!FirstFrom
<1>4. CASE k <= Len(s)
  <2>1. k \in 1..Len(s) /\ s[k] >= target
    BY <1>1, <1>4 DEF FirstPlace
  <2>2. s[k] \in T
    BY <1>1, <2>1
  <2>3. ASSUME NEW t \in T
        PROVE  s[k] <= t
    <3>1. PICK j \in 1..Len(s) : s[j] = t
      BY <1>1
    <3>2. t >= target /\ s[j] \in Nat /\ s[k] \in Nat
      BY <1>1, <2>1
    <3>3. ~(j < k)
      BY <1>2, <3>1, <3>2
    <3>4. CASE j = k
      BY <3>1, <3>2, <3>4
    <3>5. CASE k < j
      <4>1. s[k] < s[j]
        BY <1>1, <2>1, <3>5
      <4> QED
        BY <3>1, <3>2, <4>1
    <3> QED
      BY <1>1, <3>3, <3>4, <3>5
  <2>4. M \in T /\ \A t \in T : M <= t
    <3> HIDE DEF T
    <3> QED
      BY <2>2, <2>3, Zenon DEF Lex!Iterator!Min
  <2> HIDE DEF M
  <2>5. M = s[k]
    <3>1. M \in Nat /\ s[k] \in Nat /\ M <= s[k] /\ s[k] <= M
      BY <1>1, <2>2, <2>3, <2>4
    <3> QED
      BY <3>1
  <2> QED
    BY <1>3, <1>4, <2>1, <2>2, <2>5 DEF ItemAt
<1>5. CASE ~(k <= Len(s))
  <2>1. ASSUME NEW t \in terms
        PROVE  ~(t >= target)
    <3>1. PICK j \in 1..Len(s) : s[j] = t
      BY <1>1
    <3>2. j < k /\ s[j] \in Nat
      BY <1>1, <1>5
    <3> QED
      BY <1>2, <3>1, <3>2
  <2> QED
    BY <1>1, <1>3, <1>5, <2>1 DEF ItemAt
<1> QED
  BY <1>4, <1>5

\* A look-up of a term after a Seek for it.
LEMMA AnswerIs ==
    ASSUME NEW s, NEW terms, HasTerms(s, terms), NEW m \in Places(s), NEW l,
           At(s, m, l), NEW target \in Nat, FirstPlace(s, target, m)
    PROVE  Answer(s, terms, target,
                  IF Lex!Get_Term(l) = target THEN l.info ELSE Lex!Blank)
<1>1. /\ s \in Seq(Nat) /\ Len(s) \in Nat /\ m \in 1..(Len(s) + 1)
      /\ \A j \in 1..Len(s) : s[j] \in Nat /\ s[j] \in terms
      /\ \A t \in terms : t \in Nat /\ \E j \in 1..Len(s) : s[j] = t
      /\ \A i, j \in 1..Len(s) : i < j => s[i] < s[j]
  BY DatIs DEF HasTerms, FileOf, Places, FirstPlace, Rising
<1>2. \A j \in 1..Len(s) : j < m => s[j] < target
  BY <1>1 DEF FirstPlace, Below
<1>3. CASE m <= Len(s)
  <2>1. m \in 1..Len(s) /\ s[m] >= target /\ s[m] \in terms
    BY <1>1, <1>3 DEF FirstPlace
  <2>2. Lex!Get_Term(l) = s[m] /\ l.info = Lex!Info(s, m)
    BY <1>1, <2>1, AtFacts
  <2>3. ASSUME NEW k \in 1..Len(s), s[k] = target
        PROVE  k = m
    <3>1. ~(k < m)
      BY <1>2, <2>3
    <3>2. ~(m < k)
      <4> SUFFICES ASSUME m < k
                   PROVE  FALSE
        OBVIOUS
      <4>1. s[m] < s[k] /\ s[m] \in Nat
        BY <1>1, <2>1
      <4> QED
        BY <2>1, <2>3, <4>1
    <3> QED
      BY <1>1, <3>1, <3>2
  <2> QED
    BY <2>1, <2>2, <2>3 DEF Answer
<1>4. CASE ~(m <= Len(s))
  <2>1. m = Len(s) + 1
    BY <1>1, <1>4
  <2>2. l.info = Lex!Blank
    BY <1>1, <2>1, AtFacts
  <2>3. ASSUME NEW k \in 1..Len(s), s[k] = target
        PROVE  FALSE
    <3>1. k < m
      BY <1>1, <2>1
    <3> QED
      BY <1>2, <2>3, <3>1
  <2> QED
    BY <2>2, <2>3 DEF Answer
<1> QED
  BY <1>3, <1>4

-----------------------------------------------------------------------------
(* The steps.                                                              *)

LEMMA LexInitially ==
    ASSUME LexConstantsOK, Lex!Init
    PROVE  LexInv /\ Lex!Iterator!Init
<1>1. PICK terms \in SUBSET LexTerms : terms # {}
                                      /\ lex_file = Lex!LexiconOf(terms)
  BY DEF Lex!Init
<1> DEFINE s == Lex!Sorted(terms)
<1>2. terms \in SUBSET Nat /\ IsFiniteSet(terms)
  BY FS_Subset DEF LexConstantsOK
<1>3. /\ Len(s) \in Nat /\ s \in Seq(Nat)
      /\ \A k \in 1..Len(s) : s[k] \in terms
      /\ \A i, j \in 1..Len(s) : i < j => s[i] < s[j]
      /\ \A t \in terms : \E k \in 1..Len(s) : s[k] = t
  BY <1>2, SortedIs
<1>4. lex_file = [dat |-> [i \in DOMAIN s |->
                          Lex!Delta(Lex!Info(s, i - 1), Lex!Info(s, i))],
              ix  |-> Lex!IndexOf(s)]
  BY <1>1 DEF Lex!LexiconOf
<1> HIDE DEF s
<1>5. FileOf(lex_file, s)
  <2>1. DOMAIN s = 1..Len(s)
    BY <1>3
  <2> QED
    BY <1>3, <1>4, <2>1 DEF FileOf
<1>6. Len(s) > 0
  BY <1>1, <1>3
<1>7. HasTerms(s, terms)
  BY <1>2, <1>3, <1>5, <1>6 DEF HasTerms, Rising, s
<1>8. At(s, 0, lex) /\ 0 \in Places(s)
  <2>1. lex = [pos |-> 0, term_num |-> -1, info |-> Lex!Blank]
    BY DEF Lex!Init, Lex!Fresh
  <2>2. Lex!Info(s, 0) = Lex!Blank
    BY <1>3, InfoIs
  <2>3. lex = [pos |-> 0, term_num |-> 0 - 1, info |-> Lex!Info(s, 0)]
    BY <2>1, <2>2
  <2> QED
    BY <1>3, <2>3 DEF At, Places
<1>9. found[1] = Lex!Null
  BY DEF Lex!Init
<1>10. LexInv
  BY <1>7, <1>8, <1>9 DEF LexInv
<1>11. Lex!terms \in SUBSET LexTerms
  BY <1>7, TermsAre
<1>12. LexCurrent(lex_file, lex) = -1
  BY <1>5, <1>8, LexCurrentIs DEF ItemAt
<1> QED
  BY <1>10, <1>11, <1>12, Zenon
     DEF Lex!Iterator!Init, LexCurrent, Lex!OnTerm

\* What the next place is.
LEMMA NextPlaceIs ==
    ASSUME NEW s, NEW terms, HasTerms(s, terms), NEW k \in Places(s),
           k # Len(s) + 1
    PROVE  /\ k + 1 \in Places(s) /\ ItemAt(s, k) # -2
           /\ ItemAt(s, k) + 1 \in Nat
           /\ FirstPlace(s, ItemAt(s, k) + 1, k + 1)
<1>1. /\ s \in Seq(Nat) /\ Len(s) \in Nat /\ k \in 0..Len(s)
      /\ \A j \in 1..Len(s) : s[j] \in Nat
      /\ \A i, j \in 1..Len(s) : i < j => s[i] < s[j]
  BY DatIs DEF HasTerms, FileOf, Places, Rising
<1>2. k + 1 \in Places(s) /\ k + 1 # 0 /\ (k + 1) - 1 = k
  BY <1>1 DEF Places
<1>3. CASE k = 0
  <2>1. ItemAt(s, k) = -1 /\ ItemAt(s, k) + 1 = 0
    BY <1>3 DEF ItemAt
  <2>2. FirstPlace(s, 0, k + 1)
    BY <1>1, <1>3 DEF FirstPlace, Below
  <2> QED
    BY <1>2, <2>1, <2>2
<1>4. CASE k # 0
  <2>1. k \in 1..Len(s) /\ ItemAt(s, k) = s[k] /\ s[k] \in Nat
    BY <1>1, <1>4 DEF ItemAt
  <2>2. Below(s, s[k] + 1, k + 1)
    <3> SUFFICES ASSUME NEW j \in 1..k
                 PROVE  s[j] < s[k] + 1
      BY <1>2 DEF Below
    <3>1. CASE j = k
      BY <2>1, <3>1
    <3>2. CASE j # k
      <4>1. j \in 1..Len(s) /\ j < k
        BY <1>1, <3>2
      <4>2. s[j] < s[k] /\ s[j] \in Nat
        BY <1>1, <2>1, <4>1
      <4> QED
        BY <2>1, <4>2
    <3> QED
      BY <3>1, <3>2
  <2>3. k + 1 <= Len(s) => s[k + 1] >= s[k] + 1
    <3> SUFFICES ASSUME k + 1 <= Len(s)
                 PROVE  s[k + 1] >= s[k] + 1
      OBVIOUS
    <3>1. k + 1 \in 1..Len(s) /\ k < k + 1
      BY <1>1
    <3>2. s[k] < s[k + 1] /\ s[k + 1] \in Nat
      BY <1>1, <2>1, <3>1
    <3> QED
      BY <2>1, <3>2
  <2>4. FirstPlace(s, s[k] + 1, k + 1)
    BY <1>2, <2>2, <2>3 DEF FirstPlace
  <2> QED
    BY <1>2, <2>1, <2>4
<1> QED
  BY <1>3, <1>4

LEMMA LexSteps ==
    ASSUME LexConstantsOK, LexInv, [Lex!NextStep]_(Lex!vars)
    PROVE  LexInv' /\ Lex!Iterator!LexiconStep
<1>1. PICK terms, s :
          /\ HasTerms(s, terms)
          /\ \E k \in Places(s) : At(s, k, lex)
          /\ \/ found[1] = Lex!Null
             \/ found[1] \in LexTerms /\ Answer(s, terms, found[1], found[2])
  BY DEF LexInv
<1>2. PICK k \in Places(s) : At(s, k, lex)
  BY <1>1
<1>3. /\ FileOf(lex_file, s) /\ s \in Seq(Nat) /\ Len(s) \in Nat /\ Len(s) > 0
      /\ Rising(s)
  BY <1>1, DatIs DEF HasTerms, FileOf
<1>4. LexCurrent(lex_file, lex) = ItemAt(s, k)
  BY <1>2, <1>3, LexCurrentIs
<1>5. lex_file' = lex_file
  BY DEF Lex!NextStep, Lex!vars, Lex!Next, Lex!Seek, Lex!Reset,
         Lex!Fetch_Term_Info
<1>6. HasTerms(s, terms)' /\ Lex!terms' = Lex!terms
  BY <1>1, <1>5 DEF HasTerms, Lex!terms
<1>7. ASSUME NEW m \in Places(s), At(s, m, lex'),
             \/ found' = found
             \/ /\ found'[1] \in LexTerms
                /\ Answer(s, terms, found'[1], found'[2])
      PROVE  LexInv' /\ LexCurrent(lex_file', lex') = ItemAt(s, m)
  <2>1. LexCurrent(lex_file', lex') = ItemAt(s, m)
    BY <1>3, <1>5, <1>7, LexCurrentIs
  <2>2. \/ found'[1] = Lex!Null
        \/ found'[1] \in LexTerms /\ Answer(s, terms, found'[1], found'[2])
    BY <1>1, <1>7
  <2>3. LexInv'
    BY <1>6, <1>7, <2>2 DEF LexInv
  <2> QED
    BY <2>1, <2>3
<1>8. ASSUME NEW target \in LexTerms, lex' = Lex!SeekTerm(lex_file, target)
      PROVE  \E m \in Places(s) :
                 /\ At(s, m, lex') /\ FirstPlace(s, target, m)
                 /\ Lex!Iterator!FirstFrom(target) = ItemAt(s, m)
  <2>1. target \in Nat
    BY DEF LexConstantsOK
  <2>2. PICK m \in Places(s) : /\ At(s, m, lex')
                               /\ FirstPlace(s, target, m)
    BY <1>3, <1>8, <2>1, SeekIs
  <2>3. Lex!Iterator!FirstFrom(target) = ItemAt(s, m)
    BY <1>1, <2>1, <2>2, FirstIs
  <2> QED
    BY <2>2, <2>3
<1>9. CASE Lex!Next
  <2>1. /\ lex' = Lex!NextTerm(lex_file, lex) /\ found' = found
        /\ lex_call' = <<"Next">>
    BY <1>9 DEF Lex!Next
  <2> DEFINE m == IF k = Len(s) + 1 THEN k ELSE k + 1
  <2>2. m \in Places(s) /\ At(s, m, lex')
    BY <1>2, <1>3, <2>1, NextIs DEF Places
  <2> HIDE DEF m
  <2>3. LexInv' /\ LexCurrent(lex_file', lex') = ItemAt(s, m)
    BY <1>7, <2>1, <2>2
  <2>4. ItemAt(s, m) = IF ItemAt(s, k) = -2 THEN -2
                       ELSE Lex!Iterator!FirstFrom(ItemAt(s, k) + 1)
    <3>1. CASE k = Len(s) + 1
      <4>1. ItemAt(s, k) = -2 /\ m = k
        BY <1>3, <3>1 DEF ItemAt, m
      <4> QED
        BY <4>1
    <3>2. CASE k # Len(s) + 1
      <4>1. /\ m \in Places(s) /\ ItemAt(s, k) # -2
            /\ ItemAt(s, k) + 1 \in Nat
            /\ FirstPlace(s, ItemAt(s, k) + 1, m)
        BY <1>1, <3>2, NextPlaceIs DEF m
      <4>2. Lex!Iterator!FirstFrom(ItemAt(s, k) + 1) = ItemAt(s, m)
        BY <1>1, <4>1, FirstIs
      <4> QED
        BY <4>1, <4>2
    <3> QED
      BY <3>1, <3>2
  <2>5. Lex!Iterator!Next
    BY <1>4, <2>1, <2>3, <2>4, Zenon
       DEF Lex!Iterator!Next, LexCurrent, Lex!OnTerm
  <2> QED
    BY <1>6, <2>3, <2>5, Zenon
       DEF Lex!Iterator!LexiconStep, Lex!Iterator!LexiconNext
<1>10. CASE Lex!Seek
  <2>1. PICK target \in LexTerms :
            /\ lex' = Lex!SeekTerm(lex_file, target)
            /\ lex_call' = <<"Seek", target>>
    BY <1>10 DEF Lex!Seek
  <2>2. found' = found
    BY <1>10 DEF Lex!Seek
  <2>3. PICK m \in Places(s) :
            /\ At(s, m, lex') /\ FirstPlace(s, target, m)
            /\ Lex!Iterator!FirstFrom(target) = ItemAt(s, m)
    BY <1>8, <2>1
  <2>4. LexInv' /\ LexCurrent(lex_file', lex') = ItemAt(s, m)
    BY <1>7, <2>2, <2>3
  <2>5. Lex!Iterator!Seek
    BY <2>1, <2>3, <2>4, Zenon
       DEF Lex!Iterator!Seek, LexCurrent, Lex!OnTerm
  <2> QED
    BY <1>6, <2>4, <2>5, Zenon
       DEF Lex!Iterator!LexiconStep, Lex!Iterator!LexiconNext
<1>11. CASE Lex!Reset
  <2>1. lex' = Lex!Fresh /\ lex_call' = <<"Reset">> /\ found' = found
    BY <1>11 DEF Lex!Reset
  <2>2. At(s, 0, lex') /\ 0 \in Places(s)
    <3>1. lex' = [pos |-> 0, term_num |-> -1, info |-> Lex!Blank]
      BY <2>1 DEF Lex!Fresh
    <3>2. Lex!Info(s, 0) = Lex!Blank
      BY <1>3, InfoIs
    <3>3. lex' = [pos |-> 0, term_num |-> 0 - 1, info |-> Lex!Info(s, 0)]
      BY <3>1, <3>2
    <3> QED
      BY <1>3, <3>3 DEF At, Places
  <2>3. LexInv' /\ LexCurrent(lex_file', lex') = ItemAt(s, 0)
    BY <1>7, <2>1, <2>2
  <2>4. ItemAt(s, 0) = -1
    BY DEF ItemAt
  <2>5. Lex!Iterator!Reset
    BY <2>1, <2>3, <2>4, Zenon
       DEF Lex!Iterator!Reset, LexCurrent, Lex!OnTerm
  <2> QED
    BY <1>6, <2>3, <2>5, Zenon
       DEF Lex!Iterator!LexiconStep, Lex!Iterator!LexiconNext
<1>12. CASE Lex!Fetch_Term_Info
  <2>1. PICK target \in LexTerms :
            /\ lex' = Lex!SeekTerm(lex_file, target)
            /\ lex_call' = <<"Seek", target>>
            /\ found' = <<target, IF Lex!Get_Term(lex') = target
                                  THEN lex'.info ELSE Lex!Blank>>
    BY <1>12 DEF Lex!Fetch_Term_Info
  <2>2. PICK m \in Places(s) :
            /\ At(s, m, lex') /\ FirstPlace(s, target, m)
            /\ Lex!Iterator!FirstFrom(target) = ItemAt(s, m)
    BY <1>8, <2>1
  <2>3. target \in Nat
    BY DEF LexConstantsOK
  <2>4. Answer(s, terms, target,
               IF Lex!Get_Term(lex') = target THEN lex'.info ELSE Lex!Blank)
    BY <1>1, <2>2, <2>3, AnswerIs
  <2>5. found'[1] \in LexTerms /\ Answer(s, terms, found'[1], found'[2])
    BY <2>1, <2>4
  <2>6. LexInv' /\ LexCurrent(lex_file', lex') = ItemAt(s, m)
    BY <1>7, <2>2, <2>5
  <2>7. Lex!Iterator!Seek
    BY <2>1, <2>2, <2>6, Zenon
       DEF Lex!Iterator!Seek, LexCurrent, Lex!OnTerm
  <2> QED
    BY <1>6, <2>6, <2>7, Zenon
       DEF Lex!Iterator!LexiconStep, Lex!Iterator!LexiconNext
<1>13. CASE UNCHANGED Lex!vars
  <2>1. lex' = lex /\ lex_call' = lex_call /\ found' = found
    BY <1>13 DEF Lex!vars
  <2>2. LexInv' /\ LexCurrent(lex_file', lex') = ItemAt(s, k)
    BY <1>2, <1>7, <2>1
  <2>3. UNCHANGED Lex!Iterator!vars
    BY <1>4, <1>6, <2>1, <2>2, Zenon
       DEF Lex!Iterator!vars, LexCurrent, Lex!OnTerm
  <2> QED
    BY <2>2, <2>3, Zenon DEF Lex!Iterator!LexiconStep
<1> QED
  BY <1>9, <1>10, <1>11, <1>12, <1>13, Zenon DEF Lex!NextStep

LEMMA InfoTrueIs ==
    ASSUME LexConstantsOK, LexInv
    PROVE  Lex!InfoTrue
<1>1. PICK terms, s :
          /\ HasTerms(s, terms)
          /\ \E k \in Places(s) : At(s, k, lex)
          /\ \/ found[1] = Lex!Null
             \/ found[1] \in LexTerms /\ Answer(s, terms, found[1], found[2])
  BY DEF LexInv
<1>2. PICK k \in Places(s) : At(s, k, lex)
  BY <1>1
<1>3. /\ FileOf(lex_file, s) /\ s \in Seq(Nat) /\ DOMAIN s = 1..Len(s)
      /\ Len(s) \in Nat
      /\ \A j \in 1..Len(s) : s[j] \in Nat
      /\ \A i, j \in 1..Len(s) : i < j => s[i] < s[j]
      /\ \A t \in terms : \E j \in 1..Len(s) : s[j] = t
  BY <1>1, DatIs DEF HasTerms, FileOf, Rising
<1> DEFINE info(t) == Lex!Info(s, CHOOSE i \in DOMAIN s : s[i] = t)
<1>4. ASSUME NEW j \in 1..Len(s)
      PROVE  info(s[j]) = Lex!Info(s, j)
  <2> DEFINE i == CHOOSE i \in DOMAIN s : s[i] = s[j]
  <2>1. i \in DOMAIN s /\ s[i] = s[j]
    <3>1. j \in DOMAIN s
      BY <1>3
    <3> QED
      BY <3>1, Zenon
  <2>2. i = j
    <3> HIDE DEF i
    <3>1. i \in 1..Len(s) /\ ~(i < j) /\ ~(j < i)
      BY <1>3, <2>1
    <3> QED
      BY <1>3, <3>1
  <2> QED
    BY <2>2
<1>5. Lex!terms = terms /\ Lex!Sorted(terms) = s
  BY <1>1, TermsAre DEF HasTerms
<1>6. Lex!OnTerm => lex.info = info(Lex!Get_Term(lex))
  <2> SUFFICES ASSUME Lex!OnTerm
               PROVE  lex.info = info(Lex!Get_Term(lex))
    OBVIOUS
  <2>1. k \in 1..Len(s)
    BY <1>2, <1>3, LexCurrentIs DEF Lex!OnTerm
  <2>2. lex.info = Lex!Info(s, k) /\ Lex!Get_Term(lex) = s[k]
    BY <1>2, <1>3, <2>1, AtFacts
  <2> HIDE DEF info
  <2> QED
    BY <1>4, <2>1, <2>2
<1>7. found[1] # Lex!Null =>
          found[2] = IF found[1] \in terms THEN info(found[1]) ELSE Lex!Blank
  <2> SUFFICES ASSUME Answer(s, terms, found[1], found[2])
               PROVE  found[2] = IF found[1] \in terms THEN info(found[1])
                                 ELSE Lex!Blank
    BY <1>1
  <2>1. CASE found[1] \in terms
    <3>1. PICK j \in 1..Len(s) : s[j] = found[1]
      BY <1>3, <2>1
    <3> HIDE DEF info
    <3> QED
      BY <1>4, <2>1, <3>1 DEF Answer
  <2>2. CASE found[1] \notin terms
    BY <2>2 DEF Answer
  <2> QED
    BY <2>1, <2>2
<1> QED
  BY <1>5, <1>6, <1>7, Zenon DEF Lex!InfoTrue, info

\* A lexicon visits the terms of its field in order, from the first or from the
\* first that is not less than a target on, wherever it has been before, for
\* any terms and any distance of the entries of the index (SegLex_Next and
\* SegLex_Seek).
THEOREM LexiconsVisitTheTerms ==
    ASSUME LexConstantsOK
    PROVE  Lex!Spec => Lex!ImplementsIterator
<1>1. Lex!Init => LexInv /\ Lex!Iterator!Init
  BY LexInitially
<1>2. LexInv /\ [Lex!NextStep]_(Lex!vars)
          => LexInv' /\ Lex!Iterator!LexiconStep
  BY LexSteps
<1> QED
  BY <1>1, <1>2, PTL
     DEF Lex!Spec, Lex!ImplementsIterator, Lex!Iterator!Lexicon,
         Lex!Iterator!LexiconStep

\* The differences from one term to the next add up to what each was written
\* with, also from an entry of the index on, and a look-up returns this of the
\* term asked for, or nothing if the segment does not have it.
THEOREM LookUpsAreTrue ==
    ASSUME LexConstantsOK
    PROVE  Lex!Spec => []Lex!InfoTrue
<1>1. Lex!Init => LexInv
  BY LexInitially
<1>2. LexInv /\ [Lex!NextStep]_(Lex!vars) => LexInv'
  BY LexSteps
<1>3. LexInv => Lex!InfoTrue
  BY InfoTrueIs
<1> QED
  BY <1>1, <1>2, <1>3, PTL DEF Lex!Spec

-----------------------------------------------------------------------------
(* Posting lists.                                                          *)

CONSTANTS NumTerms, DocMax
VARIABLES index, files, pl, term, asked, cur

Plist == INSTANCE PostingList

\* Skip records are some postings apart, 16 in the default Architecture.
PlistConstantsOK ==
    /\ NumTerms \in Nat /\ DocMax \in Nat
    /\ SkipInterval \in Nat /\ SkipInterval > 1

\* The postings in the order in which they are written.
PairRank(raws, p) == Cardinality({q \in raws : Plist!Before(q, p)})

LEMMA BeforeIs ==
    /\ \A p \in Nat \X Nat : ~Plist!Before(p, p)
    /\ \A p, q, r \in Nat \X Nat :
          Plist!Before(p, q) /\ Plist!Before(q, r) => Plist!Before(p, r)
    /\ \A p, q \in Nat \X Nat :
          p = q \/ Plist!Before(p, q) \/ Plist!Before(q, p)
<1>1. \A p \in Nat \X Nat :
          p[1] \in Nat /\ p[2] \in Nat /\ p = <<p[1], p[2]>>
  OBVIOUS
<1>2. ASSUME NEW p \in Nat \X Nat, NEW q \in Nat \X Nat
      PROVE  p = q \/ Plist!Before(p, q) \/ Plist!Before(q, p)
  <2>1. p[1] = q[1] /\ p[2] = q[2] => p = q
    BY <1>1, Zenon
  <2> QED
    BY <1>1, <2>1 DEF Plist!Before
<1>3. ASSUME NEW p \in Nat \X Nat, NEW q \in Nat \X Nat, NEW r \in Nat \X Nat,
             Plist!Before(p, q), Plist!Before(q, r)
      PROVE  Plist!Before(p, r)
  BY <1>1, <1>3 DEF Plist!Before
<1>4. \A p \in Nat \X Nat : ~Plist!Before(p, p)
  BY <1>1 DEF Plist!Before
<1> QED
  BY <1>2, <1>3, <1>4

LEMMA PairRankIs ==
    ASSUME NEW raws \in SUBSET (Nat \X Nat), IsFiniteSet(raws)
    PROVE  /\ Cardinality(raws) \in Nat
           /\ \A p \in raws : PairRank(raws, p) \in 0..(Cardinality(raws) - 1)
           /\ \A p, q \in raws : Plist!Before(p, q)
                  => PairRank(raws, p) < PairRank(raws, q)
<1> DEFINE Less(p) == {q \in raws : Plist!Before(q, p)}
           n == Cardinality(raws)
<1>1. \A p \in raws : IsFiniteSet(Less(p))
  BY FS_Subset
<1>2. n \in Nat /\ \A p \in raws : PairRank(raws, p) \in Nat
  <2>1. n \in Nat
    BY FS_CardinalityType
  <2>2. \A p \in raws : Cardinality(Less(p)) \in Nat
    BY <1>1, FS_CardinalityType
  <2> QED
    BY <2>1, <2>2, Zenon DEF PairRank
<1>3. ASSUME NEW p \in raws
      PROVE  PairRank(raws, p) < n
  <2>1. Less(p) \in SUBSET raws /\ p \notin Less(p)
    BY BeforeIs
  <2>2. PairRank(raws, p) <= n /\ PairRank(raws, p) # n
    BY <2>1, FS_Subset DEF PairRank
  <2>3. n \in Nat /\ PairRank(raws, p) \in Nat
    BY <1>2
  <2> HIDE DEF n
  <2> QED
    BY <2>2, <2>3
<1>4. ASSUME NEW p \in raws, NEW q \in raws, Plist!Before(p, q)
      PROVE  PairRank(raws, p) < PairRank(raws, q)
  <2>1. Less(p) \in SUBSET Less(q)
    BY <1>4, BeforeIs
  <2>2. p \in Less(q) /\ p \notin Less(p)
    BY <1>4, BeforeIs
  <2>3. IsFiniteSet(Less(q)) /\ Less(p) # Less(q)
    BY <1>1, <2>2
  <2> HIDE DEF Less
  <2>4. Cardinality(Less(p)) <= Cardinality(Less(q))
        /\ Cardinality(Less(p)) # Cardinality(Less(q))
    BY <2>1, <2>3, FS_Subset
  <2>5. PairRank(raws, p) <= PairRank(raws, q)
        /\ PairRank(raws, p) # PairRank(raws, q)
    BY <2>4, Zenon DEF PairRank, Less
  <2>6. PairRank(raws, p) \in Nat /\ PairRank(raws, q) \in Nat
    BY <1>2
  <2> QED
    BY <2>5, <2>6
<1>5. \A p \in raws : PairRank(raws, p) \in 0..(n - 1)
  <2> HIDE DEF n
  <2> QED
    BY <1>2, <1>3
<1> QED
  BY <1>2, <1>4, <1>5

LEMMA PairRankOnto ==
    ASSUME NEW raws \in SUBSET (Nat \X Nat), IsFiniteSet(raws)
    PROVE  \A k \in 1..Cardinality(raws) :
               \E p \in raws : PairRank(raws, p) = k - 1
<1> DEFINE n == Cardinality(raws)
           f == [p \in raws |-> PairRank(raws, p) + 1]
<1>1. /\ n \in Nat
      /\ \A p \in raws : PairRank(raws, p) \in 0..(n - 1)
      /\ \A p, q \in raws : Plist!Before(p, q)
             => PairRank(raws, p) < PairRank(raws, q)
  BY PairRankIs
<1>2. f \in Injection(raws, 1..n)
  <2>1. f \in [raws -> 1..n]
    BY <1>1
  <2>2. ASSUME NEW p \in raws, NEW q \in raws, f[p] = f[q]
        PROVE  p = q
    <3>1. PairRank(raws, p) = PairRank(raws, q)
      BY <1>1, <2>2
    <3>2. PairRank(raws, p) \in Nat
      BY <1>1
    <3>3. ~Plist!Before(p, q) /\ ~Plist!Before(q, p)
      BY <1>1, <3>1, <3>2
    <3> QED
      BY <3>3, BeforeIs
  <2> HIDE DEF f
  <2> QED
    BY <2>1, <2>2 DEF Injection, IsInjective
<1>3. IsFiniteSet(1..n) /\ Cardinality(1..n) = n
  BY <1>1, FS_Interval
<1>4. f \in Surjection(raws, 1..n)
  <2> HIDE DEF f, n
  <2> QED
    BY <1>2, <1>3, FS_Injection DEF n
<1>5. \A k \in 1..n : \E p \in raws : f[p] = k
  BY <1>4 DEF Surjection
<1> QED
  BY <1>1, <1>5

\* A sequence of postings in order: those of the documents of each term.
RawsOf(raw, docs) ==
    /\ raw \in Seq(Nat \X Nat)
    /\ \A k \in 1..Len(raw) : raw[k][1] \in Plist!Terms
                              /\ raw[k][2] \in docs[raw[k][1]]
    /\ \A i, j \in 1..Len(raw) : i < j => Plist!Before(raw[i], raw[j])
    /\ \A t \in Plist!Terms : \A d \in docs[t] :
          \E k \in 1..Len(raw) : raw[k] = <<t, d>>

LEMMA FetchedIs ==
    ASSUME PlistConstantsOK, NEW docs \in [Plist!Terms -> SUBSET (1..DocMax)]
    PROVE  RawsOf(Plist!Fetched(docs), docs)
<1> DEFINE raws == UNION {{t} \X docs[t] : t \in DOMAIN docs}
           s == Plist!Fetched(docs)
           n == Cardinality(raws)
<1>1. /\ \A p \in raws : /\ p[1] \in Plist!Terms /\ p[2] \in docs[p[1]]
                         /\ p \in Nat \X Nat
                         /\ p \in Plist!Terms \X (1..DocMax)
      /\ \A t \in Plist!Terms : \A d \in docs[t] : <<t, d>> \in raws
  BY DEF PlistConstantsOK, Plist!Terms
<1>2. IsFiniteSet(raws)
  <2>1. IsFiniteSet(Plist!Terms) /\ IsFiniteSet(1..DocMax)
    BY FS_Interval DEF PlistConstantsOK, Plist!Terms
  <2>2. IsFiniteSet(Plist!Terms \X (1..DocMax))
    BY <2>1, FS_Product
  <2>3. raws \subseteq Plist!Terms \X (1..DocMax)
    BY <1>1
  <2> HIDE DEF raws
  <2> QED
    BY <2>2, <2>3, FS_Subset
<1>3. s = [k \in 1..n |-> CHOOSE p \in raws : PairRank(raws, p) = k - 1]
  BY Zenon DEF Plist!Fetched, PairRank, Plist!Cardinality, Cardinality
<1> HIDE DEF s, raws
<1>4. raws \in SUBSET (Nat \X Nat)
  BY <1>1
<1>5. /\ n \in Nat
      /\ \A p \in raws : PairRank(raws, p) \in 0..(n - 1)
      /\ \A p, q \in raws : Plist!Before(p, q)
             => PairRank(raws, p) < PairRank(raws, q)
  BY <1>2, <1>4, PairRankIs
<1>6. \A k \in 1..n : s[k] \in raws /\ PairRank(raws, s[k]) = k - 1
  BY <1>2, <1>3, <1>4, PairRankOnto
<1>7. s \in Seq(Nat \X Nat) /\ Len(s) = n
  <2> HIDE DEF n
  <2> QED
    BY <1>3, <1>4, <1>5, <1>6
<1>8. ASSUME NEW i \in 1..n, NEW j \in 1..n, i < j
      PROVE  Plist!Before(s[i], s[j])
  <2>1. /\ s[i] \in raws /\ s[j] \in raws
        /\ PairRank(raws, s[i]) < PairRank(raws, s[j])
    BY <1>5, <1>6, <1>8
  <2>2. PairRank(raws, s[i]) \in Nat /\ PairRank(raws, s[j]) \in Nat
    BY <1>5, <2>1
  <2>3. s[i] # s[j] /\ ~Plist!Before(s[j], s[i])
    BY <1>5, <2>1, <2>2
  <2> QED
    BY <1>4, <2>1, <2>3, BeforeIs
<1>9. ASSUME NEW p \in raws
      PROVE  \E k \in 1..n : s[k] = p
  <2> DEFINE k == PairRank(raws, p) + 1
  <2>1. k \in 1..n /\ s[k] \in raws /\ PairRank(raws, s[k]) = PairRank(raws, p)
    BY <1>5, <1>6
  <2>2. PairRank(raws, p) \in Nat
    BY <1>5
  <2> HIDE DEF k
  <2>3. ~Plist!Before(s[k], p) /\ ~Plist!Before(p, s[k])
    BY <1>5, <2>1, <2>2
  <2>4. s[k] = p
    BY <1>4, <2>1, <2>3, BeforeIs
  <2> QED
    BY <2>1, <2>4
<1> QED
  BY <1>1, <1>6, <1>7, <1>8, <1>9 DEF RawsOf, s

-----------------------------------------------------------------------------
(* Where the skip records lead.                                            *)

\* How many postings the k-th skip record is after; how many there are of n
\* postings.
Stop(k) == SkipInterval * k
Groups(n) == n \div SkipInterval

LEMMA StopIs ==
    ASSUME PlistConstantsOK
    PROVE  /\ Stop(0) = 0
           /\ \A k \in Nat : Stop(k) \in Nat /\ Stop(k) >= k
                             /\ Stop(k + 1) = Stop(k) + SkipInterval
           /\ \A j, k \in Nat : j < k => Stop(j) + SkipInterval <= Stop(k)
<1>1. SkipInterval \in Nat /\ SkipInterval > 1
  BY DEF PlistConstantsOK
<1>2. ASSUME NEW k \in Nat
      PROVE  Stop(k) \in Nat /\ Stop(k + 1) = Stop(k) + SkipInterval
  BY <1>1 DEF Stop
<1>3. ASSUME NEW j \in Nat, NEW k \in Nat, j < k
      PROVE  Stop(j) + SkipInterval <= Stop(k)
  <2>1. j + 1 \in Nat /\ j + 1 <= k
    BY <1>3
  <2>2. SkipInterval * (j + 1) <= SkipInterval * k
    BY <1>1, <2>1, TimesMonotonic
  <2>3. Stop(j + 1) <= Stop(k)
    BY <2>2 DEF Stop
  <2> QED
    BY <1>2, <2>3
<1>4. Stop(0) = 0
  BY <1>1 DEF Stop
<1>5. ASSUME NEW k \in Nat
      PROVE  Stop(k) >= k
  <2> DEFINE T == {j \in 0..k : Stop(j) >= j}
  <2>1. 0 \in T
    BY <1>4
  <2>2. ASSUME NEW j \in 0..(k - 1), j \in T
        PROVE  j + 1 \in T
    <3>1. j \in Nat /\ j + 1 \in 0..k
      OBVIOUS
    <3> QED
      BY <1>1, <1>2, <2>2, <3>1
  <2>3. \A j \in 0..k : j \in T
    <3> HIDE DEF T
    <3> QED
      BY <2>1, <2>2, CountUp
  <2> QED
    BY <2>3
<1> QED
  BY <1>2, <1>3, <1>4, <1>5

LEMMA GroupsIs ==
    ASSUME PlistConstantsOK, NEW n \in Nat
    PROVE  /\ Groups(n) \in Nat /\ Stop(Groups(n)) <= n
           /\ n < Stop(Groups(n)) + SkipInterval
           /\ n % SkipInterval = n - Stop(Groups(n))
           /\ n % SkipInterval \in Nat /\ n % SkipInterval < SkipInterval
<1>1. SkipInterval \in Nat \ {0}
  BY DEF PlistConstantsOK
<1>2. /\ n \div SkipInterval \in Nat
      /\ n % SkipInterval \in 0..(SkipInterval - 1)
      /\ n = SkipInterval * (n \div SkipInterval) + (n % SkipInterval)
  BY <1>1, DivMod
<1>3. Stop(Groups(n)) \in Nat /\ n = Stop(Groups(n)) + (n % SkipInterval)
  BY <1>1, <1>2 DEF Stop, Groups
<1> QED
  BY <1>1, <1>2, <1>3 DEF Groups

LEMMA GroupsAre ==
    ASSUME PlistConstantsOK, NEW n \in Nat, NEW k \in Nat,
           Stop(k) <= n, n < Stop(k) + SkipInterval
    PROVE  Groups(n) = k
<1>1. /\ Groups(n) \in Nat /\ Stop(Groups(n)) <= n
      /\ n < Stop(Groups(n)) + SkipInterval
  BY GroupsIs
<1>2. /\ \A j \in Nat : Stop(j) \in Nat
      /\ \A i, j \in Nat : i < j => Stop(i) + SkipInterval <= Stop(j)
  BY StopIs
<1>3. SkipInterval \in Nat
  BY DEF PlistConstantsOK
<1>4. ~(Groups(n) < k)
  <2> SUFFICES ASSUME Groups(n) < k
               PROVE  FALSE
    OBVIOUS
  <2>1. Stop(Groups(n)) + SkipInterval <= Stop(k)
    BY <1>1, <1>2
  <2> QED
    BY <1>1, <1>2, <1>3, <2>1
<1>5. ~(k < Groups(n))
  <2> SUFFICES ASSUME k < Groups(n)
               PROVE  FALSE
    OBVIOUS
  <2>1. Stop(k) + SkipInterval <= Stop(Groups(n))
    BY <1>1, <1>2
  <2> QED
    BY <1>1, <1>2, <1>3, <2>1
<1> QED
  BY <1>1, <1>4, <1>5

\* One more posting.
LEMMA GroupsNext ==
    ASSUME PlistConstantsOK, NEW n \in Nat
    PROVE  IF (n + 1) % SkipInterval = 0
           THEN Groups(n + 1) = Groups(n) + 1 /\ Stop(Groups(n) + 1) = n + 1
           ELSE Groups(n + 1) = Groups(n) /\ Stop(Groups(n)) # n + 1
<1> DEFINE g == Groups(n)
           h == Groups(n + 1)
<1>1. /\ g \in Nat /\ Stop(g) <= n /\ n < Stop(g) + SkipInterval
      /\ h \in Nat /\ Stop(h) <= n + 1
      /\ (n + 1) % SkipInterval = (n + 1) - Stop(h)
  <2>1. n + 1 \in Nat
    OBVIOUS
  <2>2. g \in Nat /\ Stop(g) <= n /\ n < Stop(g) + SkipInterval
    BY GroupsIs
  <2>3. /\ h \in Nat /\ Stop(h) <= n + 1
        /\ (n + 1) % SkipInterval = (n + 1) - Stop(h)
    BY <2>1, GroupsIs, Zenon
  <2> QED
    BY <2>2, <2>3
<1>2. /\ Stop(g) \in Nat /\ Stop(h) \in Nat
      /\ Stop(g + 1) = Stop(g) + SkipInterval
      /\ g + 1 \in Nat /\ SkipInterval \in Nat /\ SkipInterval > 1
  <2>1. \A k \in Nat : Stop(k) \in Nat /\ Stop(k + 1) = Stop(k) + SkipInterval
    BY StopIs
  <2>2. SkipInterval \in Nat /\ SkipInterval > 1
    BY DEF PlistConstantsOK
  <2> HIDE DEF g, h
  <2> QED
    BY <1>1, <2>1, <2>2
<1>3. CASE n + 1 < Stop(g) + SkipInterval
  <2>1. h = g
    BY <1>1, <1>2, <1>3, GroupsAre
  <2> HIDE DEF g, h
  <2>2. (n + 1) % SkipInterval # 0 /\ Stop(g) # n + 1
    BY <1>1, <1>2, <2>1
  <2> QED
    BY <2>1, <2>2 DEF g, h
<1>4. CASE ~(n + 1 < Stop(g) + SkipInterval)
  <2>1. Stop(g + 1) = n + 1
    <3> HIDE DEF g, h
    <3> QED
      BY <1>1, <1>2, <1>4
  <2>2. Stop(g + 1) <= n + 1 /\ n + 1 < Stop(g + 1) + SkipInterval
    <3> HIDE DEF g, h
    <3> QED
      BY <1>2, <2>1
  <2>3. h = g + 1
    BY <1>1, <1>2, <2>2, GroupsAre
  <2> HIDE DEF g, h
  <2>4. (n + 1) % SkipInterval = 0
    BY <1>1, <2>1, <2>3
  <2> QED
    BY <2>1, <2>3, <2>4 DEF g, h
<1> QED
  BY <1>3, <1>4

-----------------------------------------------------------------------------
(* Writing the postings of the terms, one after another.                   *)

PostInfos == [doc_freq : Nat, post_filepos : Nat, skip_filepos : Nat]

WriterSet ==
    [posts : Seq(Int), skips : Seq(Int \X Int), infos : Seq(Nat \X PostInfos),
     last : Nat, tinfo : PostInfos, last_doc_id : Int,
     stepper : [doc_id : Int, filepos : Int]]

\* The document of the j-th posting after a place.
Nth(raw, base, j) == IF j = 0 THEN 0 ELSE raw[base + j][2]

\* The TermInfo says where the postings of the term are among the first hi.
Covers(raw, t, ti, hi) ==
    /\ ti \in PostInfos /\ ti.post_filepos + ti.doc_freq <= hi
    /\ \A i \in 1..hi : raw[i][1] = t <=>
           ti.post_filepos < i /\ i <= ti.post_filepos + ti.doc_freq

\* And where their skip records are.
SkipRecords(raw, skips, ti) ==
    \A m \in Nat : m > 0 /\ Stop(m) <= ti.doc_freq =>
        /\ ti.skip_filepos + m <= Len(skips)
        /\ skips[ti.skip_filepos + m] =
               <<Nth(raw, ti.post_filepos, Stop(m))
                     - Nth(raw, ti.post_filepos, Stop(m - 1)), SkipInterval>>

\* The first k postings, as differences.
Deltas(raw, posts, k) ==
    /\ posts \in Seq(Int) /\ Len(posts) = k
    /\ \A i \in 1..k : posts[i] = raw[i][2]
           - (IF i > 1 /\ raw[i - 1][1] = raw[i][1] THEN raw[i - 1][2] ELSE 0)

\* The terms before t have been written and their TermInfos are true.
Finished(raw, skips, infos, t) ==
    /\ \A i \in 1..Len(infos) :
          /\ infos[i][1] < t /\ Covers(raw, infos[i][1], infos[i][2], Len(raw))
          /\ SkipRecords(raw, skips, infos[i][2])
    /\ \A i, j \in 1..Len(infos) : i < j => infos[i][1] < infos[j][1]

\* All terms of the first k postings but t have a TermInfo.
Listed(raw, infos, t, k) ==
    \A i \in 1..k : raw[i][1] = t \/ \E j \in 1..Len(infos) :
                                         infos[j][1] = raw[i][1]

\* Where the last skip record was written.
StepperAt(raw, skips, ti, stepper) ==
    LET g == Groups(ti.doc_freq)
    IN  /\ stepper.doc_id = Nth(raw, ti.post_filepos, Stop(g))
        /\ stepper.filepos = ti.post_filepos + Stop(g)
        /\ g > 0 => ti.skip_filepos + g = Len(skips)

\* The writer has written the first k postings.
Writing(raw, w, k) ==
    /\ w \in WriterSet /\ k \in 0..Len(raw)
    /\ Deltas(raw, w.posts, k)
    /\ Covers(raw, w.last, w.tinfo, k)
    /\ w.tinfo.post_filepos + w.tinfo.doc_freq = k
    /\ w.last_doc_id = Nth(raw, w.tinfo.post_filepos, w.tinfo.doc_freq)
    /\ SkipRecords(raw, w.skips, w.tinfo)
    /\ StepperAt(raw, w.skips, w.tinfo, w.stepper)
    /\ Finished(raw, w.skips, w.infos, w.last)
    /\ Listed(raw, w.infos, w.last, k)
    /\ \A i \in 1..k : raw[i][1] <= w.last

\* Terms do not come back.
LEMMA InTermOrder ==
    ASSUME NEW docs, NEW raw, RawsOf(raw, docs)
    PROVE  /\ Len(raw) \in Nat
           /\ \A i \in 1..Len(raw) : /\ raw[i] = <<raw[i][1], raw[i][2]>>
                                     /\ raw[i][1] \in Nat /\ raw[i][2] \in Nat
           /\ \A i, j \in 1..Len(raw) : i < j => raw[i][1] <= raw[j][1]
           /\ \A i, j \in 1..Len(raw) :
                  i < j /\ raw[i][1] = raw[j][1] => raw[i][2] < raw[j][2]
<1>1. raw \in Seq(Nat \X Nat)
  BY DEF RawsOf
<1>2. /\ Len(raw) \in Nat
      /\ \A i \in 1..Len(raw) : raw[i] \in Nat \X Nat
  BY <1>1
<1>3. \A i \in 1..Len(raw) : /\ raw[i] = <<raw[i][1], raw[i][2]>>
                             /\ raw[i][1] \in Nat /\ raw[i][2] \in Nat
  BY <1>2
<1>4. ASSUME NEW i \in 1..Len(raw), NEW j \in 1..Len(raw), i < j
      PROVE  /\ raw[i][1] <= raw[j][1]
             /\ raw[i][1] = raw[j][1] => raw[i][2] < raw[j][2]
  <2>1. Plist!Before(raw[i], raw[j])
    BY <1>4, Zenon DEF RawsOf
  <2>2. raw[i][1] < raw[j][1]
        \/ (raw[i][1] = raw[j][1] /\ raw[i][2] < raw[j][2])
    BY <2>1, Zenon DEF Plist!Before
  <2>3. raw[i][1] \in Nat /\ raw[j][1] \in Nat
    BY <1>3
  <2> QED
    BY <2>2, <2>3
<1>5. /\ \A i, j \in 1..Len(raw) : i < j => raw[i][1] <= raw[j][1]
      /\ \A i, j \in 1..Len(raw) :
             i < j /\ raw[i][1] = raw[j][1] => raw[i][2] < raw[j][2]
  BY <1>4, Zenon
<1> QED
  BY <1>2, <1>3, <1>5, Zenon

\* A skip record more changes none of those before.
LEMMA SkipsKept ==
    ASSUME NEW raw, NEW skips \in Seq(Int \X Int), NEW r \in Int \X Int,
           NEW ti \in PostInfos, SkipRecords(raw, skips, ti)
    PROVE  SkipRecords(raw, Append(skips, r), ti)
<1>1. /\ Len(Append(skips, r)) = Len(skips) + 1 /\ Len(skips) \in Nat
      /\ \A i \in 1..Len(skips) : Append(skips, r)[i] = skips[i]
  OBVIOUS
<1>2. ti.skip_filepos \in Nat
  BY DEF PostInfos
<1>3. ASSUME NEW m \in Nat, m > 0, Stop(m) <= ti.doc_freq
      PROVE  /\ ti.skip_filepos + m <= Len(Append(skips, r))
             /\ Append(skips, r)[ti.skip_filepos + m]
                    = skips[ti.skip_filepos + m]
  <2>1. ti.skip_filepos + m <= Len(skips)
    BY <1>3 DEF SkipRecords
  <2>2. ti.skip_filepos + m \in 1..Len(skips)
    BY <1>1, <1>2, <1>3, <2>1
  <2> QED
    BY <1>1, <2>2
<1> HIDE <1>1
<1> QED
  BY <1>3 DEF SkipRecords

\* The last of a term's postings has been written, and its TermInfo is added.
LEMMA TermEnds ==
    ASSUME PlistConstantsOK, NEW docs, NEW raw, RawsOf(raw, docs),
           NEW k, NEW w, Writing(raw, w, k), NEW t \in Int, w.last < t,
           k < Len(raw) => raw[k + 1][1] > w.last
    PROVE  LET infos == Append(w.infos, <<w.last, w.tinfo>>)
           IN  /\ infos \in Seq(Nat \X PostInfos)
               /\ Finished(raw, w.skips, infos, t)
               /\ \A i \in 1..k : \E j \in 1..Len(infos) :
                                      infos[j][1] = raw[i][1]
<1> DEFINE infos == Append(w.infos, <<w.last, w.tinfo>>)
           n == Len(w.infos)
<1>1. /\ w.infos \in Seq(Nat \X PostInfos) /\ w.last \in Nat
      /\ w.tinfo \in PostInfos /\ k \in 0..Len(raw)
      /\ Covers(raw, w.last, w.tinfo, k)
      /\ w.tinfo.post_filepos + w.tinfo.doc_freq = k
      /\ SkipRecords(raw, w.skips, w.tinfo)
      /\ Finished(raw, w.skips, w.infos, w.last)
      /\ Listed(raw, w.infos, w.last, k)
  BY DEF Writing, WriterSet
<1>2. /\ Len(raw) \in Nat
      /\ \A i \in 1..Len(raw) : raw[i][1] \in Nat
      /\ \A i, j \in 1..Len(raw) : i < j => raw[i][1] <= raw[j][1]
  BY InTermOrder
<1>3. /\ infos \in Seq(Nat \X PostInfos) /\ Len(infos) = n + 1 /\ n \in Nat
      /\ \A i \in 1..n : infos[i] = w.infos[i]
      /\ infos[n + 1] = <<w.last, w.tinfo>>
  BY <1>1
<1> HIDE DEF infos
<1>4. Covers(raw, w.last, w.tinfo, Len(raw))
  <2>1. ASSUME NEW i \in 1..Len(raw), ~(i <= k)
        PROVE  raw[i][1] # w.last
    <3>1. k + 1 \in 1..Len(raw) /\ k + 1 <= i
      BY <1>1, <1>2, <2>1
    <3>2. raw[k + 1][1] > w.last
      BY <1>1, <1>2, <3>1
    <3>3. raw[k + 1][1] <= raw[i][1]
      BY <1>2, <3>1
    <3> QED
      BY <1>1, <1>2, <3>1, <3>2, <3>3
  <2>2. ASSUME NEW i \in 1..Len(raw)
        PROVE  raw[i][1] = w.last <=>
                   w.tinfo.post_filepos < i
                   /\ i <= w.tinfo.post_filepos + w.tinfo.doc_freq
    <3>1. CASE i <= k
      <4>1. i \in 1..k
        BY <1>1, <3>1
      <4> QED
        BY <1>1, <4>1 DEF Covers
    <3>2. CASE ~(i <= k)
      BY <1>1, <2>1, <3>2
    <3> QED
      BY <3>1, <3>2
  <2>3. w.tinfo.post_filepos + w.tinfo.doc_freq <= Len(raw)
    BY <1>1
  <2> QED
    BY <1>1, <2>2, <2>3 DEF Covers
<1>5. ASSUME NEW i \in 1..Len(infos)
      PROVE  /\ infos[i][1] < t
             /\ Covers(raw, infos[i][1], infos[i][2], Len(raw))
             /\ SkipRecords(raw, w.skips, infos[i][2])
  <2>1. CASE i = n + 1
    <3>1. infos[i][1] = w.last /\ infos[i][2] = w.tinfo
      BY <1>3, <2>1
    <3> QED
      BY <1>1, <1>4, <3>1, Zenon
  <2>2. CASE i # n + 1
    <3>1. i \in 1..n /\ infos[i] = w.infos[i]
      BY <1>3, <2>2
    <3>2. infos[i][1] \in Nat
      BY <1>3
    <3>3. /\ infos[i][1] < w.last
          /\ Covers(raw, infos[i][1], infos[i][2], Len(raw))
          /\ SkipRecords(raw, w.skips, infos[i][2])
      BY <1>1, <3>1 DEF Finished
    <3>4. infos[i][1] < t
      BY <1>1, <3>2, <3>3
    <3> QED
      BY <3>3, <3>4
  <2> QED
    BY <2>1, <2>2
<1>6. ASSUME NEW i \in 1..Len(infos), NEW j \in 1..Len(infos), i < j
      PROVE  infos[i][1] < infos[j][1]
  <2>1. i \in 1..n /\ infos[i] = w.infos[i]
    BY <1>3, <1>6
  <2>2. CASE j = n + 1
    <3>1. infos[j][1] = w.last
      BY <1>3, <2>2
    <3>2. w.infos[i][1] < w.last
      BY <1>1, <2>1 DEF Finished
    <3> QED
      BY <2>1, <3>1, <3>2
  <2>3. CASE j # n + 1
    <3>1. j \in 1..n
      <4>1. n \in Nat /\ Len(infos) = n + 1
        BY <1>1, <1>3
      <4> HIDE DEF n
      <4> QED
        BY <2>3, <4>1
    <3>2. infos[j] = w.infos[j]
      BY <1>3, <3>1, Zenon
    <3> QED
      BY <1>1, <1>6, <2>1, <3>1, <3>2 DEF Finished
  <2> QED
    BY <2>2, <2>3
<1>7. ASSUME NEW i \in 1..k
      PROVE  \E j \in 1..Len(infos) : infos[j][1] = raw[i][1]
  <2>1. CASE raw[i][1] = w.last
    <3>1. n + 1 \in 1..Len(infos) /\ infos[n + 1][1] = w.last
      BY <1>3
    <3> QED
      BY <2>1, <3>1
  <2>2. CASE raw[i][1] # w.last
    <3>1. PICK j \in 1..n : w.infos[j][1] = raw[i][1]
      BY <1>1, <2>2 DEF Listed
    <3>2. j \in 1..Len(infos) /\ infos[j] = w.infos[j]
      BY <1>3
    <3> QED
      BY <3>1, <3>2
  <2> QED
    BY <2>1, <2>2
<1> QED
  BY <1>3, <1>5, <1>6, <1>7 DEF Finished, infos

\* What the two operations of the writer leave.
LEMMA StartTermIs ==
    ASSUME NEW w \in WriterSet, NEW t
    PROVE  LET here == Len(w.posts)
           IN  Plist!StartTerm(w, t) =
                   [posts |-> w.posts, skips |-> w.skips,
                    infos |-> Append(w.infos, <<w.last, w.tinfo>>),
                    last |-> t,
                    tinfo |-> [doc_freq |-> 0, post_filepos |-> here,
                               skip_filepos |-> 0],
                    last_doc_id |-> 0,
                    stepper |-> [doc_id |-> 0, filepos |-> here]]
<1> DEFINE here == Len(w.posts)
<1>1. [Plist!ZeroInfo EXCEPT !.post_filepos = here]
          = [doc_freq |-> 0, post_filepos |-> here, skip_filepos |-> 0]
  BY DEF Plist!ZeroInfo
<1>2. w = [posts |-> w.posts, skips |-> w.skips, infos |-> w.infos,
           last |-> w.last, tinfo |-> w.tinfo,
           last_doc_id |-> w.last_doc_id, stepper |-> w.stepper]
  BY DEF WriterSet
<1>3. Plist!StartTerm(w, t) =
          [w EXCEPT !.infos = Append(w.infos, <<w.last, w.tinfo>>),
                    !.tinfo = [Plist!ZeroInfo EXCEPT !.post_filepos = here],
                    !.last_doc_id = 0, !.last = t,
                    !.stepper = [doc_id |-> 0, filepos |-> here]]
  BY Zenon DEF Plist!StartTerm
<1> DEFINE infos == Append(w.infos, <<w.last, w.tinfo>>)
           ti == [Plist!ZeroInfo EXCEPT !.post_filepos = here]
           stepper == [doc_id |-> 0, filepos |-> here]
<1> HIDE DEF infos, ti, stepper, here
<1>4. Plist!StartTerm(w, t) =
          [posts |-> w.posts, skips |-> w.skips, infos |-> infos,
           last |-> t, tinfo |-> ti, last_doc_id |-> 0, stepper |-> stepper]
  BY <1>2, <1>3 DEF infos, ti, stepper
<1> QED
  BY <1>1, <1>4, Zenon DEF infos, ti, stepper, here

LEMMA WritePostingIs ==
    ASSUME NEW w \in WriterSet, NEW doc
    PROVE  Plist!Write_Posting(w, doc) =
               [posts |-> Append(w.posts, doc - w.last_doc_id),
                skips |-> w.skips, infos |-> w.infos, last |-> w.last,
                tinfo |-> [doc_freq |-> w.tinfo.doc_freq + 1,
                           post_filepos |-> w.tinfo.post_filepos,
                           skip_filepos |-> w.tinfo.skip_filepos],
                last_doc_id |-> doc, stepper |-> w.stepper]
<1>1. w = [posts |-> w.posts, skips |-> w.skips, infos |-> w.infos,
           last |-> w.last, tinfo |-> w.tinfo,
           last_doc_id |-> w.last_doc_id, stepper |-> w.stepper]
      /\ w.tinfo = [doc_freq |-> w.tinfo.doc_freq,
                    post_filepos |-> w.tinfo.post_filepos,
                    skip_filepos |-> w.tinfo.skip_filepos]
  BY DEF WriterSet, PostInfos
<1>2. Plist!Write_Posting(w, doc) =
          [w EXCEPT !.posts = Append(w.posts, doc - w.last_doc_id),
                    !.last_doc_id = doc,
                    !.tinfo = [w.tinfo EXCEPT !.doc_freq =
                                   w.tinfo.doc_freq + 1]]
  BY <1>1 DEF Plist!Write_Posting
<1> DEFINE posts == Append(w.posts, doc - w.last_doc_id)
           ti == [w.tinfo EXCEPT !.doc_freq = w.tinfo.doc_freq + 1]
<1>3. ti = [doc_freq |-> w.tinfo.doc_freq + 1,
            post_filepos |-> w.tinfo.post_filepos,
            skip_filepos |-> w.tinfo.skip_filepos]
  BY <1>1
<1> HIDE DEF posts, ti
<1>4. Plist!Write_Posting(w, doc) =
          [posts |-> posts, skips |-> w.skips, infos |-> w.infos,
           last |-> w.last, tinfo |-> ti, last_doc_id |-> doc,
           stepper |-> w.stepper]
  BY <1>1, <1>2 DEF posts, ti
<1> QED
  BY <1>3, <1>4, Zenon DEF posts

\* The next posting is of another term.
LEMMA TermBegins ==
    ASSUME PlistConstantsOK, NEW docs, NEW raw, RawsOf(raw, docs),
           NEW k, NEW w, Writing(raw, w, k), k < Len(raw),
           raw[k + 1][1] # w.last, k > 0 => w.last <= raw[k + 1][1],
           k > 0
    PROVE  Writing(raw, Plist!StartTerm(w, raw[k + 1][1]), k)
<1> DEFINE t == raw[k + 1][1]
           infos == Append(w.infos, <<w.last, w.tinfo>>)
           ti == [doc_freq |-> 0, post_filepos |-> Len(w.posts),
                  skip_filepos |-> 0]
           stepper == [doc_id |-> 0, filepos |-> Len(w.posts)]
           u == Plist!StartTerm(w, t)
<1>1. /\ w \in WriterSet /\ k \in 0..Len(raw) /\ w.last \in Nat
      /\ Deltas(raw, w.posts, k) /\ Len(w.posts) = k
      /\ \A i \in 1..k : raw[i][1] <= w.last
  BY DEF Writing, WriterSet, Deltas
<1>2. /\ Len(raw) \in Nat /\ \A i \in 1..Len(raw) : raw[i][1] \in Nat
      /\ \A i, j \in 1..Len(raw) : i < j => raw[i][1] <= raw[j][1]
  BY InTermOrder
<1>3. k \in Nat /\ k + 1 \in 1..Len(raw) /\ t \in Nat /\ t > w.last
  BY <1>1, <1>2
<1>4. /\ u.posts = w.posts /\ u.skips = w.skips /\ u.infos = infos
      /\ u.last = t /\ u.tinfo = ti /\ u.last_doc_id = 0
      /\ u.stepper = stepper
      /\ u = [posts |-> w.posts, skips |-> w.skips, infos |-> infos,
              last |-> t, tinfo |-> ti, last_doc_id |-> 0, stepper |-> stepper]
  <2>1. u = [posts |-> w.posts, skips |-> w.skips, infos |-> infos,
             last |-> t, tinfo |-> ti, last_doc_id |-> 0, stepper |-> stepper]
    BY StartTermIs, <1>1, Zenon
  <2> HIDE DEF u, infos, t, ti, stepper
  <2> QED
    BY <2>1
<1>5. /\ infos \in Seq(Nat \X PostInfos)
      /\ Finished(raw, w.skips, infos, t)
      /\ \A i \in 1..k : \E j \in 1..Len(infos) : infos[j][1] = raw[i][1]
  <2>1. t \in Int /\ w.last < t /\ (k < Len(raw) => raw[k + 1][1] > w.last)
    BY <1>1, <1>3
  <2> HIDE DEF t, infos
  <2> QED
    BY <2>1, TermEnds DEF infos
<1> HIDE DEF t, infos
<1>6. ti \in PostInfos /\ stepper \in [doc_id : Int, filepos : Int]
  BY <1>1, <1>3 DEF PostInfos
<1>7. u \in WriterSet
  <2> HIDE DEF ti, stepper, u
  <2>1. /\ w.posts \in Seq(Int) /\ w.skips \in Seq(Int \X Int)
        /\ 0 \in Int /\ t \in Nat
    BY <1>1, <1>3 DEF WriterSet
  <2> QED
    BY <1>4, <1>5, <1>6, <2>1 DEF WriterSet
<1> HIDE DEF u
<1>8. Covers(raw, t, ti, k)
  <2>1. ASSUME NEW i \in 1..k
        PROVE  raw[i][1] # t /\ ~(k < i)
    BY <1>1, <1>2, <1>3, SMTT(30)
  <2> QED
    BY <1>1, <1>3, <1>6, <2>1 DEF Covers
<1>9. SkipRecords(raw, w.skips, ti)
  <2>1. ASSUME NEW m \in Nat, m > 0, Stop(m) <= ti.doc_freq
        PROVE  FALSE
    <3>1. Stop(m) \in Nat /\ Stop(m) >= m
      BY StopIs
    <3>2. ti.doc_freq = 0
      OBVIOUS
    <3> QED
      BY <2>1, <3>1, <3>2
  <2> QED
    BY <2>1 DEF SkipRecords
<1>10. StepperAt(raw, w.skips, ti, stepper)
  <2>1. 0 \in Nat /\ Stop(0) = 0 /\ SkipInterval > 1 /\ SkipInterval \in Nat
    BY StopIs DEF PlistConstantsOK
  <2>2. Groups(0) = 0
    BY <2>1, GroupsAre
  <2> QED
    BY <1>1, <1>3, <2>1, <2>2 DEF StepperAt, Nth
<1>11. ti.post_filepos + ti.doc_freq = k /\ 0 = Nth(raw, k, 0)
       /\ ti.post_filepos = k /\ ti.doc_freq = 0
  BY <1>1, <1>3 DEF Nth
<1>12. Listed(raw, infos, t, k) /\ \A i \in 1..k : raw[i][1] <= t
  <2>1. Listed(raw, infos, t, k)
    BY <1>5, Zenon DEF Listed
  <2>2. ASSUME NEW i \in 1..k
        PROVE  raw[i][1] <= t
    <3>1. raw[i][1] <= w.last /\ raw[i][1] \in Nat
      BY <1>1, <1>2, <1>3
    <3> QED
      BY <1>1, <1>3, <3>1
  <2> QED
    BY <2>1, <2>2
<1> HIDE DEF ti, stepper
<1> QED
  <2>1. /\ SkipRecords(raw, u.skips, u.tinfo)
        /\ StepperAt(raw, u.skips, u.tinfo, u.stepper)
        /\ Covers(raw, u.last, u.tinfo, k) /\ Deltas(raw, u.posts, k)
        /\ Finished(raw, u.skips, u.infos, u.last)
        /\ Listed(raw, u.infos, u.last, k)
    BY <1>1, <1>4, <1>5, <1>8, <1>9, <1>10, <1>12, Zenon
  <2>2. /\ u.tinfo.post_filepos + u.tinfo.doc_freq = k
        /\ u.last_doc_id = Nth(raw, u.tinfo.post_filepos, u.tinfo.doc_freq)
        /\ \A i \in 1..k : raw[i][1] <= u.last
    BY <1>4, <1>11, <1>12
  <2>3. Writing(raw, u, k)
    BY <1>1, <1>7, <2>1, <2>2, Zenon DEF Writing
  <2> QED
    BY <2>3, Zenon DEF u, t

\* A posting is added to a term's, with a skip record if it is time for one.
PostingAdded(w, doc) ==
    LET v == Plist!Write_Posting(w, doc)
    IN  IF v.tinfo.doc_freq % SkipInterval = 0 THEN Plist!WriteSkip(v, doc)
        ELSE v

\* What is true of the writer, but for the skip records.
LEMMA PostingIs ==
    ASSUME PlistConstantsOK, NEW docs, NEW raw, RawsOf(raw, docs),
           NEW k, NEW w, Writing(raw, w, k), k < Len(raw),
           raw[k + 1][1] = w.last
    PROVE  LET d == raw[k + 1][2]
               v == Plist!Write_Posting(w, d)
           IN  /\ v \in WriterSet /\ k + 1 \in 0..Len(raw)
               /\ v.skips = w.skips /\ v.infos = w.infos /\ v.last = w.last
               /\ v.stepper = w.stepper
               /\ v.tinfo \in PostInfos
               /\ v.tinfo.doc_freq = w.tinfo.doc_freq + 1
               /\ v.tinfo.post_filepos = w.tinfo.post_filepos
               /\ v.tinfo.skip_filepos = w.tinfo.skip_filepos
               /\ Deltas(raw, v.posts, k + 1)
               /\ Covers(raw, v.last, v.tinfo, k + 1)
               /\ v.tinfo.post_filepos + v.tinfo.doc_freq = k + 1
               /\ v.last_doc_id = d
               /\ d = Nth(raw, v.tinfo.post_filepos, v.tinfo.doc_freq)
               /\ Listed(raw, v.infos, v.last, k + 1)
               /\ \A i \in 1..(k + 1) : raw[i][1] <= v.last
<1> DEFINE d == raw[k + 1][2]
           v == Plist!Write_Posting(w, d)
           posts == Append(w.posts, d - w.last_doc_id)
           base == w.tinfo.post_filepos
           ti == [doc_freq |-> w.tinfo.doc_freq + 1,
                  post_filepos |-> w.tinfo.post_filepos,
                  skip_filepos |-> w.tinfo.skip_filepos]
<1>1. /\ w \in WriterSet /\ k \in 0..Len(raw) /\ w.last \in Nat
      /\ w.posts \in Seq(Int) /\ w.tinfo \in PostInfos /\ w.last_doc_id \in Int
      /\ Deltas(raw, w.posts, k) /\ Len(w.posts) = k
      /\ Covers(raw, w.last, w.tinfo, k)
      /\ base + w.tinfo.doc_freq = k
      /\ w.last_doc_id = Nth(raw, base, w.tinfo.doc_freq)
      /\ Listed(raw, w.infos, w.last, k)
      /\ \A i \in 1..k : raw[i][1] <= w.last
  BY DEF Writing, WriterSet, Deltas
<1>2. /\ Len(raw) \in Nat
      /\ \A i \in 1..Len(raw) : raw[i][1] \in Nat /\ raw[i][2] \in Nat
  BY InTermOrder
<1>3. /\ k \in Nat /\ k + 1 \in 1..Len(raw) /\ d \in Nat /\ (k + 1) - 1 = k
      /\ base \in Nat /\ w.tinfo.doc_freq \in Nat /\ k + 1 \in 0..Len(raw)
  BY <1>1, <1>2 DEF PostInfos
<1>5. /\ ti \in PostInfos /\ ti.doc_freq = w.tinfo.doc_freq + 1
      /\ ti.post_filepos = base /\ ti.skip_filepos = w.tinfo.skip_filepos
  BY <1>1 DEF PostInfos
<1>4. /\ v.posts = posts /\ v.skips = w.skips /\ v.infos = w.infos
      /\ v.last = w.last /\ v.tinfo = ti /\ v.last_doc_id = d
      /\ v.stepper = w.stepper
      /\ v = [posts |-> posts, skips |-> w.skips, infos |-> w.infos,
              last |-> w.last, tinfo |-> ti, last_doc_id |-> d,
              stepper |-> w.stepper]
  <2>1. v = [posts |-> posts, skips |-> w.skips, infos |-> w.infos,
             last |-> w.last, tinfo |-> ti, last_doc_id |-> d,
             stepper |-> w.stepper]
    BY WritePostingIs, <1>1, Zenon
  <2> HIDE DEF v, d, ti, posts
  <2> QED
    BY <2>1
<1> HIDE DEF ti
<1>6. /\ posts \in Seq(Int) /\ Len(posts) = k + 1
      /\ \A i \in 1..k : posts[i] = w.posts[i]
      /\ posts[k + 1] = d - w.last_doc_id
  <2>1. d - w.last_doc_id \in Int
    BY <1>1, <1>3
  <2> HIDE DEF d
  <2> QED
    BY <1>1, <1>3, <2>1
<1> HIDE DEF posts, d
<1>7. v \in WriterSet
  <2> HIDE DEF v
  <2>1. /\ w.skips \in Seq(Int \X Int) /\ w.infos \in Seq(Nat \X PostInfos)
        /\ w.stepper \in [doc_id : Int, filepos : Int] /\ d \in Int
    BY <1>1, <1>3 DEF WriterSet
  <2> QED
    BY <1>1, <1>4, <1>5, <1>6, <2>1 DEF WriterSet
<1> HIDE DEF v
<1>8. w.last_doc_id = IF k + 1 > 1 /\ raw[k][1] = raw[k + 1][1]
                      THEN raw[k][2] ELSE 0
  <2>1. CASE k = 0
    <3>1. w.tinfo.doc_freq = 0
      BY <1>1, <1>3, <2>1
    <3> QED
      BY <1>1, <1>3, <2>1, <3>1 DEF Nth
  <2>2. CASE k # 0
    <3>1. k \in 1..k /\ k + 1 > 1
      BY <1>3, <2>2
    <3>2. raw[k][1] = w.last <=> base < k
      BY <1>1, <1>3, <3>1 DEF Covers
    <3>3. base < k <=> w.tinfo.doc_freq # 0
      BY <1>1, <1>3
    <3> QED
      BY <1>1, <3>1, <3>2, <3>3 DEF Nth
  <2> QED
    BY <2>1, <2>2
<1>9. Deltas(raw, posts, k + 1)
  <2>1. ASSUME NEW i \in 1..(k + 1)
        PROVE  posts[i] = raw[i][2]
                   - (IF i > 1 /\ raw[i - 1][1] = raw[i][1]
                      THEN raw[i - 1][2] ELSE 0)
    <3>1. CASE i = k + 1
      BY <1>3, <1>6, <1>8, <3>1 DEF d
    <3>2. CASE i # k + 1
      <4>1. i \in 1..k
        BY <1>3, <3>2
      <4> QED
        BY <1>1, <1>6, <4>1 DEF Deltas
    <3> QED
      BY <3>1, <3>2
  <2> QED
    BY <1>6, <2>1 DEF Deltas
<1>10. Covers(raw, w.last, ti, k + 1)
  <2>1. ASSUME NEW i \in 1..(k + 1)
        PROVE  raw[i][1] = w.last <=>
                   ti.post_filepos < i /\ i <= ti.post_filepos + ti.doc_freq
    <3>1. CASE i = k + 1
      <4>1. ti.post_filepos + ti.doc_freq = k + 1 /\ base < k + 1
        <5>1. base + w.tinfo.doc_freq = k
          BY <1>1
        <5> HIDE DEF base
        <5> QED
          BY <1>3, <1>5, <5>1, SMTT(30)
      <4> QED
        BY <1>3, <1>5, <3>1, <4>1
    <3>2. CASE i # k + 1
      <4>1. i \in 1..k /\ i <= k
        BY <1>3, <3>2
      <4>2. raw[i][1] = w.last <=> base < i /\ i <= base + w.tinfo.doc_freq
        BY <1>1, <4>1 DEF Covers
      <4>3. i <= base + w.tinfo.doc_freq /\ i <= base + (w.tinfo.doc_freq + 1)
        BY <1>1, <1>3, <4>1, SMTT(30)
      <4> QED
        BY <1>5, <4>2, <4>3
    <3> QED
      BY <3>1, <3>2
  <2>2. ti.post_filepos + ti.doc_freq <= k + 1
    BY <1>1, <1>3, <1>5
  <2> QED
    BY <1>5, <2>1, <2>2 DEF Covers
<1>11. ti.post_filepos + ti.doc_freq = k + 1
       /\ d = Nth(raw, ti.post_filepos, ti.doc_freq)
  <2>1. ti.post_filepos + ti.doc_freq = k + 1 /\ ti.doc_freq # 0
    BY <1>1, <1>3, <1>5
  <2> QED
    BY <2>1 DEF Nth, d
<1>12. Listed(raw, w.infos, w.last, k + 1)
       /\ \A i \in 1..(k + 1) : raw[i][1] <= w.last
  <2>1. ASSUME NEW i \in 1..(k + 1)
        PROVE  i = k + 1 \/ i \in 1..k
    BY <1>3
  <2> QED
    BY <1>1, <2>1 DEF Listed
<1> HIDE DEF base
<1> QED
  BY <1>3, <1>4, <1>5, <1>7, <1>9, <1>10, <1>11, <1>12 DEF v, d, base

LEMMA WriteSkipIs ==
    ASSUME NEW v \in WriterSet, NEW doc
    PROVE  LET here == Len(v.posts)
           IN  Plist!WriteSkip(v, doc) =
                   [posts |-> v.posts,
                    skips |-> Append(v.skips, <<doc - v.stepper.doc_id,
                                                here - v.stepper.filepos>>),
                    infos |-> v.infos, last |-> v.last,
                    tinfo |-> [doc_freq |-> v.tinfo.doc_freq,
                               post_filepos |-> v.tinfo.post_filepos,
                               skip_filepos |->
                                   IF v.tinfo.doc_freq = SkipInterval
                                   THEN Len(v.skips)
                                   ELSE v.tinfo.skip_filepos],
                    last_doc_id |-> v.last_doc_id,
                    stepper |-> [doc_id |-> doc, filepos |-> here]]
<1> DEFINE here == Len(v.posts)
           step == [doc_id |-> doc, filepos |-> here]
           skips == Append(v.skips, <<doc - v.stepper.doc_id,
                                      here - v.stepper.filepos>>)
           pos == IF v.tinfo.doc_freq = SkipInterval THEN Len(v.skips)
                  ELSE v.tinfo.skip_filepos
           ti == [v.tinfo EXCEPT !.skip_filepos = pos]
<1>1. v = [posts |-> v.posts, skips |-> v.skips, infos |-> v.infos,
           last |-> v.last, tinfo |-> v.tinfo,
           last_doc_id |-> v.last_doc_id, stepper |-> v.stepper]
      /\ v.tinfo = [doc_freq |-> v.tinfo.doc_freq,
                    post_filepos |-> v.tinfo.post_filepos,
                    skip_filepos |-> v.tinfo.skip_filepos]
  BY DEF WriterSet, PostInfos
<1>2. Plist!WriteSkip(v, doc) =
          [v EXCEPT !.tinfo = ti, !.skips = skips, !.stepper = step]
  <2>1. step.doc_id = doc /\ step.filepos = here
    OBVIOUS
  <2> QED
    BY <1>1, <2>1 DEF Plist!WriteSkip
<1>3. ti = [doc_freq |-> v.tinfo.doc_freq,
            post_filepos |-> v.tinfo.post_filepos, skip_filepos |-> pos]
  <2> HIDE DEF pos
  <2> QED
    BY <1>1
<1> HIDE DEF ti, skips, step
<1>4. Plist!WriteSkip(v, doc) =
          [posts |-> v.posts, skips |-> skips, infos |-> v.infos,
           last |-> v.last, tinfo |-> ti, last_doc_id |-> v.last_doc_id,
           stepper |-> step]
  BY <1>1, <1>2
<1> QED
  BY <1>3, <1>4, Zenon DEF skips, step

\* A posting more keeps the skip records of a term.
LEMMA SkipNotDue ==
    ASSUME PlistConstantsOK, NEW raw, NEW skips, NEW ti \in PostInfos,
           NEW tj \in PostInfos, NEW stepper,
           tj.doc_freq = ti.doc_freq + 1,
           tj.post_filepos = ti.post_filepos,
           tj.skip_filepos = ti.skip_filepos,
           tj.doc_freq % SkipInterval # 0,
           SkipRecords(raw, skips, ti), StepperAt(raw, skips, ti, stepper)
    PROVE  SkipRecords(raw, skips, tj) /\ StepperAt(raw, skips, tj, stepper)
<1> DEFINE n == ti.doc_freq
<1>1. n \in Nat /\ n + 1 \in Nat /\ tj.doc_freq = n + 1
  BY DEF PostInfos
<1>2. Groups(n + 1) = Groups(n) /\ Stop(Groups(n)) # n + 1
  BY <1>1, GroupsNext, Zenon
<1>3. ASSUME NEW m \in Nat, m > 0, Stop(m) <= n + 1
      PROVE  Stop(m) <= n
  <2>1. Stop(m) \in Nat /\ SkipInterval \in Nat /\ SkipInterval > 1
    BY StopIs DEF PlistConstantsOK
  <2>2. Stop(m) # n + 1
    <3> SUFFICES ASSUME Stop(m) = n + 1
                 PROVE  FALSE
      OBVIOUS
    <3>1. Stop(m) <= n + 1 /\ n + 1 < Stop(m) + SkipInterval
      BY <1>1, <2>1
    <3>2. Groups(n + 1) = m
      BY <1>1, <3>1, GroupsAre, Zenon
    <3> QED
      BY <1>2, <3>2
  <2> HIDE DEF n
  <2> QED
    BY <1>1, <1>3, <2>1, <2>2
<1>4. SkipRecords(raw, skips, tj)
  <2> SUFFICES ASSUME NEW m \in Nat, m > 0, Stop(m) <= tj.doc_freq
               PROVE  /\ tj.skip_filepos + m <= Len(skips)
                      /\ skips[tj.skip_filepos + m] =
                             <<Nth(raw, tj.post_filepos, Stop(m))
                                   - Nth(raw, tj.post_filepos, Stop(m - 1)),
                               SkipInterval>>
    BY Zenon DEF SkipRecords
  <2>1. Stop(m) <= ti.doc_freq
    BY <1>1, <1>3
  <2> QED
    BY <2>1 DEF SkipRecords
<1>5. StepperAt(raw, skips, tj, stepper)
  BY <1>1, <1>2, Zenon DEF StepperAt
<1> QED
  BY <1>4, <1>5

\* It is time for a skip record.
LEMMA GroupEnds ==
    ASSUME PlistConstantsOK, NEW n \in Nat, (n + 1) % SkipInterval = 0
    PROVE  /\ Groups(n) \in Nat /\ Groups(n + 1) = Groups(n) + 1
           /\ Stop(Groups(n) + 1) = n + 1
           /\ Stop(Groups(n)) + SkipInterval = n + 1
           /\ n + 1 = SkipInterval <=> Groups(n) = 0
           /\ \A m \in Nat : Stop(m) <= n + 1 => m <= Groups(n) + 1
           /\ \A m \in Nat : m <= Groups(n) => Stop(m) <= n
<1> DEFINE g == Groups(n)
<1>1. Groups(n + 1) = g + 1 /\ Stop(g + 1) = n + 1
  BY GroupsNext
<1>2. g \in Nat /\ Stop(g) <= n
  BY GroupsIs
<1>3. /\ Stop(0) = 0 /\ SkipInterval \in Nat /\ SkipInterval > 1
      /\ \A m \in Nat : Stop(m) \in Nat
      /\ \A j, k \in Nat : j < k => Stop(j) + SkipInterval <= Stop(k)
      /\ Stop(g + 1) = Stop(g) + SkipInterval
  BY <1>2, StopIs DEF PlistConstantsOK
<1> HIDE DEF g
<1>4. n + 1 = SkipInterval <=> g = 0
  <2>1. CASE g = 0
    BY <1>1, <1>3, <2>1
  <2>2. CASE g # 0
    <3>1. Stop(0) + SkipInterval <= Stop(g)
      BY <1>2, <1>3, <2>2
    <3> QED
      BY <1>2, <1>3, <2>2, <3>1
  <2> QED
    BY <2>1, <2>2
<1>5. ASSUME NEW m \in Nat, Stop(m) <= n + 1
      PROVE  m <= g + 1
  <2> SUFFICES ASSUME g + 1 < m
               PROVE  FALSE
    BY <1>2
  <2>1. g + 1 \in Nat
    BY <1>2
  <2>2. Stop(g + 1) + SkipInterval <= Stop(m)
    BY <1>3, <2>1
  <2>3. Stop(m) \in Nat
    BY <1>3
  <2> QED
    BY <1>1, <1>3, <1>5, <2>2, <2>3
<1>6. ASSUME NEW m \in Nat, m <= g
      PROVE  Stop(m) <= n
  <2>1. Stop(m) \in Nat /\ Stop(g) \in Nat
    BY <1>2, <1>3
  <2>2. m < g => Stop(m) + SkipInterval <= Stop(g)
    BY <1>2, <1>3
  <2> QED
    BY <1>2, <1>3, <1>6, <2>1, <2>2
<1>7. Stop(g) + SkipInterval = n + 1
  BY <1>1, <1>3
<1> QED
  BY <1>1, <1>2, <1>4, <1>5, <1>6, <1>7 DEF g

SkipAdded(raw, skips, ti, stepper, d) ==
    LET here == ti.post_filepos + ti.doc_freq
        r == <<d - stepper.doc_id, here - stepper.filepos>>
    IN  /\ r \in Int \X Int
        /\ SkipRecords(raw, Append(skips, r), ti)
        /\ StepperAt(raw, Append(skips, r), ti,
                     [doc_id |-> d, filepos |-> here])

LEMMA SkipDue ==
    ASSUME PlistConstantsOK, NEW raw, NEW skips \in Seq(Int \X Int),
           NEW ti \in PostInfos, NEW tj \in PostInfos, NEW stepper,
           NEW d \in Int,
           tj.doc_freq = ti.doc_freq + 1,
           tj.post_filepos = ti.post_filepos,
           tj.doc_freq = SkipInterval => tj.skip_filepos = Len(skips),
           tj.doc_freq # SkipInterval => tj.skip_filepos = ti.skip_filepos,
           tj.doc_freq % SkipInterval = 0,
           d = Nth(raw, tj.post_filepos, tj.doc_freq),
           SkipRecords(raw, skips, ti), StepperAt(raw, skips, ti, stepper),
           stepper \in [doc_id : Int, filepos : Int]
    PROVE  SkipAdded(raw, skips, tj, stepper, d)
<1> DEFINE n == ti.doc_freq
           g == Groups(n)
           base == ti.post_filepos
           here == tj.post_filepos + tj.doc_freq
           r == <<d - stepper.doc_id, here - stepper.filepos>>
           new == Append(skips, r)
<1>1. /\ n \in Nat /\ n + 1 \in Nat /\ tj.doc_freq = n + 1 /\ base \in Nat
      /\ tj.post_filepos = base /\ ti.skip_filepos \in Nat
      /\ tj.skip_filepos \in Nat
  BY DEF PostInfos
<1>2. /\ Groups(n + 1) = g + 1 /\ Stop(g + 1) = n + 1
      /\ n + 1 = SkipInterval <=> g = 0
      /\ \A m \in Nat : Stop(m) <= n + 1 => m <= g + 1
      /\ \A m \in Nat : m <= g => Stop(m) <= n
  BY <1>1, GroupEnds, Zenon
<1>3. /\ g \in Nat /\ Stop(g) \in Nat /\ Stop(g) + SkipInterval = n + 1
      /\ SkipInterval \in Nat
  <2>1. g \in Nat /\ Stop(g) + SkipInterval = n + 1
    BY <1>1, GroupEnds, Zenon
  <2>2. \A m \in Nat : Stop(m) \in Nat
    BY StopIs
  <2> HIDE DEF g, n
  <2> QED
    BY <2>1, <2>2 DEF PlistConstantsOK
<1>4. /\ stepper.doc_id = Nth(raw, base, Stop(g))
      /\ stepper.filepos = base + Stop(g)
      /\ g > 0 => ti.skip_filepos + g = Len(skips)
  BY Zenon DEF StepperAt
<1>5. stepper.doc_id \in Int /\ stepper.filepos \in Int /\ Len(skips) \in Nat
  OBVIOUS
<1>6. here = base + (n + 1) /\ here \in Nat
  BY <1>1
<1> HIDE DEF n, g, here, base
<1>7. r \in Int \X Int /\ r[1] = d - Nth(raw, base, Stop(g))
      /\ r[2] = SkipInterval /\ r = <<r[1], r[2]>>
  <2>1. here - stepper.filepos = SkipInterval
    BY <1>1, <1>3, <1>4, <1>6, SMTT(30)
  <2>2. r = <<d - stepper.doc_id, SkipInterval>>
    BY <2>1
  <2>3. d - stepper.doc_id \in Int
    BY <1>5
  <2> HIDE DEF r
  <2> QED
    BY <1>3, <1>4, <2>2, <2>3
<1>8. /\ tj.skip_filepos + g = Len(skips)
      /\ g > 0 => tj.skip_filepos = ti.skip_filepos
  <2>1. CASE g = 0
    <3>1. tj.doc_freq = SkipInterval
      BY <1>1, <1>2, <2>1, Zenon
    <3>2. tj.skip_filepos = Len(skips)
      BY <3>1
    <3> QED
      BY <1>5, <2>1, <3>2
  <2>2. CASE g # 0
    <3>1. tj.doc_freq # SkipInterval
      BY <1>1, <1>2, <2>2, Zenon
    <3>2. tj.skip_filepos = ti.skip_filepos
      BY <3>1
    <3> QED
      BY <1>3, <1>4, <2>2, <3>2
  <2> QED
    BY <2>1, <2>2
<1> HIDE DEF r
<1>9. /\ Len(new) = Len(skips) + 1
      /\ \A i \in 1..Len(skips) : new[i] = skips[i]
      /\ new[Len(skips) + 1] = r
  BY <1>7
<1> HIDE DEF new
<1>10. SkipRecords(raw, new, tj)
  <2> SUFFICES ASSUME NEW m \in Nat, m > 0, Stop(m) <= tj.doc_freq
               PROVE  /\ tj.skip_filepos + m <= Len(new)
                      /\ new[tj.skip_filepos + m] =
                             <<Nth(raw, tj.post_filepos, Stop(m))
                                   - Nth(raw, tj.post_filepos, Stop(m - 1)),
                               SkipInterval>>
    BY Zenon DEF SkipRecords
  <2>1. m <= g + 1
    <3>1. Stop(m) <= n + 1
      BY <1>1
    <3> QED
      BY <1>2, <3>1
  <2>2. CASE m = g + 1
    <3>1. tj.skip_filepos + m = Len(skips) + 1 /\ m - 1 = g
      <4>1. tj.skip_filepos + g = Len(skips) /\ g \in Nat
        BY <1>3, <1>8, Zenon
      <4>2. tj.skip_filepos \in Nat
        BY <1>1
      <4> QED
        BY <2>2, <4>1, <4>2
    <3>2. d = Nth(raw, base, Stop(m))
      BY <1>1, <1>2, <2>2, Zenon
    <3>3. r = <<Nth(raw, base, Stop(m)) - Nth(raw, base, Stop(g)),
                SkipInterval>>
      BY <1>7, <3>2
    <3>4. new[tj.skip_filepos + m] = r
      BY <1>9, <3>1
    <3>5. tj.skip_filepos + m <= Len(new)
      BY <1>5, <1>9, <3>1
    <3> QED
      BY <1>1, <3>1, <3>3, <3>4, <3>5
  <2>3. CASE m # g + 1
    <3>1. m <= g /\ 0 < g
      BY <1>3, <2>1, <2>3
    <3>2. Stop(m) <= n
      BY <1>2, <3>1
    <3>3. /\ ti.skip_filepos + m <= Len(skips)
          /\ skips[ti.skip_filepos + m] =
                 <<Nth(raw, base, Stop(m)) - Nth(raw, base, Stop(m - 1)),
                   SkipInterval>>
      <4>1. Stop(m) <= ti.doc_freq
        BY <3>2, Zenon DEF n
      <4> QED
        BY <4>1, Zenon DEF SkipRecords, base
    <3>4. ti.skip_filepos + m \in 1..Len(skips)
      <4> DEFINE a == ti.skip_filepos
                 b == Len(skips)
      <4>1. a \in Nat /\ b \in Nat /\ m \in Nat /\ m > 0 /\ a + m <= b
        BY <1>1, <1>5, <3>3, Zenon
      <4> HIDE DEF a, b
      <4>2. a + m \in 1..b
        BY <4>1
      <4> QED
        BY <4>2, Zenon DEF a, b
    <3>5. tj.skip_filepos = ti.skip_filepos
      BY <1>8, <3>1
    <3>6. new[tj.skip_filepos + m] = skips[ti.skip_filepos + m]
      BY <1>9, <3>4, <3>5
    <3>7. tj.skip_filepos + m <= Len(new)
      BY <1>1, <1>5, <1>9, <3>4, <3>5
    <3> QED
      BY <1>1, <3>3, <3>6, <3>7
  <2> QED
    BY <2>2, <2>3
<1>11. StepperAt(raw, new, tj, [doc_id |-> d, filepos |-> here])
  <2> DEFINE s == [doc_id |-> d, filepos |-> here]
  <2>1. s.doc_id = d /\ s.filepos = here
    OBVIOUS
  <2> HIDE DEF s
  <2>2. Groups(tj.doc_freq) = g + 1 /\ Stop(g + 1) = tj.doc_freq
    BY <1>1, <1>2
  <2>3. s.filepos = tj.post_filepos + Stop(g + 1)
    BY <2>1, <2>2, Zenon DEF here
  <2>4. tj.skip_filepos + (g + 1) = Len(new)
    <3> DEFINE a == tj.skip_filepos
               b == Len(skips)
               c == Len(new)
    <3>1. a \in Nat /\ b \in Nat /\ g \in Nat /\ a + g = b /\ c = b + 1
      BY <1>1, <1>3, <1>5, <1>8, <1>9, Zenon
    <3> HIDE DEF a, b, c
    <3>2. a + (g + 1) = c
      BY <3>1
    <3> QED
      BY <3>2, Zenon DEF a, c
  <2>5. StepperAt(raw, new, tj, s)
    BY <2>1, <2>2, <2>3, <2>4 DEF StepperAt
  <2> QED
    BY <2>5 DEF s
<1> QED
  BY <1>7, <1>10, <1>11, Zenon DEF SkipAdded, new, r, here

LEMMA PostingKeeps ==
    ASSUME PlistConstantsOK, NEW docs, NEW raw, RawsOf(raw, docs),
           NEW k, NEW w, Writing(raw, w, k), k < Len(raw),
           raw[k + 1][1] = w.last
    PROVE  LET u == PostingAdded(w, raw[k + 1][2])
           IN  Writing(raw, u, k + 1) /\ u.tinfo.doc_freq > 0
<1> DEFINE d == raw[k + 1][2]
           v == Plist!Write_Posting(w, d)
           u == PostingAdded(w, d)
<1>1. /\ w \in WriterSet /\ w.tinfo \in PostInfos /\ w.tinfo.doc_freq \in Nat
      /\ w.skips \in Seq(Int \X Int)
      /\ SkipRecords(raw, w.skips, w.tinfo)
      /\ StepperAt(raw, w.skips, w.tinfo, w.stepper)
      /\ w.stepper \in [doc_id : Int, filepos : Int]
      /\ Finished(raw, w.skips, w.infos, w.last)
      /\ w.infos \in Seq(Nat \X PostInfos) /\ k \in Nat
  <2>1. Len(raw) \in Nat
    BY InTermOrder
  <2> QED
    BY <2>1 DEF Writing, WriterSet, PostInfos
<1>2. /\ v \in WriterSet /\ k + 1 \in 0..Len(raw)
      /\ v.skips = w.skips /\ v.infos = w.infos /\ v.last = w.last
      /\ v.stepper = w.stepper /\ v.tinfo \in PostInfos
      /\ v.tinfo.doc_freq = w.tinfo.doc_freq + 1
      /\ v.tinfo.post_filepos = w.tinfo.post_filepos
      /\ v.tinfo.skip_filepos = w.tinfo.skip_filepos
      /\ Deltas(raw, v.posts, k + 1) /\ Covers(raw, v.last, v.tinfo, k + 1)
      /\ v.tinfo.post_filepos + v.tinfo.doc_freq = k + 1
      /\ v.last_doc_id = d
      /\ d = Nth(raw, v.tinfo.post_filepos, v.tinfo.doc_freq)
      /\ Listed(raw, v.infos, v.last, k + 1)
      /\ \A i \in 1..(k + 1) : raw[i][1] <= v.last
  BY PostingIs
<1>3. d \in Int
  <2>1. k + 1 \in 1..Len(raw) /\ \A i \in 1..Len(raw) : raw[i][2] \in Nat
    BY <1>1, <1>2, InTermOrder
  <2> QED
    BY <2>1
<1> HIDE DEF v, d
<1>4. CASE v.tinfo.doc_freq % SkipInterval # 0
  <2>1. u = v
    BY <1>4, Zenon DEF PostingAdded, v
  <2>2. SkipRecords(raw, v.skips, v.tinfo)
        /\ StepperAt(raw, v.skips, v.tinfo, v.stepper)
    <3>1. SkipRecords(raw, w.skips, v.tinfo)
          /\ StepperAt(raw, w.skips, v.tinfo, w.stepper)
      BY <1>1, <1>2, <1>4, SkipNotDue, Zenon
    <3> QED
      BY <1>2, <3>1, Zenon
  <2>3. Finished(raw, v.skips, v.infos, v.last)
    BY <1>1, <1>2, Zenon
  <2>4. v.last_doc_id = Nth(raw, v.tinfo.post_filepos, v.tinfo.doc_freq)
    BY <1>2, Zenon
  <2>5. Writing(raw, v, k + 1)
    BY <1>2, <2>2, <2>3, <2>4, Zenon DEF Writing
  <2>6. v.tinfo.doc_freq > 0
    BY <1>1, <1>2
  <2> QED
    BY <2>1, <2>5, <2>6, Zenon DEF d
<1>5. CASE v.tinfo.doc_freq % SkipInterval = 0
  <2> DEFINE here == v.tinfo.post_filepos + v.tinfo.doc_freq
             r == <<d - v.stepper.doc_id, here - v.stepper.filepos>>
             tj == [doc_freq |-> v.tinfo.doc_freq,
                    post_filepos |-> v.tinfo.post_filepos,
                    skip_filepos |-> IF v.tinfo.doc_freq = SkipInterval
                                     THEN Len(v.skips)
                                     ELSE v.tinfo.skip_filepos]
             s == [doc_id |-> d, filepos |-> here]
             new == Append(v.skips, r)
  <2>1. u = Plist!WriteSkip(v, d)
    BY <1>5, Zenon DEF PostingAdded, v
  <2>2. here = Len(v.posts)
    BY <1>2, Zenon DEF Deltas
  <2>3. u = [posts |-> v.posts, skips |-> new, infos |-> v.infos,
             last |-> v.last, tinfo |-> tj, last_doc_id |-> v.last_doc_id,
             stepper |-> s]
    <3>1. v \in WriterSet
      BY <1>2
    <3> HIDE DEF u, here
    <3> QED
      BY <2>1, <2>2, <3>1, WriteSkipIs, Zenon
  <2>4. /\ tj \in PostInfos /\ tj.doc_freq = v.tinfo.doc_freq
        /\ tj.post_filepos = v.tinfo.post_filepos
        /\ tj.skip_filepos = IF tj.doc_freq = SkipInterval THEN Len(w.skips)
                             ELSE w.tinfo.skip_filepos
    <3>1. /\ v.tinfo.doc_freq \in Nat /\ v.tinfo.post_filepos \in Nat
          /\ v.tinfo.skip_filepos \in Nat /\ Len(w.skips) \in Nat
      BY <1>1, <1>2 DEF PostInfos
    <3> QED
      BY <1>2, <3>1 DEF PostInfos
  <2>5. /\ r \in Int \X Int /\ SkipRecords(raw, new, tj)
        /\ StepperAt(raw, new, tj, s)
    <3>1. /\ tj.doc_freq = w.tinfo.doc_freq + 1
          /\ tj.post_filepos = w.tinfo.post_filepos
          /\ tj.doc_freq % SkipInterval = 0
          /\ d = Nth(raw, tj.post_filepos, tj.doc_freq)
          /\ here = tj.post_filepos + tj.doc_freq
      BY <1>2, <1>5, <2>4, Zenon
    <3>2. /\ r = <<d - w.stepper.doc_id, here - w.stepper.filepos>>
          /\ new = Append(w.skips, r)
      BY <1>2, Zenon
    <3> HIDE DEF tj, r, new, here
    <3>3. SkipAdded(raw, w.skips, tj, w.stepper, d)
      <4>1. /\ w.skips \in Seq(Int \X Int) /\ w.tinfo \in PostInfos
            /\ tj \in PostInfos /\ d \in Int
            /\ SkipRecords(raw, w.skips, w.tinfo)
            /\ StepperAt(raw, w.skips, w.tinfo, w.stepper)
            /\ w.stepper \in [doc_id : Int, filepos : Int]
        BY <1>1, <1>3, <2>4, Zenon
      <4>2. /\ tj.doc_freq = w.tinfo.doc_freq + 1
            /\ tj.post_filepos = w.tinfo.post_filepos
            /\ tj.doc_freq % SkipInterval = 0
            /\ d = Nth(raw, tj.post_filepos, tj.doc_freq)
        BY <3>1, Zenon
      <4>3. /\ tj.doc_freq = SkipInterval => tj.skip_filepos = Len(w.skips)
            /\ tj.doc_freq # SkipInterval
               => tj.skip_filepos = w.tinfo.skip_filepos
        BY <2>4
      <4> QED
        BY <4>1, <4>2, <4>3, SkipDue
    <3> QED
      BY <3>1, <3>2, <3>3, Zenon DEF SkipAdded
  <2>6. Finished(raw, new, v.infos, v.last)
    <3>1. ASSUME NEW i \in 1..Len(w.infos)
          PROVE  SkipRecords(raw, new, w.infos[i][2])
      <4>1. w.infos[i][2] \in PostInfos
        BY <1>1
      <4>2. SkipRecords(raw, w.skips, w.infos[i][2])
        BY <1>1 DEF Finished
      <4> HIDE DEF r
      <4> QED
        BY <1>1, <1>2, <2>5, <4>1, <4>2, SkipsKept, Zenon
    <3> HIDE DEF new
    <3> QED
      BY <1>1, <1>2, <3>1, Zenon DEF Finished
  <2>7. here \in Int /\ new \in Seq(Int \X Int)
    <3>1. here = k + 1
      BY <1>2, Zenon
    <3> HIDE DEF r, here
    <3> QED
      BY <1>1, <1>2, <2>5, <3>1
  <2>8. Covers(raw, v.last, tj, k + 1)
    <3> HIDE DEF tj
    <3> QED
      BY <1>2, <2>4, Zenon DEF Covers
  <2> HIDE DEF new, tj, u, here
  <2>9. /\ u.posts = v.posts /\ u.skips = new /\ u.infos = v.infos
        /\ u.last = v.last /\ u.tinfo = tj /\ u.last_doc_id = v.last_doc_id
        /\ u.stepper = s
    BY <2>3
  <2>10. u \in WriterSet
    <3>1. /\ v.posts \in Seq(Int) /\ v.infos \in Seq(Nat \X PostInfos)
          /\ v.last \in Nat /\ v.last_doc_id \in Int
      BY <1>2 DEF WriterSet
    <3>2. s \in [doc_id : Int, filepos : Int]
      BY <1>3, <2>7
    <3> HIDE DEF s
    <3> QED
      BY <2>3, <2>4, <2>7, <3>1, <3>2 DEF WriterSet
  <2> HIDE DEF s
  <2>11. /\ u.tinfo.post_filepos + u.tinfo.doc_freq = k + 1
         /\ u.last_doc_id = Nth(raw, u.tinfo.post_filepos, u.tinfo.doc_freq)
    BY <1>2, <2>4, <2>9, Zenon
  <2>12. /\ SkipRecords(raw, u.skips, u.tinfo)
         /\ StepperAt(raw, u.skips, u.tinfo, u.stepper)
         /\ Finished(raw, u.skips, u.infos, u.last)
         /\ Covers(raw, u.last, u.tinfo, k + 1)
         /\ Deltas(raw, u.posts, k + 1) /\ Listed(raw, u.infos, u.last, k + 1)
         /\ \A i \in 1..(k + 1) : raw[i][1] <= u.last
    BY <1>2, <2>5, <2>6, <2>8, <2>9, Zenon
  <2>13. Writing(raw, u, k + 1)
    BY <1>2, <2>10, <2>11, <2>12, Zenon DEF Writing
  <2>14. u.tinfo.doc_freq > 0
    <3>1. u.tinfo.doc_freq = w.tinfo.doc_freq + 1
      BY <1>2, <2>4, <2>9, Zenon
    <3> QED
      BY <1>1, <3>1
  <2> QED
    BY <2>13, <2>14, Zenon DEF u, d
<1> QED
  BY <1>4, <1>5

\* The writer after k postings of raw, each of which was the next.
Wrote(raw, w, k) ==
    /\ Writing(raw, w, k)
    /\ k = 0 => w.last = raw[1][1]
    /\ k > 0 => w.tinfo.doc_freq > 0

LEMMA WritesFirst ==
    ASSUME PlistConstantsOK, NEW docs, NEW raw, RawsOf(raw, docs), raw # <<>>
    PROVE  Wrote(raw, Plist!Primed(raw[1][1]), 0)
<1> DEFINE w == Plist!Primed(raw[1][1])
           ti == [doc_freq |-> 0, post_filepos |-> 0, skip_filepos |-> 0]
           stepper == [doc_id |-> 0, filepos |-> 0]
<1>1. Len(raw) \in Nat /\ raw[1][1] \in Nat
  <2>1. raw \in Seq(Nat \X Nat)
    BY DEF RawsOf
  <2>2. Len(raw) \in Nat /\ 1 \in 1..Len(raw)
    BY <2>1
  <2> QED
    BY <2>2, InTermOrder
<1>2. /\ w.posts = <<>> /\ w.skips = <<>> /\ w.infos = <<>>
      /\ w.last = raw[1][1] /\ w.tinfo = ti /\ w.last_doc_id = 0
      /\ w.stepper = stepper
  BY DEF Plist!Primed, Plist!ZeroInfo
<1>3. w \in WriterSet /\ ti \in PostInfos
  BY <1>1 DEF Plist!Primed, Plist!ZeroInfo, WriterSet, PostInfos
<1> HIDE DEF w
<1>4. /\ ti.doc_freq = 0 /\ ti.post_filepos = 0
      /\ stepper.doc_id = 0 /\ stepper.filepos = 0
  OBVIOUS
<1> HIDE DEF ti, stepper
<1>5. SkipRecords(raw, <<>>, ti)
  <2>1. ASSUME NEW m \in Nat, m > 0, Stop(m) <= ti.doc_freq
        PROVE  FALSE
    <3>1. Stop(m) \in Nat /\ Stop(m) >= m
      BY StopIs
    <3> QED
      BY <1>4, <2>1, <3>1
  <2> QED
    BY <2>1 DEF SkipRecords
<1>6. StepperAt(raw, <<>>, ti, stepper)
  <2>1. 0 \in Nat /\ Stop(0) = 0 /\ SkipInterval > 1 /\ SkipInterval \in Nat
    BY StopIs DEF PlistConstantsOK
  <2>2. Groups(0) = 0
    BY <2>1, GroupsAre
  <2> QED
    BY <1>4, <2>1, <2>2 DEF StepperAt, Nth
<1>7. Deltas(raw, <<>>, 0) /\ Covers(raw, raw[1][1], ti, 0)
      /\ Listed(raw, <<>>, raw[1][1], 0)
      /\ \A i \in 1..0 : raw[i][1] <= raw[1][1]
  BY <1>3, <1>4 DEF Deltas, Covers, Listed
<1>8. Finished(raw, <<>>, <<>>, raw[1][1])
  BY DEF Finished
<1>9. ti.post_filepos + ti.doc_freq = 0 /\ 0 = Nth(raw, 0, 0)
      /\ 0 \in 0..Len(raw)
  BY <1>1, <1>4 DEF Nth
<1>10. w.last_doc_id = Nth(raw, w.tinfo.post_filepos, w.tinfo.doc_freq)
       /\ w.tinfo.post_filepos + w.tinfo.doc_freq = 0
  BY <1>2, <1>4, <1>9, Zenon
<1>11. Writing(raw, w, 0)
  BY <1>2, <1>3, <1>5, <1>6, <1>7, <1>8, <1>9, <1>10, Zenon DEF Writing
<1> QED
  BY <1>2, <1>11 DEF Wrote, w

LEMMA WritesNext ==
    ASSUME PlistConstantsOK, NEW docs, NEW raw, RawsOf(raw, docs),
           NEW k \in Nat, k < Len(raw), NEW w, Wrote(raw, w, k)
    PROVE  Wrote(raw, Plist!WritePosting(w, raw[k + 1]), k + 1)
<1> DEFINE p == raw[k + 1]
           next == Plist!WritePosting(w, p)
           u == Plist!StartTerm(w, p[1])
<1>1. /\ Len(raw) \in Nat /\ k + 1 \in 1..Len(raw) /\ k \in Nat
      /\ \A i \in 1..Len(raw) : raw[i][1] \in Nat
      /\ \A i, j \in 1..Len(raw) : i < j => raw[i][1] <= raw[j][1]
  BY InTermOrder
<1>2. Writing(raw, w, k)
  BY DEF Wrote
<1>3. CASE p[1] = w.last
  <2>1. next = PostingAdded(w, p[2])
    BY <1>3, Zenon DEF Plist!WritePosting, PostingAdded
  <2>2. Writing(raw, PostingAdded(w, p[2]), k + 1)
        /\ PostingAdded(w, p[2]).tinfo.doc_freq > 0
    BY <1>2, <1>3, PostingKeeps
  <2>3. k + 1 # 0
    BY <1>1
  <2> HIDE DEF next
  <2> QED
    BY <2>1, <2>2, <2>3 DEF Wrote, next
<1>4. CASE p[1] # w.last
  <2>1. k > 0
    BY <1>1, <1>4 DEF Wrote
  <2>2. w.last <= p[1]
    <3>1. k \in 1..k /\ k \in 1..Len(raw) /\ k < k + 1
      BY <1>1, <2>1
    <3>2. raw[k][1] = w.last
      <4>1. /\ Covers(raw, w.last, w.tinfo, k) /\ w.tinfo \in PostInfos
            /\ w.tinfo.post_filepos + w.tinfo.doc_freq = k
            /\ w.tinfo.doc_freq > 0
        BY <2>1 DEF Writing, Wrote, WriterSet
      <4>2. w.tinfo.post_filepos \in Nat /\ w.tinfo.doc_freq \in Nat
        BY <4>1 DEF PostInfos
      <4>3. w.tinfo.post_filepos < k
            /\ k <= w.tinfo.post_filepos + w.tinfo.doc_freq
        <5> DEFINE a == w.tinfo.post_filepos
                   b == w.tinfo.doc_freq
        <5>1. a \in Nat /\ b \in Nat /\ a + b = k /\ b > 0
          BY <4>1, <4>2, Zenon
        <5> HIDE DEF a, b
        <5>2. a < k /\ k <= a + b
          BY <1>1, <5>1
        <5> QED
          BY <5>2, Zenon DEF a, b
      <4> QED
        BY <3>1, <4>1, <4>3 DEF Covers
    <3> QED
      BY <1>1, <3>1, <3>2
  <2>3. Writing(raw, u, k)
    BY <1>2, <1>4, <2>1, <2>2, TermBegins
  <2>4. u.last = p[1] /\ u.tinfo.doc_freq = 0
    <3>1. w \in WriterSet
      BY <1>2 DEF Writing
    <3> DEFINE here == Len(w.posts)
               ti == [doc_freq |-> 0, post_filepos |-> here,
                      skip_filepos |-> 0]
               infos == Append(w.infos, <<w.last, w.tinfo>>)
    <3>2. u = [posts |-> w.posts, skips |-> w.skips, infos |-> infos,
               last |-> p[1], tinfo |-> ti, last_doc_id |-> 0,
               stepper |-> [doc_id |-> 0, filepos |-> here]]
      BY <3>1, StartTermIs, Zenon
    <3>3. ti.doc_freq = 0
      OBVIOUS
    <3> HIDE DEF u, ti, infos, here
    <3> QED
      BY <3>2, <3>3
  <2> HIDE DEF u
  <2> DEFINE v == Plist!Write_Posting(u, p[2])
  <2>5. Writing(raw, PostingAdded(u, p[2]), k + 1)
        /\ PostingAdded(u, p[2]).tinfo.doc_freq > 0
    BY <2>3, <2>4, PostingKeeps
  <2>6. PostingAdded(u, p[2]) = v
    <3>1. v.tinfo.doc_freq = 1
      <4>1. u \in WriterSet
        BY <2>3 DEF Writing
      <4> DEFINE ti == [doc_freq |-> u.tinfo.doc_freq + 1,
                        post_filepos |-> u.tinfo.post_filepos,
                        skip_filepos |-> u.tinfo.skip_filepos]
                 posts == Append(u.posts, p[2] - u.last_doc_id)
      <4>2. v = [posts |-> posts, skips |-> u.skips, infos |-> u.infos,
                 last |-> u.last, tinfo |-> ti, last_doc_id |-> p[2],
                 stepper |-> u.stepper]
        BY <4>1, WritePostingIs, Zenon
      <4>3. ti.doc_freq = 1
        BY <2>4
      <4> HIDE DEF v, posts, ti
      <4> QED
        BY <4>2, <4>3
    <3>2. 1 % SkipInterval # 0
      <4>1. Stop(0) = 0 /\ SkipInterval \in Nat /\ SkipInterval > 1
        BY StopIs DEF PlistConstantsOK
      <4>2. 0 \in Nat /\ 1 \in Nat /\ Stop(0) <= 1
            /\ 1 < Stop(0) + SkipInterval
        BY <4>1
      <4>3. Groups(1) = 0
        BY <4>2, GroupsAre
      <4>4. 1 % SkipInterval = 1 - Stop(Groups(1))
        BY <4>2, GroupsIs, Zenon
      <4> QED
        BY <4>1, <4>3, <4>4
    <3> HIDE DEF v
    <3> QED
      BY <3>1, <3>2, Zenon DEF PostingAdded, v
  <2>7. next = v
    BY <1>4, Zenon DEF Plist!WritePosting, u
  <2>8. k + 1 # 0
    BY <1>1
  <2> HIDE DEF next, v
  <2> QED
    BY <2>5, <2>6, <2>7, <2>8 DEF Wrote, next
<1> QED
  BY <1>3, <1>4

\* What has been written when the loop ends, with the TermInfo of the last
\* term.
Filed(raw, f) ==
    /\ Deltas(raw, f.posts, Len(raw))
    /\ f.infos \in Seq(Nat \X PostInfos)
    /\ \A i \in 1..Len(f.infos) :
          /\ Covers(raw, f.infos[i][1], f.infos[i][2], Len(raw))
          /\ SkipRecords(raw, f.skips, f.infos[i][2])
    /\ \A i, j \in 1..Len(f.infos) :
          f.infos[i][1] = f.infos[j][1] => i = j
    /\ \A i \in 1..Len(raw) : \E j \in 1..Len(f.infos) :
          f.infos[j][1] = raw[i][1]

LEMMA WritesLast ==
    ASSUME PlistConstantsOK, NEW docs, NEW raw, RawsOf(raw, docs),
           NEW w, Wrote(raw, w, Len(raw))
    PROVE  LET u == Plist!StartTerm(w, -1)
           IN  Filed(raw, [posts |-> u.posts, skips |-> u.skips,
                           infos |-> u.infos])
<1> DEFINE u == Plist!StartTerm(w, -1)
           f == [posts |-> u.posts, skips |-> u.skips, infos |-> u.infos]
           infos == Append(w.infos, <<w.last, w.tinfo>>)
           t == w.last + 1
           k == Len(raw)
<1>1. /\ Writing(raw, w, k) /\ w \in WriterSet /\ w.last \in Nat
      /\ Deltas(raw, w.posts, k) /\ Len(raw) \in Nat
  BY InTermOrder DEF Wrote, Writing, WriterSet
<1>2. /\ infos \in Seq(Nat \X PostInfos)
      /\ Finished(raw, w.skips, infos, t)
      /\ \A i \in 1..k : \E j \in 1..Len(infos) : infos[j][1] = raw[i][1]
  <2>1. t \in Int /\ w.last < t
    BY <1>1
  <2>2. k < Len(raw) => raw[k + 1][1] > w.last
    BY <1>1
  <2>3. Writing(raw, w, k)
    BY <1>1
  <2> HIDE DEF t, k
  <2>4. /\ infos \in Seq(Nat \X PostInfos)
        /\ Finished(raw, w.skips, infos, t)
        /\ \A i \in 1..k : \E j \in 1..Len(infos) :
                                infos[j][1] = raw[i][1]
    BY <2>1, <2>2, <2>3, TermEnds
  <2> QED
    BY <2>4 DEF k
<1> HIDE DEF infos, t
<1>3. f.posts = w.posts /\ f.skips = w.skips /\ f.infos = infos
  <2> DEFINE here == Len(w.posts)
             ti == [doc_freq |-> 0, post_filepos |-> here, skip_filepos |-> 0]
             stepper == [doc_id |-> 0, filepos |-> here]
  <2>1. u = [posts |-> w.posts, skips |-> w.skips, infos |-> infos,
             last |-> -1, tinfo |-> ti, last_doc_id |-> 0, stepper |-> stepper]
    BY <1>1, StartTermIs, Zenon DEF infos
  <2> HIDE DEF u, ti, stepper, here
  <2> QED
    BY <2>1
<1> HIDE DEF f
<1>4. \A i \in 1..Len(infos) :
          /\ Covers(raw, infos[i][1], infos[i][2], k)
          /\ SkipRecords(raw, w.skips, infos[i][2])
  BY <1>2, Zenon DEF Finished
<1>5. ASSUME NEW i \in 1..Len(infos), NEW j \in 1..Len(infos),
             infos[i][1] = infos[j][1]
      PROVE  i = j
  <2>1. infos[i][1] \in Nat /\ i \in Int /\ j \in Int
    BY <1>2
  <2>2. (i < j => infos[i][1] < infos[j][1])
        /\ (j < i => infos[j][1] < infos[i][1])
    BY <1>2, Zenon DEF Finished
  <2> QED
    BY <1>5, <2>1, <2>2
<1> QED
  BY <1>1, <1>2, <1>3, <1>4, <1>5, Zenon DEF Filed, f

LEMMA AllWritten ==
    ASSUME PlistConstantsOK, NEW docs, NEW raw, RawsOf(raw, docs), raw # <<>>
    PROVE  Filed(raw, Plist!S_write_terms_and_postings(raw))
<1> DEFINE N == Len(raw)
           primed == Plist!Primed(raw[1][1])
           S == {w \in WriterSet : \E k \in 0..N : Wrote(raw, w, k)}
           Step(k, w) == IF Wrote(raw, w, k - 1)
                         THEN Plist!WritePosting(w, raw[k]) ELSE w
           step == [k \in 1..N |-> [w \in S |-> Step(k, w)]]
           F(f) == [k \in 0..N |-> IF k = 0 THEN primed
                                   ELSE Plist!WritePosting(f[k - 1], raw[k])]
           upto == CHOOSE f : f = F(f)
           last == Plist!StartTerm(upto[N], -1)
<1>1. N \in Nat
  BY InTermOrder
<1> HIDE DEF N
<1>2. \A k \in 0..N : \A w : Wrote(raw, w, k) => w \in S
  BY DEF Wrote, Writing
<1>3. primed \in S /\ Wrote(raw, primed, 0)
  <2>1. Wrote(raw, primed, 0) /\ 0 \in 0..N
    BY <1>1, WritesFirst
  <2> HIDE DEF primed, S
  <2> QED
    BY <1>2, <2>1
<1>4. ASSUME NEW k \in 1..N, NEW w, Wrote(raw, w, k - 1)
      PROVE  Wrote(raw, Plist!WritePosting(w, raw[k]), k)
  <2> DEFINE j == k - 1
  <2>1. j \in Nat /\ j < Len(raw) /\ j + 1 = k
    BY <1>1 DEF N
  <2>2. Wrote(raw, w, j)
    BY <1>4
  <2> HIDE DEF j
  <2>3. Wrote(raw, Plist!WritePosting(w, raw[j + 1]), j + 1)
    BY <2>1, <2>2, WritesNext
  <2> QED
    BY <2>1, <2>3
<1> HIDE DEF S, primed
<1>5. Loop(N, S, primed, step)
  <2>1. ASSUME NEW k \in 1..N, NEW w \in S
        PROVE  Step(k, w) \in S
    <3>1. k \in 0..N
      BY <1>1
    <3> QED
      BY <1>2, <1>4, <3>1
  <2>2. Rounds(N, S, step)
    <3> HIDE DEF Step
    <3> QED
      BY <2>1 DEF Rounds
  <2> HIDE DEF step
  <2> QED
    BY <1>1, <1>3, <2>2, Iterated, Zenon
<1>6. PICK g \in [0..N -> S] :
          g[0] = primed /\ \A k \in 1..N : g[k] = step[k][g[k - 1]]
  BY <1>5, Zenon DEF Loop
<1>7. \A k \in 0..N : k \in {j \in 0..N : Wrote(raw, g[j], j)}
  <2> DEFINE T == {j \in 0..N : Wrote(raw, g[j], j)}
  <2>1. 0 \in T
    BY <1>1, <1>3, <1>6
  <2>2. ASSUME NEW k \in 0..(N - 1), k \in T
        PROVE  k + 1 \in T
    <3>1. /\ k + 1 \in 1..N /\ (k + 1) - 1 = k /\ k \in 0..N
          /\ k + 1 \in 0..N
      BY <1>1
    <3>2. g[k] \in S /\ Wrote(raw, g[k], k)
      BY <1>6, <2>2, <3>1
    <3>3. g[k + 1] = Plist!WritePosting(g[k], raw[k + 1])
      <4>1. g[k + 1] = step[k + 1][g[k]]
        BY <1>6, <3>1
      <4>2. step[k + 1][g[k]] = Step(k + 1, g[k])
        <5> HIDE DEF Step
        <5> QED
          BY <3>1, <3>2
      <4>3. Step(k + 1, g[k]) = Plist!WritePosting(g[k], raw[k + 1])
        BY <3>1, <3>2
      <4> QED
        BY <4>1, <4>2, <4>3, Zenon
    <3>4. Wrote(raw, g[k + 1], k + 1)
      BY <1>4, <3>1, <3>2, <3>3
    <3> QED
      BY <3>1, <3>4
  <2> HIDE DEF T
  <2>3. \A k \in 0..N : k \in T
    BY <1>1, <2>1, <2>2, CountUp
  <2> QED
    BY <2>3 DEF T
<1>8. g = F(g)
  <2>1. ASSUME NEW k \in 0..N
        PROVE  g[k] = IF k = 0 THEN primed
                      ELSE Plist!WritePosting(g[k - 1], raw[k])
    <3>1. CASE k = 0
      BY <1>6, <3>1
    <3>2. CASE k # 0
      <4>1. k \in 1..N /\ k - 1 \in 0..N
        BY <1>1, <3>2
      <4>2. g[k - 1] \in S /\ Wrote(raw, g[k - 1], k - 1)
        BY <1>6, <1>7, <4>1
      <4>3. g[k] = step[k][g[k - 1]]
        BY <1>6, <4>1
      <4>4. step[k][g[k - 1]] = Step(k, g[k - 1])
        <5> HIDE DEF Step
        <5> QED
          BY <4>1, <4>2
      <4>5. Step(k, g[k - 1]) = Plist!WritePosting(g[k - 1], raw[k])
        BY <4>2
      <4> QED
        BY <3>2, <4>3, <4>4, <4>5, Zenon
    <3> QED
      BY <3>1, <3>2
  <2>2. g = [k \in 0..N |-> g[k]]
    BY <1>6
  <2> QED
    BY <2>1, <2>2
<1>9. upto = F(upto)
  <2>1. \E f : f = F(f)
    BY <1>8
  <2> QED
    BY <2>1, Zenon
<1>10. Plist!S_write_terms_and_postings(raw)
           = [posts |-> last.posts, skips |-> last.skips,
              infos |-> last.infos]
  BY Zenon DEF Plist!S_write_terms_and_postings, N, primed
<1> HIDE DEF upto
<1>11. \A k \in 0..N : upto[k] = IF k = 0 THEN primed
                       ELSE Plist!WritePosting(upto[k - 1], raw[k])
  BY <1>9
<1>12. Wrote(raw, upto[N], N)
  <2> DEFINE T == {k \in 0..N : Wrote(raw, upto[k], k)}
  <2>1. 0 \in T
    BY <1>1, <1>3, <1>11
  <2>2. ASSUME NEW k \in 0..(N - 1), k \in T
        PROVE  k + 1 \in T
    <3>1. /\ k + 1 \in 1..N /\ (k + 1) - 1 = k /\ k + 1 \in 0..N
          /\ k + 1 # 0
      BY <1>1
    <3>2. upto[k + 1] = Plist!WritePosting(upto[k], raw[k + 1])
      BY <1>11, <3>1
    <3>3. Wrote(raw, upto[k], k)
      BY <2>2
    <3>4. Wrote(raw, upto[k + 1], k + 1)
      BY <1>4, <3>1, <3>2, <3>3
    <3> QED
      BY <3>1, <3>4
  <2> HIDE DEF T
  <2>3. \A k \in 0..N : k \in T
    BY <1>1, <2>1, <2>2, CountUp
  <2> QED
    BY <1>1, <2>3 DEF T
<1> QED
  BY <1>10, <1>12, WritesLast DEF N

-----------------------------------------------------------------------------
(* What the files hold of a term.                                          *)

\* D[j] is the j-th document of the term.
Reads(docs, posts, skips, ti, D) ==
    /\ ti \in PostInfos /\ ti.doc_freq <= DocMax
    /\ D \in [0..ti.doc_freq -> Nat] /\ D[0] = 0
    /\ \A i, j \in 0..ti.doc_freq : i < j => D[i] < D[j]
    /\ docs = {D[j] : j \in 1..ti.doc_freq}
    /\ \A j \in 1..ti.doc_freq : posts[ti.post_filepos + j] = D[j] - D[j - 1]
    /\ \A m \in Nat : m > 0 /\ Stop(m) <= ti.doc_freq =>
          skips[ti.skip_filepos + m]
              = <<D[Stop(m)] - D[Stop(m - 1)], SkipInterval>>

LEMMA FiledReads ==
    ASSUME PlistConstantsOK, NEW docs \in [Plist!Terms -> SUBSET (1..DocMax)],
           NEW raw, RawsOf(raw, docs), NEW f, Filed(raw, f),
           NEW i \in 1..Len(f.infos), f.infos[i][1] \in Plist!Terms
    PROVE  \E D : Reads(docs[f.infos[i][1]], f.posts, f.skips,
                        f.infos[i][2], D)
<1> DEFINE t == f.infos[i][1]
           ti == f.infos[i][2]
           n == ti.doc_freq
           B == ti.post_filepos
           D == [j \in 0..n |-> Nth(raw, B, j)]
<1>1. /\ Covers(raw, t, ti, Len(raw)) /\ SkipRecords(raw, f.skips, ti)
      /\ Deltas(raw, f.posts, Len(raw)) /\ ti \in PostInfos
  BY DEF Filed, Covers
<1>2. docs[t] \in SUBSET (1..DocMax) /\ t \in Plist!Terms
  OBVIOUS
<1>3. /\ n \in Nat /\ B \in Nat /\ B + n <= Len(raw)
      /\ \A k \in 1..Len(raw) : raw[k][1] = t <=> B < k /\ k <= B + n
  BY <1>1 DEF Covers, PostInfos
<1> HIDE DEF n, B, t, ti
<1>4. /\ Len(raw) \in Nat
      /\ \A k \in 1..Len(raw) : /\ raw[k][1] \in Nat /\ raw[k][2] \in Nat
                                /\ raw[k] = <<raw[k][1], raw[k][2]>>
      /\ \A j, k \in 1..Len(raw) :
             j < k /\ raw[j][1] = raw[k][1] => raw[j][2] < raw[k][2]
  BY InTermOrder
<1>5. ASSUME NEW j \in 1..n
      PROVE  /\ B + j \in 1..Len(raw) /\ raw[B + j][1] = t
             /\ D[j] = raw[B + j][2] /\ D[j] \in docs[t]
             /\ D[j] \in Nat /\ D[j] > 0 /\ D[j] <= DocMax
  <2>1. B + j \in 1..Len(raw) /\ B < B + j /\ B + j <= B + n /\ j # 0
        /\ j \in 0..n
    BY <1>3, <1>4
  <2>2. raw[B + j][1] = t
    BY <1>3, <2>1
  <2>3. raw[B + j][2] \in docs[t]
    BY <2>1, <2>2 DEF RawsOf
  <2>4. D[j] = raw[B + j][2]
    BY <2>1 DEF Nth
  <2>5. D[j] \in 1..DocMax
    BY <1>2, <2>3, <2>4
  <2> HIDE DEF D
  <2> QED
    BY <2>1, <2>2, <2>3, <2>4, <2>5 DEF PlistConstantsOK
<1>6. D[0] = 0 /\ D \in [0..n -> Nat]
  <2>1. ASSUME NEW j \in 0..n
        PROVE  Nth(raw, B, j) \in Nat
    <3>1. CASE j = 0
      BY <3>1 DEF Nth
    <3>2. CASE j # 0
      <4>1. j \in 1..n
        BY <1>3, <3>2
      <4>2. raw[B + j][2] \in Nat
        BY <1>5, <4>1
      <4> HIDE DEF D
      <4> QED
        BY <3>2, <4>2 DEF Nth
    <3> QED
      BY <3>1, <3>2
  <2> QED
    BY <1>3, <2>1 DEF Nth
<1>7. \A j \in 0..n : D[j] = Nth(raw, B, j)
  OBVIOUS
<1> HIDE DEF D
<1>8. ASSUME NEW j \in 0..n, NEW k \in 0..n, j < k
      PROVE  D[j] < D[k]
  <2>1. k \in 1..n
    BY <1>3, <1>8
  <2>2. CASE j = 0
    BY <1>5, <1>6, <2>1, <2>2
  <2>3. CASE j # 0
    <3>1. j \in 1..n /\ B + j < B + k
      BY <1>3, <1>8, <2>3
    <3> QED
      BY <1>4, <1>5, <2>1, <3>1
  <2> QED
    BY <2>2, <2>3
<1>9. n <= DocMax
  <2> DEFINE T == {j \in 0..n : j <= D[j]}
  <2>1. 0 \in T
    BY <1>3, <1>6
  <2>2. ASSUME NEW j \in 0..(n - 1), j \in T
        PROVE  j + 1 \in T
    <3>1. j \in 0..n /\ j + 1 \in 0..n /\ j < j + 1
      BY <1>3
    <3>2. D[j] < D[j + 1] /\ D[j] \in Nat /\ D[j + 1] \in Nat
      BY <1>6, <1>8, <3>1
    <3> QED
      BY <2>2, <3>1, <3>2
  <2> HIDE DEF T
  <2>3. \A j \in 0..n : j \in T
    BY <1>3, <2>1, <2>2, CountUp
  <2>4. n <= D[n]
    <3>1. n \in 0..n
      BY <1>3
    <3> QED
      BY <2>3, <3>1 DEF T
  <2> QED
    BY <1>3, <1>5, <1>6, <2>4 DEF PlistConstantsOK
<1>10. docs[t] = {D[j] : j \in 1..n}
  <2>1. ASSUME NEW d \in docs[t]
        PROVE  \E j \in 1..n : D[j] = d
    <3>1. PICK k \in 1..Len(raw) : raw[k] = <<t, d>>
      BY <1>2 DEF RawsOf
    <3>2. raw[k][1] = t /\ raw[k][2] = d
      BY <3>1
    <3>3. B < k /\ k <= B + n
      BY <1>3, <3>2
    <3>4. k - B \in 1..n /\ B + (k - B) = k
      BY <1>3, <3>3
    <3>5. D[k - B] = raw[B + (k - B)][2]
      BY <1>5, <3>4
    <3> QED
      BY <3>2, <3>4, <3>5
  <2>2. \A j \in 1..n : D[j] \in docs[t]
    BY <1>5
  <2> QED
    BY <2>1, <2>2
<1>11. ASSUME NEW j \in 1..n
       PROVE  f.posts[B + j] = D[j] - D[j - 1]
  <2>1. B + j \in 1..Len(raw) /\ raw[B + j][1] = t /\ D[j] = raw[B + j][2]
    BY <1>5
  <2>2. f.posts[B + j] = raw[B + j][2]
            - (IF B + j > 1 /\ raw[(B + j) - 1][1] = raw[B + j][1]
               THEN raw[(B + j) - 1][2] ELSE 0)
    BY <1>1, <2>1 DEF Deltas
  <2>3. CASE j = 1
    <3>1. B + j > 1 => raw[(B + j) - 1][1] # t
      <4> SUFFICES ASSUME B + j > 1
                   PROVE  raw[B][1] # t
        BY <1>3, <2>3
      <4>1. B \in 1..Len(raw)
        BY <1>3, <1>4, <2>1, <2>3
      <4> QED
        BY <1>3, <4>1
    <3>2. D[j - 1] = 0
      BY <1>6, <2>3
    <3> QED
      BY <2>1, <2>2, <3>1, <3>2
  <2>4. CASE j # 1
    <3>1. j - 1 \in 1..n /\ B + j > 1 /\ (B + j) - 1 = B + (j - 1)
      BY <1>3, <2>4
    <3>2. raw[(B + j) - 1][1] = t /\ raw[(B + j) - 1][2] = D[j - 1]
      BY <1>5, <3>1
    <3> QED
      BY <2>1, <2>2, <3>1, <3>2
  <2> QED
    BY <2>3, <2>4
<1>12. ASSUME NEW m \in Nat, m > 0, Stop(m) <= n
       PROVE  f.skips[ti.skip_filepos + m]
                  = <<D[Stop(m)] - D[Stop(m - 1)], SkipInterval>>
  <2>1. f.skips[ti.skip_filepos + m] =
            <<Nth(raw, B, Stop(m)) - Nth(raw, B, Stop(m - 1)), SkipInterval>>
    BY <1>1, <1>12 DEF SkipRecords, n, B
  <2>2. Stop(m) \in 0..n /\ Stop(m - 1) \in 0..n
    <3>1. m - 1 \in Nat /\ m - 1 < m /\ SkipInterval \in Nat
      BY <1>12 DEF PlistConstantsOK
    <3>2. Stop(m - 1) + SkipInterval <= Stop(m) /\ Stop(m - 1) \in Nat
          /\ Stop(m) \in Nat
      BY <3>1, StopIs
    <3> QED
      BY <1>3, <1>12, <3>1, <3>2
  <2> QED
    BY <1>7, <2>1, <2>2
<1>13. Reads(docs[t], f.posts, f.skips, ti, D)
  BY <1>1, <1>6, <1>8, <1>9, <1>10, <1>11, <1>12 DEF Reads, n, B
<1> QED
  BY <1>13 DEF t, ti

\* Every term that has documents has a TermInfo, and no term has two.
FilesTrue ==
    \A t \in Plist!Terms :
        \/ Plist!Infos(t) = {} /\ index[t] = {}
        \/ \E ti, D : /\ Plist!Infos(t) = {ti}
                      /\ Reads(index[t], files.posts, files.skips, ti, D)

LEMMA FilesAreTrue ==
    ASSUME PlistConstantsOK, index \in [Plist!Terms -> SUBSET (1..DocMax)],
           \E t \in Plist!Terms : index[t] # {},
           files = Plist!S_write_terms_and_postings(Plist!Fetched(index))
    PROVE  FilesTrue
<1> DEFINE raw == Plist!Fetched(index)
<1>1. RawsOf(raw, index)
  BY FetchedIs
<1> HIDE DEF raw
<1>2. raw # <<>>
  <2>1. PICK t \in Plist!Terms : index[t] # {}
    OBVIOUS
  <2>2. PICK d \in index[t] : TRUE
    BY <2>1
  <2>3. \E k \in 1..Len(raw) : raw[k] = <<t, d>>
    BY <1>1, <2>1, <2>2 DEF RawsOf
  <2> QED
    BY <2>3
<1>3. Filed(raw, files)
  BY <1>1, <1>2, AllWritten DEF raw
<1>4. SUFFICES ASSUME NEW t \in Plist!Terms
               PROVE  \/ Plist!Infos(t) = {} /\ index[t] = {}
                      \/ \E ti, D :
                            /\ Plist!Infos(t) = {ti}
                            /\ Reads(index[t], files.posts, files.skips, ti, D)
  BY Zenon DEF FilesTrue
<1>5. /\ files.infos \in Seq(Nat \X PostInfos)
      /\ DOMAIN files.infos = 1..Len(files.infos)
      /\ \A i, j \in 1..Len(files.infos) :
             files.infos[i][1] = files.infos[j][1] => i = j
      /\ \A i \in 1..Len(raw) : \E j \in 1..Len(files.infos) :
             files.infos[j][1] = raw[i][1]
  BY <1>3 DEF Filed
<1>6. CASE \E i \in 1..Len(files.infos) : files.infos[i][1] = t
  <2>1. PICK i \in 1..Len(files.infos) : files.infos[i][1] = t
    BY <1>6
  <2>2. Plist!Infos(t) = {files.infos[i][2]}
    BY <1>5, <2>1 DEF Plist!Infos
  <2>3. PICK D : Reads(index[t], files.posts, files.skips,
                       files.infos[i][2], D)
    BY <1>1, <1>3, <2>1, FiledReads
  <2> QED
    BY <2>2, <2>3
<1>7. CASE ~(\E i \in 1..Len(files.infos) : files.infos[i][1] = t)
  <2>1. Plist!Infos(t) = {}
    BY <1>5, <1>7 DEF Plist!Infos
  <2>2. ASSUME NEW d \in index[t]
        PROVE  FALSE
    <3>1. PICK k \in 1..Len(raw) : raw[k] = <<t, d>>
      BY <1>1 DEF RawsOf
    <3>2. raw[k][1] = t
      BY <3>1
    <3> QED
      BY <1>5, <1>7, <3>2
  <2> QED
    BY <2>1, <2>2
<1> QED
  BY <1>6, <1>7

-----------------------------------------------------------------------------
(* Where a posting list is.                                                *)

\* On the j-th of the term's documents, past the first k skip records.
ListAt(ti, D, j, k, doc) ==
    [doc_freq |-> ti.doc_freq, count |-> j, pos |-> ti.post_filepos + j,
     doc_id |-> doc, skip_count |-> k, num_skips |-> Groups(ti.doc_freq),
     skip_pos |-> ti.skip_filepos + k,
     stepper |-> [doc_id |-> D[Stop(k)],
                  filepos |-> ti.post_filepos + Stop(k)]]

IsListAt(l, ti, D, j, k, doc) == l = ListAt(ti, D, j, k, doc)

LEMMA ListAtIs ==
    ASSUME NEW ti, NEW D, NEW j, NEW k, NEW doc
    PROVE  LET l == ListAt(ti, D, j, k, doc)
           IN  /\ l.doc_freq = ti.doc_freq /\ l.count = j
               /\ l.pos = ti.post_filepos + j /\ l.doc_id = doc
               /\ l.skip_count = k /\ l.num_skips = Groups(ti.doc_freq)
               /\ l.skip_pos = ti.skip_filepos + k
               /\ l.stepper.doc_id = D[Stop(k)]
               /\ l.stepper.filepos = ti.post_filepos + Stop(k)
               /\ l.stepper = [doc_id |-> D[Stop(k)],
                               filepos |-> ti.post_filepos + Stop(k)]
BY DEF ListAt

\* Elsewhere in the postings, with the same skip records.
LEMMA ListAtMoves ==
    ASSUME NEW ti, NEW D, NEW j, NEW k, NEW doc, NEW i, NEW d
    PROVE  IsListAt([ListAt(ti, D, j, k, doc)
                        EXCEPT !.count = i, !.pos = ti.post_filepos + i,
                               !.doc_id = d], ti, D, i, k, d)
<1> DEFINE p == ti.post_filepos + i
           freq == ti.doc_freq
           skips == Groups(freq)
           sp == ti.skip_filepos + k
           step == [doc_id |-> D[Stop(k)],
                    filepos |-> ti.post_filepos + Stop(k)]
           here == ti.post_filepos + j
           l == [doc_freq |-> freq, count |-> j, pos |-> here, doc_id |-> doc,
                 skip_count |-> k, num_skips |-> skips, skip_pos |-> sp,
                 stepper |-> step]
           r == [doc_freq |-> freq, count |-> i, pos |-> p, doc_id |-> d,
                 skip_count |-> k, num_skips |-> skips, skip_pos |-> sp,
                 stepper |-> step]
<1>1. ListAt(ti, D, j, k, doc) = l /\ ListAt(ti, D, i, k, d) = r
  BY Zenon DEF ListAt
<1> HIDE DEF freq, skips, sp, step, here, p
<1> DEFINE l1 == [doc_freq |-> freq, count |-> i, pos |-> here, doc_id |-> doc,
                  skip_count |-> k, num_skips |-> skips, skip_pos |-> sp,
                  stepper |-> step]
           l2 == [doc_freq |-> freq, count |-> i, pos |-> p, doc_id |-> doc,
                  skip_count |-> k, num_skips |-> skips, skip_pos |-> sp,
                  stepper |-> step]
<1>2. [l EXCEPT !.count = i] = l1
  OBVIOUS
<1>3. [l1 EXCEPT !.pos = p] = l2
  OBVIOUS
<1>4. [l2 EXCEPT !.doc_id = d] = r
  OBVIOUS
<1> HIDE DEF l, l1, l2, r
<1>5. [l EXCEPT !.count = i, !.pos = p, !.doc_id = d] = r
  BY <1>2, <1>3, <1>4, Zenon
<1> QED
  BY <1>1, <1>5, Zenon DEF IsListAt, p

LEMMA ListAtSkips ==
    ASSUME NEW ti, NEW D, NEW j, NEW k, NEW doc, NEW i, NEW d
    PROVE  IsListAt([ListAt(ti, D, j, k, doc)
                        EXCEPT !.pos = ti.post_filepos + i, !.doc_id = d,
                               !.count = i], ti, D, i, k, d)
<1> DEFINE p == ti.post_filepos + i
           freq == ti.doc_freq
           skips == Groups(freq)
           sp == ti.skip_filepos + k
           step == [doc_id |-> D[Stop(k)],
                    filepos |-> ti.post_filepos + Stop(k)]
           here == ti.post_filepos + j
           l == [doc_freq |-> freq, count |-> j, pos |-> here, doc_id |-> doc,
                 skip_count |-> k, num_skips |-> skips, skip_pos |-> sp,
                 stepper |-> step]
           r == [doc_freq |-> freq, count |-> i, pos |-> p, doc_id |-> d,
                 skip_count |-> k, num_skips |-> skips, skip_pos |-> sp,
                 stepper |-> step]
<1>1. ListAt(ti, D, j, k, doc) = l /\ ListAt(ti, D, i, k, d) = r
  BY Zenon DEF ListAt
<1> HIDE DEF freq, skips, sp, step, here, p
<1> DEFINE l1 == [doc_freq |-> freq, count |-> j, pos |-> p, doc_id |-> doc,
                  skip_count |-> k, num_skips |-> skips, skip_pos |-> sp,
                  stepper |-> step]
           l2 == [doc_freq |-> freq, count |-> j, pos |-> p, doc_id |-> d,
                  skip_count |-> k, num_skips |-> skips, skip_pos |-> sp,
                  stepper |-> step]
<1>2. [l EXCEPT !.pos = p] = l1
  OBVIOUS
<1>3. [l1 EXCEPT !.doc_id = d] = l2
  OBVIOUS
<1>4. [l2 EXCEPT !.count = i] = r
  OBVIOUS
<1> HIDE DEF l, l1, l2, r
<1>5. [l EXCEPT !.pos = p, !.doc_id = d, !.count = i] = r
  BY <1>2, <1>3, <1>4, Zenon
<1> QED
  BY <1>1, <1>5, Zenon DEF IsListAt, p

\* The documents are numbers in order.
LEMMA ReadsIs ==
    ASSUME NEW docs, NEW posts, NEW skips, NEW ti, NEW D,
           Reads(docs, posts, skips, ti, D)
    PROVE  /\ ti.doc_freq \in Nat /\ ti.post_filepos \in Nat
           /\ ti.skip_filepos \in Nat /\ ti.doc_freq <= DocMax
           /\ \A j \in 0..ti.doc_freq : D[j] \in Nat
           /\ D[0] = 0
           /\ \A i, j \in 0..ti.doc_freq : i < j => D[i] < D[j]
           /\ docs = {D[j] : j \in 1..ti.doc_freq}
<1>1. ti \in PostInfos /\ ti.doc_freq <= DocMax
      /\ D \in [0..ti.doc_freq -> Nat] /\ D[0] = 0
      /\ docs = {D[j] : j \in 1..ti.doc_freq}
  BY Zenon DEF Reads
<1>2. \A i, j \in 0..ti.doc_freq : i < j => D[i] < D[j]
  BY Zenon DEF Reads
<1>3. ti.doc_freq \in Nat /\ ti.post_filepos \in Nat
      /\ ti.skip_filepos \in Nat
  BY <1>1 DEF PostInfos
<1>4. \A j \in 0..ti.doc_freq : D[j] \in Nat
  BY <1>1
<1> QED
  BY <1>1, <1>2, <1>3, <1>4

LEMMA NextListAt ==
    ASSUME NEW docs, NEW ti, NEW D,
           Reads(docs, files.posts, files.skips, ti, D),
           NEW j \in 0..ti.doc_freq, NEW k, NEW doc,
           doc = D[j] \/ j = ti.doc_freq
    PROVE  Plist!NextPosting(ListAt(ti, D, j, k, doc)) =
               IF j < ti.doc_freq THEN ListAt(ti, D, j + 1, k, D[j + 1])
               ELSE ListAt(ti, D, j, k, 0)
<1> DEFINE l == ListAt(ti, D, j, k, doc)
           n == ti.doc_freq
           B == ti.post_filepos
<1>1. /\ n \in Nat /\ B \in Nat /\ \A i \in 0..n : D[i] \in Nat
      /\ \A i \in 1..n : files.posts[B + i] = D[i] - D[i - 1]
  <2>1. \A i \in 1..n : files.posts[B + i] = D[i] - D[i - 1]
    BY Zenon DEF Reads
  <2> QED
    BY <2>1, ReadsIs, Zenon
<1>2. /\ l.count = j /\ l.doc_freq = n /\ l.pos = B + j /\ l.doc_id = doc
  BY DEF ListAt
<1>3. CASE j < n
  <2>1. /\ j + 1 \in 1..n /\ (j + 1) - 1 = j /\ j \in 0..n
        /\ (B + j) + 1 = B + (j + 1)
    BY <1>1, <1>3
  <2>2. doc = D[j]
    BY <1>1, <1>3
  <2>3. doc + files.posts[(B + j) + 1] = D[j + 1]
    <3>1. files.posts[B + (j + 1)] = D[j + 1] - D[j]
      BY <1>1, <2>1
    <3>2. D[j] \in Nat /\ D[j + 1] \in Nat
      BY <1>1, <2>1
    <3> QED
      BY <2>1, <2>2, <3>1, <3>2
  <2>4. Plist!NextPosting(l) = [l EXCEPT !.count = j + 1, !.pos = (B + j) + 1,
                                         !.doc_id = D[j + 1]]
    <3>1. ~(l.count >= l.doc_freq)
      BY <1>1, <1>2, <1>3
    <3>2. Plist!NextPosting(l) =
              [l EXCEPT !.count = l.count + 1, !.pos = l.pos + 1,
                        !.doc_id = l.doc_id + files.posts[l.pos + 1]]
      BY <3>1 DEF Plist!NextPosting, ListAt
    <3> HIDE DEF l
    <3> QED
      BY <1>2, <2>3, <3>2, Zenon
  <2>5. [l EXCEPT !.count = j + 1, !.pos = (B + j) + 1, !.doc_id = D[j + 1]]
            = ListAt(ti, D, j + 1, k, D[j + 1])
    <3>1. (B + j) + 1 = ti.post_filepos + (j + 1)
      BY <2>1
    <3>2. IsListAt([l EXCEPT !.count = j + 1, !.pos = ti.post_filepos + (j + 1),
                         !.doc_id = D[j + 1]], ti, D, j + 1, k, D[j + 1])
      BY ListAtMoves, Zenon
    <3> QED
      BY <3>1, <3>2, Zenon DEF IsListAt
  <2> QED
    BY <1>3, <2>4, <2>5
<1>4. CASE ~(j < n)
  <2>1. l.count >= l.doc_freq
    BY <1>1, <1>2, <1>4
  <2>2. Plist!NextPosting(l) = [l EXCEPT !.doc_id = 0]
    BY <2>1, Zenon DEF Plist!NextPosting
  <2>3. [l EXCEPT !.doc_id = 0] = ListAt(ti, D, j, k, 0)
    BY DEF ListAt
  <2> QED
    BY <1>4, <2>2, <2>3, Zenon
<1> QED
  BY <1>3, <1>4

\* The skip records there are lead to documents of the term.
LEMMA StopsWithin ==
    ASSUME PlistConstantsOK, NEW n \in Nat, NEW k \in 0..Groups(n)
    PROVE  /\ k \in Nat /\ Stop(k) \in 0..n /\ Groups(n) \in Nat
           /\ k > 0 => k - 1 \in Nat /\ Stop(k - 1) \in 0..n
                       /\ Stop(k - 1) < Stop(k)
           /\ k < Groups(n) => k + 1 \in 0..Groups(n)
<1>1. Groups(n) \in Nat /\ Stop(Groups(n)) <= n
  BY GroupsIs
<1>2. SkipInterval \in Nat /\ SkipInterval > 1
  BY DEF PlistConstantsOK
<1>3. /\ \A i \in Nat : Stop(i) \in Nat
      /\ \A i, j \in Nat : i < j => Stop(i) + SkipInterval <= Stop(j)
  BY StopIs
<1>4. k \in Nat
  BY <1>1
<1>5. Stop(k) \in 0..n
  <2>1. CASE k = Groups(n)
    BY <1>1, <1>3, <2>1
  <2>2. CASE k # Groups(n)
    <3>1. Stop(k) + SkipInterval <= Stop(Groups(n))
      BY <1>1, <1>3, <1>4, <2>2
    <3>2. Stop(k) \in Nat /\ Stop(Groups(n)) \in Nat
      BY <1>1, <1>3, <1>4
    <3> QED
      BY <1>1, <1>2, <3>1, <3>2
  <2> QED
    BY <2>1, <2>2
<1>6. ASSUME k > 0
      PROVE  k - 1 \in Nat /\ Stop(k - 1) \in 0..n /\ Stop(k - 1) < Stop(k)
  <2>1. k - 1 \in Nat /\ k - 1 < k
    BY <1>4, <1>6
  <2>2. Stop(k - 1) + SkipInterval <= Stop(k) /\ Stop(k - 1) \in Nat
    BY <1>3, <1>4, <2>1
  <2> QED
    BY <1>2, <1>5, <2>1, <2>2
<1> QED
  BY <1>1, <1>4, <1>5, <1>6

LEMMA ReadListAt ==
    ASSUME PlistConstantsOK, NEW docs, NEW ti, NEW D,
           Reads(docs, files.posts, files.skips, ti, D),
           NEW j, NEW k \in 0..Groups(ti.doc_freq), NEW doc,
           k < Groups(ti.doc_freq)
    PROVE  Plist!Read_Record(ListAt(ti, D, j, k, doc))
               = ListAt(ti, D, j, k + 1, doc)
<1> DEFINE l == ListAt(ti, D, j, k, doc)
           n == ti.doc_freq
           B == ti.post_filepos
           sp == ti.skip_filepos
           delta == files.skips[(sp + k) + 1]
<1>1. /\ n \in Nat /\ B \in Nat /\ sp \in Nat /\ \A i \in 0..n : D[i] \in Nat
  BY ReadsIs, Zenon
<1>2. /\ k \in Nat /\ Stop(k) \in 0..n /\ k + 1 \in 0..Groups(n)
  BY <1>1, StopsWithin
<1>3. /\ Stop(k + 1) \in 0..n /\ k + 1 \in Nat /\ k + 1 > 0
      /\ (k + 1) - 1 = k /\ (sp + k) + 1 = sp + (k + 1)
  <2>1. Stop(k + 1) \in 0..n
    BY <1>1, <1>2, StopsWithin
  <2> QED
    BY <1>1, <1>2, <2>1
<1>4. Stop(k + 1) = Stop(k) + SkipInterval /\ SkipInterval \in Nat
  BY <1>2, StopIs DEF PlistConstantsOK
<1>5. delta = <<D[Stop(k + 1)] - D[Stop(k)], SkipInterval>>
  <2>1. files.skips[sp + (k + 1)]
            = <<D[Stop(k + 1)] - D[Stop((k + 1) - 1)], SkipInterval>>
    <3>1. Stop(k + 1) <= n
      BY <1>1, <1>3
    <3> QED
      BY <1>3, <3>1, Zenon DEF Reads
  <2> QED
    BY <1>3, <2>1
<1>6. /\ D[Stop(k)] + delta[1] = D[Stop(k + 1)]
      /\ (B + Stop(k)) + delta[2] = B + Stop(k + 1)
  <2>1. delta[1] = D[Stop(k + 1)] - D[Stop(k)] /\ delta[2] = SkipInterval
    BY <1>5
  <2>2. D[Stop(k)] \in Nat /\ D[Stop(k + 1)] \in Nat
    BY <1>1, <1>2, <1>3
  <2> HIDE DEF delta
  <2> QED
    BY <1>1, <1>2, <1>4, <2>1, <2>2
<1>7. /\ l.skip_pos = sp + k /\ l.skip_count = k
      /\ l.stepper.doc_id = D[Stop(k)] /\ l.stepper.filepos = B + Stop(k)
  BY DEF ListAt
<1>8. Plist!Read_Record(l) =
          [l EXCEPT !.stepper = [doc_id |-> D[Stop(k)] + delta[1],
                                 filepos |-> (B + Stop(k)) + delta[2]],
                    !.skip_pos = (sp + k) + 1, !.skip_count = k + 1]
  <2>1. Plist!Read_Record(l) =
            [l EXCEPT !.stepper =
                          [doc_id |-> l.stepper.doc_id
                                      + files.skips[l.skip_pos + 1][1],
                           filepos |-> l.stepper.filepos
                                       + files.skips[l.skip_pos + 1][2]],
                      !.skip_pos = l.skip_pos + 1,
                      !.skip_count = l.skip_count + 1]
    BY DEF Plist!Read_Record, ListAt
  <2> HIDE DEF l
  <2> QED
    BY <1>7, <2>1, Zenon
<1>9. Plist!Read_Record(l) =
          [l EXCEPT !.stepper = [doc_id |-> D[Stop(k + 1)],
                                 filepos |-> B + Stop(k + 1)],
                    !.skip_pos = sp + (k + 1), !.skip_count = k + 1]
  <2> HIDE DEF l, delta
  <2> QED
    BY <1>3, <1>6, <1>8, Zenon
<1> HIDE DEF delta
<1> QED
  BY <1>9 DEF ListAt

-----------------------------------------------------------------------------
(* Skipping.                                                               *)

\* How many skip records lead to one of the first j - 1 postings; how far
\* ahead of the j-th the k-th leads, unless it is one of those.
Passed(j) == IF j = 0 THEN 0 ELSE Groups(j - 1)
SkippedTo(j, k) == Stop(IF k > Passed(j) THEN k ELSE Passed(j)) - j

LEMMA PassedIs ==
    ASSUME PlistConstantsOK, NEW j \in Nat
    PROVE  /\ Passed(j) \in Nat
           /\ \A k \in Nat : k > Passed(j) <=> k > 0 /\ Stop(k) >= j
           /\ \A l : l.count = j => Plist!PassedAlready(l)
                                        = Stop(Passed(j)) - j
<1> DEFINE a == Passed(j)
<1>1. /\ SkipInterval \in Nat /\ SkipInterval > 1 /\ Stop(0) = 0
      /\ \A k \in Nat : Stop(k) \in Nat
      /\ \A i, k \in Nat : i < k => Stop(i) + SkipInterval <= Stop(k)
  BY StopIs DEF PlistConstantsOK
<1>2. CASE j = 0
  <2>1. a = 0
    BY <1>2 DEF Passed
  <2>2. \A k \in Nat : k > a <=> k > 0 /\ Stop(k) >= j
    BY <1>1, <1>2, <2>1
  <2>3. j % SkipInterval = 0
    <3>1. 0 \in Nat /\ Stop(0) <= 0 /\ 0 < Stop(0) + SkipInterval
      BY <1>1
    <3>2. Groups(0) = 0
      BY <3>1, GroupsAre
    <3>3. 0 % SkipInterval = 0 - Stop(Groups(0))
      BY <3>1, GroupsIs, Zenon
    <3> QED
      BY <1>1, <1>2, <3>2, <3>3
  <2>4. ASSUME NEW l, l.count = j
        PROVE  Plist!PassedAlready(l) = Stop(a) - j
    <3>1. Plist!PassedAlready(l) = -(j % SkipInterval)
      BY <1>2, <2>4 DEF Plist!PassedAlready
    <3> QED
      BY <1>1, <1>2, <2>1, <2>3, <3>1
  <2> QED
    BY <2>1, <2>2, <2>4
<1>3. CASE j # 0
  <2> DEFINE i == j - 1
  <2>1. i \in Nat /\ i + 1 = j
    BY <1>3
  <2>2. a = Groups(i)
    BY <1>3 DEF Passed
  <2> HIDE DEF i, a
  <2>3. a \in Nat /\ Stop(a) <= i /\ i < Stop(a) + SkipInterval
    BY <2>1, <2>2, GroupsIs
  <2>4. ASSUME NEW k \in Nat
        PROVE  k > a <=> k > 0 /\ Stop(k) >= j
    <3>1. Stop(k) \in Nat /\ Stop(a) \in Nat
      BY <1>1, <2>3
    <3>2. CASE k > a
      <4>1. Stop(a) + SkipInterval <= Stop(k)
        BY <1>1, <2>3, <3>2
      <4> QED
        BY <1>1, <2>1, <2>3, <3>1, <3>2, <4>1
    <3>3. CASE ~(k > a)
      <4>1. k = a \/ Stop(k) + SkipInterval <= Stop(a)
        BY <1>1, <2>3, <3>3
      <4>2. Stop(k) <= Stop(a)
        BY <1>1, <3>1, <4>1
      <4> QED
        BY <2>1, <2>3, <3>1, <3>3, <4>2
    <3> QED
      BY <3>2, <3>3
  <2>5. ASSUME NEW l, l.count = j
        PROVE  Plist!PassedAlready(l) = Stop(a) - j
    <3>1. IF j % SkipInterval = 0
          THEN Stop(a) + SkipInterval = j
          ELSE j % SkipInterval = j - Stop(a)
      <4>1. CASE (i + 1) % SkipInterval = 0
        <5>1. Stop(Groups(i)) + SkipInterval = i + 1
          BY <2>1, <4>1, GroupEnds
        <5> QED
          BY <2>1, <2>2, <4>1, <5>1
      <4>2. CASE (i + 1) % SkipInterval # 0
        <5>1. Groups(i + 1) = Groups(i)
          BY <2>1, <4>2, GroupsNext
        <5>2. j % SkipInterval = j - Stop(Groups(j))
          BY GroupsIs, Zenon
        <5>3. Groups(j) = a
          BY <2>1, <2>2, <5>1
        <5>4. j % SkipInterval # 0
          BY <2>1, <4>2
        <5> QED
          BY <5>2, <5>3, <5>4
      <4> QED
        BY <4>1, <4>2
    <3>2. Plist!PassedAlready(l) = IF j % SkipInterval = 0 THEN -SkipInterval
                                   ELSE -(j % SkipInterval)
      BY <1>3, <2>5 DEF Plist!PassedAlready
    <3>3. Stop(a) \in Nat
      BY <1>1, <2>3
    <3>4. CASE j % SkipInterval = 0
      BY <1>1, <3>1, <3>2, <3>3, <3>4
    <3>5. CASE j % SkipInterval # 0
      <4>1. Plist!PassedAlready(l) = -(j - Stop(a))
        BY <3>1, <3>2, <3>5
      <4> QED
        BY <3>3, <4>1
    <3> QED
      BY <3>4, <3>5
  <2> QED
    BY <2>3, <2>4, <2>5 DEF a
<1> QED
  BY <1>2, <1>3

\* Each skip record that leads ahead leads so much further.
LEMMA SkippedMore ==
    ASSUME PlistConstantsOK, NEW j \in Nat, NEW k \in Nat
    PROVE  /\ SkippedTo(j, k) = SkippedTo(j, k - 1)
                  + (IF k > 0 /\ Stop(k) >= j THEN SkipInterval ELSE 0)
           /\ k > 0 /\ Stop(k) > j => SkippedTo(j, k) = Stop(k) - j
<1> DEFINE a == Passed(j)
<1>1. a \in Nat /\ (k > a <=> k > 0 /\ Stop(k) >= j)
  BY PassedIs
<1>2. Stop(a) \in Nat /\ Stop(k) \in Nat /\ SkipInterval \in Nat
  BY <1>1, StopIs DEF PlistConstantsOK
<1>3. /\ SkippedTo(j, k) = Stop(IF k > a THEN k ELSE a) - j
      /\ SkippedTo(j, k - 1) = Stop(IF k - 1 > a THEN k - 1 ELSE a) - j
  BY Zenon DEF SkippedTo
<1> HIDE DEF a
<1>4. CASE k > a
  <2>1. Stop(k) = Stop(k - 1) + SkipInterval /\ Stop(k - 1) \in Nat
    <3>1. k - 1 \in Nat /\ (k - 1) + 1 = k
      BY <1>1, <1>4
    <3>2. Stop((k - 1) + 1) = Stop(k - 1) + SkipInterval
          /\ Stop(k - 1) \in Nat
      BY <3>1, StopIs, Zenon
    <3> QED
      BY <3>1, <3>2
  <2>2. SkippedTo(j, k - 1) = Stop(k - 1) - j
    <3>1. k - 1 > a \/ k - 1 = a
      BY <1>1, <1>4
    <3> QED
      BY <1>3, <3>1
  <2>3. SkippedTo(j, k) = Stop(k) - j
    BY <1>3, <1>4
  <2> QED
    BY <1>1, <1>2, <1>4, <2>1, <2>2, <2>3
<1>5. CASE ~(k > a)
  <2>1. ~(k - 1 > a)
    BY <1>1, <1>5
  <2>2. SkippedTo(j, k) = Stop(a) - j /\ SkippedTo(j, k - 1) = Stop(a) - j
    BY <1>3, <1>5, <2>1
  <2> QED
    BY <1>1, <1>2, <1>5, <2>2
<1> QED
  BY <1>4, <1>5

\* The loop of Skip: it has been past the first k skip records when it began,
\* and now it is past the first kk.  The last it has looked at is kf.
Looked(s, kk) == IF s.done THEN kk ELSE kk - 1

SkippedAt(ti, D, j, k, doc, target, s, kk) ==
    /\ s.l = ListAt(ti, D, j, kk, doc)
    /\ s.done \in BOOLEAN /\ (s.done => kk = Groups(ti.doc_freq))
    /\ Looked(s, kk) < k => s.found.filepos = ti.post_filepos + j
    /\ Looked(s, kk) >= k =>
          /\ s.found.doc_id = D[Stop(Looked(s, kk))]
          /\ s.found.filepos = ti.post_filepos + Stop(Looked(s, kk))
          /\ D[Stop(Looked(s, kk))] < target
    /\ doc = D[j] => s.num_skipped = SkippedTo(j, Looked(s, kk))

Skipped(ti, D, j, k, doc, target, s) ==
    \E kk \in k..Groups(ti.doc_freq) :
        SkippedAt(ti, D, j, k, doc, target, s, kk)

\* It ends, or has been round so many times.
Turned(s, target, r) ==
    s.done \/ target <= s.l.stepper.doc_id \/ s.l.skip_count >= r

LEMMA SkipTurns ==
    ASSUME PlistConstantsOK, NEW docs, NEW ti, NEW D,
           Reads(docs, files.posts, files.skips, ti, D),
           NEW j \in 0..ti.doc_freq, NEW k \in Nat, NEW doc, NEW target \in Nat,
           NEW s, Skipped(ti, D, j, k, doc, target, s),
           NEW r \in Nat, Turned(s, target, r)
    PROVE  /\ Skipped(ti, D, j, k, doc, target, Plist!SkipRound(s, target))
           /\ Turned(Plist!SkipRound(s, target), target, r + 1)
<1> DEFINE n == ti.doc_freq
           B == ti.post_filepos
           u == Plist!SkipRound(s, target)
<1>1. /\ n \in Nat /\ B \in Nat /\ \A i \in 0..n : D[i] \in Nat
      /\ D[0] = 0 /\ \A h, i \in 0..n : h < i => D[h] < D[i]
  BY ReadsIs, Zenon
<1>2. PICK kk \in k..Groups(n) : SkippedAt(ti, D, j, k, doc, target, s, kk)
  BY Zenon DEF Skipped
<1>3. /\ kk \in 0..Groups(n) /\ kk \in Nat /\ Stop(kk) \in 0..n
      /\ Groups(n) \in Nat
  <2>1. Groups(n) \in Nat
    BY <1>1, GroupsIs
  <2>2. kk \in 0..Groups(n)
    BY <2>1
  <2> QED
    BY <1>1, <2>1, <2>2, StopsWithin
<1>4. /\ s.l = ListAt(ti, D, j, kk, doc) /\ s.done \in BOOLEAN
      /\ s.l.stepper.doc_id = D[Stop(kk)]
      /\ s.l.stepper.filepos = B + Stop(kk)
      /\ s.l.skip_count = kk /\ s.l.num_skips = Groups(n) /\ s.l.doc_id = doc
  <2>1. s.l = ListAt(ti, D, j, kk, doc) /\ s.done \in BOOLEAN
    BY <1>2, Zenon DEF SkippedAt
  <2> QED
    BY <2>1 DEF ListAt
<1>5. CASE s.done \/ target <= s.l.stepper.doc_id
  <2>1. u = s
    BY <1>5 DEF Plist!SkipRound
  <2> HIDE DEF u
  <2> QED
    BY <1>5, <2>1, Zenon DEF Turned, u
<1>6. CASE ~(s.done \/ target <= s.l.stepper.doc_id)
  <2> DEFINE no_more == kk >= Groups(n)
  <2>1. /\ u.l = IF no_more THEN s.l ELSE Plist!Read_Record(s.l)
        /\ u.found = s.l.stepper /\ u.done = no_more
        /\ u.num_skipped = s.num_skipped
               + (IF Plist!Counts(s.l) THEN SkipInterval ELSE 0)
    BY <1>4, <1>6 DEF Plist!SkipRound
  <2>2. u.found.doc_id = D[Stop(kk)] /\ u.found.filepos = B + Stop(kk)
    BY <1>4, <2>1
  <2>3. D[Stop(kk)] < target
    <3>1. D[Stop(kk)] \in Nat
      BY <1>1, <1>3
    <3> QED
      BY <1>4, <1>6, <3>1
  <2>4. ASSUME doc = D[j]
        PROVE  u.num_skipped = SkippedTo(j, kk)
    <3>1. s.num_skipped = SkippedTo(j, kk - 1)
      BY <1>2, <1>6, <2>4 DEF SkippedAt, Looked
    <3>2. Plist!Counts(s.l) <=> kk > 0 /\ Stop(kk) >= j
      <4>1. Plist!Counts(s.l) <=> D[Stop(kk)] # 0 /\ D[Stop(kk)] >= D[j]
        BY <1>4, <2>4 DEF Plist!Counts
      <4>2. D[Stop(kk)] # 0 <=> kk > 0
        <5>1. CASE kk = 0
          BY <1>1, <5>1, StopIs, SMTT(30)
        <5>2. CASE kk # 0
          <6>1. Stop(kk) > 0
            BY <1>3, <5>2, StopIs
          <6> QED
            BY <1>1, <1>3, <5>2, <6>1
        <5> QED
          BY <5>1, <5>2
      <4>3. D[Stop(kk)] >= D[j] <=> Stop(kk) >= j
        BY <1>1, <1>3
      <4> QED
        BY <4>1, <4>2, <4>3
    <3>3. SkippedTo(j, kk) = SkippedTo(j, kk - 1)
              + (IF kk > 0 /\ Stop(kk) >= j THEN SkipInterval ELSE 0)
      <4>1. j \in Nat
        BY <1>1
      <4> QED
        BY <1>3, <4>1, SkippedMore
    <3> HIDE DEF u
    <3> QED
      BY <2>1, <3>1, <3>2, <3>3
  <2>5. u.done \in BOOLEAN
    BY <2>1
  <2> HIDE DEF u
  <2>6. CASE no_more
    <3>1. kk = Groups(n) /\ u.done /\ u.l = ListAt(ti, D, j, kk, doc)
      <4>1. kk = Groups(n)
        BY <1>3, <2>6
      <4> HIDE DEF no_more
      <4>2. u.done /\ u.l = s.l
        BY <2>1, <2>6, Zenon
      <4> QED
        BY <1>4, <4>1, <4>2, Zenon
    <3>2. Skipped(ti, D, j, k, doc, target, u)
      <4>1. Looked(u, kk) = kk /\ kk >= k /\ ~(kk < k)
        BY <3>1 DEF Looked
      <4>2. SkippedAt(ti, D, j, k, doc, target, u, kk)
        BY <2>2, <2>3, <2>4, <2>5, <3>1, <4>1 DEF SkippedAt
      <4> QED
        BY <4>2, Zenon DEF Skipped
    <3> QED
      BY <3>1, <3>2 DEF Turned, u
  <2>7. CASE ~no_more
    <3>1. u.l = ListAt(ti, D, j, kk + 1, doc)
      <4>1. kk < Groups(n)
        BY <1>3, <2>7
      <4>2. Plist!Read_Record(ListAt(ti, D, j, kk, doc))
                = ListAt(ti, D, j, kk + 1, doc)
        BY <1>3, <4>1, ReadListAt
      <4> QED
        BY <1>4, <2>1, <2>7, <4>2
    <3>2. kk + 1 \in k..Groups(n) /\ (kk + 1) - 1 = kk /\ ~u.done
      <4>1. kk + 1 \in k..Groups(n) /\ (kk + 1) - 1 = kk
        BY <1>3, <2>7
      <4> HIDE DEF no_more
      <4> QED
        BY <2>1, <2>7, <4>1, Zenon
    <3>3. Skipped(ti, D, j, k, doc, target, u)
      <4> DEFINE kn == kk + 1
      <4>1. kn \in k..Groups(n) /\ kn - 1 = kk
            /\ u.l = ListAt(ti, D, j, kn, doc)
            /\ kk >= k /\ ~(kk < k)
        BY <3>1, <3>2
      <4> HIDE DEF kn
      <4> QED
        <5>1. Looked(u, kn) = kk
          BY <3>2, <4>1, Zenon DEF Looked
        <5>2. SkippedAt(ti, D, j, k, doc, target, u, kn)
          BY <2>2, <2>3, <2>4, <2>5, <3>2, <4>1, <5>1 DEF SkippedAt
        <5> QED
          BY <4>1, <5>2, Zenon DEF Skipped
    <3>4. Turned(u, target, r + 1)
      <4>1. u.l.skip_count = kk + 1
        BY <3>1 DEF ListAt
      <4>2. kk >= r
        BY <1>4, <1>6 DEF Turned
      <4> QED
        BY <1>3, <4>1, <4>2 DEF Turned
    <3> QED
      BY <3>3, <3>4 DEF u
  <2> QED
    BY <2>6, <2>7
<1> QED
  BY <1>5, <1>6

\* Before the loop, and after a step of it that does nothing but a record.
LEMMA SkipStarts ==
    ASSUME PlistConstantsOK, NEW docs, NEW ti, NEW D,
           Reads(docs, files.posts, files.skips, ti, D),
           NEW j \in 0..ti.doc_freq, NEW k \in 0..Groups(ti.doc_freq),
           k > 0 => Stop(k - 1) < j, NEW doc, NEW target, NEW s,
           LET l == ListAt(ti, D, j, k, doc)
           IN  s = [l |-> l, done |-> FALSE,
                    found |-> [doc_id |-> l.stepper.doc_id,
                               filepos |-> l.pos],
                    num_skipped |-> Plist!PassedAlready(l)]
    PROVE  Skipped(ti, D, j, k, doc, target, s) /\ Turned(s, target, 0)
<1> DEFINE n == ti.doc_freq
           B == ti.post_filepos
           l == ListAt(ti, D, j, k, doc)
<1>1. n \in Nat /\ B \in Nat /\ j \in Nat /\ k \in Nat /\ Groups(n) \in Nat
  <2>1. n \in Nat /\ B \in Nat
    BY ReadsIs, Zenon
  <2> QED
    BY <2>1, GroupsIs
<1>2. /\ s.l = l /\ s.done = FALSE
      /\ s.found.filepos = l.pos /\ s.num_skipped = Plist!PassedAlready(l)
  OBVIOUS
<1>3. l.pos = B + j /\ l.count = j /\ l.skip_count = k
  BY DEF ListAt
<1> HIDE DEF l
<1>4. s.num_skipped = Stop(Passed(j)) - j
  BY <1>1, <1>2, <1>3, PassedIs
<1>5. ~(k - 1 > Passed(j))
  <2>1. CASE k = 0
    BY <1>1, <2>1, PassedIs
  <2>2. CASE k # 0
    <3>1. k - 1 \in Nat /\ Stop(k - 1) < j
      BY <1>1, <2>2
    <3>2. Stop(k - 1) \in Nat
      BY <3>1, StopIs
    <3>3. k - 1 > Passed(j) <=> k - 1 > 0 /\ Stop(k - 1) >= j
      BY <1>1, <3>1, PassedIs, Zenon
    <3> QED
      BY <1>1, <3>1, <3>2, <3>3
  <2> QED
    BY <2>1, <2>2
<1>6. SkippedTo(j, k - 1) = Stop(Passed(j)) - j
  BY <1>5 DEF SkippedTo
<1>7. Looked(s, k) = k - 1 /\ k - 1 < k /\ ~(k - 1 >= k)
  BY <1>1, <1>2 DEF Looked
<1>8. s.done \in BOOLEAN /\ ~s.done
  BY <1>2
<1> HIDE <1>2
<1>9. SkippedAt(ti, D, j, k, doc, target, s, k)
  <2>1. s.l = ListAt(ti, D, j, k, doc) /\ s.found.filepos = B + j
    BY <1>2, <1>3 DEF l
  <2>2. s.num_skipped = SkippedTo(j, Looked(s, k))
    BY <1>4, <1>6, <1>7
  <2>3. Looked(s, k) < k /\ ~(Looked(s, k) >= k)
    BY <1>7
  <2> QED
    BY <1>8, <2>1, <2>2, <2>3, Zenon DEF SkippedAt
<1>10. k \in k..Groups(n)
  BY <1>1
<1>11. Turned(s, target, 0)
  BY <1>1, <1>2, <1>3 DEF Turned
<1> QED
  BY <1>9, <1>10, <1>11, Zenon DEF Skipped

\* Where Skip leaves the list: on the document it was on, or another one that
\* is less than the target.
SkipsTo(ti, D, j, doc, target, l) ==
    \E i \in j..ti.doc_freq : \E k \in 0..Groups(ti.doc_freq), d \in Nat :
        /\ l = ListAt(ti, D, i, k, d)
        /\ \/ i = j /\ d = doc
           \/ i > j /\ d = D[i] /\ D[i] < target
        /\ k > 0 => Stop(k - 1) <= i

SkipEnd(l, s) ==
    IF s.found.filepos > l.pos
    THEN [s.l EXCEPT !.pos = s.found.filepos, !.doc_id = s.found.doc_id,
                     !.count = s.l.count + s.num_skipped]
    ELSE s.l

LEMMA SkipEndIs ==
    ASSUME PlistConstantsOK, NEW docs, NEW ti, NEW D,
           Reads(docs, files.posts, files.skips, ti, D),
           NEW j \in 0..ti.doc_freq, NEW k \in 0..Groups(ti.doc_freq),
           k > 0 => Stop(k - 1) < j, NEW doc \in Nat,
           doc = D[j] \/ j = ti.doc_freq,
           NEW target \in Nat, NEW s, Skipped(ti, D, j, k, doc, target, s)
    PROVE  SkipsTo(ti, D, j, doc, target, SkipEnd(ListAt(ti, D, j, k, doc), s))
<1> DEFINE n == ti.doc_freq
           B == ti.post_filepos
           l == ListAt(ti, D, j, k, doc)
           u == SkipEnd(l, s)
<1>1. /\ n \in Nat /\ B \in Nat /\ j \in Nat /\ k \in Nat
      /\ Groups(n) \in Nat /\ \A i \in 0..n : D[i] \in Nat
  <2>1. n \in Nat /\ B \in Nat /\ \A i \in 0..n : D[i] \in Nat
    BY ReadsIs, Zenon
  <2>2. Groups(n) \in Nat
    BY <2>1, GroupsIs
  <2> QED
    BY <2>1, <2>2
<1>2. PICK kk \in k..Groups(n) : SkippedAt(ti, D, j, k, doc, target, s, kk)
  BY Zenon DEF Skipped
<1> DEFINE kf == Looked(s, kk)
<1>3. /\ s.l = ListAt(ti, D, j, kk, doc)
      /\ s.done \in BOOLEAN /\ (s.done => kk = Groups(n))
      /\ kf < k => s.found.filepos = B + j
      /\ kf >= k => /\ s.found.doc_id = D[Stop(kf)]
                    /\ s.found.filepos = B + Stop(kf)
                    /\ D[Stop(kf)] < target
      /\ doc = D[j] => s.num_skipped = SkippedTo(j, kf)
  BY <1>2, Zenon DEF SkippedAt
<1>4. kk \in 0..Groups(n) /\ kk \in Nat /\ kk >= k
  BY <1>1
<1>5. kf = kk \/ kf = kk - 1
  BY DEF Looked
<1> HIDE DEF kf
<1>6. kf \in Int /\ kf <= kk /\ kk - 1 <= kf /\ (kf >= k => kf \in 0..Groups(n))
  BY <1>1, <1>4, <1>5
<1>7. l.pos = B + j
  BY DEF ListAt
<1>8. s.l.count = j
  BY <1>3 DEF ListAt
<1> HIDE DEF l
<1>9. CASE s.found.filepos > l.pos
  <2>1. kf >= k /\ kf \in 0..Groups(n)
    <3>1. ~(kf < k)
      <4> SUFFICES ASSUME kf < k
                   PROVE  FALSE
        OBVIOUS
      <4>1. s.found.filepos = B + j
        BY <1>3
      <4> QED
        BY <1>1, <1>7, <1>9, <4>1
    <3> QED
      BY <1>1, <1>6, <3>1
  <2> DEFINE i == Stop(kf)
  <2>2. i \in 0..n /\ kf \in Nat
    BY <1>1, <2>1, StopsWithin
  <2>3. /\ s.found.doc_id = D[i] /\ s.found.filepos = B + i /\ D[i] < target
    BY <1>3, <2>1
  <2>4. i > j
    BY <1>1, <1>7, <1>9, <2>2, <2>3
  <2>5. doc = D[j]
    BY <1>1, <2>2, <2>4
  <2>6. s.num_skipped = i - j
    <3>1. kf > 0
      <4> SUFFICES ASSUME kf = 0
                   PROVE  FALSE
        BY <2>2
      <4>1. i = 0
        BY StopIs
      <4> QED
        BY <1>1, <2>4, <4>1
    <3>2. SkippedTo(j, kf) = Stop(kf) - j
      BY <1>1, <2>2, <2>4, <3>1, SkippedMore
    <3> QED
      BY <1>3, <2>5, <3>2
  <2>7. j + s.num_skipped = i
    <3> HIDE DEF i
    <3> QED
      BY <1>1, <2>2, <2>6
  <2>8. u = [s.l EXCEPT !.pos = s.found.filepos, !.doc_id = s.found.doc_id,
                        !.count = s.l.count + s.num_skipped]
    BY <1>9, Zenon DEF SkipEnd
  <2>9. u = [ListAt(ti, D, j, kk, doc) EXCEPT !.pos = B + i, !.doc_id = D[i],
                                              !.count = i]
    <3> HIDE DEF u, i
    <3> QED
      BY <1>3, <1>8, <2>3, <2>7, <2>8, Zenon
  <2>10. u = ListAt(ti, D, i, kk, D[i])
    <3> HIDE DEF u, i
    <3>1. IsListAt([ListAt(ti, D, j, kk, doc)
                       EXCEPT !.pos = ti.post_filepos + i, !.doc_id = D[i],
                              !.count = i], ti, D, i, kk, D[i])
      BY ListAtSkips, Zenon
    <3> QED
      BY <2>9, <3>1, Zenon DEF IsListAt
  <2>11. kk > 0 => Stop(kk - 1) <= i
    <3> SUFFICES ASSUME kk > 0
                 PROVE  Stop(kk - 1) <= i
      OBVIOUS
    <3>1. kk - 1 \in Nat /\ Stop(kk - 1) \in 0..n /\ Stop(kk - 1) < Stop(kk)
          /\ Stop(kk) \in 0..n
      BY <1>1, <1>4, StopsWithin
    <3> QED
      BY <1>1, <1>5, <3>1
  <2> HIDE DEF u, i
  <2>12. i \in j..n /\ D[i] \in Nat /\ i > j
    BY <1>1, <2>2, <2>4
  <2> QED
    BY <1>4, <2>3, <2>10, <2>11, <2>12, Zenon DEF SkipsTo, u, l
<1>10. CASE ~(s.found.filepos > l.pos)
  <2>1. u = ListAt(ti, D, j, kk, doc)
    BY <1>3, <1>10, Zenon DEF SkipEnd
  <2>2. kk > 0 => Stop(kk - 1) <= j
    <3> SUFFICES ASSUME kk > 0
                 PROVE  Stop(kk - 1) <= j
      OBVIOUS
    <3>1. kk - 1 \in Nat /\ Stop(kk - 1) \in 0..n /\ Stop(kk - 1) < Stop(kk)
          /\ Stop(kk) \in 0..n
      BY <1>1, <1>4, StopsWithin
    <3>2. CASE kk = k
      BY <1>1, <3>1, <3>2
    <3>3. CASE kk # k
      <4>1. kf >= k /\ kf \in 0..Groups(n)
        BY <1>1, <1>4, <1>6, <3>3
      <4>2. s.found.filepos = B + Stop(kf) /\ Stop(kf) \in 0..n
        BY <1>1, <1>3, <4>1, StopsWithin
      <4>3. Stop(kf) <= j
        BY <1>1, <1>7, <1>10, <4>2
      <4> QED
        BY <1>1, <1>5, <3>1, <4>2, <4>3
    <3> QED
      BY <3>2, <3>3
  <2>3. j \in j..n
    BY <1>1
  <2> HIDE DEF u
  <2> QED
    BY <1>4, <2>1, <2>2, <2>3, Zenon DEF SkipsTo, u, l
<1> QED
  BY <1>9, <1>10

\* The states that the loop goes through.
SkipStates(ti, D, j, doc) ==
    [l : {ListAt(ti, D, j, k, doc) : k \in 0..Groups(ti.doc_freq)},
     done : BOOLEAN, found : [doc_id : Nat, filepos : Nat], num_skipped : Int]

LEMMA SkipStays ==
    ASSUME PlistConstantsOK, NEW docs, NEW ti, NEW D,
           Reads(docs, files.posts, files.skips, ti, D),
           NEW j \in 0..ti.doc_freq, NEW doc, NEW target,
           NEW s \in SkipStates(ti, D, j, doc)
    PROVE  Plist!SkipRound(s, target) \in SkipStates(ti, D, j, doc)
<1> DEFINE n == ti.doc_freq
           B == ti.post_filepos
           L == {ListAt(ti, D, j, k, doc) : k \in 0..Groups(n)}
           u == Plist!SkipRound(s, target)
<1>1. /\ s.l \in L /\ s.done \in BOOLEAN /\ s.num_skipped \in Int
  BY DEF SkipStates
<1>2. PICK k \in 0..Groups(n) : s.l = ListAt(ti, D, j, k, doc)
  BY <1>1
<1>3. n \in Nat /\ B \in Nat /\ \A i \in 0..n : D[i] \in Nat
  BY ReadsIs, Zenon
<1>4. k \in Nat /\ Stop(k) \in 0..n /\ Groups(n) \in Nat
      /\ (k < Groups(n) => k + 1 \in 0..Groups(n))
  BY <1>3, StopsWithin
<1>5. /\ s.l.skip_count = k /\ s.l.num_skips = Groups(n)
      /\ s.l.stepper = [doc_id |-> D[Stop(k)], filepos |-> B + Stop(k)]
  BY <1>2 DEF ListAt
<1>6. s.l.stepper \in [doc_id : Nat, filepos : Nat]
  <2>1. D[Stop(k)] \in Nat /\ B + Stop(k) \in Nat
    BY <1>3, <1>4
  <2> QED
    BY <1>5, <2>1
<1>7. CASE s.done \/ target <= s.l.stepper.doc_id
  <2>1. u = s
    BY <1>7, Zenon DEF Plist!SkipRound
  <2> QED
    BY <2>1, Zenon
<1>8. CASE ~(s.done \/ target <= s.l.stepper.doc_id)
  <2> DEFINE no_more == s.l.skip_count >= s.l.num_skips
             more == s.num_skipped
                     + (IF Plist!Counts(s.l) THEN SkipInterval ELSE 0)
             next == IF no_more THEN s.l ELSE Plist!Read_Record(s.l)
  <2>1. u = [l |-> next, found |-> s.l.stepper, done |-> no_more,
             num_skipped |-> more]
    BY <1>8, Zenon DEF Plist!SkipRound
  <2>2. more \in Int
    BY <1>1 DEF PlistConstantsOK
  <2>3. next \in L
    <3>1. CASE no_more
      BY <1>1, <3>1
    <3>2. CASE ~no_more
      <4>1. k < Groups(n)
        BY <1>4, <1>5, <3>2
      <4>2. Plist!Read_Record(ListAt(ti, D, j, k, doc))
                = ListAt(ti, D, j, k + 1, doc)
        BY <4>1, ReadListAt
      <4>3. next = ListAt(ti, D, j, k + 1, doc) /\ k + 1 \in 0..Groups(n)
        BY <1>2, <1>4, <3>2, <4>1, <4>2, Zenon
      <4> HIDE DEF next
      <4> QED
        BY <4>3
    <3> QED
      BY <3>1, <3>2
  <2>4. no_more \in BOOLEAN
    OBVIOUS
  <2> HIDE DEF next, more, no_more, L
  <2> QED
    BY <1>6, <2>1, <2>2, <2>3, <2>4 DEF SkipStates, L
<1> QED
  BY <1>7, <1>8

LEMMA SkipIs ==
    ASSUME PlistConstantsOK, NEW docs, NEW ti, NEW D,
           Reads(docs, files.posts, files.skips, ti, D),
           NEW j \in 0..ti.doc_freq, NEW k \in 0..Groups(ti.doc_freq),
           k > 0 => Stop(k - 1) < j, NEW doc \in Nat,
           doc = D[j] \/ j = ti.doc_freq, NEW target \in Nat
    PROVE  SkipsTo(ti, D, j, doc, target,
                   Plist!Skip(ListAt(ti, D, j, k, doc), target))
<1> DEFINE n == ti.doc_freq
           l == ListAt(ti, D, j, k, doc)
           N == DocMax + 1
           S == SkipStates(ti, D, j, doc)
           start == [l |-> l, done |-> FALSE,
                     found |-> [doc_id |-> l.stepper.doc_id,
                                filepos |-> l.pos],
                     num_skipped |-> Plist!PassedAlready(l)]
           step == [i \in 1..N |-> [s \in S |-> Plist!SkipRound(s, target)]]
           F(f) == [i \in 0..N |-> IF i = 0 THEN start
                                   ELSE Plist!SkipRound(f[i - 1], target)]
           after == CHOOSE f : f = F(f)
<1>1. /\ N \in Nat /\ n \in Nat /\ n <= DocMax /\ Groups(n) \in Nat
      /\ Groups(n) <= n /\ k \in Nat /\ j \in Nat
      /\ ti.post_filepos \in Nat
      /\ \A i \in 0..n : D[i] \in Nat
  <2>1. /\ n \in Nat /\ n <= DocMax /\ \A i \in 0..n : D[i] \in Nat
        /\ ti.post_filepos \in Nat
    BY ReadsIs, Zenon
  <2>2. Groups(n) \in Nat /\ Stop(Groups(n)) <= n
    BY <2>1, GroupsIs
  <2>3. Stop(Groups(n)) >= Groups(n) /\ Stop(Groups(n)) \in Nat
    BY <2>2, StopIs
  <2> QED
    BY <2>1, <2>2, <2>3 DEF PlistConstantsOK
<1>2. /\ Skipped(ti, D, j, k, doc, target, start) /\ Turned(start, target, 0)
  BY SkipStarts
<1>3. start \in S
  <2>1. /\ l.stepper.doc_id = D[Stop(k)] /\ l.count = j
        /\ l.pos = ti.post_filepos + j
    BY DEF ListAt
  <2>2. l.stepper.doc_id \in Nat /\ l.pos \in Nat
    <3>1. Stop(k) \in 0..n
      BY <1>1, StopsWithin
    <3> HIDE DEF l
    <3> QED
      BY <1>1, <2>1, <3>1
  <2>3. Plist!PassedAlready(l) \in Int
    <3>1. Plist!PassedAlready(l) = Stop(Passed(j)) - j
      BY <1>1, <2>1, PassedIs
    <3>2. Passed(j) \in Nat
      BY <1>1, PassedIs
    <3>3. Stop(Passed(j)) \in Nat
      BY <3>2, StopIs
    <3> HIDE DEF l
    <3> QED
      BY <1>1, <3>1, <3>3
  <2>4. l \in {ListAt(ti, D, j, i, doc) : i \in 0..Groups(n)}
    OBVIOUS
  <2> HIDE DEF l
  <2> QED
    BY <2>2, <2>3, <2>4 DEF SkipStates
<1>4. \A s \in S : Plist!SkipRound(s, target) \in S
  BY SkipStays
<1> HIDE DEF S, N, start
<1>5. Loop(N, S, start, step)
  <2>1. Rounds(N, S, step)
    BY <1>4 DEF Rounds
  <2> HIDE DEF step
  <2> QED
    BY <1>1, <1>3, <2>1, Iterated, Zenon
<1>6. PICK g \in [0..N -> S] :
          g[0] = start /\ \A i \in 1..N : g[i] = step[i][g[i - 1]]
  BY <1>5, Zenon DEF Loop
<1>7. g = F(g)
  <2>1. ASSUME NEW i \in 0..N
        PROVE  g[i] = IF i = 0 THEN start ELSE Plist!SkipRound(g[i - 1], target)
    <3>1. CASE i = 0
      BY <1>6, <3>1
    <3>2. CASE i # 0
      <4>1. i \in 1..N /\ i - 1 \in 0..N
        BY <1>1, <3>2
      <4>2. g[i - 1] \in S
        BY <4>1
      <4> QED
        BY <1>6, <3>2, <4>1, <4>2
    <3> QED
      BY <3>1, <3>2
  <2> QED
    BY <2>1
<1>8. after = F(after)
  <2>1. \E f : f = F(f)
    BY <1>7
  <2> QED
    BY <2>1, Zenon
<1> HIDE DEF after
<1>9. \A i \in 0..N : after[i] = IF i = 0 THEN start
                                 ELSE Plist!SkipRound(after[i - 1], target)
  BY <1>8
<1>10. /\ Skipped(ti, D, j, k, doc, target, after[N])
       /\ Turned(after[N], target, N)
  <2> DEFINE T == {i \in 0..N : /\ Skipped(ti, D, j, k, doc, target, after[i])
                                /\ Turned(after[i], target, i)}
  <2>1. 0 \in T
    BY <1>1, <1>2, <1>9
  <2>2. ASSUME NEW i \in 0..(N - 1), i \in T
        PROVE  i + 1 \in T
    <3>1. i \in Nat /\ i + 1 \in 0..N /\ i + 1 # 0 /\ (i + 1) - 1 = i
      BY <1>1
    <3>2. after[i + 1] = Plist!SkipRound(after[i], target)
      BY <1>9, <3>1
    <3>3. /\ Skipped(ti, D, j, k, doc, target, after[i])
          /\ Turned(after[i], target, i)
      BY <2>2
    <3>4. /\ Skipped(ti, D, j, k, doc, target, after[i + 1])
          /\ Turned(after[i + 1], target, i + 1)
      BY <1>1, <3>1, <3>2, <3>3, SkipTurns, ZenonT(30)
    <3> QED
      BY <3>1, <3>4
  <2>3. \A i \in 0..N : i \in T
    <3> HIDE DEF T
    <3> QED
      BY <1>1, <2>1, <2>2, CountUp
  <2>4. N \in T
    BY <1>1, <2>3
  <2> QED
    BY <2>4
<1>11. Plist!Skip(l, target) = SkipEnd(l, after[N])
  BY Zenon DEF Plist!Skip, Plist!Repeat, SkipEnd, after, N, start
<1> QED
  BY <1>10, <1>11, SkipEndIs

-----------------------------------------------------------------------------
(* Scanning.                                                               *)

ScanRound(r, target) ==
    IF r.doc_id = 0 \/ r.doc_id >= target THEN r ELSE Plist!NextPosting(r)

Skim(l, target) ==
    Plist!NextPosting(IF l.doc_freq >= SkipInterval THEN Plist!Skip(l, target)
                      ELSE l)

\* A Skip, if there are skip records, a Next, and as many more as it takes.
Scans(l, target, S, g) ==
    /\ g \in [0..(DocMax + 1) -> S] /\ g[0] = Skim(l, target)
    /\ \A i \in 1..(DocMax + 1) : g[i] = ScanRound(g[i - 1], target)
    /\ Plist!AdvanceTo(l, target) = g[DocMax + 1]

LEMMA AdvanceScans ==
    ASSUME PlistConstantsOK, NEW l, NEW target, NEW S, Skim(l, target) \in S,
           \A r \in S : ScanRound(r, target) \in S
    PROVE  \E g : Scans(l, target, S, g)
<1> DEFINE N == DocMax + 1
           start == Skim(l, target)
           step == [i \in 1..N |-> [r \in S |-> ScanRound(r, target)]]
           F(f) == [i \in 0..N |-> IF i = 0 THEN start
                                   ELSE ScanRound(f[i - 1], target)]
           after == CHOOSE f : f = F(f)
<1>1. N \in Nat
  BY DEF PlistConstantsOK
<1>2. start \in S
  OBVIOUS
<1> HIDE DEF N, start
<1>3. Loop(N, S, start, step)
  <2>1. Rounds(N, S, step)
    BY DEF Rounds
  <2> HIDE DEF step
  <2> QED
    BY <1>1, <1>2, <2>1, Iterated, Zenon
<1>4. PICK g \in [0..N -> S] :
          g[0] = start /\ \A i \in 1..N : g[i] = step[i][g[i - 1]]
  BY <1>3, Zenon DEF Loop
<1>5. g = F(g)
  <2>1. ASSUME NEW i \in 0..N
        PROVE  g[i] = IF i = 0 THEN start ELSE ScanRound(g[i - 1], target)
    <3>1. CASE i = 0
      BY <1>4, <3>1
    <3>2. CASE i # 0
      <4>1. i \in 1..N /\ i - 1 \in 0..N
        BY <1>1, <3>2
      <4>2. g[i - 1] \in S
        BY <4>1
      <4> QED
        BY <1>4, <3>2, <4>1, <4>2
    <3> QED
      BY <3>1, <3>2
  <2> QED
    BY <2>1
<1>6. after = F(after)
  <2>1. \E f : f = F(f)
    BY <1>5
  <2> QED
    BY <2>1, Zenon
<1>7. Plist!AdvanceTo(l, target) = after[N]
  BY Zenon DEF Plist!AdvanceTo, Plist!Repeat, Skim, ScanRound, N, start
<1> HIDE DEF after
<1>8. \A i \in 0..N : after[i] = IF i = 0 THEN start
                                 ELSE ScanRound(after[i - 1], target)
  BY <1>6
<1>9. \A i \in 1..N : after[i] = ScanRound(after[i - 1], target)
  <2> TAKE i \in 1..N
  <2>1. i \in 0..N /\ i # 0
    BY <1>1
  <2> QED
    BY <1>8, <2>1
<1>10. after[0] = start
  BY <1>1, <1>8
<1>11. \A i \in 0..N : after[i] \in S
  <2> DEFINE T == {i \in 0..N : after[i] \in S}
  <2>1. 0 \in T
    BY <1>1, <1>2, <1>10
  <2>2. ASSUME NEW i \in 0..(N - 1), i \in T
        PROVE  i + 1 \in T
    <3>1. i + 1 \in 1..N /\ i + 1 \in 0..N /\ (i + 1) - 1 = i
      BY <1>1
    <3>2. after[i + 1] = ScanRound(after[i], target)
      BY <1>9, <3>1
    <3> QED
      BY <2>2, <3>1, <3>2
  <2>3. \A i \in 0..N : i \in T
    <3> HIDE DEF T
    <3> QED
      BY <1>1, <2>1, <2>2, CountUp
  <2> QED
    BY <2>3
<1>12. after \in [0..N -> S]
  BY <1>6, <1>11
<1> HIDE DEF F
<1> QED
  BY <1>7, <1>9, <1>10, <1>12, Zenon DEF Scans, N, start

\* Past documents less than the target only, if it was not at the end before.
Onward(ti, D, k, target, spent, l) ==
    \/ \E i \in 1..ti.doc_freq :
           l = ListAt(ti, D, i, k, D[i]) /\ D[i - 1] < target /\ ~spent
    \/ l = ListAt(ti, D, ti.doc_freq, k, 0)
       /\ (spent \/ D[ti.doc_freq] < target)

Arrived(l, target) == l.doc_id = 0 \/ l.doc_id >= target

LEMMA NextOnward ==
    ASSUME NEW docs, NEW ti, NEW D,
           Reads(docs, files.posts, files.skips, ti, D),
           NEW j \in 0..ti.doc_freq, NEW k, NEW doc, NEW target,
           NEW spent \in BOOLEAN,
           IF spent THEN j = ti.doc_freq ELSE doc = D[j] /\ D[j] < target
    PROVE  LET l == Plist!NextPosting(ListAt(ti, D, j, k, doc))
           IN  /\ Onward(ti, D, k, target, spent, l)
               /\ l.doc_id = 0 \/ l.count > j
<1> DEFINE n == ti.doc_freq
           l == Plist!NextPosting(ListAt(ti, D, j, k, doc))
<1>1. n \in Nat /\ j \in Nat
  BY ReadsIs
<1>2. doc = D[j] \/ j = n
  OBVIOUS
<1>3. l = IF j < n THEN ListAt(ti, D, j + 1, k, D[j + 1])
          ELSE ListAt(ti, D, j, k, 0)
  BY <1>2, NextListAt
<1>4. CASE j < n
  <2>1. j + 1 \in 1..n /\ (j + 1) - 1 = j /\ ~spent /\ D[j] < target
        /\ j + 1 > j
    BY <1>1, <1>4
  <2>2. l = ListAt(ti, D, j + 1, k, D[j + 1])
    BY <1>3, <1>4
  <2>3. l.count = j + 1
    BY <2>2 DEF ListAt
  <2> HIDE DEF l
  <2>4. Onward(ti, D, k, target, spent, l)
    BY <2>1, <2>2 DEF Onward
  <2> QED
    BY <2>1, <2>3, <2>4 DEF l
<1>5. CASE ~(j < n)
  <2>1. j = n /\ (spent \/ D[n] < target)
    BY <1>1, <1>5
  <2>2. l = ListAt(ti, D, n, k, 0)
    BY <1>3, <1>5, <2>1
  <2>3. l.doc_id = 0
    BY <2>2 DEF ListAt
  <2> HIDE DEF l
  <2>4. Onward(ti, D, k, target, spent, l)
    BY <2>1, <2>2 DEF Onward
  <2> QED
    BY <2>3, <2>4 DEF l
<1> QED
  BY <1>4, <1>5

LEMMA ScanOnward ==
    ASSUME PlistConstantsOK, NEW docs, NEW ti, NEW D,
           Reads(docs, files.posts, files.skips, ti, D), NEW k, NEW target,
           NEW spent \in BOOLEAN, NEW l, Onward(ti, D, k, target, spent, l),
           target \in Nat
    PROVE  LET r == ScanRound(l, target)
           IN  /\ Onward(ti, D, k, target, spent, r)
               /\ \A i \in Nat : Arrived(l, target) \/ l.count > i
                      => Arrived(r, target) \/ r.count > i + 1
<1> DEFINE n == ti.doc_freq
           r == ScanRound(l, target)
<1>1. n \in Nat /\ \A i \in 0..n : D[i] \in Nat
  BY ReadsIs, Zenon
<1>2. CASE Arrived(l, target)
  <2>1. r = l
    BY <1>2 DEF Arrived, ScanRound
  <2> QED
    BY <1>2, <2>1
<1>3. CASE ~Arrived(l, target)
  <2>1. r = Plist!NextPosting(l) /\ l.doc_id # 0 /\ ~(l.doc_id >= target)
    BY <1>3, Zenon DEF Arrived, ScanRound
  <2>2. PICK i \in 1..n : l = ListAt(ti, D, i, k, D[i]) /\ ~spent
    <3>1. ListAt(ti, D, n, k, 0).doc_id = 0
      BY DEF ListAt
    <3> QED
      BY <2>1, <3>1, Zenon DEF Onward
  <2>3. l.doc_id = D[i] /\ l.count = i
    BY <2>2 DEF ListAt
  <2>4. i \in 0..n /\ i \in Nat /\ D[i] < target
    <3>1. i \in 0..n
      BY <1>1
    <3>2. D[i] \in Nat
      BY <1>1, <3>1
    <3> QED
      BY <2>1, <2>3, <3>1, <3>2
  <2> HIDE DEF r
  <2>5. Onward(ti, D, k, target, spent, r) /\ (r.doc_id = 0 \/ r.count > i)
    <3>1. IF spent THEN i = ti.doc_freq ELSE D[i] = D[i] /\ D[i] < target
      BY <2>2, <2>4
    <3> QED
      BY <2>1, <2>2, <2>4, <3>1, NextOnward
  <2>6. r.doc_id = 0 \/ r.count \in Nat
    <3>1. ASSUME NEW c \in 1..n, r = ListAt(ti, D, c, k, D[c])
          PROVE  r.count \in Nat
      BY <1>1, <3>1 DEF ListAt
    <3>2. ListAt(ti, D, n, k, 0).doc_id = 0
      BY DEF ListAt
    <3> QED
      BY <2>5, <3>1, <3>2, Zenon DEF Onward
  <2>7. ASSUME NEW c \in Nat, l.count > c
        PROVE  Arrived(r, target) \/ r.count > c + 1
    BY <2>3, <2>4, <2>5, <2>6, <2>7 DEF Arrived
  <2> QED
    BY <1>3, <2>5, <2>7 DEF r
<1> QED
  BY <1>2, <1>3

\* No skip record read leads past the documents passed.
KeepsUp(k, l) == k > 0 => Stop(k - 1) < l.count

LEMMA NextKeepsUp ==
    ASSUME PlistConstantsOK, NEW docs, NEW ti, NEW D,
           Reads(docs, files.posts, files.skips, ti, D),
           NEW j \in 0..ti.doc_freq, NEW k \in 0..Groups(ti.doc_freq),
           NEW doc, doc = D[j] \/ j = ti.doc_freq, k > 0 => Stop(k - 1) <= j
    PROVE  KeepsUp(k, Plist!NextPosting(ListAt(ti, D, j, k, doc)))
<1> DEFINE n == ti.doc_freq
           l == Plist!NextPosting(ListAt(ti, D, j, k, doc))
<1>1. n \in Nat /\ j \in Nat
  BY ReadsIs
<1>2. l.count = IF j < n THEN j + 1 ELSE j
  <2>1. l = IF j < n THEN ListAt(ti, D, j + 1, k, D[j + 1])
            ELSE ListAt(ti, D, j, k, 0)
    BY NextListAt
  <2>2. ListAt(ti, D, j + 1, k, D[j + 1]).count = j + 1
        /\ ListAt(ti, D, j, k, 0).count = j
    BY DEF ListAt
  <2> HIDE DEF l
  <2> QED
    BY <2>1, <2>2
<1> HIDE DEF l
<1>3. ASSUME k > 0
      PROVE  Stop(k - 1) < l.count
  <2>1. Stop(k - 1) \in 0..n /\ Stop(k - 1) < Stop(k) /\ Stop(k) \in 0..n
    BY <1>1, <1>3, StopsWithin
  <2>2. Stop(k - 1) <= j
    BY <1>3
  <2> QED
    BY <1>1, <1>2, <2>1, <2>2
<1> QED
  BY <1>3 DEF KeepsUp, l

LEMMA ScanKeepsUp ==
    ASSUME PlistConstantsOK, NEW docs, NEW ti, NEW D,
           Reads(docs, files.posts, files.skips, ti, D),
           NEW k \in 0..Groups(ti.doc_freq), NEW target, NEW spent, NEW l,
           Onward(ti, D, k, target, spent, l), KeepsUp(k, l)
    PROVE  KeepsUp(k, ScanRound(l, target))
<1> DEFINE n == ti.doc_freq
<1>1. CASE ScanRound(l, target) = l
  BY <1>1
<1>2. CASE ScanRound(l, target) # l
  <2>1. ScanRound(l, target) = Plist!NextPosting(l) /\ l.doc_id # 0
    BY <1>2, Zenon DEF ScanRound
  <2>2. PICK i \in 1..n : l = ListAt(ti, D, i, k, D[i])
    <3>1. ListAt(ti, D, n, k, 0).doc_id = 0
      BY DEF ListAt
    <3> QED
      BY <2>1, <3>1, Zenon DEF Onward
  <2>3. l.count = i
    BY <2>2 DEF ListAt
  <2>4. i \in 0..n /\ n \in Nat
    BY ReadsIs
  <2>5. k > 0 => Stop(k - 1) <= i
    <3> SUFFICES ASSUME k > 0
                 PROVE  Stop(k - 1) <= i
      OBVIOUS
    <3>1. Stop(k - 1) \in 0..n
      BY <2>4, StopsWithin
    <3> QED
      BY <2>3, <2>4, <3>1 DEF KeepsUp
  <2>6. KeepsUp(k, Plist!NextPosting(ListAt(ti, D, i, k, D[i])))
    BY <2>4, <2>5, NextKeepsUp
  <2> QED
    BY <2>1, <2>2, <2>6
<1> QED
  BY <1>1, <1>2

\* Where a list may be after a Next or an Advance.
Landed(ti, D, target, spent, l) ==
    \E k \in 0..Groups(ti.doc_freq) :
        /\ Onward(ti, D, k, target, spent, l) /\ KeepsUp(k, l)
        /\ Arrived(l, target)

LEMMA SkimIs ==
    ASSUME PlistConstantsOK, NEW docs, NEW ti, NEW D,
           Reads(docs, files.posts, files.skips, ti, D),
           NEW j \in 0..ti.doc_freq, NEW k \in 0..Groups(ti.doc_freq),
           k > 0 => Stop(k - 1) < j, NEW doc \in Nat, NEW target \in Nat,
           NEW spent \in BOOLEAN,
           IF spent THEN j = ti.doc_freq ELSE doc = D[j] /\ D[j] < target
    PROVE  LET l == Skim(ListAt(ti, D, j, k, doc), target)
           IN  \E kk \in 0..Groups(ti.doc_freq) :
                   /\ Onward(ti, D, kk, target, spent, l) /\ KeepsUp(kk, l)
                   /\ l.doc_id = 0 \/ l.count > 0
<1> DEFINE n == ti.doc_freq
           G == Groups(n)
           l == ListAt(ti, D, j, k, doc)
           m == IF l.doc_freq >= SkipInterval THEN Plist!Skip(l, target) ELSE l
<1>1. n \in Nat /\ j \in Nat /\ G \in Nat /\ k \in Nat
      /\ \A i \in 0..n : D[i] \in Nat
  <2>1. n \in Nat /\ \A i \in 0..n : D[i] \in Nat
    BY ReadsIs, Zenon
  <2> QED
    BY <2>1, GroupsIs
<1>2. doc = D[j] \/ j = n
  OBVIOUS
<1>3. SkipsTo(ti, D, j, doc, target, m)
  <2>1. CASE l.doc_freq >= SkipInterval
    <3>1. SkipsTo(ti, D, j, doc, target, Plist!Skip(l, target))
      BY <1>2, SkipIs
    <3> QED
      BY <2>1, <3>1, Zenon
  <2>2. CASE ~(l.doc_freq >= SkipInterval)
    <3>1. j \in j..n
      BY <1>1
    <3>2. k > 0 => Stop(k - 1) <= j
      <4> SUFFICES ASSUME k > 0
                   PROVE  Stop(k - 1) <= j
        OBVIOUS
      <4>1. Stop(k - 1) \in 0..n /\ Stop(k - 1) < j
        BY <1>1, StopsWithin
      <4> QED
        BY <1>1, <4>1
    <3>3. m = l
      BY <2>2, Zenon
    <3>4. l = ListAt(ti, D, j, k, doc)
      OBVIOUS
    <3> HIDE DEF l, m
    <3> QED
      BY <3>1, <3>2, <3>3, <3>4, Zenon DEF SkipsTo
  <2> QED
    BY <2>1, <2>2
<1> HIDE DEF m
<1>4. PICK i \in j..n : \E kk \in 0..G, d \in Nat :
                /\ m = ListAt(ti, D, i, kk, d)
                /\ (i = j /\ d = doc) \/ (i > j /\ d = D[i] /\ D[i] < target)
                /\ kk > 0 => Stop(kk - 1) <= i
  BY <1>3, Zenon DEF SkipsTo
<1>5. PICK kk \in 0..G : \E d \in Nat :
                /\ m = ListAt(ti, D, i, kk, d)
                /\ (i = j /\ d = doc) \/ (i > j /\ d = D[i] /\ D[i] < target)
                /\ kk > 0 => Stop(kk - 1) <= i
  BY <1>4
<1>6. PICK d \in Nat :
                /\ m = ListAt(ti, D, i, kk, d)
                /\ (i = j /\ d = doc) \/ (i > j /\ d = D[i] /\ D[i] < target)
                /\ kk > 0 => Stop(kk - 1) <= i
  BY <1>5
<1>7. i \in 0..n /\ i \in Nat /\ (spent => i = j)
  BY <1>1
<1>8. IF spent THEN i = n ELSE d = D[i] /\ D[i] < target
  BY <1>6, <1>7
<1>9. d = D[i] \/ i = n
  BY <1>8
<1> DEFINE r == Plist!NextPosting(ListAt(ti, D, i, kk, d))
<1>10. Onward(ti, D, kk, target, spent, r) /\ (r.doc_id = 0 \/ r.count > i)
  BY <1>7, <1>8, NextOnward
<1>11. KeepsUp(kk, r)
  BY <1>6, <1>7, <1>9, NextKeepsUp
<1>12. Skim(l, target) = r
  BY <1>6, Zenon DEF Skim, m
<1>13. r.doc_id = 0 \/ r.count > 0
  <2>1. r.doc_id = 0 \/ r.count = i + 1
    <3>1. r = IF i < n THEN ListAt(ti, D, i + 1, kk, D[i + 1])
              ELSE ListAt(ti, D, i, kk, 0)
      BY <1>7, <1>9, NextListAt
    <3>2. /\ ListAt(ti, D, i + 1, kk, D[i + 1]).count = i + 1
          /\ ListAt(ti, D, i, kk, 0).doc_id = 0
      BY DEF ListAt
    <3> HIDE DEF r
    <3> QED
      BY <3>1, <3>2
  <2> HIDE DEF r
  <2> QED
    BY <1>7, <2>1
<1> HIDE DEF r
<1> QED
  BY <1>10, <1>11, <1>12, <1>13, Zenon DEF l

LEMMA AdvanceIs ==
    ASSUME PlistConstantsOK, NEW docs, NEW ti, NEW D,
           Reads(docs, files.posts, files.skips, ti, D),
           NEW j \in 0..ti.doc_freq, NEW k \in 0..Groups(ti.doc_freq),
           k > 0 => Stop(k - 1) < j, NEW doc \in Nat, NEW target \in Nat,
           NEW spent \in BOOLEAN,
           IF spent THEN j = ti.doc_freq ELSE doc = D[j] /\ D[j] < target
    PROVE  Landed(ti, D, target, spent,
                 Plist!AdvanceTo(ListAt(ti, D, j, k, doc), target))
<1> DEFINE n == ti.doc_freq
           N == DocMax + 1
           l == ListAt(ti, D, j, k, doc)
<1>1. n \in Nat /\ n <= DocMax /\ DocMax \in Nat /\ N \in Nat
  BY ReadsIs DEF PlistConstantsOK
<1>2. PICK kk \in 0..Groups(n) :
          /\ Onward(ti, D, kk, target, spent, Skim(l, target))
          /\ KeepsUp(kk, Skim(l, target))
          /\ Skim(l, target).doc_id = 0 \/ Skim(l, target).count > 0
  BY SkimIs
<1> DEFINE S == {r \in {ListAt(ti, D, i, kk, D[i]) : i \in 1..n}
                       \union {ListAt(ti, D, n, kk, 0)} :
                     /\ Onward(ti, D, kk, target, spent, r)
                     /\ KeepsUp(kk, r)}
<1>3. ASSUME NEW r, Onward(ti, D, kk, target, spent, r), KeepsUp(kk, r)
      PROVE  r \in S
  BY <1>3 DEF Onward
<1>4. \A r \in S : ScanRound(r, target) \in S
  <2> TAKE r \in S
  <2>1. Onward(ti, D, kk, target, spent, r) /\ KeepsUp(kk, r)
    OBVIOUS
  <2>2. Onward(ti, D, kk, target, spent, ScanRound(r, target))
    BY <2>1, ScanOnward
  <2>3. KeepsUp(kk, ScanRound(r, target))
    BY <2>1, ScanKeepsUp
  <2> HIDE DEF S
  <2> QED
    BY <1>3, <2>2, <2>3
<1>5. Skim(l, target) \in S
  <2> HIDE DEF S
  <2> QED
    BY <1>2, <1>3
<1>6. \A r \in S : Onward(ti, D, kk, target, spent, r) /\ KeepsUp(kk, r)
                   /\ (r.doc_id = 0 \/ r.count <= n)
  <2> TAKE r \in S
  <2>1. Onward(ti, D, kk, target, spent, r) /\ KeepsUp(kk, r)
    OBVIOUS
  <2>2. CASE \E i \in 1..n : r = ListAt(ti, D, i, kk, D[i])
    <3>1. PICK i \in 1..n : r = ListAt(ti, D, i, kk, D[i])
      BY <2>2
    <3>2. r.count = i
      BY <3>1 DEF ListAt
    <3> HIDE DEF S
    <3> QED
      BY <1>1, <2>1, <3>2
  <2>3. CASE r = ListAt(ti, D, n, kk, 0)
    <3>1. r.doc_id = 0
      BY <2>3 DEF ListAt
    <3> QED
      BY <2>1, <3>1
  <2> QED
    BY <2>1, <2>2, <2>3 DEF Onward
<1> HIDE DEF S, l
<1>7. PICK g : Scans(l, target, S, g)
  BY <1>4, <1>5, AdvanceScans
<1>8. /\ g \in [0..N -> S] /\ g[0] = Skim(l, target)
      /\ \A i \in 1..N : g[i] = ScanRound(g[i - 1], target)
      /\ Plist!AdvanceTo(l, target) = g[N]
  BY <1>7 DEF Scans
<1> HIDE DEF N
<1>9. \A i \in 0..N : Arrived(g[i], target) \/ g[i].count > i
  <2> DEFINE T == {i \in 0..N : Arrived(g[i], target) \/ g[i].count > i}
  <2>1. 0 \in T
    BY <1>1, <1>2, <1>8 DEF Arrived
  <2>2. ASSUME NEW i \in 0..(N - 1), i \in T
        PROVE  i + 1 \in T
    <3>1. i + 1 \in 1..N /\ i + 1 \in 0..N /\ (i + 1) - 1 = i /\ i \in Nat
          /\ i \in 0..N
      BY <1>1
    <3>2. g[i + 1] = ScanRound(g[i], target)
      BY <1>8, <3>1
    <3>3. Onward(ti, D, kk, target, spent, g[i])
      BY <1>6, <1>8, <3>1
    <3>4. Arrived(g[i], target) \/ g[i].count > i
      BY <2>2
    <3>5. Arrived(ScanRound(g[i], target), target)
          \/ ScanRound(g[i], target).count > i + 1
      BY <3>1, <3>3, <3>4, ScanOnward
    <3> QED
      BY <3>1, <3>2, <3>5
  <2>3. \A i \in 0..N : i \in T
    <3> HIDE DEF T
    <3> QED
      BY <1>1, <2>1, <2>2, CountUp
  <2> QED
    BY <2>3
<1>10. N \in 0..N /\ g[N] \in S
  BY <1>1, <1>8
<1>11. Arrived(g[N], target)
  <2>1. Arrived(g[N], target) \/ g[N].count > N
    BY <1>9, <1>10
  <2>2. g[N].doc_id = 0 \/ g[N].count <= n
    BY <1>6, <1>10
  <2>3. CASE g[N].doc_id = 0
    BY <2>3 DEF Arrived
  <2>4. CASE g[N].doc_id # 0
    <3>1. Onward(ti, D, kk, target, spent, g[N])
      BY <1>6, <1>10
    <3>2. ListAt(ti, D, n, kk, 0).doc_id = 0
      BY DEF ListAt
    <3>3. PICK i \in 1..n : g[N] = ListAt(ti, D, i, kk, D[i])
      BY <2>4, <3>1, <3>2, Zenon DEF Onward
    <3>4. g[N].count = i
      BY <3>3 DEF ListAt
    <3> QED
      BY <1>1, <2>1, <3>4 DEF N
  <2> QED
    BY <2>3, <2>4
<1>12. Onward(ti, D, kk, target, spent, g[N]) /\ KeepsUp(kk, g[N])
  BY <1>6, <1>10
<1>13. Landed(ti, D, target, spent, g[N])
  BY <1>11, <1>12, Zenon DEF Landed
<1> QED
  BY <1>8, <1>13, Zenon DEF l

-----------------------------------------------------------------------------
(* The documents that a list visits.                                       *)

PlistItems == IF term = -1 THEN {} ELSE index[term]

FirstFrom(docs, target) ==
    IF \E i \in docs : i >= target
    THEN Plist!List!Min({i \in docs : i >= target}) ELSE -1

\* What a call returns.
Given(l) == IF l.doc_id = 0 THEN -1 ELSE l.doc_id

\* The first document from the target on.
LEMMA FirstGiven ==
    ASSUME NEW docs, NEW ti, NEW D,
           Reads(docs, files.posts, files.skips, ti, D), NEW target \in Nat,
           NEW l, Landed(ti, D, target, FALSE, l)
    PROVE  Given(l) = FirstFrom(docs, target)
<1> DEFINE n == ti.doc_freq
           T == {d \in docs : d >= target}
           M == Plist!List!Min(T)
<1>1. /\ n \in Nat /\ \A j \in 0..n : D[j] \in Nat
      /\ D[0] = 0 /\ docs = {D[j] : j \in 1..n}
      /\ \A i, j \in 0..n : i < j => D[i] < D[j]
  <2>1. docs = {D[j] : j \in 1..n}
    BY Zenon DEF Reads
  <2> QED
    BY <2>1, ReadsIs, Zenon
<1>2. PICK k \in 0..Groups(n) : Onward(ti, D, k, target, FALSE, l)
                                /\ Arrived(l, target)
  BY Zenon DEF Landed
<1>3. CASE \E i \in 1..n : l = ListAt(ti, D, i, k, D[i]) /\ D[i - 1] < target
  <2>1. PICK i \in 1..n : l = ListAt(ti, D, i, k, D[i]) /\ D[i - 1] < target
    BY <1>3
  <2>2. l.doc_id = D[i]
    BY <2>1 DEF ListAt
  <2>3. i \in 0..n /\ i - 1 \in 0..n /\ 0 \in 0..n /\ 0 < i
    BY <1>1
  <2>4. D[i] \in Nat /\ D[i - 1] \in Nat /\ D[i] > 0
    BY <1>1, <2>3
  <2>5. D[i] >= target
    BY <1>2, <2>2, <2>4 DEF Arrived
  <2>6. D[i] \in T
    BY <1>1, <2>5
  <2>7. ASSUME NEW d \in T
        PROVE  D[i] <= d
    <3>1. PICK j \in 1..n : d = D[j]
      BY <1>1
    <3>2. d >= target /\ j \in 0..n /\ D[j] \in Nat
      BY <1>1
    <3>3. CASE j < i
      <4>1. j = i - 1 \/ j < i - 1
        BY <1>1, <3>3
      <4>2. D[j] <= D[i - 1]
        BY <1>1, <2>3, <2>4, <3>2, <4>1
      <4> QED
        BY <2>1, <2>4, <3>1, <3>2, <4>2
    <3>4. CASE j = i
      BY <2>4, <3>1, <3>4
    <3>5. CASE i < j
      <4>1. D[i] < D[j]
        BY <1>1, <2>3, <3>2, <3>5
      <4> QED
        BY <2>4, <3>1, <3>2, <4>1
    <3> QED
      BY <1>1, <3>3, <3>4, <3>5
  <2>8. M \in T /\ \A d \in T : M <= d
    <3> HIDE DEF T
    <3> QED
      BY <2>6, <2>7, Zenon DEF Plist!List!Min
  <2> HIDE DEF M
  <2>9. M = D[i]
    <3>1. M \in Nat /\ M <= D[i] /\ D[i] <= M
      BY <1>1, <2>6, <2>7, <2>8
    <3> QED
      BY <2>4, <3>1
  <2>10. FirstFrom(docs, target) = M
    BY <2>6, Zenon DEF FirstFrom, M
  <2> QED
    BY <2>2, <2>4, <2>9, <2>10 DEF Given
<1>4. CASE l = ListAt(ti, D, n, k, 0) /\ D[n] < target
  <2>1. l.doc_id = 0
    BY <1>4 DEF ListAt
  <2>2. ASSUME NEW d \in docs
        PROVE  ~(d >= target)
    <3>1. PICK j \in 1..n : d = D[j]
      BY <1>1
    <3>2. j \in 0..n /\ n \in 0..n /\ (j < n \/ j = n)
      BY <1>1
    <3>3. D[j] \in Nat /\ D[n] \in Nat /\ D[j] <= D[n]
      BY <1>1, <3>2
    <3> QED
      BY <1>4, <3>1, <3>3
  <2> QED
    BY <2>1, <2>2 DEF Given, FirstFrom
<1> QED
  BY <1>2, <1>3, <1>4, Zenon DEF Onward

\* A list that is seeked to nothing.
Lists == [doc_freq : Nat, count : Nat, pos : Nat, doc_id : Nat,
          skip_count : Nat, num_skips : Nat, skip_pos : Nat,
          stepper : [doc_id : Nat, filepos : Nat]]

Nothing(l) == l \in Lists /\ l.doc_freq = 0 /\ l.count = 0

\* A list is on the current document, or past the last one.
On(ti, D, l, c) ==
    \E j \in 0..ti.doc_freq : \E k \in 0..Groups(ti.doc_freq) :
        /\ k > 0 => Stop(k - 1) < j
        /\ \/ c = D[j] /\ l = ListAt(ti, D, j, k, D[j])
           \/ c = -1 /\ j = ti.doc_freq /\ l = ListAt(ti, D, j, k, 0)

PlistInv ==
    /\ index \in [Plist!Terms -> SUBSET (1..DocMax)] /\ FilesTrue
    /\ term \in Plist!Terms \union {-1}
    /\ \/ /\ PlistItems = {} /\ cur \in {0, -1} /\ Nothing(pl)
          /\ term # -1 => Plist!Infos(term) = {}
       \/ /\ term \in Plist!Terms
          /\ \E ti, D : /\ Plist!Infos(term) = {ti}
                        /\ Reads(index[term], files.posts, files.skips, ti, D)
                        /\ On(ti, D, pl, cur)

LEMMA NothingNext ==
    ASSUME PlistConstantsOK, NEW l, Nothing(l)
    PROVE  LET r == Plist!NextPosting(l) IN Nothing(r) /\ r.doc_id = 0
<1>1. l \in Lists /\ l.doc_freq = 0 /\ l.count = 0
  BY DEF Nothing
<1>2. Plist!NextPosting(l) = [l EXCEPT !.doc_id = 0]
  BY <1>1 DEF Plist!NextPosting
<1>3. [l EXCEPT !.doc_id = 0] \in Lists
  BY <1>1 DEF Lists
<1>4. [l EXCEPT !.doc_id = 0].doc_freq = 0 /\ [l EXCEPT !.doc_id = 0].count = 0
      /\ [l EXCEPT !.doc_id = 0].doc_id = 0
  BY <1>1 DEF Lists
<1> QED
  BY <1>2, <1>3, <1>4, Zenon DEF Nothing

LEMMA NothingAdvances ==
    ASSUME PlistConstantsOK, NEW l, Nothing(l), NEW target
    PROVE  LET r == Plist!AdvanceTo(l, target) IN Nothing(r) /\ r.doc_id = 0
<1> DEFINE S == {r \in Lists : Nothing(r) /\ r.doc_id = 0}
<1>1. Skim(l, target) = Plist!NextPosting(l)
  <2>1. ~(l.doc_freq >= SkipInterval)
    BY DEF Nothing, PlistConstantsOK
  <2> QED
    BY <2>1, Zenon DEF Skim
<1>2. Skim(l, target) \in S
  <2>1. Nothing(Skim(l, target)) /\ Skim(l, target).doc_id = 0
    BY <1>1, NothingNext, Zenon
  <2> QED
    BY <2>1, Zenon DEF Nothing
<1>3. \A r \in S : ScanRound(r, target) \in S
  BY DEF ScanRound
<1> HIDE DEF S
<1>4. PICK g : Scans(l, target, S, g)
  BY <1>2, <1>3, AdvanceScans
<1>5. DocMax + 1 \in 0..(DocMax + 1)
  BY DEF PlistConstantsOK
<1>6. Plist!AdvanceTo(l, target) \in S
  BY <1>4, <1>5 DEF Scans
<1> QED
  BY <1>6 DEF S

\* A Next or an Advance of a list that is on the current document.
LEMMA OnMoves ==
    ASSUME PlistConstantsOK, NEW docs \in SUBSET (1..DocMax), NEW ti, NEW D,
           Reads(docs, files.posts, files.skips, ti, D),
           NEW target \in Nat, NEW spent \in BOOLEAN, NEW l,
           Landed(ti, D, target, spent, l)
    PROVE  /\ On(ti, D, l, Given(l))
           /\ spent => Given(l) = -1
           /\ ~spent => Given(l) = FirstFrom(docs, target)
<1> DEFINE n == ti.doc_freq
<1>1. /\ n \in Nat /\ \A j \in 0..n : D[j] \in Nat
      /\ D[0] = 0 /\ \A i, j \in 0..n : i < j => D[i] < D[j]
  BY ReadsIs, Zenon
<1>2. PICK k \in 0..Groups(n) : /\ Onward(ti, D, k, target, spent, l)
                                /\ KeepsUp(k, l)
  BY Zenon DEF Landed
<1>3. CASE \E i \in 1..n : l = ListAt(ti, D, i, k, D[i]) /\ ~spent
  <2>1. PICK i \in 1..n : l = ListAt(ti, D, i, k, D[i]) /\ ~spent
    BY <1>3
  <2>2. l.doc_id = D[i] /\ l.count = i
    BY <2>1 DEF ListAt
  <2>3. i \in 0..n /\ 0 \in 0..n /\ 0 < i
    BY <1>1
  <2>4. D[i] # 0
    BY <1>1, <2>3
  <2>5. Given(l) = D[i] /\ (k > 0 => Stop(k - 1) < i)
    BY <1>2, <2>2, <2>4 DEF Given, KeepsUp
  <2> QED
    BY <2>1, <2>3, <2>5, FirstGiven DEF On
<1>4. CASE l = ListAt(ti, D, n, k, 0)
  <2>1. l.doc_id = 0 /\ l.count = n
    BY <1>4 DEF ListAt
  <2>2. Given(l) = -1 /\ (k > 0 => Stop(k - 1) < n) /\ n \in 0..n
    BY <1>1, <1>2, <2>1 DEF Given, KeepsUp
  <2>3. On(ti, D, l, -1)
    BY <1>4, <2>2 DEF On
  <2> QED
    BY <2>2, <2>3, FirstGiven
<1> QED
  BY <1>2, <1>3, <1>4, Zenon DEF Onward

\* A Seek.
LEMMA ListSeekIs ==
    ASSUME PlistConstantsOK, NEW docs, NEW ti, NEW D,
           Reads(docs, files.posts, files.skips, ti, D), NEW l
    PROVE  On(ti, D, Plist!S_seek_tinfo(l, {ti}), 0)
<1> DEFINE n == ti.doc_freq
<1>1. n \in Nat /\ ti.post_filepos \in Nat /\ ti.skip_filepos \in Nat
      /\ D[0] = 0
  <2>1. D[0] = 0
    BY Zenon DEF Reads
  <2>2. ti \in PostInfos
    BY Zenon DEF Reads
  <2> QED
    BY <2>1, <2>2 DEF PostInfos
<1>2. Groups(n) \in Nat /\ n \div SkipInterval = Groups(n) /\ Stop(0) = 0
  <2>1. Groups(n) \in Nat /\ Stop(0) = 0
    BY <1>1, GroupsIs, StopIs
  <2>2. n \div SkipInterval = Groups(n)
    BY Zenon DEF Groups
  <2> QED
    BY <2>1, <2>2
<1> DEFINE r == Plist!S_seek_tinfo(l, {ti})
           tinfo == CHOOSE i \in {ti} : TRUE
<1>3. tinfo = ti
  OBVIOUS
<1>4. r = [doc_freq |-> n, count |-> 0, pos |-> ti.post_filepos,
           doc_id |-> 0, skip_count |-> 0,
           num_skips |-> n \div SkipInterval,
           skip_pos |-> ti.skip_filepos,
           stepper |-> [doc_id |-> 0, filepos |-> ti.post_filepos]]
  <2>1. {ti} # {}
    OBVIOUS
  <2>2. r = [doc_freq |-> tinfo.doc_freq, count |-> 0,
             pos |-> tinfo.post_filepos, doc_id |-> 0, skip_count |-> 0,
             num_skips |-> tinfo.doc_freq \div SkipInterval,
             skip_pos |-> tinfo.skip_filepos,
             stepper |-> [doc_id |-> 0, filepos |-> tinfo.post_filepos]]
    BY <2>1, Zenon DEF Plist!S_seek_tinfo
  <2> HIDE DEF r, tinfo
  <2> QED
    BY <1>3, <2>2, Zenon
<1>5. /\ ti.post_filepos + 0 = ti.post_filepos
      /\ ti.skip_filepos + 0 = ti.skip_filepos
  BY <1>1
<1>6. r = ListAt(ti, D, 0, 0, D[0])
  <2> HIDE DEF r
  <2> QED
    BY <1>1, <1>2, <1>4, <1>5, Zenon DEF ListAt
<1>7. 0 \in 0..n /\ 0 \in 0..Groups(n) /\ ~(0 > 0)
  BY <1>1, <1>2
<1> HIDE DEF r
<1> QED
  BY <1>1, <1>6, <1>7, Zenon DEF On, r

LEMMA OnIsList ==
    ASSUME PlistConstantsOK, NEW docs, NEW ti, NEW D,
           Reads(docs, files.posts, files.skips, ti, D),
           NEW l, NEW c, On(ti, D, l, c)
    PROVE  l \in Lists
<1> DEFINE n == ti.doc_freq
           B == ti.post_filepos
<1>1. /\ n \in Nat /\ B \in Nat /\ ti.skip_filepos \in Nat
      /\ \A j \in 0..n : D[j] \in Nat
  BY ReadsIs, Zenon
<1>2. PICK j \in 0..n : \E k \in 0..Groups(n) :
          l = ListAt(ti, D, j, k, D[j]) \/ l = ListAt(ti, D, j, k, 0)
  BY DEF On
<1>3. PICK k \in 0..Groups(n) :
          l = ListAt(ti, D, j, k, D[j]) \/ l = ListAt(ti, D, j, k, 0)
  BY <1>2
<1>4. k \in Nat /\ Stop(k) \in 0..n /\ Groups(n) \in Nat
  BY <1>1, StopsWithin
<1>5. ASSUME NEW d \in Nat
      PROVE  ListAt(ti, D, j, k, d) \in Lists
  <2>1. /\ B + j \in Nat /\ ti.skip_filepos + k \in Nat /\ j \in Nat
        /\ D[Stop(k)] \in Nat /\ B + Stop(k) \in Nat
    BY <1>1, <1>4
  <2> QED
    BY <1>1, <1>4, <2>1 DEF ListAt, Lists
<1>6. D[j] \in Nat /\ 0 \in Nat
  BY <1>1
<1> QED
  BY <1>3, <1>5, <1>6

LEMMA PlistInitially ==
    ASSUME PlistConstantsOK, Plist!Init
    PROVE  PlistInv /\ Plist!List!Init
<1>1. /\ index \in [Plist!Terms -> SUBSET (1..DocMax)]
      /\ pl = Plist!New /\ term = -1 /\ cur = 0
  BY DEF Plist!Init
<1>2. FilesTrue
  BY FilesAreTrue DEF Plist!Init
<1>3. PlistItems = {}
  BY <1>1 DEF PlistItems
<1>4. Nothing(pl)
  <2>1. pl = [doc_freq |-> 0, count |-> 0, pos |-> 0, doc_id |-> 0,
              skip_count |-> 0, num_skips |-> 0, skip_pos |-> 0,
              stepper |-> [doc_id |-> 0, filepos |-> 0]]
    BY <1>1 DEF Plist!New
  <2> QED
    BY <2>1 DEF Nothing, Lists
<1>5. PlistInv
  BY <1>1, <1>2, <1>3, <1>4 DEF PlistInv
<1>6. Plist!List!Init
  BY <1>1 DEF Plist!List!Init
<1> QED
  BY <1>5, <1>6

\* The target of a Next is the document after the current one.
LEMMA VisitIs ==
    ASSUME PlistConstantsOK, PlistInv, NEW target \in 1..(DocMax + 1),
           NEW l, Plist!Returned(target, l), target > cur,
           Given(l) = IF cur = -1 THEN -1 ELSE FirstFrom(PlistItems, target)
    PROVE  Plist!List!PostingStep
<1>1. /\ asked' = target /\ cur' = Given(l)
      /\ PlistItems' = PlistItems
  BY DEF Plist!Returned, Given, PlistItems
<1>2. cur' = IF cur = -1 THEN -1 ELSE Plist!List!FirstFrom(target)
  BY <1>1, Zenon DEF Plist!List!FirstFrom, FirstFrom, PlistItems
<1>3. Plist!List!Visit(target)
  BY <1>1, <1>2, Zenon DEF Plist!List!Visit, PlistItems
<1> QED
  BY <1>3, Zenon DEF Plist!List!MatcherNext, Plist!List!PostingStep

\* A Next or an Advance of a list.
LEMMA CallIs ==
    ASSUME PlistConstantsOK, PlistInv, NEW target \in 1..(DocMax + 1),
           target > cur, NEW l, Plist!Returned(target, l),
           \/ l = Plist!AdvanceTo(pl, target)
           \/ /\ l = Plist!NextPosting(pl)
              /\ target = IF cur = -1 THEN 1 ELSE cur + 1
    PROVE  PlistInv' /\ Plist!List!PostingStep
<1>1. /\ pl' = l /\ cur' = Given(l) /\ index' = index /\ files' = files
      /\ term' = term
  BY DEF Plist!Returned, Given
<1>2. PlistItems' = PlistItems
  BY <1>1 DEF PlistItems
<1>3. FilesTrue' /\ Plist!Infos(term)' = Plist!Infos(term)
      /\ Plist!Terms' = Plist!Terms
  <2>1. Plist!Terms' = Plist!Terms
    BY DEF Plist!Terms
  <2>2. \A t : Plist!Infos(t)' = Plist!Infos(t)
    BY <1>1 DEF Plist!Infos
  <2>3. Plist!Infos(term)' = Plist!Infos(term)
    BY <1>1 DEF Plist!Infos
  <2>4. FilesTrue'
    BY <1>1, <2>1, <2>2 DEF PlistInv, FilesTrue
  <2> QED
    BY <2>1, <2>3, <2>4
<1>4. CASE /\ PlistItems = {} /\ cur \in {0, -1} /\ Nothing(pl)
           /\ term # -1 => Plist!Infos(term) = {}
  <2>1. Nothing(l) /\ l.doc_id = 0
    BY <1>4, NothingNext, NothingAdvances, Zenon
  <2>2. Given(l) = -1
    BY <2>1 DEF Given
  <2>3. FirstFrom(PlistItems, target) = -1
    BY <1>4 DEF FirstFrom
  <2>4. Plist!List!PostingStep
    BY <2>2, <2>3, VisitIs
  <2>5. PlistInv'
    BY <1>1, <1>2, <1>3, <1>4, <2>1, <2>2 DEF PlistInv
  <2> QED
    BY <2>4, <2>5
<1>5. CASE /\ term \in Plist!Terms
           /\ \E ti, D : /\ Plist!Infos(term) = {ti}
                         /\ Reads(index[term], files.posts, files.skips, ti, D)
                         /\ On(ti, D, pl, cur)
  <2>1. PICK ti, D : /\ Plist!Infos(term) = {ti}
                     /\ Reads(index[term], files.posts, files.skips, ti, D)
                     /\ On(ti, D, pl, cur)
    BY <1>5
  <2> DEFINE n == ti.doc_freq
             spent == cur = -1
             docs == index[term]
  <2>2. /\ n \in Nat /\ \A j \in 0..n : D[j] \in Nat
    BY <2>1, ReadsIs, Zenon
  <2>3. docs \in SUBSET (1..DocMax) /\ PlistItems = docs
    BY <1>5 DEF PlistInv, PlistItems, Plist!Terms, PlistConstantsOK
  <2>4. PICK j \in 0..n : \E k \in 0..Groups(n) :
            /\ k > 0 => Stop(k - 1) < j
            /\ \/ cur = D[j] /\ pl = ListAt(ti, D, j, k, D[j])
               \/ cur = -1 /\ j = n /\ pl = ListAt(ti, D, j, k, 0)
    BY <2>1, Zenon DEF On
  <2>5. PICK k \in 0..Groups(n) :
            /\ k > 0 => Stop(k - 1) < j
            /\ \/ cur = D[j] /\ pl = ListAt(ti, D, j, k, D[j])
               \/ cur = -1 /\ j = n /\ pl = ListAt(ti, D, j, k, 0)
    BY <2>4
  <2>6. D[j] \in Nat /\ target \in Nat /\ spent \in BOOLEAN
    BY <2>2
  <2> DEFINE doc == IF spent THEN 0 ELSE D[j]
  <2>7. /\ pl = ListAt(ti, D, j, k, doc) /\ doc \in Nat
        /\ IF spent THEN j = n ELSE doc = D[j] /\ D[j] < target
        /\ doc = D[j] \/ j = n
        /\ spent \/ cur = D[j]
    BY <2>5, <2>6
  <2> HIDE DEF docs, doc
  <2>8. Landed(ti, D, target, spent, l)
    <3>1. CASE l = Plist!AdvanceTo(pl, target)
      <4>1. Reads(docs, files.posts, files.skips, ti, D)
        BY <2>1 DEF docs
      <4> HIDE DEF spent
      <4>2. Landed(ti, D, target, spent,
                   Plist!AdvanceTo(ListAt(ti, D, j, k, doc), target))
        BY <2>5, <2>6, <2>7, <4>1, AdvanceIs
      <4> QED
        BY <2>7, <3>1, <4>2, Zenon
    <3>2. CASE /\ l = Plist!NextPosting(pl)
               /\ target = IF cur = -1 THEN 1 ELSE cur + 1
      <4>1. Reads(docs, files.posts, files.skips, ti, D)
        BY <2>1 DEF docs
      <4>2. Onward(ti, D, k, target, spent, l)
        <5> HIDE DEF spent
        <5>1. Onward(ti, D, k, target, spent,
                     Plist!NextPosting(ListAt(ti, D, j, k, doc)))
          BY <2>6, <2>7, <4>1, NextOnward
        <5> QED
          BY <2>7, <3>2, <5>1, Zenon
      <4>3. KeepsUp(k, l)
        <5>1. k > 0 => Stop(k - 1) <= j
          <6> SUFFICES ASSUME k > 0
                       PROVE  Stop(k - 1) <= j
            OBVIOUS
          <6>1. Stop(k - 1) \in 0..n /\ Stop(k - 1) < j
            BY <2>2, <2>5, StopsWithin
          <6> QED
            BY <2>2, <6>1
        <5>2. KeepsUp(k, Plist!NextPosting(ListAt(ti, D, j, k, doc)))
          BY <2>7, <4>1, <5>1, NextKeepsUp
        <5> QED
          BY <2>7, <3>2, <5>2, Zenon
      <4>4. Arrived(l, target)
        <5>1. ListAt(ti, D, n, k, 0).doc_id = 0
          BY DEF ListAt
        <5>2. l = IF j < n THEN ListAt(ti, D, j + 1, k, D[j + 1])
                  ELSE ListAt(ti, D, j, k, 0)
          BY <2>7, <3>2, <4>1, NextListAt
        <5>3. CASE j < n
          <6>1. l.doc_id = D[j + 1]
            BY <5>2, <5>3 DEF ListAt
          <6>2. j + 1 \in 0..n /\ j < j + 1
            BY <2>2, <5>3
          <6>3. D[j] < D[j + 1] /\ D[j + 1] \in Nat
            <7>1. \A a, b \in 0..n : a < b => D[a] < D[b]
              BY <4>1, ReadsIs, Zenon
            <7> QED
              BY <2>2, <6>2, <7>1
          <6>4. target = D[j] + 1
            BY <2>2, <2>7, <3>2, <5>3
          <6> QED
            BY <2>6, <6>1, <6>3, <6>4 DEF Arrived
        <5>4. CASE ~(j < n)
          <6>1. l.doc_id = 0
            BY <5>2, <5>4 DEF ListAt
          <6> QED
            BY <6>1 DEF Arrived
        <5> QED
          BY <5>3, <5>4
      <4> QED
        BY <4>2, <4>3, <4>4, Zenon DEF Landed
    <3> QED
      BY <3>1, <3>2
  <2>9. /\ On(ti, D, l, Given(l))
        /\ spent => Given(l) = -1
        /\ ~spent => Given(l) = FirstFrom(docs, target)
    <3>1. Reads(docs, files.posts, files.skips, ti, D)
      BY <2>1 DEF docs
    <3> HIDE DEF spent
    <3> QED
      BY <2>3, <2>6, <2>8, <3>1, OnMoves
  <2>10. Given(l) = IF cur = -1 THEN -1 ELSE FirstFrom(PlistItems, target)
    BY <2>3, <2>9
  <2>11. Plist!List!PostingStep
    BY <2>10, VisitIs
  <2>12. PlistInv'
    <3>1. /\ index' \in [Plist!Terms' -> SUBSET (1..DocMax)] /\ FilesTrue'
          /\ term' \in Plist!Terms' \union {-1} /\ term' \in Plist!Terms'
      BY <1>1, <1>3, <1>5 DEF PlistInv
    <3>2. /\ Plist!Infos(term)' = {ti}
          /\ Reads(index'[term'], files'.posts, files'.skips, ti, D)
          /\ On(ti, D, pl', cur')
      BY <1>1, <1>3, <2>1, <2>9, Zenon
    <3> QED
      BY <3>1, <3>2, Zenon DEF PlistInv
  <2> QED
    BY <2>11, <2>12
<1> QED
  BY <1>4, <1>5 DEF PlistInv

LEMMA SeekStep ==
    ASSUME PlistConstantsOK, PlistInv, Plist!Seek
    PROVE  PlistInv' /\ Plist!List!PostingStep
<1>1. /\ term' \in Plist!Terms
      /\ pl' = Plist!S_seek_tinfo(pl, Plist!Infos(term'))
      /\ asked' = 0 /\ cur' = 0 /\ index' = index /\ files' = files
  BY DEF Plist!Seek
<1>2. /\ index \in [Plist!Terms -> SUBSET (1..DocMax)] /\ FilesTrue
      /\ term' # -1
  BY <1>1 DEF PlistInv, Plist!Terms, PlistConstantsOK
<1>3. /\ Plist!Terms' = Plist!Terms
      /\ \A t : Plist!Infos(t)' = Plist!Infos(t)
  BY <1>1 DEF Plist!Terms, Plist!Infos
<1>4. FilesTrue' /\ index' \in [Plist!Terms' -> SUBSET (1..DocMax)]
  BY <1>1, <1>2, <1>3 DEF FilesTrue
<1>5. PlistItems' = index[term']
  BY <1>1, <1>2 DEF PlistItems
<1>6. Plist!List!PostingStep
  <2>1. PlistItems' \in SUBSET (1..(DocMax + 1))
    BY <1>1, <1>2, <1>5 DEF PlistConstantsOK
  <2>2. Plist!List!SeekTerm
    BY <1>1, <2>1, Zenon DEF Plist!List!SeekTerm, PlistItems
  <2> QED
    BY <2>2, Zenon DEF Plist!List!PostingStep
<1>7. Plist!Infos(term)' = Plist!Infos(term')
  BY <1>1 DEF Plist!Infos
<1>8. CASE Plist!Infos(term') = {} /\ index[term'] = {}
  <2>1. pl' = [pl EXCEPT !.count = 0, !.doc_freq = 0]
    BY <1>1, <1>8, Zenon DEF Plist!S_seek_tinfo
  <2>2. pl \in Lists
    BY OnIsList DEF PlistInv, Nothing
  <2>3. Nothing(pl')
    BY <2>1, <2>2 DEF Nothing, Lists
  <2>4. PlistItems' = {} /\ cur' \in {0, -1} /\ Plist!Infos(term)' = {}
    BY <1>1, <1>5, <1>7, <1>8
  <2>5. term' \in Plist!Terms' \union {-1}
    BY <1>1, <1>3
  <2>6. PlistInv'
    BY <1>4, <2>3, <2>4, <2>5, Zenon DEF PlistInv
  <2> QED
    BY <1>6, <2>6
<1>9. CASE \E ti, D : /\ Plist!Infos(term') = {ti}
                      /\ Reads(index[term'], files.posts, files.skips, ti, D)
  <2>1. PICK ti, D : /\ Plist!Infos(term') = {ti}
                     /\ Reads(index[term'], files.posts, files.skips, ti, D)
    BY <1>9
  <2>2. On(ti, D, Plist!S_seek_tinfo(pl, {ti}), 0)
    BY <2>1, ListSeekIs
  <2>3. /\ On(ti, D, pl', cur') /\ Plist!Infos(term)' = {ti}
        /\ Reads(index'[term'], files'.posts, files'.skips, ti, D)
    BY <1>1, <1>7, <2>1, <2>2, Zenon
  <2>4. term' \in Plist!Terms' \union {-1} /\ term' \in Plist!Terms'
    BY <1>1, <1>3
  <2>5. PlistInv'
    BY <1>4, <2>3, <2>4, Zenon DEF PlistInv
  <2> QED
    BY <1>6, <2>5
<1> QED
  BY <1>1, <1>2, <1>8, <1>9 DEF FilesTrue

\* A list is on a document of the index, before the first, or past the last.
LEMMA CurrentIs ==
    ASSUME PlistConstantsOK, PlistInv
    PROVE  cur \in -1..DocMax
<1>1. CASE cur \in {0, -1}
  BY <1>1 DEF PlistConstantsOK
<1>2. CASE /\ term \in Plist!Terms
           /\ \E ti, D : /\ Plist!Infos(term) = {ti}
                         /\ Reads(index[term], files.posts, files.skips, ti, D)
                         /\ On(ti, D, pl, cur)
  <2>1. PICK ti, D : /\ Reads(index[term], files.posts, files.skips, ti, D)
                     /\ On(ti, D, pl, cur)
    BY <1>2
  <2>2. /\ ti.doc_freq \in Nat /\ D[0] = 0
        /\ index[term] = {D[j] : j \in 1..ti.doc_freq}
    <3>1. D[0] = 0 /\ index[term] = {D[j] : j \in 1..ti.doc_freq}
      BY <2>1, Zenon DEF Reads
    <3>2. ti.doc_freq \in Nat
      BY <2>1, ReadsIs, Zenon
    <3> QED
      BY <3>1, <3>2
  <2>3. cur = -1 \/ \E j \in 0..ti.doc_freq : cur = D[j]
    BY <2>1, Zenon DEF On
  <2>4. index[term] \in SUBSET (1..DocMax)
    BY <1>2 DEF PlistInv
  <2>5. cur = -1 \/ cur = 0 \/ cur \in index[term]
    BY <2>2, <2>3
  <2> QED
    BY <2>4, <2>5 DEF PlistConstantsOK
<1> QED
  BY <1>1, <1>2, Zenon DEF PlistInv

LEMMA PlistSteps ==
    ASSUME PlistConstantsOK, PlistInv, [Plist!NextStep]_(Plist!vars)
    PROVE  PlistInv' /\ Plist!List!PostingStep
<1>1. CASE Plist!Next
  <2> DEFINE target == IF cur = -1 THEN 1 ELSE cur + 1
  <2>1. Plist!Returned(target, Plist!NextPosting(pl))
    BY <1>1, Zenon DEF Plist!Next
  <2>2. target \in 1..(DocMax + 1) /\ target > cur
    BY CurrentIs DEF PlistConstantsOK
  <2>3. target = IF cur = -1 THEN 1 ELSE cur + 1
    OBVIOUS
  <2> HIDE DEF target
  <2> QED
    BY <2>1, <2>2, <2>3, CallIs
<1>2. CASE Plist!Advance
  <2>1. PICK target \in 1..(DocMax + 1) :
            target > cur /\ Plist!Returned(target, Plist!AdvanceTo(pl, target))
    BY <1>2, Zenon DEF Plist!Advance
  <2> QED
    BY <2>1, CallIs
<1>3. CASE Plist!Seek
  BY <1>3, SeekStep
<1>4. CASE UNCHANGED Plist!vars
  <2>1. /\ index' = index /\ files' = files /\ pl' = pl /\ term' = term
        /\ asked' = asked /\ cur' = cur
    BY <1>4 DEF Plist!vars
  <2>2. PlistItems' = PlistItems
    BY <2>1 DEF PlistItems
  <2>3. /\ Plist!Terms' = Plist!Terms
        /\ \A t : Plist!Infos(t)' = Plist!Infos(t)
        /\ Plist!Infos(term)' = Plist!Infos(term)
    BY <2>1 DEF Plist!Terms, Plist!Infos
  <2>4. FilesTrue'
    BY <2>1, <2>3 DEF PlistInv, FilesTrue
  <2>5. PlistInv'
    BY <2>1, <2>2, <2>3, <2>4 DEF PlistInv
  <2>6. UNCHANGED Plist!List!vars
    BY <2>1, <2>2, Zenon DEF Plist!List!vars, PlistItems
  <2> QED
    BY <2>5, <2>6, Zenon DEF Plist!List!PostingStep
<1> QED
  BY <1>1, <1>2, <1>3, <1>4, Zenon DEF Plist!NextStep

\* How many of the documents come before or are the j-th.
LEMMA CountIs ==
    ASSUME NEW docs, NEW ti, NEW D,
           Reads(docs, files.posts, files.skips, ti, D),
           NEW j \in 0..ti.doc_freq
    PROVE  Cardinality({d \in docs : d <= D[j]}) = j
<1> DEFINE n == ti.doc_freq
           S == {d \in docs : d <= D[j]}
           f == [i \in 1..j |-> D[i]]
<1>1. /\ n \in Nat /\ \A i \in 0..n : D[i] \in Nat
      /\ \A a, b \in 0..n : a < b => D[a] < D[b]
  BY ReadsIs, Zenon
<1>2. docs = {D[i] : i \in 1..n}
  BY Zenon DEF Reads
<1>3. j \in Nat /\ j <= n
  BY <1>1
<1>4. \A i \in 1..n : D[i] <= D[j] <=> i <= j
  <2> TAKE i \in 1..n
  <2>1. i \in 0..n /\ D[i] \in Nat /\ D[j] \in Nat
    BY <1>1
  <2>2. i < j \/ i = j \/ j < i
    BY <1>1
  <2>3. (i < j => D[i] < D[j]) /\ (j < i => D[j] < D[i])
    BY <1>1, <2>1
  <2> QED
    BY <1>3, <2>1, <2>2, <2>3
<1>5. f \in Bijection(1..j, S)
  <2>1. f \in [1..j -> S]
    <3> SUFFICES ASSUME NEW i \in 1..j
                 PROVE  D[i] \in S
      OBVIOUS
    <3>1. i \in 1..n /\ i <= j
      BY <1>1, <1>3
    <3> QED
      BY <1>2, <1>4, <3>1
  <2>2. \A a, b \in 1..j : f[a] = f[b] => a = b
    <3> SUFFICES ASSUME NEW a \in 1..j, NEW b \in 1..j, D[a] = D[b]
                 PROVE  a = b
      OBVIOUS
    <3>1. a \in 0..n /\ b \in 0..n /\ D[a] \in Nat
      BY <1>1, <1>3
    <3>2. ~(a < b) /\ ~(b < a)
      BY <1>1, <3>1
    <3> QED
      BY <3>2
  <2>3. \A d \in S : \E i \in 1..j : f[i] = d
    <3> TAKE d \in S
    <3>1. PICK i \in 1..n : d = D[i]
      BY <1>2
    <3>2. i <= j
      BY <1>4, <3>1
    <3>3. i \in 1..j
      BY <1>3, <3>2
    <3> QED
      BY <3>1, <3>3
  <2> HIDE DEF f, S
  <2> QED
    BY <2>1, <2>2, <2>3, Zenon
       DEF Bijection, Injection, Surjection, IsInjective
<1>6. ExistsBijection(1..j, S)
  BY <1>5 DEF ExistsBijection
<1>7. IsFiniteSet(1..j) /\ Cardinality(1..j) = j
  BY <1>3, FS_Interval
<1> HIDE DEF S
<1>8. Cardinality(S) = j
  BY <1>6, <1>7, FS_Bijection
<1> QED
  BY <1>8 DEF S

LEMMA CountTrueIs ==
    ASSUME PlistConstantsOK, PlistInv
    PROVE  Plist!CountTrue
<1> SUFFICES ASSUME cur > 0
             PROVE  /\ pl.count
                           = Cardinality({d \in index[term] : d <= pl.doc_id})
                    /\ \A i \in Plist!Infos(term) :
                           pl.pos = i.post_filepos + pl.count
  <2>1. \A S : Plist!Cardinality(S) = Cardinality(S)
    BY Zenon DEF Plist!Cardinality, Cardinality
  <2> QED
    BY <2>1, Zenon DEF Plist!CountTrue
<1>1. PICK ti, D : /\ Plist!Infos(term) = {ti}
                   /\ Reads(index[term], files.posts, files.skips, ti, D)
                   /\ On(ti, D, pl, cur)
  BY DEF PlistInv
<1>2. PICK j \in 0..ti.doc_freq : \E k :
          cur = D[j] /\ pl = ListAt(ti, D, j, k, D[j])
  BY <1>1 DEF On
<1>3. pl.count = j /\ pl.doc_id = D[j] /\ pl.pos = ti.post_filepos + j
  BY <1>2 DEF ListAt
<1>4. Cardinality({d \in index[term] : d <= D[j]}) = j
  BY <1>1, CountIs
<1> QED
  BY <1>1, <1>3, <1>4

\* A posting list visits the documents of the term it was seeked to, in their
\* order, from the next or from the first that is not less than a target on,
\* whatever it has skipped or scanned before, for any documents, and for skip
\* records any number of postings apart (SegPList_Next, SegPList_Advance and
\* SegPList_Seek, over what PostPool_Finish writes).
THEOREM PostingListsVisitTheDocuments ==
    ASSUME PlistConstantsOK
    PROVE  Plist!Spec => Plist!ImplementsList
<1>1. Plist!Init => PlistInv /\ Plist!List!Init
  BY PlistInitially
<1>2. PlistInv /\ [Plist!NextStep]_(Plist!vars)
          => PlistInv' /\ Plist!List!PostingStep
  BY PlistSteps
<1> QED
  BY <1>1, <1>2, PTL
     DEF Plist!Spec, Plist!ImplementsList, Plist!List!PostingList,
         Plist!List!PostingStep

\* A list on a document has counted the term's documents up to it, those that
\* it has skipped too, and reads on behind the posting of this document.
THEOREM SkipsKeepCount ==
    ASSUME PlistConstantsOK
    PROVE  Plist!Spec => []Plist!CountTrue
<1>1. Plist!Init => PlistInv
  BY PlistInitially
<1>2. PlistInv /\ [Plist!NextStep]_(Plist!vars) => PlistInv'
  BY PlistSteps
<1>3. PlistInv => Plist!CountTrue
  BY CountTrueIs
<1> QED
  BY <1>1, <1>2, <1>3, PTL DEF Plist!Spec
=============================================================================
