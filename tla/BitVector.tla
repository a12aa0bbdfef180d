------------------------------- MODULE BitVector -------------------------------
(***************************************************************************)
(* Lucy::Object::BitVector (Object/BitVector.c): arrays of bits in bytes,  *)
(* whose capacities differ and grow.  A byte is the set of its bits that   *)
(* are 1.                                                                  *)
(***************************************************************************)
EXTENDS Integers, FiniteSetsExt, SequencesExt

CONSTANTS Vecs,
          Ticks,     \* bits that are asked for, and lengths and capacities
          Bits,      \* of a byte: 8
          Ints,      \* how many values an int has: 2^32
          MaxBytes   \* bound on the bytes of a vector

VARIABLE bits  \* the bytes of each vector

Ceil(n) == (n + Bits - 1) \div Bits  \* how many bytes n bits are

Cap(v) == Len(v) * Bits

Zeros(n) == [i \in 1..n |-> {}]

Int32(n) == IF n % Ints >= Ints \div 2 THEN (n % Ints) - Ints ELSE n % Ints

Memory_oversize(minimum) == minimum + Max({minimum \div 8, 3})

Init == bits \in [Vecs -> {Zeros(Ceil(c)) : c \in Ticks}]

-----------------------------------------------------------------------------
(* The operations on the bytes.                                            *)

Grow(v, capacity) ==
    IF capacity <= Cap(v) THEN v ELSE v \o Zeros(Ceil(capacity + 1) - Len(v))

\* Grown for the bit at tick, with room to spare.
GrownFor(v, tick) ==
    IF tick < Cap(v) THEN v ELSE Grow(v, Memory_oversize(tick + 1))

\* NumUtil_u1get, u1set, u1clear and u1flip.
U1get(v, tick) == (tick % Bits) \in v[(tick \div Bits) + 1]

U1set(v, tick) == [v EXCEPT ![(tick \div Bits) + 1] = @ \union {tick % Bits}]

U1clear(v, tick) == [v EXCEPT ![(tick \div Bits) + 1] = @ \ {tick % Bits}]

U1flip(v, tick) ==
    [v EXCEPT ![(tick \div Bits) + 1] = SymDiff(@, {tick % Bits})]

Get(v, tick) == tick < Cap(v) /\ U1get(v, tick)

Clear(v, tick) == IF tick >= Cap(v) THEN v ELSE U1clear(v, tick)

\* What is past the other's bytes is zeroed, or the vector grows.
Mimic(v, other) ==
    LET grown == IF Len(v) < Len(other) THEN Grow(v, Cap(other) - 1) ELSE v
    IN  [i \in DOMAIN grown |-> IF i <= Len(other) THEN other[i] ELSE {}]

\* A mutant: the rest is left as it is.
AndCommon(v, other) ==
    [i \in DOMAIN v |->
        IF i <= Len(other) THEN v[i] \intersect other[i] ELSE v[i]]

And(v, other) ==
    [i \in DOMAIN v |->
        IF i <= Len(other) THEN v[i] \intersect other[i] ELSE {}]

And_Not(v, other) ==
    [i \in DOMAIN v |-> IF i <= Len(other) THEN v[i] \ other[i] ELSE v[i]]

\* What is past the vector's own bytes is copied.
S_do_or_or_xor(v, other, operation) ==
    LET both(a, b) == IF operation = "or" THEN a \union b ELSE SymDiff(a, b)
        grown == IF Len(v) < Len(other) THEN Grow(v, Cap(other)) ELSE v
    IN  [i \in DOMAIN grown |->
            IF i <= Min({Len(v), Len(other)}) THEN both(v[i], other[i])
            ELSE IF i <= Len(other) THEN other[i] ELSE grown[i]]

\* Single bits are flipped from the end down to the first bit of a byte, and
\* from the offset up to one, then the last bit that is left, and the bytes from
\* the first up to the one that it is in: none if that is all that is left.
Flip_Block(v, offset, length) ==
    LET end == offset + length - 1
        last == Max({offset} \union {t \in offset..end : t % Bits = 0})
        first == Min({last} \union {t \in offset..last : t % Bits = 0})
        single == ((last + 1)..end) \union (offset..(first - 1)) \union {last}
        whole == ((first \div Bits) + 1)..(last \div Bits)
        grown == IF end >= Cap(v) THEN Grow(v, end + 1) ELSE v
        flipped(i) == SymDiff(grown[i], {t % Bits : t \in {s \in single :
                                                      s \div Bits = i - 1}})
    IN  IF length = 0 THEN v
        ELSE [i \in DOMAIN grown |->
                 IF i \in whole THEN (0..(Bits - 1)) \ flipped(i)
                 ELSE flipped(i)]

\* The first 1 of the byte of tick that is not below tick, or else the first of
\* the bytes after it.  Positions and capacity are compared as signed integers.
Next_Hit(v, tick) ==
    LET at == (tick \div Bits) + 1
        sub == {b \in v[at] : b >= tick % Bits}
        later == {i \in (at + 1)..Len(v) : v[i] # {}}
        checked(t) == IF Int32(t) < Int32(Cap(v)) THEN Int32(t) ELSE -1
    IN  IF at > Len(v) THEN -1
        ELSE IF sub # {} THEN checked((at - 1) * Bits + Min(sub))
        ELSE IF later = {} THEN -1
        ELSE checked((Min(later) - 1) * Bits + Min(v[Min(later)]))

Count(v) == FoldLeft(LAMBDA n, byte : n + Cardinality(byte), 0, v)

\* Bytes that are 0 are skipped, the others gone through bit by bit.
To_Array(v) ==
    FoldLeft(LAMBDA array, i :
                 array \o SelectSeq([k \in 1..Bits |-> (i - 1) * Bits + k - 1],
                                    LAMBDA t : U1get(v, t)),
             <<>>, SelectSeq([i \in DOMAIN v |-> i], LAMBDA i : v[i] # {}))

-----------------------------------------------------------------------------
(* The calls.                                                              *)

Becomes(x, v) == Len(v) <= MaxBytes /\ bits' = [bits EXCEPT ![x] = v]

Single == \E x \in Vecs, t \in Ticks :
    \/ Becomes(x, U1set(GrownFor(bits[x], t), t))
    \/ Becomes(x, Clear(bits[x], t))
    \/ Becomes(x, U1flip(GrownFor(bits[x], t), t))

FlipBlock == \E x \in Vecs, offset \in Ticks, length \in Ticks :
    Becomes(x, Flip_Block(bits[x], offset, length))

\* Grow, and Clear_All.
Whole == \E x \in Vecs :
    \/ \E c \in Ticks : Becomes(x, Grow(bits[x], c))
    \/ Becomes(x, Zeros(Len(bits[x])))

\* Also of a vector with itself, except Mimic and Clone, which copy.
Pair == \E x, y \in Vecs :
    \/ Becomes(x, And(bits[x], bits[y]))
    \/ Becomes(x, S_do_or_or_xor(bits[x], bits[y], "or"))
    \/ Becomes(x, S_do_or_or_xor(bits[x], bits[y], "xor"))
    \/ Becomes(x, And_Not(bits[x], bits[y]))

Copy == \E x, y \in Vecs :
    /\ x # y
    /\ Becomes(x, Mimic(bits[x], bits[y])) \/ Becomes(x, bits[y])

Next == Single \/ FlipBlock \/ Whole \/ Pair \/ Copy

Spec == Init /\ [][Next]_bits

-----------------------------------------------------------------------------

Ones(v) == {t \in 0..(Cap(v) - 1) : U1get(v, t)}

\* Whatever the capacities of two vectors, which grow by different amounts, and
\* wherever a block begins and ends in its bytes, every operation is the one on
\* sets.
Sets == INSTANCE BitSets WITH set <- [x \in Vecs |-> Ones(bits[x])]

ImplementsSets == Sets!Spec

\* And the vector answers as the set does: what is in it, also past the
\* capacity, how many, and which, in ascending order and without THROW.
AnswersTrue == \A x \in Vecs :
    /\ \A t \in Ticks : Get(bits[x], t) = (t \in Ones(bits[x]))
    /\ Count(bits[x]) = Cardinality(Ones(bits[x]))
    /\ To_Array(bits[x]) = Sets!Ascending(Ones(bits[x]))

\* "Returns the next set bit equal to or greater than tick, or -1 if no such bit
\* exists" (BitVector.cfh:72).
NextHitTrue == \A x \in Vecs, t \in Ticks :
    Next_Hit(bits[x], t) = Sets!Next_Hit(Ones(bits[x]), t)

=============================================================================
