------------------------------ MODULE KyberUtils ------------------------------
(***************************************************************************)
(* itoa and reverse of utils.c, verify and cmov of verify.c, and the two   *)
(* functions as avx2/verify.c has them, on vectors of LANES bytes and a    *)
(* tail.  Integers have IntBits bits and bytes ByteBits, for small ranges. *)
(***************************************************************************)
EXTENDS Integers, SequencesExt, Bitwise

CONSTANTS IntBits, ByteBits, LANES

VARIABLES n, a, b

vars == <<n, a, b>>

Byte == 0 .. 2^ByteBits - 1

IntMin == -(2^(IntBits - 1))
Wrap(x) == ((x - IntMin) % 2^IntBits) + IntMin

\* C rounds a quotient towards zero.
Quot(x) == IF x < 0 THEN -((-x) \div 10) ELSE x \div 10

\* Characters by their distance from '0'.
Minus == 45 - 48

reverse(s) == Reverse(s)

\* The digits of n, the last first, until what is left is not positive.
itoa(x) ==
    LET magnitude == IF x < 0 THEN Wrap(-x) ELSE x
        digits[k \in 0 .. IntBits] ==       \* from the number with k digits gone
            LET rest[l \in 0 .. k] == IF l = 0 THEN magnitude ELSE Quot(rest[l-1])
            IN  rest[k] - 10 * Quot(rest[k])
        left[k \in 0 .. IntBits] == IF k = 0 THEN magnitude ELSE Quot(left[k-1])
        count == CHOOSE k \in 1 .. IntBits : left[k] <= 0 /\ \A l \in 1 .. k-1 : left[l] > 0
    IN  reverse([k \in 1 .. count |-> digits[k-1]] \o (IF x < 0 THEN <<Minus>> ELSE <<>>))

XorByte(x, y) == x ^^ y

\* Whether the OR of the differences is zero is what (-(uint64_t)r) >> 63 turns into 0 or 1.
verify(x, y) == IF FoldLeft(LAMBDA r, k : r | XorByte(x[k], y[k]), 0, [k \in DOMAIN x |-> k]) = 0
                THEN 0 ELSE 1

cmov(r, x, bit) ==
    LET mask == (-bit) % 2^ByteBits
    IN  [k \in DOMAIN r |-> XorByte(r[k], mask & XorByte(r[k], x[k]))]

Whole(x) == LANES * (Len(x) \div LANES)

\* Whole vectors are compared as verify does; in the tail cmpeq marks the EQUAL bytes.
verify_avx2(x, y) ==
    IF \/ \E k \in 1 .. Whole(x) : x[k] # y[k]
       \/ \E k \in Whole(x) + 1 .. Len(x) : x[k] = y[k]
    THEN 1 ELSE 0

cmov_avx2(r, x, bit) ==
    LET mask == (-bit) % 2^ByteBits
        Lane(k) == XorByte(r[k], XorByte(x[k], r[k]) & mask)
    IN  [k \in 1 .. Whole(r) |-> Lane(k)]
            \o [k \in 1 .. Len(r) - Whole(r) |-> XorByte(r[Whole(r)+k], mask & XorByte(x[Whole(r)+k], r[Whole(r)+k]))]
-----------------------------------------------------------------------------
(***************************************************************************)
(* A state is an integer, or two arrays of one length.                     *)
(***************************************************************************)
CONSTANTS MaxLen, Bytes

Init == n = IntMin /\ a = <<>> /\ b = <<>>

NextInt == n < -IntMin - 1 /\ a = <<>> /\ n' = n + 1 /\ UNCHANGED <<a, b>>

Grow == /\ n = IntMin /\ Len(a) < MaxLen
        /\ \E x, y \in Bytes : a' = Append(a, x) /\ b' = Append(b, y)
        /\ UNCHANGED n

Next == NextInt \/ Grow

Spec == Init /\ [][Next]_vars
-----------------------------------------------------------------------------
\* The number that a string of digits stands for.
ValueOf(s) == LET negative == s[1] = Minus
                  digits == IF negative THEN Tail(s) ELSE s
                  v == FoldLeft(LAMBDA acc, d : 10*acc + d, 0, digits)
              IN  IF negative THEN -v ELSE v

\* itoa writes n in decimal, without leading zeros, except the smallest int: its
\* negation overflows, the loop ends after one digit, and that digit is none.  A
\* commitment is made of the four bytes of this string, so they have to differ.
ItoaIsDecimal ==
    LET s == itoa(n)
        digits == IF n < 0 THEN Tail(s) ELSE s
    IN  IF n = IntMin THEN Len(s) = 2
        ELSE /\ ValueOf(s) = n
             /\ \A k \in DOMAIN digits : digits[k] \in 0 .. 9
             /\ Len(digits) > 1 => digits[1] # 0

\* verify is 0 exactly for equal arrays, with the vectors of avx2 too as long as the
\* length is a whole number of them: 736, 1088 and 1568 bytes are.
VerifyComparesAll ==
    /\ verify(a, b) = 0 <=> a = b
    /\ Len(a) % LANES = 0 => verify_avx2(a, b) = verify(a, b)

\* cmov takes all of x or nothing of it, in both versions, tail included.
CmovTakesAllOrNothing ==
    /\ cmov(a, b, 0) = a /\ cmov(a, b, 1) = b
    /\ cmov_avx2(a, b, 0) = a /\ cmov_avx2(a, b, 1) = b
=============================================================================
