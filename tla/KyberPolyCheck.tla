---------------------------- MODULE KyberPolyCheck ----------------------------
(***************************************************************************)
(* The operators of KyberPoly against what they are for.  A state is one   *)
(* coefficient: its value x, its position n in the polynomial and the      *)
(* value `rest` of all the others.                                         *)
(***************************************************************************)
EXTENDS KyberPoly

CONSTANTS Values, Positions, Rests

VARIABLES x, n, rest

vars == <<x, n, rest>>

Init == x \in {0, KYBER_Q - 1} /\ n \in Positions /\ rest \in Rests

Next == /\ x' \in {x + 1, 2 * x} \intersect Values
        /\ UNCHANGED <<n, rest>>

Spec == Init /\ [][Next]_vars
-----------------------------------------------------------------------------
Formats == {Bits3, Bits4, Bits5, Bits10, Bits11, Bits12}

Polynomial(y) == [i \in Coefficients |-> IF i = n THEN y ELSE rest]

\* Packing and unpacking lose nothing: for each format, whatever the coefficient
\* and its neighbours, the bits of two coefficients never meet in a byte.
UnpackInvertsPack ==
    \A p \in Formats :
        LET t == [i \in Coefficients |-> Polynomial(x)[i] % 2^p.bits]
            b == Pack(p, t)
        IN  /\ \A i \in DOMAIN b : b[i] \in 0 .. 255
            /\ Unpack(p, b) = t

\* The distance of two numbers around the ring of size q.
Distance(a, b) == LET d == (a - b) % KYBER_Q
                  IN  IF 2*d > KYBER_Q THEN KYBER_Q - d ELSE d

\* Compression to d bits moves a coefficient by at most q/2^(d+1), rounded: the
\* noise that the decryption has to tolerate.  Also at q, which csubq makes 0.
CompressionIsClose ==
    \A d \in {1, 3, 4, 5, 10, 11} :
        LET y == Decompress(Compress(csubq(x), d), d)
        IN  /\ y \in 0 .. KYBER_Q - 1
            /\ Distance(x, y) * 2^(d+1) <= KYBER_Q + 2^d

\* poly_frombytes gives back the coefficient reduced below q.
BytesKeepCoefficients ==
    \A i \in Coefficients :
        poly_frombytes(poly_tobytes(Polynomial(x)))[i] = Polynomial(x)[i] % KYBER_Q

\* A message bit survives exactly the errors below q/4, whichever of the two
\* representatives 0 and q a reduction has left.
MessageToleratesNoise ==
    LET decoded == poly_tomsg(Polynomial(x))[n]
        sent(bit) == poly_frommsg([i \in Coefficients |-> bit])[n]
    IN  /\ decoded = 0 <=> Distance(x, sent(0)) <= 832
        /\ decoded = 1 => Distance(x, sent(1)) <= 832

\* cbd draws coefficient c from the four bits 4*c .. 4*c+3 of its input and no
\* others: sum of two minus sum of two.
NoiseFromOwnBits ==
    LET buf == [i \in 0 .. 127 |-> IF i = n \div 2 THEN x % 256 ELSE rest % 256]
        bit(m) == Bit(buf[m \div 8], m % 8)
    IN  \A c \in Coefficients :
            cbd(buf)[c] = bit(4*c) + bit(4*c + 1) - bit(4*c + 2) - bit(4*c + 3)
=============================================================================
