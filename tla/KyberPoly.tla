------------------------------- MODULE KyberPoly -------------------------------
(***************************************************************************)
(* poly.c, polyvec.c and cbd.c apart from the transforms: how coefficients *)
(* are rounded to d bits and packed into bytes, and how noise is sampled.  *)
(*                                                                         *)
(* A polynomial is a function on 0..255, a byte string a function on       *)
(* 0..n-1.  The packing code is unrolled; its shifts are kept as tables: a *)
(* row lists the pairs <<i, sh>> of the operands that are ORed into one    *)
(* byte (or word), operand number i of the group shifted right by sh, left *)
(* when sh is negative.                                                    *)
(***************************************************************************)
EXTENDS KyberReduce, Sequences

Coefficients == 0 .. 255

Bit(x, n) == IF n < 0 THEN 0 ELSE (x \div 2^n) % 2

\* The number with the bits bit(0) .. bit(w-1).
Number(bit(_), w) ==
    LET low[n \in 0 .. w] == IF n = 0 THEN 0 ELSE low[n-1] + bit(n-1) * 2^(n-1)
    IN  low[w]

\* The OR of the operands of a row, cut to w bits; operand i is x[base + i].
OrShifted(row, x, base, w) ==
    Number(LAMBDA n : IF \E e \in row : Bit(x[base + e[1]], n + e[2]) = 1 THEN 1 ELSE 0, w)
-----------------------------------------------------------------------------
\* The formats: `bits` per coefficient, `group` coefficients at a time.

Bits3 == [bits |-> 3, group |-> 8,
    bytes |-> << {<<0,0>>, <<1,-3>>, <<2,-6>>},
                 {<<2,2>>, <<3,-1>>, <<4,-4>>, <<5,-7>>},
                 {<<5,1>>, <<6,-2>>, <<7,-5>>} >>,
    words |-> << {<<0,0>>}, {<<0,3>>}, {<<0,6>>, <<1,-2>>}, {<<1,1>>},
                 {<<1,4>>}, {<<1,7>>, <<2,-1>>}, {<<2,2>>}, {<<2,5>>} >>]

Bits4 == [bits |-> 4, group |-> 2,
    bytes |-> << {<<0,0>>, <<1,-4>>} >>,
    words |-> << {<<0,0>>}, {<<0,4>>} >>]

Bits5 == [bits |-> 5, group |-> 8,
    bytes |-> << {<<0,0>>, <<1,-5>>}, {<<1,3>>, <<2,-2>>, <<3,-7>>},
                 {<<3,1>>, <<4,-4>>}, {<<4,4>>, <<5,-1>>, <<6,-6>>},
                 {<<6,2>>, <<7,-3>>} >>,
    words |-> << {<<0,0>>}, {<<0,5>>, <<1,-3>>}, {<<1,2>>}, {<<1,7>>, <<2,-1>>},
                 {<<2,4>>, <<3,-4>>}, {<<3,1>>}, {<<3,6>>, <<4,-2>>}, {<<4,3>>} >>]

Bits10 == [bits |-> 10, group |-> 4,
    bytes |-> << {<<0,0>>}, {<<0,8>>, <<1,-2>>}, {<<1,6>>, <<2,-4>>},
                 {<<2,4>>, <<3,-6>>}, {<<3,2>>} >>,
    words |-> << {<<0,0>>, <<1,-8>>}, {<<1,2>>, <<2,-6>>},
                 {<<2,4>>, <<3,-4>>}, {<<3,6>>, <<4,-2>>} >>]

Bits11 == [bits |-> 11, group |-> 8,
    bytes |-> << {<<0,0>>}, {<<0,8>>, <<1,-3>>}, {<<1,5>>, <<2,-6>>}, {<<2,2>>},
                 {<<2,10>>, <<3,-1>>}, {<<3,7>>, <<4,-4>>}, {<<4,4>>, <<5,-7>>},
                 {<<5,1>>}, {<<5,9>>, <<6,-2>>}, {<<6,6>>, <<7,-5>>}, {<<7,3>>} >>,
    words |-> << {<<0,0>>, <<1,-8>>}, {<<1,3>>, <<2,-5>>}, {<<2,6>>, <<3,-2>>, <<4,-10>>},
                 {<<4,1>>, <<5,-7>>}, {<<5,4>>, <<6,-4>>}, {<<6,7>>, <<7,-1>>, <<8,-9>>},
                 {<<8,2>>, <<9,-6>>}, {<<9,5>>, <<10,-3>>} >>]

\* poly_tobytes and poly_frombytes.
Bits12 == [bits |-> 12, group |-> 2,
    bytes |-> << {<<0,0>>}, {<<0,8>>, <<1,-4>>}, {<<1,4>>} >>,
    words |-> << {<<0,0>>, <<1,-8>>}, {<<1,4>>, <<2,-4>>} >>]

\* All coefficients of t into bytes, and back; the mask cuts a word to its bits.
Pack(p, t) ==
    LET len == Len(p.bytes)
    IN  [n \in 0 .. (256 \div p.group) * len - 1 |->
            OrShifted(p.bytes[1 + (n % len)], t, p.group * (n \div len), 8)]

Unpack(p, a) ==
    LET len == Len(p.bytes)
    IN  [n \in Coefficients |->
            OrShifted(p.words[1 + (n % p.group)], a, len * (n \div p.group), p.bits)]
-----------------------------------------------------------------------------
\* Rounding to d bits and back.  The argument of Compress has been through csubq;
\* it is taken as an unsigned number.
Compress(x, d) == ((x * 2^d + KYBER_Q \div 2) \div KYBER_Q) % 2^d

Decompress(y, d) == (y * KYBER_Q + 2^(d-1)) \div 2^d

poly_csubq(a) == [n \in Coefficients |-> csubq(a[n])]

CompressPacked(p, a) == Pack(p, [n \in Coefficients |-> Compress(csubq(a[n]), p.bits)])
DecompressPacked(p, b) == LET t == Unpack(p, b)
                          IN  [n \in Coefficients |-> Decompress(t[n], p.bits)]

\* KYBER_POLYCOMPRESSEDBYTES and KYBER_POLYVECCOMPRESSEDBYTES of params.h.
PolyFormat(K)    == CASE K = 2 -> Bits3 [] K = 3 -> Bits4 [] K = 4 -> Bits5
PolyvecFormat(K) == IF K = 4 THEN Bits11 ELSE Bits10

poly_compress(K, a)      == CompressPacked(PolyFormat(K), a)
poly_decompress(K, b)    == DecompressPacked(PolyFormat(K), b)
polyvec_compress(K, v)   == [i \in 1 .. K |-> CompressPacked(PolyvecFormat(K), v[i])]
polyvec_decompress(K, c) == [i \in 1 .. K |-> DecompressPacked(PolyvecFormat(K), c[i])]
poly_tobytes(a)          == Pack(Bits12, poly_csubq(a))
poly_frombytes(b)        == Unpack(Bits12, b)
polyvec_tobytes(v)       == [i \in DOMAIN v |-> poly_tobytes(v[i])]
polyvec_frombytes(b)     == [i \in DOMAIN b |-> poly_frombytes(b[i])]

\* A message is a function from 0..255 to its bits: bit j of byte i is at 8*i+j.
poly_frommsg(msg) == [n \in Coefficients |-> IF msg[n] = 1 THEN (KYBER_Q + 1) \div 2 ELSE 0]
poly_tomsg(a)     == [n \in Coefficients |-> Compress(csubq(a[n]), 1)]

poly_add(a, b) == [n \in Coefficients |-> Int16(a[n] + b[n])]
poly_sub(a, b) == [n \in Coefficients |-> Int16(a[n] - b[n])]
poly_tomont(a) == [n \in Coefficients |-> montgomery_reduce(a[n] * 1353)]   \* 2^32 % q
-----------------------------------------------------------------------------
\* A 32 bit word is the function of its bits.
load32_littleendian(buf, i) == [n \in 0 .. 31 |-> Bit(buf[4*i + n \div 8], n % 8)]

\* The masks 0x55555555 leave one bit in each field of two, so that d, the sum of
\* the even and of the odd bits of t, has a number from 0 to 2 in each field.
cbd(buf) ==
    [c \in Coefficients |->
        LET t    == load32_littleendian(buf, c \div 8)
            d(f) == t[2*f] + t[2*f + 1]
        IN  d(2*(c % 8)) - d(2*(c % 8) + 1)]
=============================================================================
