----------------------------- MODULE KyberReduce -----------------------------
(***************************************************************************)
(* Arithmetic modulo q in 16 bit words: reduce.c and fqmul of ntt.c of the *)
(* reference implementation.  int16_t and int32_t are kept: every          *)
(* assignment to an int16_t goes through Int16, an arithmetic right shift  *)
(* by s is \div 2^s (rounding down), and a mask with q after a shift by 15 *)
(* is the choice by the sign.                                              *)
(***************************************************************************)
EXTENDS Integers

KYBER_Q == 3329
QINV    == 62209     \* q^-1 mod 2^16
R       == 65536     \* the Montgomery factor

\* The value of x after an assignment to an int16_t.
Int16(x) == ((x + 32768) % 65536) - 32768

\* The product a*QINV overflows an int32_t for most a: undefined in C, the low
\* 16 bits of the product in every build.  They depend on the low bits of a only.
montgomery_reduce(a) ==
    LET u == Int16(Int16(a) * QINV)
    IN  Int16((a - u * KYBER_Q) \div R)

barrett_v == (67108864 + KYBER_Q \div 2) \div KYBER_Q

barrett_reduce(a) == Int16(a - Int16(Int16((barrett_v * a) \div 67108864) * KYBER_Q))

csubq(a) == LET b == Int16(a - KYBER_Q) IN Int16(b + (IF b < 0 THEN KYBER_Q ELSE 0))

\* A product that is stored without the reduction.
fqmul_NoReduction(a, b) == Int16(a * b)

fqmul(a, b) == montgomery_reduce(a * b)
-----------------------------------------------------------------------------
(***************************************************************************)
(* The tables of ntt.c, and what they are for: the ring of polynomials     *)
(* modulo X^256 + 1 and q, its product and its transform by definition.    *)
(***************************************************************************)
FromZero(t) == [i \in 0 .. 127 |-> t[i + 1]]

ZetasTable == FromZero(<<
  2285, 2571, 2970, 1812, 1493, 1422, 287, 202, 3158, 622, 1577, 182, 962,
  2127, 1855, 1468, 573, 2004, 264, 383, 2500, 1458, 1727, 3199, 2648, 1017,
  732, 608, 1787, 411, 3124, 1758, 1223, 652, 2777, 1015, 2036, 1491, 3047,
  1785, 516, 3321, 3009, 2663, 1711, 2167, 126, 1469, 2476, 3239, 3058, 830,
  107, 1908, 3082, 2378, 2931, 961, 1821, 2604, 448, 2264, 677, 2054, 2226,
  430, 555, 843, 2078, 871, 1550, 105, 422, 587, 177, 3094, 3038, 2869, 1574,
  1653, 3083, 778, 1159, 3182, 2552, 1483, 2727, 1119, 1739, 644, 2457, 349,
  418, 329, 3173, 3254, 817, 1097, 603, 610, 1322, 2044, 1864, 384, 2114, 3193,
  1218, 1994, 2455, 220, 2142, 1670, 2144, 1799, 2051, 794, 1819, 2475, 2459,
  478, 3221, 3021, 996, 991, 958, 1869, 1522, 1628 >>)

ZetasInvTable == FromZero(<<
  1701, 1807, 1460, 2371, 2338, 2333, 308, 108, 2851, 870, 854, 1510, 2535,
  1278, 1530, 1185, 1659, 1187, 3109, 874, 1335, 2111, 136, 1215, 2945, 1465,
  1285, 2007, 2719, 2726, 2232, 2512, 75, 156, 3000, 2911, 2980, 872, 2685,
  1590, 2210, 602, 1846, 777, 147, 2170, 2551, 246, 1676, 1755, 460, 291, 235,
  3152, 2742, 2907, 3224, 1779, 2458, 1251, 2486, 2774, 2899, 1103, 1275, 2652,
  1065, 2881, 725, 1508, 2368, 398, 951, 247, 1421, 3222, 2499, 271, 90, 853,
  1860, 3203, 1162, 1618, 666, 320, 8, 2813, 1544, 282, 1838, 1293, 2314, 552,
  2677, 2106, 1571, 205, 2918, 1542, 2721, 2597, 2312, 681, 130, 1602, 1871,
  829, 2946, 3065, 1325, 2756, 1861, 1474, 1202, 2367, 3147, 1752, 2707, 171,
  3127, 3042, 1907, 1836, 1517, 359, 758, 1441 >>)
-----------------------------------------------------------------------------
\* The sum of f[0] .. f[n-1] modulo q, n a power of two, by halves.
SumMod(f, n) ==
    LET part[m \in {1, 2, 4, 8, 16, 32, 64, 128, 256}, lo \in 0 .. 255] ==
            IF m = 1 THEN f[lo] % 3329
            ELSE (part[m \div 2, lo] + part[m \div 2, lo + m \div 2]) % 3329
    IN  part[n, 0]

PowerMod(x, n) ==
    LET pow[m \in 0 .. n] ==
            IF m = 0 THEN 1
            ELSE LET h == pow[m \div 2] IN (((h * h) % 3329) * (IF m % 2 = 1 THEN x ELSE 1)) % 3329
    IN  pow[n]

BitReverse7(k) ==
    LET bit(n) == (k \div 2^n) % 2
    IN  64*bit(0) + 32*bit(1) + 16*bit(2) + 8*bit(3) + 4*bit(4) + 2*bit(5) + bit(6)

\* The transform splits the ring: block b of size n stands for a polynomial modulo
\* X^n - Root(n, b).  17 has order 256 modulo q.
Root(n, b) ==
    IF n = 256 THEN 3329 - 1
    ELSE LET z == PowerMod(17, BitReverse7(128 \div n + b \div 2))
         IN  IF b % 2 = 0 THEN z ELSE 3329 - z

Residues(f, n) ==
    LET roots == [b \in 0 .. 256 \div n - 1 |-> Root(n, b)]
    IN  [i \in 0 .. 255 |->
            SumMod([m \in 0 .. 256 \div n - 1 |->
                       (f[(i % n) + n * m] % 3329) * PowerMod(roots[i \div n], m)], 256 \div n)]

\* The product modulo X^256 + 1.
NegacyclicProduct(f, g) ==
    [i \in 0 .. 255 |->
        SumMod([u \in 0 .. 255 |->
                   (IF u <= i THEN 1 ELSE -1) * (f[u] % 3329) * (g[(i - u) % 256] % 3329)], 256)]

SamePolynomial(f, g) == \A i \in 0 .. 255 : f[i] % 3329 = g[i] % 3329
=============================================================================
