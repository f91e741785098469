------------------------------- MODULE KyberNtt -------------------------------
(***************************************************************************)
(* The loops of ntt.c, one butterfly per step, in the order in which a     *)
(* product of two polynomials runs them: poly_ntt (ntt, then poly_reduce), *)
(* poly_basemul_montgomery with another transformed polynomial and         *)
(* poly_reduce, invntt with its last loop.  r is the array that is         *)
(* transformed in place; len, start, j, k are the variables of the loops.  *)
(***************************************************************************)
EXTENDS KyberReduce

CONSTANTS
    zetas, zetas_inv,   \* the tables of ntt.c
    Inputs,             \* polynomials that are transformed
    Factors             \* what they are multiplied with: transformed polynomials,
                        \* entries of the matrix, unpacked keys

KYBER_N == 256
Index == 0 .. KYBER_N - 1

\* What the tables and the callers guarantee.  Fresh noise, decompressed and
\* reduced polynomials have coefficients in -q .. q.  A factor is reduced to 0 .. q,
\* or unpacked from 12 bits, or an entry of the matrix: rej_uniform takes values
\* below 19q and leaves them below 4q.
ASSUME ZetasAssumption ==
    \A i \in 0 .. 127 : /\ zetas[i] \in Nat /\ zetas[i] < KYBER_Q
                        /\ zetas_inv[i] \in Nat /\ zetas_inv[i] < KYBER_Q

Small(f) == \A i \in Index : f[i] \in Int /\ -KYBER_Q <= f[i] /\ f[i] <= KYBER_Q

BelowFourQ(f) == \A i \in Index : f[i] \in Int /\ 0 <= f[i] /\ f[i] < 4 * KYBER_Q

ASSUME InputsAssumption  == \A f \in Inputs : f = [i \in Index |-> f[i]] /\ Small(f)
ASSUME FactorsAssumption == \A f \in Factors : f = [i \in Index |-> f[i]] /\ BelowFourQ(f)

VARIABLES p, s, r, pc, len, start, j, k

vars == <<p, s, r, pc, len, start, j, k>>

Init ==
    /\ p \in Inputs /\ s \in Factors
    /\ r = p
    /\ pc = "ntt"
    /\ len = 128 /\ start = 0 /\ j = 0 /\ k = 1

\* The three ways the two inner loops go on after a butterfly: the next j; the
\* next block, with the next zeta; the next layer, until the outer loop ends.
NextJ ==
    /\ j + 1 < start + len
    /\ j' = j + 1
    /\ UNCHANGED <<pc, len, start, k>>

NextBlock ==
    /\ j + 1 = start + len
    /\ j + 1 + len < KYBER_N
    /\ start' = j + 1 + len /\ j' = j + 1 + len
    /\ k' = k + 1
    /\ UNCHANGED <<pc, len>>

NextLayer(nextLen, last, nextPc) ==
    /\ j + 1 = start + len
    /\ j + 1 + len >= KYBER_N
    /\ start' = 0 /\ j' = 0
    /\ k' = k + 1
    /\ len' = nextLen
    /\ pc' = IF last THEN nextPc ELSE pc

NttButterfly ==
    /\ pc = "ntt"
    /\ LET t == fqmul(zetas[k], r[j + len])
       IN  r' = [r EXCEPT ![j + len] = Int16(r[j] - t), ![j] = Int16(r[j] + t)]
    /\ NextJ \/ NextBlock \/ NextLayer(len \div 2, len = 2, "poly_reduce")
    /\ UNCHANGED <<p, s>>

poly_reduce(f) == [i \in Index |-> barrett_reduce(f[i])]

PolyNttReduces ==
    /\ pc = "poly_reduce"
    /\ r' = poly_reduce(r)
    /\ pc' = "basemul"
    /\ UNCHANGED <<p, s, len, start, j, k>>

basemul(a0, a1, b0, b1, zeta) ==
    << Int16(fqmul(fqmul(a1, b1), zeta) + fqmul(a0, b0)),
       Int16(fqmul(a0, b1) + fqmul(a1, b0)) >>

poly_basemul_montgomery(a, b) ==
    [i \in Index |->
        LET e    == 2 * (i \div 2)
            zeta == zetas[64 + i \div 4]
        IN  basemul(a[e], a[e+1], b[e], b[e+1],
                    IF i % 4 < 2 THEN zeta ELSE -zeta)[1 + (i % 2)]]

PointwiseMultiply ==
    /\ pc = "basemul"
    /\ r' = poly_reduce(poly_basemul_montgomery(r, s))
    /\ pc' = "invntt"
    /\ len' = 2 /\ start' = 0 /\ j' = 0 /\ k' = 0
    /\ UNCHANGED <<p, s>>

InvnttButterfly ==
    /\ pc = "invntt"
    /\ r' = [r EXCEPT ![j] = barrett_reduce(Int16(r[j] + r[j + len])),
                      ![j + len] = fqmul(zetas_inv[k], Int16(r[j] - r[j + len]))]
    /\ NextJ \/ NextBlock \/ NextLayer(2 * len, len = 128, "scale")
    /\ UNCHANGED <<p, s>>

Scale ==
    /\ pc = "scale"
    /\ r' = [r EXCEPT ![j] = fqmul(r[j], zetas_inv[127])]
    /\ j' = j + 1
    /\ pc' = IF j + 1 < KYBER_N THEN pc ELSE "done"
    /\ UNCHANGED <<p, s, len, start, k>>

Next == NttButterfly \/ PolyNttReduces \/ PointwiseMultiply \/ InvnttButterfly \/ Scale

Spec == Init /\ [][Next]_vars
-----------------------------------------------------------------------------
FitsInt16(x) == -32768 <= x /\ x <= 32767

\* The arguments montgomery_reduce asks for.
Reducible(x) == -(KYBER_Q * 32768) <= x /\ x < KYBER_Q * 32768

BasemulStays(a0, a1, b0, b1, zeta) ==
    /\ Reducible(a1 * b1) /\ Reducible(a0 * b0) /\ Reducible(a0 * b1) /\ Reducible(a1 * b0)
    /\ Reducible(fqmul(a1, b1) * zeta)
    /\ FitsInt16(fqmul(fqmul(a1, b1), zeta) + fqmul(a0, b0))
    /\ FitsInt16(fqmul(a0, b1) + fqmul(a1, b0))

\* No sum of the loops leaves the range of an int16_t, and no product the one
\* that montgomery_reduce asks for: the values computed are those of exact
\* arithmetic.  ntt has no reduction in its seven layers and relies on small
\* inputs; basemul takes factors of up to 4q - 1 as they are.
NoOverflow ==
    /\ pc = "ntt" => LET t == fqmul(zetas[k], r[j + len])
                     IN  /\ Reducible(zetas[k] * r[j + len])
                         /\ FitsInt16(r[j] - t) /\ FitsInt16(r[j] + t)
    /\ pc = "basemul" =>
          \A i \in 0 .. 127 :
              LET zeta == zetas[64 + i \div 2]
              IN  BasemulStays(r[2*i], r[2*i+1], s[2*i], s[2*i+1],
                               IF i % 2 = 0 THEN zeta ELSE -zeta)
    /\ pc = "invntt" =>
          /\ FitsInt16(r[j] + r[j + len]) /\ FitsInt16(r[j] - r[j + len])
          /\ Reducible(zetas_inv[k] * (r[j] - r[j + len]))
    /\ pc = "scale" => Reducible(r[j] * zetas_inv[127])

\* The range of the coefficients after `layers` whole layers of ntt, and inside a
\* layer one q more for the coefficients whose butterfly is done.
Layers == CASE len = 128 -> 0 [] len = 64 -> 1 [] len = 32 -> 2 [] len = 16 -> 3
            [] len = 8 -> 4 [] len = 4 -> 5 [] len = 2 -> 6 [] OTHER -> 7

Done(i) == i < start \/ (start <= i /\ i < j) \/ (start + len <= i /\ i < j + len)

Within(x, b) == x \in Int /\ -b <= x /\ x <= b

\* Where the loops can be: blocks of 2*len coefficients, block by block, and the
\* index of the zeta of a block.
LoopVars ==
    /\ pc \in {"ntt", "invntt"} =>
          /\ len \in {2, 4, 8, 16, 32, 64, 128}
          /\ start \in Nat /\ start + 2 * len <= KYBER_N /\ start % (2 * len) = 0
          /\ j \in Nat /\ start <= j /\ j < start + len
          /\ k \in Nat
    /\ pc = "ntt" => k * (2 * len) = KYBER_N + start
    /\ pc = "invntt" => (128 - k) * (2 * len) = 2 * KYBER_N - start
    /\ pc = "scale" => j \in Index

Ranges ==
    /\ pc = "ntt" =>
          \A i \in Index : Within(r[i], (Layers + (IF Done(i) THEN 2 ELSE 1)) * KYBER_Q)
    /\ pc = "poly_reduce" => \A i \in Index : Within(r[i], 8 * KYBER_Q)
    /\ pc \in {"basemul", "invntt", "scale"} => Small(r)

\* The inductive invariant of the loops.
LoopInv ==
    /\ pc \in {"ntt", "poly_reduce", "basemul", "invntt", "scale", "done"}
    /\ r = [i \in Index |-> r[i]]
    /\ BelowFourQ(s)
    /\ LoopVars
    /\ Ranges
=============================================================================
