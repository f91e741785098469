----------------------------- MODULE KyberIndcpa -----------------------------
(***************************************************************************)
(* indcpa.c with the real arithmetic: a key pair is made, a message is     *)
(* encrypted to it and decrypted again, through the bytes of the keys and  *)
(* of the ciphertext.  What SHAKE yields is a parameter: the bytes of the  *)
(* PRF and the entries that gen_matrix samples (KyberMatrix models how).   *)
(***************************************************************************)
EXTENDS KyberPoly

CONSTANTS
    Ks,                 \* values of KYBER_K
    Seeds, Coins,       \* random bytes of the key pair and of the encryption
    Messages,
    Prf(_, _),          \* seed and nonce to the bytes cbd reads
    Entry(_, _, _)      \* seed and the two bytes absorbed to a polynomial

VARIABLES K, seed, msg, coins, pc, pk, sk, ct, decrypted

vars == <<K, seed, msg, coins, pc, pk, sk, ct, decrypted>>

\* What an array of 256 int16_t holds after f has been stored in it.
Stored(f) == IF f \in [Coefficients -> -32768 .. 32767] THEN f
             ELSE [n \in Coefficients |-> Int16(f[n])]

poly_reduce(f) == Stored([n \in Coefficients |-> barrett_reduce(f[n])])

\* A layer of ntt and of invntt: what KyberNtt does one butterfly at a time.
NttLayer(f, len) ==
    Stored([i \in Coefficients |->
        LET zeta == ZetasTable[128 \div len + i \div (2*len)]
        IN  IF (i \div len) % 2 = 0 THEN f[i] + fqmul(zeta, f[i + len])
            ELSE f[i - len] - fqmul(zeta, f[i])])

InvnttLayer(f, len) ==
    Stored([i \in Coefficients |->
        LET zeta == ZetasInvTable[128 - 256 \div len + i \div (2*len)]
        IN  IF (i \div len) % 2 = 0 THEN barrett_reduce(Int16(f[i] + f[i + len]))
            ELSE fqmul(zeta, Int16(f[i - len] - f[i]))])

poly_ntt(f) ==
    LET layer[l \in 0 .. 7] == IF l = 0 THEN f ELSE NttLayer(layer[l-1], 2^(8-l))
    IN  poly_reduce(layer[7])

invntt(f) ==
    LET layer[l \in 0 .. 7] == IF l = 0 THEN f ELSE InvnttLayer(layer[l-1], 2^l)
        last == layer[7]
    IN  Stored([n \in Coefficients |-> fqmul(last[n], ZetasInvTable[127])])

basemul(a, b, e, zeta) ==
    << fqmul(fqmul(a[e+1], b[e+1]), zeta) + fqmul(a[e], b[e]),
       fqmul(a[e], b[e+1]) + fqmul(a[e+1], b[e]) >>

poly_basemul_montgomery(a, b) ==
    [n \in Coefficients |->
        LET zeta == ZetasTable[64 + n \div 4]
        IN  basemul(a, b, 2 * (n \div 2), IF n % 4 < 2 THEN zeta ELSE -zeta)[1 + (n % 2)]]

\* A sum of K products, each below 2q, before one reduction: 8q for K = 4.
polyvec_pointwise_acc_montgomery(a, b) ==
    LET acc[i \in 0 .. K] ==
            IF i = 0 THEN [n \in Coefficients |-> 0]
            ELSE poly_add(acc[i-1], Stored(poly_basemul_montgomery(a[i-1], b[i-1])))
    IN  poly_reduce(acc[K])

\* The polynomials of a vector: the loops of polyvec_ntt and its like go over them.
PolyVec == 0 .. K-1

poly_getnoise(s, nonce) == Stored(cbd(Prf(s, nonce)))

\* The matrix is regenerated with its indices in the same order.
gen_matrix_NoTranspose(s, transposed) ==
    [i \in PolyVec |-> [j \in PolyVec |-> Entry(s, j, i)]]

gen_matrix(s, transposed) ==
    [i \in PolyVec |-> [j \in PolyVec |-> IF transposed THEN Entry(s, i, j) ELSE Entry(s, j, i)]]

Init ==
    /\ K \in Ks /\ seed \in Seeds /\ coins \in Coins /\ msg \in Messages
    /\ pc = "keypair"
    /\ pk = <<>> /\ sk = <<>> /\ ct = <<>> /\ decrypted = <<>>

\* hash_g makes the public and the noise seed from one random string.
indcpa_keypair ==
    LET a    == gen_matrix(seed, FALSE)
        skpv == [i \in PolyVec |-> poly_ntt(poly_getnoise(seed, i))]
        e    == [i \in PolyVec |-> poly_ntt(poly_getnoise(seed, K + i))]
        pkpv == [i \in PolyVec |-> poly_reduce(poly_add(
                    poly_tomont(polyvec_pointwise_acc_montgomery(a[i], skpv)), e[i]))]
    IN  /\ pc = "keypair"
        /\ sk' = polyvec_tobytes(skpv)
        /\ pk' = [poly |-> polyvec_tobytes(pkpv), seed |-> seed]
        /\ pc' = "enc"
        /\ UNCHANGED <<K, seed, msg, coins, ct, decrypted>>

indcpa_enc ==
    LET pkpv == polyvec_frombytes(pk.poly)
        at   == gen_matrix(pk.seed, TRUE)
        sp   == [i \in PolyVec |-> poly_ntt(poly_getnoise(coins, i))]
        ep   == [i \in PolyVec |-> poly_getnoise(coins, K + i)]
        epp  == poly_getnoise(coins, 2*K)
        bp   == [i \in PolyVec |-> poly_reduce(poly_add(
                    invntt(polyvec_pointwise_acc_montgomery(at[i], sp)), ep[i]))]
        v    == poly_add(invntt(polyvec_pointwise_acc_montgomery(pkpv, sp)), epp)
    IN  /\ pc = "enc"
        /\ ct' = [b |-> [i \in PolyVec |-> CompressPacked(PolyvecFormat(K), bp[i])],
                  v |-> poly_compress(K, poly_reduce(poly_add(v, poly_frommsg(msg))))]
        /\ pc' = "dec"
        /\ UNCHANGED <<K, seed, msg, coins, pk, sk, decrypted>>

indcpa_dec ==
    LET bp   == [i \in PolyVec |-> poly_ntt(DecompressPacked(PolyvecFormat(K), ct.b[i]))]
        v    == poly_decompress(K, ct.v)
        mp   == invntt(polyvec_pointwise_acc_montgomery(polyvec_frombytes(sk), bp))
    IN  /\ pc = "dec"
        /\ decrypted' = poly_tomsg(poly_reduce(poly_sub(v, mp)))
        /\ pc' = "done"
        /\ UNCHANGED <<K, seed, msg, coins, pk, sk, ct>>

Next == indcpa_keypair \/ indcpa_enc \/ indcpa_dec

Spec == Init /\ [][Next]_vars
-----------------------------------------------------------------------------
\* Decryption returns the message that was encrypted: Montgomery factors cancel,
\* the noise stays below q/4, the matrix is transposed on the right side.
DecryptsToMessage == pc = "done" => decrypted = msg

\* A key or a ciphertext that went through its bytes is what the size constants of
\* params.h say: K polynomials of 12 bits each and a seed, 10 or 11 bits per
\* coefficient of b and 3, 4 or 5 of v.
SizesAsDeclared ==
    /\ pc # "keypair" => \A i \in 0 .. K-1 : DOMAIN pk.poly[i] = 0 .. 384 - 1
    /\ pc \in {"dec", "done"} =>
          /\ \A i \in 0 .. K-1 : DOMAIN ct.b[i] = 0 .. (IF K = 4 THEN 352 ELSE 320) - 1
          /\ DOMAIN ct.v = 0 .. (CASE K = 2 -> 96 [] K = 3 -> 128 [] K = 4 -> 160) - 1
=============================================================================
