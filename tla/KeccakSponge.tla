----------------------------- MODULE KeccakSponge -----------------------------
(***************************************************************************)
(* The sponge of fips202.c over an ideal permutation, and its uses in      *)
(* symmetric-shake.c.  A state is what has been XORed into it between the  *)
(* permutations since it was zero, and how often it has been permuted      *)
(* after the last block; a byte squeezed is its position and that state.   *)
(***************************************************************************)
EXTENDS Integers, SequencesExt

CONSTANTS Rate          \* SHAKE128_RATE and so on, for each function

Shake == {"shake128", "shake256"}

\* The domain separation byte.
Suffix(fn) == IF fn \in Shake THEN 31 ELSE 6

Zeros(k) == [i \in 1 .. k |-> 0]

\* t: the rest of the message, p, zeros, and the top bit of the last byte.
LastBlock(r, rest, p) ==
    LET t == rest \o <<p>> \o Zeros(r - Len(rest) - 1)
    IN  [t EXCEPT ![r] = IF @ < 128 THEN @ + 128 ELSE @]

keccak_absorb(r, m, p) ==
    LET whole == Len(m) \div r
        Block(k) == SubSeq(m, (k-1)*r + 1, k*r)
    IN  [blocks |-> [k \in 1 .. whole + 1 |->
                        IF k <= whole THEN Block(k) ELSE LastBlock(r, SubSeq(m, whole*r + 1, Len(m)), p)],
         permuted |-> 0]

\* Squeezing permutes first, also before the first block.
keccak_squeezeblocks(r, nblocks, s) ==
    [out |-> [i \in 1 .. nblocks * r |-> [i |-> (i-1) % r, after |-> s.permuted + 1 + ((i-1) \div r)]],
     s   |-> [s EXCEPT !.permuted = @ + nblocks]]

Absorb(fn, in) == keccak_absorb(Rate[fn], in, Suffix(fn))

\* shake128 and shake256.
shake(fn, outlen, in) ==
    LET n     == outlen \div Rate[fn]
        whole == keccak_squeezeblocks(Rate[fn], n, Absorb(fn, in))
        t     == keccak_squeezeblocks(Rate[fn], 1, whole.s)
    IN  whole.out \o SubSeq(t.out, 1, outlen - n * Rate[fn])

\* sha3_256 and sha3_512 have one block of output and use the beginning.
sha3(fn, outlen, in) ==
    SubSeq(keccak_squeezeblocks(Rate[fn], 1, Absorb(fn, in)).out, 1, outlen)

kyber_shake128_absorb(seed, x, y) == Absorb("shake128", seed \o <<x, y>>)

kyber_shake256_prf(outlen, key, nonce) == shake("shake256", outlen, key \o <<nonce>>)
-----------------------------------------------------------------------------
(***************************************************************************)
(* A message grows byte by byte; at any length it is absorbed, and then    *)
(* squeezed in blocks as gen_matrix does or hashed in one call.            *)
(***************************************************************************)
CONSTANTS Bytes, MaxLen, MaxBlocks

VARIABLES fn, m, s, out

vars == <<fn, m, s, out>>

NoState == [blocks |-> <<>>, permuted |-> 0]

Init == fn \in DOMAIN Rate /\ m = <<>> /\ s = NoState /\ out = <<>>

Grow == /\ s = NoState /\ Len(m) < MaxLen
        /\ \E b \in Bytes : m' = Append(m, b)
        /\ UNCHANGED <<fn, s, out>>

AbsorbAll == s = NoState /\ s' = Absorb(fn, m) /\ UNCHANGED <<fn, m, out>>

\* As gen_matrix does: a seed and the two indices.
AbsorbSeed == /\ s = NoState /\ fn = "shake128" /\ Len(m) >= 2
              /\ s' = kyber_shake128_absorb(SubSeq(m, 1, Len(m) - 2), m[Len(m) - 1], m[Len(m)])
              /\ UNCHANGED <<fn, m, out>>

\* shake128_squeezeblocks and shake256_squeezeblocks, any number of blocks at a time.
SqueezeBlocks == /\ s # NoState /\ fn \in Shake
                 /\ \E n \in 1 .. MaxBlocks - s.permuted :
                       LET r == keccak_squeezeblocks(Rate[fn], n, s)
                       IN  out' = out \o r.out /\ s' = r.s
                 /\ UNCHANGED <<fn, m>>

Next == Grow \/ AbsorbAll \/ AbsorbSeed \/ SqueezeBlocks

Spec == Init /\ [][Next]_vars
-----------------------------------------------------------------------------
\* What was absorbed, read back from the blocks: the padding ends with the top bit,
\* zeros before it, and the suffix before those.
Absorbed ==
    LET r     == Rate[fn]
        all   == [k \in 1 .. Len(s.blocks) * r |-> s.blocks[((k-1) \div r) + 1][((k-1) % r) + 1]]
        plain == [all EXCEPT ![Len(all)] = @ - 128]
        IsLast(k) == plain[k] # 0 /\ \A l \in k+1 .. Len(all) : plain[l] = 0
    IN  {<<SubSeq(all, 1, k - 1), plain[k]>> : k \in {i \in DOMAIN all : IsLast(i)}}

\* Two inputs never give one state, whatever their lengths and bytes: the message and
\* the function can be read back, and all blocks are full.
PaddingIsInjective ==
    s # NoState => /\ \A k \in DOMAIN s.blocks : Len(s.blocks[k]) = Rate[fn]
                   /\ Absorbed = {<<m, Suffix(fn)>>}

\* Byte k of the output of a function, however it is asked for.
Stream(k) == [i |-> k % Rate[fn], after |-> (k \div Rate[fn]) + 1]

IsStream(seq, length) == seq = [k \in 1 .. length |-> Stream(k - 1)]

\* A call for any number of bytes gives a prefix of what squeezing in blocks gives, so
\* that keys of different lengths and the XOF agree; a hash fits in one block.
OutputIsOneStream ==
    s # NoState =>
        /\ IsStream(out, s.permuted * Rate[fn])
        /\ fn \in Shake => \A n \in 0 .. MaxBlocks * Rate[fn] : IsStream(shake(fn, n, m), n)
        /\ fn = "shake256" /\ m # <<>> => \A n \in 0 .. MaxBlocks * Rate[fn] :
               IsStream(kyber_shake256_prf(n, Front(m), Last(m)), n)
        /\ fn \notin Shake => \A n \in 0 .. Rate[fn] : IsStream(sha3(fn, n, m), n)
=============================================================================
