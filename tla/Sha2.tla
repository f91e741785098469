--------------------------------- MODULE Sha2 ---------------------------------
(***************************************************************************)
(* sha256.c and sha512.c, which differ in the length of words, in what is  *)
(* rotated by how much, in the number of rounds and in the constants.  A   *)
(* word is the set of the positions of its bits that are 1.  The values of *)
(* the initial state and of the round constants are parameters.            *)
(***************************************************************************)
EXTENDS Integers, SequencesExt

CONSTANTS
    InitialWord(_, _),  \* iv, by variant and number
    RoundWord(_, _)     \* the second argument of F, by variant and round

Variants == {"sha256", "sha512"}

WordBytes(v) == IF v = "sha256" THEN 4 ELSE 8
BlockBytes(v) == 16 * WordBytes(v)
NRounds(v)   == IF v = "sha256" THEN 64 ELSE 80
Bits(v)      == 0 .. 8 * WordBytes(v) - 1

Xor(x, y) == (x \ y) \union (y \ x)

\* Addition of words: a bit is carried where two of the three below are 1.
Add(v, x, y) ==
    LET carry[b \in 0 .. 8 * WordBytes(v)] ==
            b > 0 /\ \/ b-1 \in x /\ b-1 \in y
                     \/ carry[b-1] /\ (b-1 \in x \/ b-1 \in y)
        c == {b \in Bits(v) : carry[b]}
    IN  Xor(Xor(x, y), c)

Sum4(v, a, b, c, d) == Add(v, Add(v, a, b), Add(v, c, d))

SHR(x, n)     == {b - n : b \in {c \in x : c >= n}}
ROTR(v, x, n) == {(b + 8 * WordBytes(v) - n) % (8 * WordBytes(v)) : b \in x}

Ch(v, x, y, z) == Xor(x \cap y, (Bits(v) \ x) \cap z)
Maj(x, y, z)   == Xor(Xor(x \cap y, x \cap z), y \cap z)

Rotations(v, x, n) == Xor(Xor(ROTR(v, x, n[1]), ROTR(v, x, n[2])), ROTR(v, x, n[3]))
Shifted(v, x, n)   == Xor(Xor(ROTR(v, x, n[1]), ROTR(v, x, n[2])), SHR(x, n[3]))

Sigma0(v, x) == Rotations(v, x, IF v = "sha256" THEN <<2, 13, 22>> ELSE <<28, 34, 39>>)
Sigma1(v, x) == Rotations(v, x, IF v = "sha256" THEN <<6, 11, 25>> ELSE <<14, 18, 41>>)
sigma0(v, x) == Shifted(v, x, IF v = "sha256" THEN <<7, 18, 3>> ELSE <<1, 8, 7>>)
sigma1(v, x) == Shifted(v, x, IF v = "sha256" THEN <<17, 19, 10>> ELSE <<19, 61, 6>>)

\* The sixteen words one after the other, each from those that are there by then.
EXPAND(v, w) ==
    FoldLeft(LAMBDA u, i : [u EXCEPT ![i] =
                 Sum4(v, sigma1(v, u[(i + 14) % 16]), u[(i + 9) % 16], sigma0(v, u[(i + 1) % 16]), u[i])],
             w, [i \in 1 .. 16 |-> i - 1])

\* s is <<a, b, c, d, e, f, g, h>>.
F(v, s, w, k) ==
    LET T1 == Add(v, Sum4(v, s[8], Sigma1(v, s[5]), Ch(v, s[5], s[6], s[7]), k), w)
        T2 == Add(v, Sigma0(v, s[1]), Maj(s[1], s[2], s[3]))
    IN  <<Add(v, T1, T2), s[1], s[2], s[3], Add(v, s[4], T1), s[5], s[6], s[7]>>

\* The words are expanded before every sixteenth round but the first.
Words(v, t, w) == IF t > 0 /\ t % 16 = 0 THEN EXPAND(v, w) ELSE w

\* Round t of a block: the words and the eight variables.
RoundOf(v, t, w, s) ==
    LET u == Words(v, t, w) IN [w |-> u, s |-> F(v, s, u[t % 16], RoundWord(v, t))]

AddState(v, s, state) == [i \in 1 .. 8 |-> Add(v, s[i], state[i])]

\* A byte is the set of its bits; the first byte is the highest.
load_bigendian(v, bytes) ==
    UNION {{8 * (WordBytes(v) - k) + b : b \in bytes[k]} : k \in 1 .. WordBytes(v)}

BlockWords(v, block) ==
    [i \in 0 .. 15 |-> load_bigendian(v, SubSeq(block, i * WordBytes(v) + 1, (i+1) * WordBytes(v)))]

InitialState(v) == [i \in 1 .. 8 |-> InitialWord(v, i)]

ByteOf(x) == {b \in 0 .. 7 : (x \div 2^b) % 2 = 1}

\* The bytes that hold the length in bits: eight, or nine from 2^3 * length.
LengthBytes(v, len) ==
    IF v = "sha256" THEN [k \in 1 .. 8 |-> IF k < 6 THEN {} ELSE ByteOf(((8 * len) \div 2^(8 * (8-k))) % 256)]
    ELSE [k \in 1 .. 9 |-> CASE k = 9 -> ByteOf((8 * len) % 256)
                             [] k \in 6 .. 8 -> ByteOf((len \div 2^(8 * (9-k) - 3)) % 256)
                             [] OTHER -> {}]

\* The last one or two blocks, from what is left of the input.
Padded(v, rest, len) ==
    LET field == LengthBytes(v, len)
        total == IF Len(rest) < BlockBytes(v) - 2 * WordBytes(v) THEN BlockBytes(v) ELSE 2 * BlockBytes(v)
    IN  rest \o <<{7}>> \o [i \in 1 .. total - Len(field) - Len(rest) - 1 |-> {}] \o field

\* All that goes through the compression: the whole blocks of the input, and the padding.
Blocks(v, in) ==
    LET rest == Len(in) % BlockBytes(v)
        all  == SubSeq(in, 1, Len(in) - rest) \o Padded(v, SubSeq(in, Len(in) - rest + 1, Len(in)), Len(in))
    IN  [k \in 1 .. Len(all) \div BlockBytes(v) |->
            SubSeq(all, (k-1) * BlockBytes(v) + 1, k * BlockBytes(v))]
-----------------------------------------------------------------------------
(***************************************************************************)
(* The in-place schedule and the rounds against FIPS 180-4, round by       *)
(* round, and the padding for every length.                                *)
(***************************************************************************)
CONSTANTS MaxLen,       \* lengths of messages for the padding
          HashedLens    \* those that are hashed

VARIABLES v, in,
          k, t, w, s, state,    \* the block, the round, and the code's variables
          W, h, H               \* FIPS 180-4: the schedule so far, a..h, the hash value

vars == <<v, in, k, t, w, s, state, W, h, H>>

Message(len) == [i \in 1 .. len |-> ByteOf((i * i + 3 * len) % 256)]

Init ==
    /\ v \in Variants
    /\ in \in {Message(len) : len \in 0 .. MaxLen}
    /\ k = 0 /\ t = 0 /\ w = <<>> /\ s = <<>> /\ W = <<>> /\ h = <<>>
    /\ state = InitialState(v) /\ H = InitialState(v)

NextBlock ==
    /\ t = 0 /\ Len(in) \in HashedLens /\ k < Len(Blocks(v, in))
    /\ k' = k + 1 /\ t' = 1
    /\ w' = BlockWords(v, Blocks(v, in)[k + 1])
    /\ W' = [i \in 1 .. 16 |-> w'[i - 1]]
    /\ s' = state /\ h' = H
    /\ UNCHANGED <<v, in, state, H>>

\* FIPS 180-4: W of round x, and the functions bit by bit.
Schedule(x) ==
    IF x <= 16 THEN W
    ELSE Append(W, Sum4(v, sigma1(v, W[x-2]), W[x-7], sigma0(v, W[x-15]), W[x-16]))

Compress(a, word, const) ==
    LET choice   == {b \in Bits(v) : IF b \in a[5] THEN b \in a[6] ELSE b \in a[7]}
        majority == {b \in Bits(v) : \E i, j \in 1 .. 3 : i # j /\ b \in a[i] /\ b \in a[j]}
        one == Add(v, Add(v, Add(v, Add(v, a[8], Sigma1(v, a[5])), choice), const), word)
        two == Add(v, Sigma0(v, a[1]), majority)
    IN  [i \in 1 .. 8 |-> CASE i = 1 -> Add(v, one, two)
                            [] i = 5 -> Add(v, a[4], one)
                            [] OTHER -> a[i-1]]

RoundStep ==
    /\ t \in 1 .. NRounds(v)
    /\ LET r == RoundOf(v, t - 1, w, s)
       IN  w' = r.w /\ s' = r.s
    /\ W' = Schedule(t)
    /\ h' = Compress(h, W'[t], RoundWord(v, t - 1))
    /\ t' = t + 1
    /\ UNCHANGED <<v, in, k, state, H>>

EndBlock ==
    /\ t = NRounds(v) + 1
    /\ state' = AddState(v, s, state)
    /\ H' = [i \in 1 .. 8 |-> Add(v, H[i], h[i])]
    /\ t' = 0
    /\ UNCHANGED <<v, in, k, w, s, W, h>>

Next == NextBlock \/ RoundStep \/ EndBlock

Spec == Init /\ [][Next]_vars
-----------------------------------------------------------------------------
\* The words that EXPAND overwrites in place are the schedule W of FIPS 180-4, and the
\* eight variables and the state are those of the standard after every round and block.
IsSha2 ==
    /\ s = h /\ state = H
    /\ t > 1 => w[(t-2) % 16] = W[t-1]

SumOf(byte) == FoldLeft(LAMBDA x, b : IF b \in byte THEN x + 2^b ELSE x, 0, <<0, 1, 2, 3, 4, 5, 6, 7>>)

\* What is hashed is whole blocks: the message, a bit 1, the fewest zeros, and the length
\* in bits in the last 8 or 16 bytes, at every distance from the end of a block
\* (the branches at 56 and at 112 bytes).
PaddingIsStandard ==
    k = 0 /\ t = 0 =>
        LET all   == FlattenSeq(Blocks(v, in))
            field == 2 * WordBytes(v)
        IN  /\ \A b \in DOMAIN Blocks(v, in) : Len(Blocks(v, in)[b]) = BlockBytes(v)
            /\ SubSeq(all, 1, Len(in)) = in
            /\ all[Len(in) + 1] = {7}
            /\ \A i \in Len(in) + 2 .. Len(all) - 3 : all[i] = {}
            /\ Len(all) >= Len(in) + 1 + field /\ Len(all) < Len(in) + 1 + field + BlockBytes(v)
            /\ FoldLeft(LAMBDA x, i : 256 * x + SumOf(all[Len(all) - 3 + i]), 0, <<1, 2, 3>>) = 8 * Len(in)
=============================================================================
