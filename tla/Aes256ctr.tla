------------------------------ MODULE Aes256ctr ------------------------------
(***************************************************************************)
(* aes256ctr.c: AES-256 in counter mode, four blocks at a time, with the   *)
(* bits of the state spread over eight words.  A word is the set of the    *)
(* positions of its bits that are 1: & is \cap, | is \union and a shift    *)
(* adds to the positions.                                                  *)
(***************************************************************************)
EXTENDS Integers, SequencesExt

Bit32 == 0 .. 31
Bit64 == 0 .. 63

Xor(x, y) == (x \ y) \union (y \ x)
Not(x)    == Bit64 \ x
Shl(x, n) == {b + n : b \in x} \cap Bit64
Shr(x, n) == {b - n : b \in x} \cap Bit64

\* 0x5555..., 0x3333..., 0x0F0F... and so on: the lower s of 2s positions.
Low(s) == {b \in Bit64 : b % (2*s) < s}

\* Four bytes, the lowest first.
dec32le(bytes) == UNION {{8*k + b : b \in bytes[k+1]} : k \in 0 .. 3}

\* br_swap32, which is its own inverse.
swap32(x) == {8*(3 - (b \div 8)) + (b % 8) : b \in x}

\* The gates of br_aes_ct64_bitslice_Sbox, level by level: each takes what earlier ones give.
Circuit == <<
    [y14 |-> <<"^", "x3", "x5">>, y13 |-> <<"^", "x0", "x6">>, y9 |-> <<"^", "x0", "x3">>,
     y8 |-> <<"^", "x0", "x5">>, t0 |-> <<"^", "x1", "x2">>],
    [y1 |-> <<"^", "t0", "x7">>, y12 |-> <<"^", "y13", "y14">>],
    [y4 |-> <<"^", "y1", "x3">>, y2 |-> <<"^", "y1", "x0">>, y5 |-> <<"^", "y1", "x6">>,
     t1 |-> <<"^", "x4", "y12">>],
    [y3 |-> <<"^", "y5", "y8">>, y15 |-> <<"^", "t1", "x5">>, y20 |-> <<"^", "t1", "x1">>,
     t5 |-> <<"&", "y4", "x7">>, t8 |-> <<"&", "y5", "y1">>],
    [y6 |-> <<"^", "y15", "x7">>, y10 |-> <<"^", "y15", "t0">>, y11 |-> <<"^", "y20", "y9">>,
     t2 |-> <<"&", "y12", "y15">>],
    [y7 |-> <<"^", "x7", "y11">>, y17 |-> <<"^", "y10", "y11">>, y19 |-> <<"^", "y10", "y8">>,
     y16 |-> <<"^", "t0", "y11">>, t3 |-> <<"&", "y3", "y6">>, t6 |-> <<"^", "t5", "t2">>,
     t12 |-> <<"&", "y9", "y11">>, t15 |-> <<"&", "y8", "y10">>],
    [y21 |-> <<"^", "y13", "y16">>, y18 |-> <<"^", "x0", "y16">>, t4 |-> <<"^", "t3", "t2">>,
     t7 |-> <<"&", "y13", "y16">>, t10 |-> <<"&", "y2", "y7">>, t13 |-> <<"&", "y14", "y17">>,
     t16 |-> <<"^", "t15", "t12">>],
    [t9 |-> <<"^", "t8", "t7">>, t11 |-> <<"^", "t10", "t7">>, t14 |-> <<"^", "t13", "t12">>,
     t18 |-> <<"^", "t6", "t16">>],
    [t17 |-> <<"^", "t4", "t14">>, t19 |-> <<"^", "t9", "t14">>, t20 |-> <<"^", "t11", "t16">>,
     t22 |-> <<"^", "t18", "y19">>],
    [t21 |-> <<"^", "t17", "y20">>, t23 |-> <<"^", "t19", "y21">>, t24 |-> <<"^", "t20", "y18">>],
    [t25 |-> <<"^", "t21", "t22">>, t26 |-> <<"&", "t21", "t23">>, t30 |-> <<"^", "t23", "t24">>],
    [t27 |-> <<"^", "t24", "t26">>, t31 |-> <<"^", "t22", "t26">>],
    [t28 |-> <<"&", "t25", "t27">>, t32 |-> <<"&", "t31", "t30">>],
    [t29 |-> <<"^", "t28", "t22">>, t33 |-> <<"^", "t32", "t24">>],
    [t34 |-> <<"^", "t23", "t33">>, t35 |-> <<"^", "t27", "t33">>, t42 |-> <<"^", "t29", "t33">>,
     z2 |-> <<"&", "t33", "x7">>, z5 |-> <<"&", "t29", "y7">>, z11 |-> <<"&", "t33", "y4">>,
     z14 |-> <<"&", "t29", "y2">>],
    [t36 |-> <<"&", "t24", "t35">>, z6 |-> <<"&", "t42", "y11">>, z15 |-> <<"&", "t42", "y9">>,
     t51 |-> <<"^", "z2", "z5">>],
    [t37 |-> <<"^", "t36", "t34">>, t38 |-> <<"^", "t27", "t36">>],
    [t39 |-> <<"&", "t29", "t38">>, t44 |-> <<"^", "t33", "t37">>, z1 |-> <<"&", "t37", "y6">>,
     z10 |-> <<"&", "t37", "y3">>],
    [t40 |-> <<"^", "t25", "t39">>, z0 |-> <<"&", "t44", "y15">>, z9 |-> <<"&", "t44", "y12">>,
     t47 |-> <<"^", "z10", "z11">>],
    [t41 |-> <<"^", "t40", "t37">>, t43 |-> <<"^", "t29", "t40">>, z4 |-> <<"&", "t40", "y1">>,
     z13 |-> <<"&", "t40", "y5">>, t49 |-> <<"^", "z9", "z10">>],
    [t45 |-> <<"^", "t42", "t41">>, z3 |-> <<"&", "t43", "y16">>, z8 |-> <<"&", "t41", "y10">>,
     z12 |-> <<"&", "t43", "y13">>, z17 |-> <<"&", "t41", "y8">>, t48 |-> <<"^", "z5", "z13">>],
    [z7 |-> <<"&", "t45", "y17">>, z16 |-> <<"&", "t45", "y14">>, t50 |-> <<"^", "z2", "z12">>,
     t53 |-> <<"^", "z0", "z3">>, t56 |-> <<"^", "z12", "t48">>],
    [t46 |-> <<"^", "z15", "z16">>, t52 |-> <<"^", "z7", "z8">>, t54 |-> <<"^", "z6", "z7">>,
     t55 |-> <<"^", "z16", "z17">>, t57 |-> <<"^", "t50", "t53">>],
    [t58 |-> <<"^", "z4", "t46">>, t59 |-> <<"^", "z3", "t54">>, t60 |-> <<"^", "t46", "t57">>,
     t61 |-> <<"^", "z14", "t57">>],
    [t62 |-> <<"^", "t52", "t58">>, t63 |-> <<"^", "t49", "t58">>, t64 |-> <<"^", "z4", "t59">>,
     s7 |-> <<"^~", "t48", "t60">>],
    [t65 |-> <<"^", "t61", "t62">>, t66 |-> <<"^", "z1", "t63">>, s0 |-> <<"^", "t59", "t63">>,
     s6 |-> <<"^~", "t56", "t62">>],
    [t67 |-> <<"^", "t64", "t65">>, s3 |-> <<"^", "t53", "t66">>, s4 |-> <<"^", "t51", "t66">>,
     s5 |-> <<"^", "t47", "t65">>],
    [s1 |-> <<"^~", "t64", "s3">>, s2 |-> <<"^~", "t55", "t67">>] >>

Gate(op, x, y) == CASE op = "&" -> x \cap y [] op = "^" -> Xor(x, y) [] op = "^~" -> Xor(x, Not(y))

\* br_aes_ct64_bitslice_Sbox: x0 to x7 are the words from the last to the first, s0 to s7 too.
Sbox(q) ==
    LET x == [x0 |-> q[7], x1 |-> q[6], x2 |-> q[5], x3 |-> q[4],
              x4 |-> q[3], x5 |-> q[2], x6 |-> q[1], x7 |-> q[0]]
        Through(w, level) ==
            w @@ [n \in DOMAIN level |-> Gate(level[n][1], w[level[n][2]], w[level[n][3]])]
        wires == FoldLeft(Through, x, Circuit)
    IN  [k \in 0 .. 7 |-> wires[<<"s7", "s6", "s5", "s4", "s3", "s2", "s1", "s0">>[k + 1]]]

\* SWAP2, SWAP4 and SWAP8: s is 1, 2 and 4.
SWAPN(q, i, j, s) ==
    [q EXCEPT ![i] = (q[i] \cap Low(s)) \union Shl(q[j] \cap Low(s), s),
              ![j] = Shr(q[i] \ Low(s), s) \union (q[j] \ Low(s))]

\* Every bit goes to the word of its number within its byte.
ortho(q) ==
    FoldLeft(LAMBDA p, w : SWAPN(p, w[1], w[2], w[3]), q,
             <<<<0, 1, 1>>, <<2, 3, 1>>, <<4, 5, 1>>, <<6, 7, 1>>,
               <<0, 2, 2>>, <<1, 3, 2>>, <<4, 6, 2>>, <<5, 7, 2>>,
               <<0, 4, 4>>, <<1, 5, 4>>, <<2, 6, 4>>, <<3, 7, 4>>>>)

Spread(x) ==
    LET halves == (x \union Shl(x, 16)) \cap Low(16)
    IN  (halves \union Shl(halves, 8)) \cap Low(8)

\* interleave_in: the two words for the four w[i], ..., w[i+3].
interleave_in(w, i) ==
    <<Spread(w[i]) \union Shl(Spread(w[i+2]), 8), Spread(w[i+1]) \union Shl(Spread(w[i+3]), 8)>>

Gather(x) ==
    LET halves == ((x \cap Low(8)) \union Shr(x \cap Low(8), 8)) \cap Low(16)
    IN  (halves \union Shr(halves, 16)) \cap Bit32

interleave_out(q0, q1) == <<Gather(q0), Gather(q1), Gather(Shr(q0, 8)), Gather(Shr(q1, 8))>>
-----------------------------------------------------------------------------
Rcon == <<{0}, {1}, {2}, {3}, {4}, {5}, {6}, {7}, {0, 1, 3, 4}, {1, 2, 4, 5}>>

sub_word(x) == ortho(Sbox(ortho([k \in 0 .. 7 |-> IF k = 0 THEN x ELSE {}])))[0] \cap Bit32

\* The word is turned the other way.
NextWord_TurnedBack(skey) ==
    LET i   == Len(skey)
        tmp == skey[i]
        rot == (Shl(tmp, 8) \cap Bit32) \union Shr(tmp, 24)
        f   == CASE i % 8 = 0 -> Xor(sub_word(rot), Rcon[i \div 8])
                 [] i % 8 = 4 -> sub_word(tmp)
                 [] OTHER     -> tmp
    IN  Xor(f, skey[i - 7])

\* The word after those of skey; the key has eight.
NextWord(skey) ==
    LET i   == Len(skey)
        tmp == skey[i]
        rot == (Shl(tmp, 24) \cap Bit32) \union Shr(tmp, 8)
        f   == CASE i % 8 = 0 -> Xor(sub_word(rot), Rcon[i \div 8])
                 [] i % 8 = 4 -> sub_word(tmp)
                 [] OTHER     -> tmp
    IN  Xor(f, skey[i - 7])

\* The bits of a round key that are kept, of four equal copies.
Compressed(skey, r) ==
    LET in == interleave_in(skey, 4*r + 1)
        q  == ortho([k \in 0 .. 7 |-> in[(k \div 4) + 1]])
    IN  [h \in 0 .. 1 |-> UNION {{b \in q[4*h + k] : b % 4 = k} : k \in 0 .. 3}]

\* skey_expand: (x << 4) - x sets the four bits from each bit of x on.
Expanded(comp) ==
    [k \in 0 .. 7 |-> {b - (b % 4) + d : b \in {c \in comp[k \div 4] : c % 4 = k % 4}, d \in 0 .. 3}]

\* ctr_init: the eight words for each of the fifteen round keys.
sk_exp(skey) == [r \in 0 .. 14 |-> Expanded(Compressed(skey, r))]

add_round_key(q, sk) == [k \in 0 .. 7 |-> Xor(q[k], sk[k])]

\* Where a bit of a word goes: sixteen bits to a row, four to a byte's column.
shift_rows(q) ==
    LET To(b) == CASE b \in 20 .. 31 -> b - 4   [] b \in 16 .. 19 -> b + 12
                   [] b \in 40 .. 47 -> b - 8   [] b \in 32 .. 39 -> b + 8
                   [] b \in 60 .. 63 -> b - 12  [] b \in 48 .. 59 -> b + 4
                   [] OTHER -> b
    IN  [k \in 0 .. 7 |-> {To(b) : b \in q[k]}]

Rotr(x, n) == {(b + 64 - n) % 64 : b \in x}

mix_columns(q) ==
    LET r == [k \in 0 .. 7 |-> Rotr(q[k], 16)]
        B(k) == Xor(r[k], Rotr(Xor(q[k], r[k]), 32))    \* the rest of the column
        A(k) == Xor(q[k], r[k])                         \* to be doubled
    IN  [k \in 0 .. 7 |->
            CASE k = 0 -> Xor(A(7), B(0))
              [] k \in {1, 3, 4} -> Xor(Xor(A(k-1), A(7)), B(k))
              [] OTHER -> Xor(A(k-1), B(k))]

\* Four to the number that x holds with its highest byte first.
inc4_be(x) ==
    LET n == swap32(x)
        k == CHOOSE k \in 2 .. 32 : k \notin n /\ \A l \in 2 .. k-1 : l \in n
    IN  swap32((n \ (2 .. k)) \union ({k} \cap Bit32))

\* aes_ctr4x: the four blocks into q, the rounds, and the blocks out of it.
Load(ivw) == ortho([k \in 0 .. 7 |-> interleave_in(ivw, 4*(k % 4) + 1)[(k \div 4) + 1]])

Store(q) == LET p == ortho(q) IN FlattenSeq([k \in 1 .. 4 |-> interleave_out(p[k-1], p[k+3])])

EncRound(q, sk, r) ==
    LET s == shift_rows(Sbox(q))
    IN  add_round_key(IF r < 14 THEN mix_columns(s) ELSE s, sk[r])

\* The counters afterwards; only the last word of each block changes.
NextIvw(ivw) == [i \in 1 .. 16 |-> IF i % 4 = 0 THEN inc4_be(ivw[i]) ELSE ivw[i]]

\* aes256ctr_init: three words of nonce in each block, and the counters 0 to 3.
FirstIvw(nonce) ==
    [i \in 1 .. 16 |->
        IF i % 4 # 0 THEN dec32le(SubSeq(nonce, 4*(i % 4) - 3, 4*(i % 4)))
        ELSE swap32(CASE i = 4 -> {} [] i = 8 -> {0} [] i = 12 -> {1} [] i = 16 -> {0, 1})]

\* ctr_run: the call of aes_ctr4x, and the byte of its output, behind each byte of data.
ctr_run(len) ==
    LET whole == IF len > 64 THEN (len - 1) \div 64 ELSE 0
        data  == [i \in 1 .. 64 * whole |-> <<(i-1) \div 64, (i-1) % 64>>]
    IN  data \o [i \in 1 .. len - 64 * whole |-> <<whole, i - 1>>]

\* symmetric-aes.c: the nonces of the XOF and of the PRF.
xof_nonce(x, y) == [i \in 1 .. 12 |-> CASE i = 1 -> x [] i = 2 -> y [] OTHER -> {}]
prf_nonce(n)    == [i \in 1 .. 12 |-> IF i = 1 THEN n ELSE {}]
-----------------------------------------------------------------------------
(***************************************************************************)
(* The sliced rounds against AES as FIPS 197 has it, byte by byte over the *)
(* field GF(2^8); and the counters of the calls.                           *)
(***************************************************************************)
Byte == SUBSET (0 .. 7)

\* A byte as a polynomial.
xtime(b) == Xor({k + 1 : k \in b \ {7}}, IF 7 \in b THEN {0, 1, 3, 4} ELSE {})

Times(b, c) ==
    FoldLeft(LAMBDA p, k : Xor(xtime(p), IF k \in c THEN b ELSE {}), {}, <<7, 6, 5, 4, 3, 2, 1, 0>>)

\* The inverse, or zero of zero; the affine map adds four rotations and 0x63.
SubByte ==
    [b \in Byte |->
        LET inv == IF b = {} THEN {} ELSE CHOOSE c \in Byte : Times(b, c) = {0}
            rot(n) == {(k + n) % 8 : k \in inv}
        IN  Xor(Xor(Xor(Xor(Xor(inv, rot(1)), rot(2)), rot(3)), rot(4)), {0, 1, 5, 6})]

\* A block is a sequence of 16 bytes, column by column.
SubBytes(s) == [i \in 1 .. 16 |-> SubByte[s[i]]]

ShiftRows(s) == [i \in 1 .. 16 |-> s[((i - 1 + 4 * ((i-1) % 4)) % 16) + 1]]

MixColumns(s) ==
    [i \in 1 .. 16 |->
        LET c == 4 * ((i-1) \div 4)
            In(k) == s[c + (((i-1) + k) % 4) + 1]
        IN  Xor(Xor(Times({1}, In(0)), Xor(Times({1}, In(1)), In(1))), Xor(In(2), In(3)))]

RoundKeyBytes(words, r) ==
    [i \in 1 .. 16 |-> words[4*r + ((i-1) \div 4) + 1][((i-1) % 4) + 1]]

\* KeyExpansion: the next word, of four bytes, after w.
NextKeyWord(w) ==
    LET i == Len(w)
        Xor4(u, v) == [k \in 1 .. 4 |-> Xor(u[k], v[k])]
        Sub4(u)    == [k \in 1 .. 4 |-> SubByte[u[k]]]
        Rot(u)     == <<u[2], u[3], u[4], u[1]>>
        RC(j)      == FoldLeft(LAMBDA c, k : xtime(c), {0}, [k \in 1 .. j - 1 |-> k])
        f == CASE i % 8 = 0 -> Xor4(Sub4(Rot(w[i])), <<RC(i \div 8), {}, {}, {}>>)
               [] i % 8 = 4 -> Sub4(w[i])
               [] OTHER -> w[i]
    IN  Xor4(w[i-7], f)

AddRoundKey(s, words, r) == [i \in 1 .. 16 |-> Xor(s[i], RoundKeyBytes(words, r)[i])]

CipherRound(s, words, r) ==
    LET t == ShiftRows(SubBytes(s))
    IN  AddRoundKey(IF r < 14 THEN MixColumns(t) ELSE t, words, r)
-----------------------------------------------------------------------------
CONSTANTS KeySeeds, Nonces, Starts, Calls, Sampled, MaxPrf

VARIABLES
    n, ivw,         \* the calls of aes_ctr4x so far, and the state's counters
    nonce,
    skey, sk,       \* the words of the key, and the round keys
    round, q,       \* the rounds of one call
    s, words        \* blocks and words in FIPS 197

vars == <<n, ivw, nonce, skey, sk, round, q, s, words>>

ByteOf(x) == {k \in 0 .. 7 : (x \div 2^k) % 2 = 1}

\* Keys of eight words.
KeyOf(seed) == [w \in 1 .. 8 |-> [k \in 1 .. 4 |-> ByteOf((seed * (4*w + k) + seed \div 7) % 256)]]

\* The number in four bytes, the highest first.
Number(x) == <<ByteOf((x \div 2^24) % 256), ByteOf((x \div 2^16) % 256),
               ByteOf((x \div 2^8) % 256), ByteOf(x % 256)>>

Block(k) == nonce \o Number(4*n + k)

BytesOf(w) == FlattenSeq([i \in 1 .. Len(w) |->
                 [k \in 1 .. 4 |-> {b \in 0 .. 7 : b + 8*(k-1) \in w[i]}]])

\* A state that a long enough run has: n calls.
Init ==
    /\ n \in Starts /\ nonce \in Nonces
    /\ ivw = [i \in 1 .. 16 |-> IF i % 4 = 0 THEN dec32le(Number(4*n + (i \div 4) - 1))
                                ELSE FirstIvw(nonce)[i]]
    /\ round = -1 /\ q = <<>> /\ skey = <<>> /\ sk = <<>> /\ s = <<>> /\ words = <<>>

SetKey ==
    /\ round = -1 /\ n \in Sampled /\ skey = <<>>
    /\ \E seed \in KeySeeds : words' = KeyOf(seed)
    /\ skey' = [w \in 1 .. 8 |-> dec32le(words'[w])]
    /\ UNCHANGED <<n, ivw, nonce, sk, round, q, s>>

\* The loop of br_aes_ct64_keysched.
KeyStep ==
    /\ Len(skey) \in 8 .. 59
    /\ skey' = Append(skey, NextWord(skey))
    /\ words' = Append(words, NextKeyWord(words))
    /\ UNCHANGED <<n, ivw, nonce, sk, round, q, s>>

Begin ==
    /\ round = -1 /\ Len(skey) = 60
    /\ sk' = sk_exp(skey)
    /\ q' = add_round_key(Load(ivw), sk'[0])
    /\ s' = [k \in 1 .. 4 |-> AddRoundKey(Block(k-1), words, 0)]
    /\ round' = 0
    /\ UNCHANGED <<n, ivw, nonce, skey, words>>

RoundStep ==
    /\ round \in 0 .. 13
    /\ round' = round + 1
    /\ q' = EncRound(q, sk, round + 1)
    /\ s' = [k \in 1 .. 4 |-> CipherRound(s[k], words, round + 1)]
    /\ UNCHANGED <<n, ivw, nonce, skey, sk, words>>

NextCall ==
    /\ round = -1 /\ skey = <<>>
    /\ \E start \in Starts : n \in start .. start + Calls - 1
    /\ n' = n + 1
    /\ ivw' = NextIvw(ivw)
    /\ UNCHANGED <<nonce, skey, sk, round, q, s, words>>

Next == SetKey \/ KeyStep \/ Begin \/ RoundStep \/ NextCall

Spec == Init /\ [][Next]_vars
-----------------------------------------------------------------------------
\* The words of the key are those of FIPS 197, and after every round the bits of the four
\* blocks, put together again, are its blocks: the S-box circuit, the row shifts and column
\* mixing by masks, the packed round keys and the last round without mixing.
IsAes ==
    /\ BytesOf(skey) = FlattenSeq(words)
    /\ round >= 0 => BytesOf(Store(q)) = FlattenSeq(s)

\* However many calls there have been the four counters are the next four, over the
\* carries from byte to byte, and the first call has those of aes256ctr_init; no two
\* blocks of a stream share a counter.
CountersFollow ==
    /\ \A k \in 0 .. 3 : BytesOf(SubSeq(ivw, 4*k + 1, 4*k + 4)) = Block(k)
    /\ n = 0 => ivw = FirstIvw(nonce)

\* aes256ctr_prf gives the beginning of that stream, for lengths at and around whole calls.
PrfIsPrefix ==
    n = 0 /\ round = -1 =>
        \A len \in 0 .. MaxPrf : ctr_run(len) = [i \in 1 .. len |-> <<(i-1) \div 64, (i-1) % 64>>]
=============================================================================
