------------------------------- MODULE CtrDrbg -------------------------------
(***************************************************************************)
(* randombytes of rng.c: the generator AES256_CTR_DRBG over an ideal       *)
(* cipher.  A block is the key and the counter V it is made from.  Keys    *)
(* are numbered by the update that made them; the part of an update's      *)
(* output that becomes V may be anything.                                  *)
(***************************************************************************)
EXTENDS Integers, SequencesExt

CONSTANTS
    Base,       \* of a digit of V: 256
    VLen,       \* the digits of V: 16
    BlockLen,   \* the length of a block: 16
    MaxCalls,   \* bound: calls of randombytes
    MaxLen      \* bound: bytes in a call

VARIABLES
    Key, V, reseed_counter,     \* DRBG_ctx
    xlen,                       \* what is left of the request under way
    out,                        \* its bytes so far
    asked,                      \* its length, or -1 outside of a call
    served,                     \* ghost: the blocks that have gone to a caller
    kept                        \* ghost: the blocks made into a key or a V

vars == <<Key, V, reseed_counter, xlen, out, asked, served, kept>>

Counters == [1 .. VLen -> 0 .. Base-1]

ZeroV == [i \in 1 .. VLen |-> 0]

Increment(v) ==
    LET Highest(i) == \A k \in i .. VLen : v[k] = Base - 1
    IN  [i \in 1 .. VLen |->
            IF Highest(i) THEN 0
            ELSE IF i = VLen \/ Highest(i+1) THEN v[i] + 1
            ELSE v[i]]

Block(key, v) == [key |-> key, v |-> v]

\* Each block is made before V is counted up.
Update_UseFirst(key, v) ==
    LET one == Increment(v)
        two == Increment(one)
    IN  {Block(key, v), Block(key, one), Block(key, two)}

\* The three blocks of AES256_CTR_DRBG_Update: two for the key, one for V.
Update(key, v) ==
    LET one == Increment(v)
        two == Increment(one)
    IN  {Block(key, one), Block(key, two), Block(key, Increment(two))}

\* AES256_CTR_DRBG_Update with or without provided data.
AES256_CTR_DRBG_Update(key, v, kept0) ==
    /\ kept' = kept0 \union Update(key, v)
    /\ Key' = key + 1
    /\ V' \in Counters

Init ==
    /\ Key = 0 /\ V = ZeroV /\ reseed_counter = 0
    /\ xlen = 0 /\ out = <<>> /\ asked = -1
    /\ served = {} /\ kept = {}

\* From the zero key and the zero V.
randombytes_init ==
    /\ reseed_counter = 0
    /\ AES256_CTR_DRBG_Update(0, ZeroV, kept)
    /\ reseed_counter' = 1
    /\ UNCHANGED <<xlen, out, asked, served>>

randombytes(n) ==
    /\ reseed_counter \in 1 .. MaxCalls
    /\ asked = -1
    /\ asked' = n /\ xlen' = n /\ out' = <<>>
    /\ UNCHANGED <<Key, V, reseed_counter, served, kept>>

\* A turn of the loop: a whole block, or as much of one as is left to give.
NextBlock ==
    LET v == Increment(V)
        n == IF xlen > BlockLen - 1 THEN BlockLen ELSE xlen
    IN  /\ xlen > 0
        /\ V' = v
        /\ out' = out \o [i \in 1 .. n |-> <<Block(Key, v), i>>]
        /\ served' = served \union {Block(Key, v)}
        /\ xlen' = xlen - n
        /\ UNCHANGED <<Key, reseed_counter, asked, kept>>

Return ==
    /\ asked >= 0 /\ xlen = 0
    /\ AES256_CTR_DRBG_Update(Key, V, kept)
    /\ reseed_counter' = reseed_counter + 1
    /\ asked' = -1
    /\ UNCHANGED <<xlen, out, served>>

Next ==
    \/ randombytes_init
    \/ \E n \in 0 .. MaxLen : randombytes(n)
    \/ NextBlock
    \/ Return

Spec == Init /\ [][Next]_vars
-----------------------------------------------------------------------------
\* No caller ever sees a block that the generator's next key or V was made from, in this
\* call or another: what was handed out says nothing about the state (randombytes, the
\* order of counting V up and encrypting it).
SecretsNotServed == served \intersect kept = {}

\* All bytes of the block that the k-th piece of the output begins.
Whole(k) == [i \in 1 .. BlockLen |-> <<out[(k-1) * BlockLen + 1][1], i>>]

\* The bytes of a request are those of as many different blocks as it takes, each from
\* its first byte on, and exactly as many as were asked for.
RequestFilled ==
    asked >= 0 =>
        /\ Len(out) + xlen = asked
        /\ \A k \in 1 .. Len(out) \div BlockLen :
              SubSeq(out, (k-1) * BlockLen + 1, k * BlockLen) = Whole(k)
        /\ \A i, j \in 1 .. Len(out) : out[i] = out[j] => i = j
=============================================================================
