----------------------------- MODULE SeedExpander -----------------------------
(***************************************************************************)
(* seedexpander of rng.c: AES in counter mode over an ideal cipher, handed *)
(* out in requests of any length through a buffer of one block.  The       *)
(* counter ends in four digits that hold maxlen and four that count.       *)
(***************************************************************************)
EXTENDS Integers, SequencesExt

CONSTANTS
    Base,       \* of a digit, more than 1: 256
    BlockLen    \* the length of a block: 16

CtrLen == 4

VARIABLES
    maxlen,             \* what the caller asked for in seedexpander_init
    length_remaining, ctr, buffer, buffer_pos,
    asked, xlen,        \* the request under way, and what is left of it
    out,                \* all bytes handed out so far
    rc                  \* what the last call returned

vars == <<maxlen, length_remaining, ctr, buffer, buffer_pos, asked, xlen, out, rc>>

Limit == Base * Base * Base * Base

\* The digits of k, the most significant first.
Digits(k) ==
    LET k1 == k \div Base
        k2 == k1 \div Base
        k3 == k2 \div Base
    IN  <<k3 % Base, k2 % Base, k1 % Base, k % Base>>

\* Digits that are at their highest become zero, up to the first that is not.
Increment(digits) ==
    LET Highest(i) == \A k \in i .. CtrLen : digits[k] = Base - 1
    IN  [i \in 1 .. CtrLen |->
            IF Highest(i) THEN 0
            ELSE IF i = CtrLen \/ Highest(i+1) THEN digits[i] + 1
            ELSE digits[i]]

\* AES256_ECB: the bytes of a block are told apart by its counter.
AES256_ECB(prefix, count) == [i \in 1 .. BlockLen |-> <<prefix, count, i>>]

\* What the buffer is filled with at first: a byte of no block, which is never handed out.
ZeroByte == <<>>

Init ==
    /\ maxlen = 0 /\ length_remaining = 0
    /\ ctr = Digits(0) /\ buffer = [k \in 1 .. BlockLen |-> ZeroByte] /\ buffer_pos = BlockLen
    /\ asked = 0 /\ xlen = 0
    /\ out = <<>>
    /\ rc = "none"

seedexpander_init(n) ==
    /\ rc = "none"
    /\ \/ /\ n >= Limit
          /\ rc' = "BAD_MAXLEN"
          /\ UNCHANGED <<maxlen, length_remaining>>
       \/ /\ n < Limit
          /\ maxlen' = n
          /\ length_remaining' = n
          /\ rc' = "SUCCESS"
    /\ UNCHANGED <<ctr, buffer, buffer_pos, asked, xlen, out>>

\* A request of n bytes, up to the loop.
seedexpander(n) ==
    /\ rc \in {"SUCCESS", "BAD_REQ_LEN"} /\ xlen = 0
    /\ asked' = n
    /\ \/ /\ n >= length_remaining
          /\ rc' = "BAD_REQ_LEN"
          /\ UNCHANGED <<length_remaining, xlen>>
       \/ /\ n < length_remaining
          /\ length_remaining' = length_remaining - n
          /\ xlen' = n
          /\ rc' = "SUCCESS"
    /\ UNCHANGED <<maxlen, ctr, buffer, buffer_pos, out>>

Buffered == BlockLen - buffer_pos

\* The buffer has what is needed.
TakeFromBuffer ==
    /\ xlen > 0 /\ xlen <= Buffered
    /\ out' = out \o SubSeq(buffer, buffer_pos + 1, buffer_pos + xlen)
    /\ buffer_pos' = buffer_pos + xlen
    /\ xlen' = 0
    /\ UNCHANGED <<maxlen, length_remaining, ctr, buffer, asked, rc>>

\* The rest of the buffer, and the next block into it.
Refill ==
    /\ xlen > Buffered
    /\ out' = out \o SubSeq(buffer, buffer_pos + 1, BlockLen)
    /\ xlen' = xlen - Buffered
    /\ buffer' = AES256_ECB(Digits(maxlen), ctr)
    /\ buffer_pos' = 0
    /\ ctr' = Increment(ctr)
    /\ UNCHANGED <<maxlen, length_remaining, asked, rc>>

Next ==
    \/ \E n \in 0 .. Limit : seedexpander_init(n) \/ seedexpander(n)
    \/ TakeFromBuffer
    \/ Refill

Spec == Init /\ [][Next]_vars
-----------------------------------------------------------------------------
\* However the requests are cut, what has been handed out is the beginning of one
\* stream: block after block, each counter used once, nothing skipped or repeated at
\* the edges of the buffer (seedexpander, the memcpys and the counter).
OneStream ==
    out = [i \in 1 .. Len(out) |->
              <<Digits(maxlen), Digits((i-1) \div BlockLen), ((i-1) % BlockLen) + 1>>]

\* A request is filled completely and charged once against maxlen.
Accounted == Len(out) + xlen + length_remaining = maxlen
=============================================================================
