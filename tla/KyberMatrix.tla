----------------------------- MODULE KyberMatrix ------------------------------
(***************************************************************************)
(* gen_matrix and rej_uniform of indcpa.c: the entries of the matrix are   *)
(* sampled from the output of the XOF, which is squeezed first in one      *)
(* large buffer and then a block at a time until a polynomial is full.     *)
(***************************************************************************)
EXTENDS KyberReduce, SequencesExt

CONSTANTS
    Rank,           \* KYBER_K
    N,              \* KYBER_N
    FirstBlocks,    \* GEN_MATRIX_NBLOCKS
    BlockValues,    \* 16-bit values in a block, XOF_BLOCKBYTES / 2
    Values,         \* 16-bit values the XOF may yield
    MaxBlocks       \* bound: blocks squeezed for one entry

VARIABLES i, j,     \* the entry being sampled
          a,        \* a[i][j], the coefficients written so far
          ctr,      \* how many of them count
          stream    \* what has been squeezed for this entry

vars == <<i, j, a, ctr, stream>>

Indices == 0 .. Rank - 1

Init == /\ i = 0 /\ j = 0 /\ ctr = 0 /\ stream = <<>>
        /\ a = [r \in Indices |-> [c \in Indices |-> [n \in 0 .. N-1 |-> 0]]]

Accepts(val) == val < 19 * KYBER_Q

\* The quotient is a guess from the four high bits, never too large.
Reduced(val) == (val - (val \div 4096) * KYBER_Q) % 65536

\* The accepted values of a buffer, at most len of them.
rej_uniform(len, buf) ==
    LET accepted == SelectSeq(buf, Accepts)
    IN  [n \in 1 .. (IF Len(accepted) < len THEN Len(accepted) ELSE len) |-> Reduced(accepted[n])]

\* r[ctr++] = val, from the coefficient the last call ended at.
Store(poly, from, r) ==
    [n \in 0 .. N-1 |-> IF n \in from .. from + Len(r) - 1 THEN r[n - from + 1] ELSE poly[n]]

Squeeze(blocks) ==
    \E buf \in [1 .. blocks * BlockValues -> Values] :
        LET r == rej_uniform(N - ctr, buf)
        IN  /\ stream' = stream \o buf
            /\ a' = [a EXCEPT ![i][j] = Store(@, ctr, r)]
            /\ ctr' = ctr + Len(r)
            /\ UNCHANGED <<i, j>>

SqueezeFirst == i < Rank /\ stream = <<>> /\ Squeeze(FirstBlocks)

Refill == /\ stream # <<>> /\ ctr < N
          /\ Len(stream) < MaxBlocks * BlockValues
          /\ Squeeze(1)

NextEntry == /\ i < Rank /\ ctr = N
             /\ j' = (j + 1) % Rank
             /\ i' = i + (j + 1) \div Rank
             /\ ctr' = 0 /\ stream' = <<>>
             /\ UNCHANGED a

Next == SqueezeFirst \/ Refill \/ NextEntry

Spec == Init /\ [][Next]_vars
-----------------------------------------------------------------------------
\* Whatever the XOF yields and wherever the blocks end, a full polynomial holds the
\* first N accepted values of the stream, each congruent to the one squeezed.
EntryIsPrefix ==
    ctr = N => LET accepted == SelectSeq(stream, Accepts)
               IN  \A n \in 0 .. N-1 : a[i][j][n] % KYBER_Q = accepted[n+1] % KYBER_Q

\* The comment of rej_uniform promises integers mod q, but one guess at the quotient
\* leaves values up to 13315 = 4q - 1: never more, which ntt and basemul rely on.
BelowFourQ == \A r, c \in Indices : \A n \in 0 .. N-1 : a[r][c][n] \in 0 .. 4 * KYBER_Q - 1
=============================================================================
