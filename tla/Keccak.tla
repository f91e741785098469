-------------------------------- MODULE Keccak --------------------------------
(***************************************************************************)
(* KeccakF1600_StatePermute of fips202.c.  A lane is the set of its bits   *)
(* that are 1; lanes 0 .. 24 are Aba, Abe, .. Asu, by rows b, g, k, m, s   *)
(* and columns a, e, i, o, u.  The loop body of the code has two rounds,   *)
(* from A to E and from E to A, that are the same but for the names.       *)
(***************************************************************************)
EXTENDS Integers, FiniteSets

VARIABLES round, state

NROUNDS == 24
Bit64 == 0 .. 63
Xor(a, b) == (a \ b) \union (b \ a)
ROL(a, offset) == {(b + offset) % 64 : b \in a}

KeccakF_RoundConstants ==
    << {0}, {1,7,15}, {1,3,7,15,63}, {15,31,63}, {0,1,3,7,15}, {0,31}, {0,7,15,31,63}, {0,3,15,63},
       {1,3,7}, {3,7}, {0,3,15,31}, {1,3,31}, {0,1,3,7,15,31}, {0,1,3,7,63}, {0,3,7,15,63}, {0,1,15,63},
       {1,15,63}, {7,63}, {1,3,15}, {1,3,31,63}, {0,7,15,31,63}, {7,15,63}, {0,31}, {3,15,31,63} >>

\* For each row of E, the lanes that BCa .. BCu are made of and how far each is rotated.
Rows == << << <<0, 0>>,  <<6, 44>>, <<12, 43>>, <<18, 21>>, <<24, 14>> >>,
           << <<3, 28>>, <<9, 20>>, <<10, 3>>,  <<16, 45>>, <<22, 61>> >>,
           << <<1, 1>>,  <<7, 6>>,  <<13, 25>>, <<19, 8>>,  <<20, 18>> >>,
           << <<4, 27>>, <<5, 36>>, <<11, 10>>, <<17, 15>>, <<23, 56>> >>,
           << <<2, 62>>, <<8, 55>>, <<14, 39>>, <<15, 41>>, <<21, 2>> >> >>

Column(A, x) == Xor(A[x], Xor(A[x+5], Xor(A[x+10], Xor(A[x+15], A[x+20]))))

\* thetaRhoPiChiIota.
Round(r, A) ==
    LET BC == [x \in 0 .. 4 |-> Column(A, x)]
        D  == [x \in 0 .. 4 |-> Xor(BC[(x + 4) % 5], ROL(BC[(x + 1) % 5], 1))]
        B  == [l \in 0 .. 24 |-> LET p == Rows[(l \div 5) + 1][(l % 5) + 1]
                                 IN  ROL(Xor(A[p[1]], D[p[1] % 5]), p[2])]
        E(l) == LET row == 5 * (l \div 5)
                IN  Xor(B[l], B[row + ((l + 2) % 5)] \ B[row + ((l + 1) % 5)])
    IN  [l \in 0 .. 24 |-> IF l = 0 THEN Xor(E(0), KeccakF_RoundConstants[r + 1]) ELSE E(l)]

\* The state is copied to local variables and back around the loop.
StatePermute(s) == state = s /\ round = 0

\* The two halves of the loop body, from A to E and from E to A.
RoundAE == round < NROUNDS /\ round % 2 = 0 /\ state' = Round(round, state) /\ round' = round + 1
RoundEA == round % 2 = 1 /\ state' = Round(round, state) /\ round' = round + 1
-----------------------------------------------------------------------------
(***************************************************************************)
(* The unrolled rounds next to the permutation as FIPS 202 defines it, by  *)
(* the steps theta, rho, pi, chi and iota, with the constants of rho and   *)
(* iota computed.                                                          *)
(***************************************************************************)
CONSTANTS FirstBits     \* bits of a lane that are set in the initial states

VARIABLES reference, lfsr

vars == <<round, state, reference, lfsr>>

\* One bit in one lane, no bit, all bits.
Init == /\ \E b \in FirstBits \union {-1}, l \in 0 .. 24 :
              /\ b = -1 => l \in {0, 1}
              /\ StatePermute([k \in 0 .. 24 |->
                    IF b = -1 THEN (IF l = 0 THEN {} ELSE Bit64) ELSE IF k = l THEN {b} ELSE {}])
        /\ reference = state
        /\ lfsr = {0}

Lane(x, y) == 5 * (y % 5) + (x % 5)

\* FIPS 202, 3.2.1: parities of two columns.
Theta(A) == LET C(x) == Column(A, x % 5)
            IN  [l \in 0 .. 24 |-> Xor(A[l], Xor(C(l + 4), ROL(C(l + 1), 1)))]

\* 3.2.2: the offsets along the walk (x, y) to (y, 2x + 3y) are the triangular numbers.
Walk[t \in 0 .. 23] == IF t = 0 THEN <<1, 0>>
                       ELSE LET p == Walk[t-1] IN << p[2], (2*p[1] + 3*p[2]) % 5 >>
Offsets == [l \in 0 .. 24 |-> IF l = 0 THEN 0
              ELSE LET t == CHOOSE t \in 0 .. 23 : Lane(Walk[t][1], Walk[t][2]) = l
                   IN  (((t + 1) * (t + 2)) \div 2) % 64]
Rho(A) == [l \in 0 .. 24 |-> ROL(A[l], Offsets[l])]

\* 3.2.3 and 3.2.4.
Pi(A)  == [l \in 0 .. 24 |-> LET x == l % 5  y == l \div 5 IN A[Lane(x + 3*y, x)]]
Chi(A) == [l \in 0 .. 24 |-> LET x == l % 5  y == l \div 5
                             IN  Xor(A[l], A[Lane(x + 2, y)] \ A[Lane(x + 1, y)])]

\* 3.2.5: a register of 8 bits shifts seven times in a round.
Shift(R) == LET S == {b + 1 : b \in R}
            IN  IF 8 \in S THEN Xor(S \ {8}, {0, 4, 5, 6}) ELSE S
Registers == [j \in 0 .. 7 |-> LET r[k \in 0 .. j] == IF k = 0 THEN lfsr ELSE Shift(r[k-1]) IN r[j]]
RoundConstant == {2^j - 1 : j \in {k \in 0 .. 6 : 0 \in Registers[k]}}
Iota(A) == [A EXCEPT ![0] = Xor(@, RoundConstant)]

Next == /\ RoundAE \/ RoundEA
        /\ reference' = Iota(Chi(Pi(Rho(Theta(reference)))))
        /\ lfsr' = Registers[7]

Spec == Init /\ [][Next]_vars
-----------------------------------------------------------------------------
\* After every round the state is that of FIPS 202: the order in which the unrolled
\* code reads the lanes, all rotations and all round constants.
IsKeccak == state = reference
=============================================================================
