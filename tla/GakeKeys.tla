------------------------------ MODULE GakeKeys ------------------------------
(***************************************************************************)
(* The key arithmetic of the group key exchange: gake.XorKeys, gake.Mod,   *)
(* util.CheckXs and util.ComputeAllLeftKeys, which both the cluster and    *)
(* the leader protocol are built on.                                       *)
(*                                                                         *)
(* A 32 byte key is the set of independent random secrets that were XORed  *)
(* into it: XOR is symmetric difference, the all-zero key is the empty     *)
(* set, and two keys are equal exactly when they are the XOR of the same   *)
(* secrets.  What this leaves out is a random collision of two 32 byte     *)
(* strings.  An array of n keys is a function on 0..n-1, as in the code.   *)
(***************************************************************************)
EXTENDS Integers

\* The zero byte array.  The code also uses it for "not received yet".
Zero == {}

XorKeys(x, y) == (x \ y) \union (y \ x)

\* mod of utils.c: C division truncates towards zero, and a negative rest is
\* lifted by y.
TruncatedDiv(x, y) == IF x >= 0 THEN x \div y ELSE -((-x) \div y)

\* The rest of the C division as it comes, without the lift.
Mod_Truncated(x, y) == x - TruncatedDiv(x, y) * y

Mod(x, y) ==
    LET t == x - TruncatedDiv(x, y) * y
    IN  IF t < 0 THEN t + y ELSE t

\* check[i] is the value of the loop variable after xs[0..i] have been XORed.
CheckXs(xs, n) ==
    LET check[i \in 0 .. n-1] == IF i = 0 THEN xs[0] ELSE XorKeys(xs[i], check[i-1])
    IN  check[n-1] = Zero

\* A chain that starts one x too far to the right.
LeftKeyChain_OffByOne(n, i, keyLeft, xs) ==
    LET chain[j \in 0 .. n-1] ==
            IF j = 0 THEN keyLeft ELSE XorKeys(chain[j-1], xs[Mod(i - (j-1), n)])
    IN  chain

\* chain[j] is keyLeft after j rounds of the inner loop: the left key of the
\* party j places to the left of i.  Slot Mod(i - j, n) receives chain[j].
LeftKeyChain(n, i, keyLeft, xs) ==
    LET chain[j \in 0 .. n-1] ==
            IF j = 0 THEN keyLeft ELSE XorKeys(chain[j-1], xs[Mod(i - (j-1) - 1, n)])
    IN  chain

ComputeAllLeftKeys(n, i, keyLeft, xs) ==
    [q \in 0 .. n-1 |-> LeftKeyChain(n, i, keyLeft, xs)[Mod(i - q, n)]]
=============================================================================
