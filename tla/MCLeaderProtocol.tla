-------------------------- MODULE MCLeaderProtocol --------------------------
(* Rings of leaders, with every combination of ways to get the keys. *)
EXTENDS LeaderProtocol

CONSTANTS c1, c2, s0, s1, s2

OneCoin == {c1}
TwoCoins == {c1, c2}

AllModes == {"kem", "path", "url"}
Kem == {"kem"}
Paths == {"path"}

\* Every edge has a secret of its own.
OwnShares == [c \in 0 .. 2 |-> CASE c = 0 -> s0 [] c = 1 -> s1 [] c = 2 -> s2]

\* The key file of the first edge is used for the second one too.
SharedFile == [c \in 0 .. 2 |-> CASE c = 0 -> s0 [] c = 1 -> s0 [] c = 2 -> s2]
=============================================================================
