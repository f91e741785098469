-------------------------- MODULE MCClusterProtocol --------------------------
(* Small groups for ClusterProtocol.  Two coins and two main keys let a wrong *)
(* mixture of two values show.                                                *)
EXTENDS ClusterProtocol

CONSTANTS m1, m2, c1, c2

TwoMainKeys == {m1, m2}
OneMainKey == {m1}
TwoCoins == {c1, c2}
OneCoin == {c1}
=============================================================================
