---------------------------- MODULE MCClusterQkd ----------------------------
(* A small cluster for ClusterQkd.  Two QKD keys and two main keys let a *)
(* wrong mixture of two values show.                                     *)
EXTENDS ClusterQkd

CONSTANTS k1, k2, m1, m2

TwoQkdKeys == {k1, k2}
TwoMainKeys == {m1, m2}
BothModes == {"path", "url"}
=============================================================================
