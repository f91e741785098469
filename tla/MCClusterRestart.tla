-------------------------- MODULE MCClusterRestart --------------------------
(***************************************************************************)
(* ClusterRestart for a small group.  Any of the members in Restarting may *)
(* end, and no more than MaxInNet messages are on their way at any time:   *)
(* what an end may lose is lost then or is delivered to a later run.       *)
(***************************************************************************)
EXTENDS ClusterRestart, FiniteSets

CONSTANT MaxInNet

FewMessages == Init /\ [][RestartNext /\ Cardinality(net') <= MaxInNet]_vars
=============================================================================
