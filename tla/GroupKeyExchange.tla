-------------------------- MODULE GroupKeyExchange --------------------------
(***************************************************************************)
(* What a cluster promises its users, without messages: when the parties   *)
(* that contribute to it have joined, each can establish the one group     *)
(* key, and with the group key in hand learn the main key its leader has.  *)
(* No party aborts, no key is given up or replaced, and nobody holds any   *)
(* other key.                                                              *)
(***************************************************************************)
CONSTANTS Parties, Contributors, Leader, GroupKeys, MainKeys, NoKey

VARIABLES joined, groupKey, mainKey

vars == <<joined, groupKey, mainKey>>

Init ==
    /\ joined = {}
    /\ groupKey = [p \in Parties |-> NoKey]
    /\ mainKey = [p \in Parties |-> NoKey]

Establish(p, k) ==
    /\ Contributors \subseteq joined'
    /\ \A q \in Parties : groupKey[q] \in {NoKey, k}
    /\ groupKey[p] = NoKey
    /\ groupKey' = [groupKey EXCEPT ![p] = k]

Learn(p) ==
    /\ p # Leader
    /\ groupKey'[p] # NoKey /\ groupKey'[Leader] # NoKey
    /\ mainKey[p] = NoKey
    /\ mainKey[Leader] # NoKey
    /\ mainKey' = [mainKey EXCEPT ![p] = mainKey[Leader]]

\* One step of p: it may join, establish the group key and learn the main key
\* at once.
Advance(p) ==
    /\ joined' \in {joined, joined \union {p}}
    /\ UNCHANGED groupKey \/ \E k \in GroupKeys : Establish(p, k)
    /\ UNCHANGED mainKey \/ Learn(p)

\* The leader gets the main key from outside of the group.
Choose(k) ==
    /\ mainKey[Leader] = NoKey
    /\ mainKey' = [mainKey EXCEPT ![Leader] = k]
    /\ UNCHANGED <<joined, groupKey>>

Next ==
    \/ \E p \in Parties : Advance(p)
    \/ \E k \in MainKeys : Choose(k)

Spec == Init /\ [][Next]_vars
=============================================================================
