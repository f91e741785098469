------------------------ MODULE LeaderProtocolProofs ------------------------
(***************************************************************************)
(* IndInv is an invariant of LeaderProtocol, for every number of clusters, *)
(* every mixture of KEM, file and ETSI edges and every choice of secrets,  *)
(* and with it the properties that the runs check on three clusters.       *)
(***************************************************************************)
EXTENDS LeaderProtocol, GakeKeysProofs

\* The leaders form a ring: left and right are the inverse of each other.
LEMMA RingIndex ==
    ASSUME NEW c \in Leaders
    PROVE  /\ RightClusterID(c) \in Leaders
           /\ LeftClusterID(c) \in Leaders
           /\ LeftClusterID(RightClusterID(c)) = c
           /\ RightClusterID(LeftClusterID(c)) = c
<1>1. NClusters \in Nat \ {0} /\ c \in 0 .. NClusters-1
  BY NClustersAssumption DEF Leaders
<1>2. RightClusterID(c) = IF c = NClusters-1 THEN 0 ELSE c + 1
  BY <1>1, NextIndex DEF RightClusterID
<1>3. LeftClusterID(c) = IF c = 0 THEN NClusters-1 ELSE c - 1
  <2>1. CASE c = 0
    BY <1>1, <2>1 DEF LeftClusterID
  <2>2. CASE c # 0
    <3>1. c + NClusters - 1 = (c - 1) + NClusters /\ c - 1 \in 0 .. NClusters-1
      BY <1>1, <2>2
    <3>2. ((c - 1) + NClusters) % NClusters = c - 1
      BY <1>1, <3>1
    <3>3. QED
      BY <2>2, <3>1, <3>2 DEF LeftClusterID
  <2>3. QED
    BY <2>1, <2>2
<1>4. RightClusterID(c) \in 0 .. NClusters-1 /\ LeftClusterID(c) \in 0 .. NClusters-1
  BY <1>1, <1>2, <1>3
<1>5. LeftClusterID(RightClusterID(c)) = c
  <2>1. CASE c = NClusters-1
    <3>1. RightClusterID(c) + NClusters - 1 = NClusters - 1
      BY <1>1, <1>2, <2>1
    <3>2. (NClusters - 1) % NClusters = NClusters - 1
      BY <1>1
    <3>3. QED
      BY <2>1, <3>1, <3>2 DEF LeftClusterID
  <2>2. CASE c # NClusters-1
    <3>1. RightClusterID(c) + NClusters - 1 = c + NClusters
      BY <1>1, <1>2, <2>2
    <3>2. (c + NClusters) % NClusters = c
      BY <1>1
    <3>3. QED
      BY <3>1, <3>2 DEF LeftClusterID
  <2>3. QED
    BY <2>1, <2>2
<1>6. RightClusterID(LeftClusterID(c)) = c
  <2>1. RightClusterID(LeftClusterID(c)) =
            IF LeftClusterID(c) = NClusters-1 THEN 0 ELSE LeftClusterID(c) + 1
    BY <1>1, <1>4, NextIndex DEF RightClusterID
  <2>2. QED
    BY <1>1, <1>3, <2>1
<1>7. QED
  BY <1>4, <1>5, <1>6 DEF Leaders

\* The key of an edge is a set key.
LEMMA EdgeKeyType ==
    ASSUME NEW c \in Leaders
    PROVE  EdgeKey(c) \in Keys /\ EdgeKey(c) # Zero /\ {Share[c]} = EdgeKey(c)
  BY DEF EdgeKey, Keys, Secrets, Zero

\* The main session key of the ring is of the type of session keys.
LEMMA RingKeyType == RingKey \in SessionKeys /\ RingKey # NoKey
<1>1. \A i \in 0 .. NClusters-2 : i \in Leaders
  BY NClustersAssumption DEF Leaders
<1>2. \A i \in 0 .. NClusters-2 : {Share[LeftClusterID(i)]} \in Keys
  BY <1>1, RingIndex, EdgeKeyType
<1>3. RingKey \in SessionKeys
  BY <1>1, <1>2 DEF RingKey, SessionKeys
<1>4. QED
  BY <1>3, NoKeyAssumption

\* All Xs there means that no slot is empty.
LEMMA ReceivedNotBlank ==
    ASSUME NEW v, ReceivedAllXs(v)
    PROVE  \A i \in Leaders : v[i] # BlankEntry
  BY DEF ReceivedAllXs, BlankEntry

\* An entry that a leader has made differs from an empty slot, whatever its keys.
LEMMA GenuineNotBlank ==
    ASSUME NEW i, NEW entry, Genuine(i, entry)
    PROVE  entry # BlankEntry /\ entry \in Entries
  BY NoKeyAssumption DEF Genuine, Entries, BlankEntry

\* A leader with the keys of its two edges makes a genuine entry.
LEMMA XiEntryGenuine ==
    ASSUME NEW c \in Leaders, NEW r \in Coins
    PROVE  Genuine(c, XiEntry(c, EdgeKey(c), EdgeKey(LeftClusterID(c)), r))
<1> DEFINE x == XorKeys(EdgeKey(c), EdgeKey(LeftClusterID(c)))
<1>1. EdgeKey(c) \in Keys /\ EdgeKey(LeftClusterID(c)) \in Keys
  BY RingIndex, EdgeKeyType
<1>2. x \in Keys
  BY <1>1 DEF Keys, XorKeys
<1> HIDE DEF x
<1> DEFINE entry == [x |-> x, r |-> r, commitment |-> Sum256(x, r), pid |-> c]
<1>3. entry \in Entries
  BY <1>2 DEF Entries, Sum256
<1>4. XiEntry(c, EdgeKey(c), EdgeKey(LeftClusterID(c)), r) = entry
  BY DEF XiEntry, x
<1>5. Genuine(c, entry)
  BY <1>3 DEF Genuine, x
<1>6. QED
  BY <1>4, <1>5

\* Genuine entries from all pass both checks, and lead to the key of the ring.
LEMMA ChecksOfRing ==
    ASSUME NEW c \in Leaders, NEW v, \A i \in Leaders : Genuine(i, v[i])
    PROVE  ChecksPass(v) /\ SharedSecret(c, EdgeKey(LeftClusterID(c)), v) = RingKey
<1> DEFINE L == [q \in Leaders |-> EdgeKey(LeftClusterID(q))]
<1>1. Xs(v) = RingXs(L, NClusters)
  <2>1. ASSUME NEW i \in Leaders PROVE v[i].x = XorKeys(L[(i + 1) % NClusters], L[i])
    <3>1. (i + 1) % NClusters \in Leaders /\ LeftClusterID((i + 1) % NClusters) = i
      BY RingIndex DEF RightClusterID
    <3>2. L[(i + 1) % NClusters] = EdgeKey(i) /\ L[i] = EdgeKey(LeftClusterID(i))
      BY <3>1
    <3>3. QED
      BY <3>2 DEF Genuine
  <2>2. QED
    BY <2>1, Zenon DEF Xs, RingXs, Leaders
<1>2. CheckXs(RingXs(L, NClusters), NClusters)
  BY NClustersAssumption, CheckXsOfRing
<1>3. checkCommitments(v)
  BY DEF checkCommitments, Genuine
<1>4. L[c] = EdgeKey(LeftClusterID(c))
  OBVIOUS
<1>5. \A q \in Leaders : L[q] = {Share[LeftClusterID(q)]}
  BY DEF EdgeKey
<1> HIDE DEF L
<1>6. \A q \in Leaders : ComputeAllLeftKeys(NClusters, c, L[c], RingXs(L, NClusters))[q] = L[q]
  BY NClustersAssumption, LeftKeysOfRing DEF Leaders
<1>7. \A i \in 0 .. NClusters-2 : i \in Leaders
  BY NClustersAssumption DEF Leaders
<1> DEFINE keys == ComputeAllLeftKeys(NClusters, c, L[c], RingXs(L, NClusters))
           pids == [i \in Leaders |-> v[i].pid]
<1>8. \A i \in 0 .. NClusters-2 : keys[i] = {Share[LeftClusterID(i)]} /\ pids[i] = i
  BY <1>5, <1>6, <1>7 DEF Genuine
<1>9. SharedSecret(c, EdgeKey(LeftClusterID(c)), v) = computeSharedSecret(keys, pids)
  BY <1>1, <1>4 DEF SharedSecret
<1> HIDE DEF keys, pids
<1>10. computeSharedSecret(keys, pids) = RingKey
  BY <1>8 DEF computeSharedSecret, RingKey
<1>11. QED
  BY <1>1, <1>2, <1>3, <1>9, <1>10, Zenon DEF ChecksPass
-----------------------------------------------------------------------------
\* tryFinalizeProtocol when all entries are genuine: the checks pass, and the
\* key it hands over is that of the ring.
Outcome(c, v, before, after) ==
    /\ view' = [view EXCEPT ![c] = v]
    /\ UNCHANGED exited
    /\ \/ /\ net' = before \union after
          /\ UNCHANGED handing
       \/ /\ ReceivedAllXs(v)
          /\ handing' = [handing EXCEPT ![c] = [key |-> RingKey, unsent |-> after]]
          /\ net' = before

\* tryFinalizeProtocol never takes its error paths on genuine entries.
LEMMA FinalizeOutcome ==
    ASSUME NEW c \in Leaders, NEW left, NEW v, NEW before, NEW after,
           \A i \in Leaders : v[i] # BlankEntry => Genuine(i, v[i]),
           v[c] # BlankEntry => left = EdgeKey(LeftClusterID(c)),
           tryFinalizeProtocol(c, left, v, before, after)
    PROVE  Outcome(c, v, before, after)
<1>1. CASE ~ReceivedAllXs(v)
  BY <1>1 DEF tryFinalizeProtocol, Outcome
<1>2. CASE ReceivedAllXs(v)
  <2>1. \A i \in Leaders : v[i] # BlankEntry
    BY <1>2, ReceivedNotBlank
  <2>2. ChecksPass(v) /\ SharedSecret(c, left, v) = RingKey
    BY <2>1, ChecksOfRing
  <2>3. QED
    BY <1>2, <2>1, <2>2 DEF tryFinalizeProtocol, Outcome
<1>3. QED
  BY <1>1, <1>2
-----------------------------------------------------------------------------
IsXi(m) == m.type = "LeaderXiRiCommitment"

(***************************************************************************)
(* What a handler does to the first part of the invariant, whichever event *)
(* it handles.  `before' is net with the messages that it has received and *)
(* sent on the way to the neighbour keys.                                  *)
(***************************************************************************)
NoSecondHandover ==
    \A d \in Leaders : mainSessionKey[d] # NoKey => handing'[d] = NoKey

Advance(before) ==
    /\ view' \in [Leaders -> [Leaders -> Entries \union {BlankEntry}]]
    /\ handing' \in [Leaders -> Handovers \union {NoKey}]
    /\ exited' = exited
    /\ net' \subseteq Messages
    /\ \A m \in net' : ~IsXi(m) => m \in before
    /\ ViewInvariant'
    /\ NoSecondHandover

\* c gets a neighbour key, which it did not have, and may thereby have both.
Joins(c, left, right, before) ==
    /\ ~HasJoined(c)
    /\ left \in {Zero, EdgeKey(LeftClusterID(c))}
    /\ right \in {Zero, EdgeKey(c)}
    /\ keyLeft' = [keyLeft EXCEPT ![c] = left]
    /\ keyRight' = [keyRight EXCEPT ![c] = right]
    /\ before \subseteq Messages
    /\ \A m \in before : IsXi(m) => m \in net
    /\ checkLeftRightKeys(c, left, right, before)
    /\ UNCHANGED mainSessionKey

\* A handover of Xi messages is of its type.
LEMMA HandoverType ==
    ASSUME NEW after, after \subseteq Messages
    PROVE  /\ [key |-> RingKey, unsent |-> after] \in Handovers
           /\ [key |-> RingKey, unsent |-> after] # NoKey
<1>1. [key |-> RingKey, unsent |-> after] \in Handovers
  BY RingKeyType DEF Handovers
<1>2. QED
  BY <1>1, NoKeyAssumption

\* Before it has both its keys, a leader has no Xi and nothing to finalize with.
LEMMA NotJoined ==
    ASSUME ViewInvariant, NEW c \in Leaders, ~HasJoined(c)
    PROVE  /\ \A d \in Leaders : view[d][c] = BlankEntry
           /\ handing[c] = NoKey /\ mainSessionKey[c] = NoKey
           /\ \A m \in net : IsXi(m) => m.from # c
<1>1. \A d \in Leaders : view[d][c] = BlankEntry
  BY DEF ViewInvariant
<1>2. ~Finished(c)
  BY <1>1, ReceivedNotBlank DEF ViewInvariant
<1>3. \A m \in net : IsXi(m) => m.from # c
  BY DEF ViewInvariant, XiPending, IsXi
<1>4. QED
  BY <1>1, <1>2, <1>3 DEF Finished

\* The step of a leader that still misses a neighbour key leaves all arrays.
LEMMA JoinWaiting ==
    ASSUME TypeOK, ViewInvariant, NEW c \in Leaders, NEW left, NEW right, NEW before,
           Joins(c, left, right, before), left = Zero \/ right = Zero
    PROVE  Advance(before)
<1>1. /\ net' = before
      /\ UNCHANGED <<exited, view, handing, mainSessionKey>>
  BY DEF Joins, checkLeftRightKeys
<1>2. \A d \in Leaders : HasJoined(d)' = HasJoined(d)
  BY DEF Joins, HasJoined, TypeOK
<1>3. \A d \in Leaders : /\ keyLeft'[d] \in {Zero, EdgeKey(LeftClusterID(d))}
                         /\ keyRight'[d] \in {Zero, EdgeKey(d)}
  BY DEF Joins, ViewInvariant, TypeOK
<1>4. \A d \in Leaders : \A m : m.from = d => XiPending(d, m)' = XiPending(d, m)
  BY <1>1, <1>2 DEF XiPending
<1>5. ASSUME NEW m \in net', IsXi(m) PROVE m \in net /\ XiPending(m.from, m)'
  <2>1. m \in net /\ m.from \in Leaders
    BY <1>1, <1>5 DEF Joins, TypeOK, Messages, IsXi
  <2>2. XiPending(m.from, m)
    BY <1>5, <2>1 DEF ViewInvariant, IsXi
  <2>3. QED
    BY <1>4, <2>1, <2>2
<1>6. ASSUME NEW d \in Leaders, handing[d] # NoKey
      PROVE  /\ \A m \in handing[d].unsent : XiPending(d, m)'
             /\ handing[d].unsent \intersect net' = {}
  <2>1. ASSUME NEW m \in handing[d].unsent PROVE XiPending(d, m)' /\ m \notin net'
    <3>1. XiPending(d, m)
      BY <1>6, <2>1 DEF ViewInvariant
    <3>2. m.from = d /\ IsXi(m)
      BY <3>1 DEF XiPending, IsXi
    <3>3. m \notin net
      BY <1>6, <2>1 DEF ViewInvariant
    <3>4. QED
      BY <1>4, <1>5, <3>1, <3>2, <3>3
  <2>2. QED
    BY <2>1
<1>7. \A d \in Leaders : Finished(d)' = Finished(d)
  BY <1>1 DEF Finished
<1>8. ViewInvariant'
  BY <1>1, <1>2, <1>3, <1>5, <1>6, <1>7 DEF ViewInvariant, IsXi
<1>9. NoSecondHandover
  BY <1>1 DEF NoSecondHandover, ViewInvariant
<1>10. QED
  BY <1>1, <1>8, <1>9 DEF Advance, Joins, TypeOK

\* The step of a leader that now has both keys: it makes its Xi, and sends it
\* or keeps it for after the handover.
LEMMA JoinMade ==
    ASSUME TypeOK, ViewInvariant, NEW c \in Leaders, NEW left, NEW right, NEW before,
           Joins(c, left, right, before), left # Zero, right # Zero
    PROVE  Advance(before)
<1>1. left = EdgeKey(LeftClusterID(c)) /\ right = EdgeKey(c)
  BY DEF Joins
<1>2. PICK r \in Coins :
        LET entry == XiEntry(c, right, left, r)
        IN  tryFinalizeProtocol(c, left, [view[c] EXCEPT ![c] = entry],
                                before, XiRiCommitmentMsgs(c, entry))
  BY DEF Joins, checkLeftRightKeys
<1> DEFINE entry == XiEntry(c, right, left, r)
           v     == [view[c] EXCEPT ![c] = entry]
           after == XiRiCommitmentMsgs(c, entry)
<1>3. Genuine(c, entry) /\ entry \in Entries /\ entry # BlankEntry
  BY <1>1, XiEntryGenuine, GenuineNotBlank
<1>4. tryFinalizeProtocol(c, left, v, before, after)
  BY <1>2
<1> HIDE DEF entry
<1>5. /\ v \in [Leaders -> Entries \union {BlankEntry}]
      /\ v[c] = entry
      /\ \A i \in Leaders : i # c => v[i] = view[c][i]
  BY <1>3 DEF TypeOK
<1>6. \A m \in after : /\ IsXi(m) /\ m.from = c /\ m.to # c /\ m.to \in Leaders
                       /\ m.entry = entry
  BY DEF XiRiCommitmentMsgs, IsXi
<1>7. after \subseteq Messages
  BY <1>3 DEF XiRiCommitmentMsgs, Messages
<1> HIDE DEF v, after
<1>8. \A i \in Leaders : v[i] # BlankEntry => Genuine(i, v[i])
  BY <1>3, <1>5 DEF ViewInvariant
<1>9. Outcome(c, v, before, after)
  BY <1>1, <1>4, <1>8, FinalizeOutcome
<1>10. /\ \A d \in Leaders : view[d][c] = BlankEntry
       /\ handing[c] = NoKey /\ mainSessionKey[c] = NoKey
       /\ \A m \in net : IsXi(m) => m.from # c
  BY NotJoined DEF Joins
<1>11. /\ HasJoined(c)'
       /\ \A d \in Leaders : d # c => HasJoined(d)' = HasJoined(d)
       /\ \A d \in Leaders : keyLeft'[d] \in {Zero, EdgeKey(LeftClusterID(d))}
       /\ \A d \in Leaders : keyRight'[d] \in {Zero, EdgeKey(d)}
  BY DEF Joins, HasJoined, TypeOK, ViewInvariant
<1>12. /\ view' \in [Leaders -> [Leaders -> Entries \union {BlankEntry}]]
       /\ view'[c] = v
       /\ \A d \in Leaders : d # c => view'[d] = view[d]
  BY <1>5, <1>9 DEF Outcome, TypeOK
<1>13. ASSUME NEW m, NEW d \in Leaders, m.from = d, d # c, XiPending(d, m), m.to \in Leaders
       PROVE  XiPending(d, m)'
  <2>1. view'[d][d] = view[d][d] /\ view'[m.to][d] = view[m.to][d]
    BY <1>5, <1>12, <1>13
  <2>2. QED
    BY <1>11, <1>13, <2>1 DEF XiPending
<1>14. ASSUME NEW m \in after PROVE XiPending(c, m)'
  <2>1. view'[c][c] = entry /\ view'[m.to][c] = BlankEntry
    BY <1>5, <1>6, <1>10, <1>12
  <2>2. QED
    BY <1>6, <1>11, <2>1 DEF XiPending, IsXi
<1>15. ASSUME NEW m \in before, IsXi(m) PROVE XiPending(m.from, m)' /\ m.from # c /\ m \in net
  <2>1. m \in net /\ m.from \in Leaders /\ m.to \in Leaders
    BY <1>15 DEF Joins, TypeOK, Messages, IsXi
  <2>2. XiPending(m.from, m) /\ m.from # c
    BY <1>10, <1>15, <2>1 DEF ViewInvariant, IsXi
  <2>3. QED
    BY <1>13, <2>1, <2>2
<1>16. ASSUME NEW d \in Leaders, d # c, handing[d] # NoKey, NEW m \in handing[d].unsent
       PROVE  XiPending(d, m)' /\ m \notin before \union after
  <2>1. XiPending(d, m) /\ m \notin net /\ handing[d].unsent \subseteq Messages
    BY <1>16 DEF ViewInvariant, TypeOK, Handovers
  <2>2. m.from = d /\ IsXi(m) /\ m.to \in Leaders
    BY <2>1 DEF XiPending, IsXi, Messages
  <2>3. QED
    BY <1>6, <1>13, <1>15, <1>16, <2>1, <2>2
<1>17. /\ net' \subseteq before \union after
       /\ \A d \in Leaders : d # c => handing'[d] = handing[d]
       /\ handing' \in [Leaders -> Handovers \union {NoKey}]
       /\ exited' = exited /\ mainSessionKey' = mainSessionKey
  <2>1. [key |-> RingKey, unsent |-> after] \in Handovers
    BY <1>7, HandoverType
  <2>2. handing \in [Leaders -> Handovers \union {NoKey}] /\ mainSessionKey' = mainSessionKey
    BY DEF TypeOK, Joins
  <2>3. QED
    BY <1>9, <2>1, <2>2 DEF Outcome
<1>18. ASSUME handing'[c] # NoKey
       PROVE  /\ ReceivedAllXs(v)
              /\ handing'[c].key = RingKey /\ handing'[c].unsent = after
              /\ net' = before
  BY <1>9, <1>10, <1>18 DEF Outcome, TypeOK
<1>19. \A m \in net' : IsXi(m) => XiPending(m.from, m)'
  BY <1>6, <1>14, <1>15, <1>17
<1>20. ASSUME NEW d \in Leaders, handing'[d] # NoKey
       PROVE  /\ handing'[d].key = RingKey
              /\ mainSessionKey'[d] = NoKey
              /\ \A m \in handing'[d].unsent : XiPending(d, m)'
              /\ handing'[d].unsent \intersect net' = {}
  <2>1. CASE d = c
    <3>1. \A m \in after : m \notin before
      BY <1>6, <1>15
    <3>2. QED
      BY <1>10, <1>14, <1>17, <1>18, <1>20, <2>1, <3>1
  <2>2. CASE d # c
    <3>1. handing'[d] = handing[d] /\ handing[d] # NoKey
      BY <1>17, <1>20, <2>2
    <3>2. handing[d].key = RingKey /\ mainSessionKey'[d] = NoKey
      BY <1>17, <3>1 DEF ViewInvariant
    <3>3. QED
      BY <1>16, <1>17, <2>2, <3>1, <3>2
  <2>3. QED
    BY <2>1, <2>2
<1>21. ASSUME NEW d \in Leaders, NEW i \in Leaders, view'[d][i] # BlankEntry
       PROVE  Genuine(i, view'[d][i]) /\ HasJoined(i)'
  BY <1>5, <1>8, <1>11, <1>12, <1>21 DEF ViewInvariant
<1>22. ASSUME NEW d \in Leaders, HasJoined(d)' PROVE view'[d][d] # BlankEntry
  BY <1>3, <1>5, <1>11, <1>12, <1>22 DEF ViewInvariant
<1>23. ASSUME NEW d \in Leaders, Finished(d)' PROVE ReceivedAllXs(view'[d])
  BY <1>10, <1>12, <1>17, <1>18, <1>23 DEF ViewInvariant, Finished, ReceivedAllXs
<1>24. ViewInvariant'
  <2>1. exited' = {} /\ \A d \in Leaders : mainSessionKey'[d] \in {NoKey, RingKey}
    BY <1>17 DEF ViewInvariant
  <2>2. QED
    BY <1>11, <1>19, <1>20, <1>21, <1>22, <1>23, <2>1, Zenon DEF ViewInvariant, IsXi
<1>25. NoSecondHandover
  BY <1>10, <1>17 DEF NoSecondHandover, ViewInvariant
<1>26. \A m \in net' : ~IsXi(m) => m \in before
  BY <1>6, <1>17
<1>27. net' \subseteq Messages
  BY <1>7, <1>17 DEF Joins
<1>28. QED
  BY <1>12, <1>17, <1>24, <1>25, <1>26, <1>27 DEF Advance

\* The handlers that bring a neighbour key preserve the first part of IndInv.
LEMMA JoinStep ==
    ASSUME TypeOK, ViewInvariant, NEW c \in Leaders, NEW left, NEW right, NEW before,
           Joins(c, left, right, before)
    PROVE  Advance(before)
  BY JoinWaiting, JoinMade

\* So does a handler that receives an Xi.
LEMMA XiStep ==
    ASSUME TypeOK, ViewInvariant, NEW c \in Leaders, NEW m \in net, Ready(c), m.to = c,
           onXiRiCommitment(c, m)
    PROVE  Advance(net \ {m})
<1> DEFINE a == m.from
           v == [view[c] EXCEPT ![a] = m.entry]
<1>1. /\ a \in Leaders /\ IsXi(m) /\ m.entry \in Entries
      /\ m = [type |-> "LeaderXiRiCommitment", from |-> a, to |-> c, entry |-> m.entry]
  BY DEF onXiRiCommitment, TypeOK, Messages, IsXi
<1>2. /\ a # c /\ HasJoined(a) /\ m.entry = view[a][a] /\ view[c][a] = BlankEntry
  BY <1>1 DEF ViewInvariant, XiPending, IsXi
<1>3. Genuine(a, m.entry) /\ m.entry # BlankEntry
  BY <1>1, <1>2 DEF ViewInvariant
<1>4. /\ UNCHANGED <<keyLeft, keyRight, mainSessionKey>>
      /\ tryFinalizeProtocol(c, keyLeft[c], v, net \ {m}, {})
  BY DEF onXiRiCommitment
<1> HIDE DEF a
<1>5. /\ v \in [Leaders -> Entries \union {BlankEntry}]
      /\ v[a] = m.entry
      /\ \A i \in Leaders : i # a => v[i] = view[c][i]
  BY <1>1 DEF TypeOK
<1> HIDE DEF v
<1>6. \A i \in Leaders : v[i] # BlankEntry => Genuine(i, v[i]) /\ HasJoined(i)
  BY <1>2, <1>3, <1>5 DEF ViewInvariant
<1>7. v[c] # BlankEntry => keyLeft[c] = EdgeKey(LeftClusterID(c))
  BY <1>6 DEF ViewInvariant, HasJoined
<1>8. Outcome(c, v, net \ {m}, {})
  BY <1>4, <1>6, <1>7, FinalizeOutcome
<1>9. handing[c] = NoKey /\ mainSessionKey[c] = NoKey
  BY <1>1, <1>2, ReceivedNotBlank DEF ViewInvariant, Finished
<1>10. /\ view' \in [Leaders -> [Leaders -> Entries \union {BlankEntry}]]
       /\ view'[c] = v
       /\ \A d \in Leaders : d # c => view'[d] = view[d]
  BY <1>5, <1>8 DEF Outcome, TypeOK
<1>11. /\ net' = net \ {m}
       /\ \A d \in Leaders : d # c => handing'[d] = handing[d]
       /\ handing' \in [Leaders -> Handovers \union {NoKey}]
       /\ exited' = exited
       /\ handing'[c] # NoKey => /\ ReceivedAllXs(v)
                                 /\ handing'[c].key = RingKey /\ handing'[c].unsent = {}
  BY <1>8, <1>9, HandoverType DEF Outcome, TypeOK
<1>12. \A d \in Leaders : HasJoined(d)' = HasJoined(d)
  BY <1>4 DEF HasJoined
<1>13. \A d \in Leaders : view'[d][d] = view[d][d]
  BY <1>2, <1>5, <1>10
<1>14. ASSUME NEW mm \in Messages, mm # m, NEW d \in Leaders, mm.from = d, XiPending(d, mm)
       PROVE  XiPending(d, mm)'
  <2>1. /\ mm.to \in Leaders
        /\ mm = [type |-> "LeaderXiRiCommitment", from |-> d, to |-> mm.to, entry |-> mm.entry]
    BY <1>14 DEF XiPending, Messages
  <2>2. mm.entry = view[d][d] /\ view[mm.to][d] = BlankEntry
    BY <1>14 DEF XiPending
  <2>3. ~(mm.to = c /\ d = a)
    BY <1>1, <1>2, <1>14, <2>1, <2>2
  <2>4. view'[mm.to][d] = view[mm.to][d]
    BY <1>5, <1>10, <2>1, <2>3
  <2>5. QED
    BY <1>12, <1>13, <1>14, <2>4 DEF XiPending
<1>15. ASSUME NEW mm \in net', IsXi(mm) PROVE XiPending(mm.from, mm)'
  <2>1. mm \in net /\ mm # m /\ mm \in Messages /\ mm.from \in Leaders
    BY <1>11, <1>15 DEF TypeOK, Messages
  <2>2. XiPending(mm.from, mm)
    BY <1>15, <2>1 DEF ViewInvariant, IsXi
  <2>3. QED
    BY <1>14, <2>1, <2>2
<1>16. ASSUME NEW d \in Leaders, handing'[d] # NoKey
       PROVE  /\ handing'[d].key = RingKey
              /\ mainSessionKey'[d] = NoKey
              /\ \A mm \in handing'[d].unsent : XiPending(d, mm)'
              /\ handing'[d].unsent \intersect net' = {}
  <2>1. CASE d = c
    BY <1>4, <1>9, <1>11, <1>16, <2>1
  <2>2. CASE d # c
    <3>1. handing'[d] = handing[d] /\ handing[d] # NoKey
      BY <1>11, <1>16, <2>2
    <3>2. /\ handing[d].key = RingKey /\ mainSessionKey'[d] = NoKey
          /\ \A mm \in handing[d].unsent : XiPending(d, mm)
          /\ handing[d].unsent \intersect net = {}
          /\ handing[d].unsent \subseteq Messages
      BY <1>4, <3>1 DEF ViewInvariant, TypeOK, Handovers
    <3>3. \A mm \in handing[d].unsent : mm # m /\ mm.from = d
      BY <3>2 DEF XiPending
    <3>4. QED
      BY <1>11, <1>14, <3>1, <3>2, <3>3
  <2>3. QED
    BY <2>1, <2>2
<1>17. ASSUME NEW d \in Leaders, NEW i \in Leaders, view'[d][i] # BlankEntry
       PROVE  Genuine(i, view'[d][i]) /\ HasJoined(i)'
  BY <1>6, <1>10, <1>12, <1>17 DEF ViewInvariant
<1>18. ASSUME NEW d \in Leaders, Finished(d)' PROVE ReceivedAllXs(view'[d])
  BY <1>4, <1>9, <1>10, <1>11, <1>18 DEF ViewInvariant, Finished, ReceivedAllXs
<1>19. ViewInvariant'
  <2>1. /\ exited' = {}
        /\ \A d \in Leaders : /\ mainSessionKey'[d] \in {NoKey, RingKey}
                              /\ keyLeft'[d] \in {Zero, EdgeKey(LeftClusterID(d))}
                              /\ keyRight'[d] \in {Zero, EdgeKey(d)}
                              /\ HasJoined(d)' => view'[d][d] # BlankEntry
    BY <1>4, <1>11, <1>12, <1>13 DEF ViewInvariant
  <2>2. QED
    BY <1>15, <1>16, <1>17, <1>18, <2>1, Zenon DEF ViewInvariant, IsXi
<1>20. NoSecondHandover
  BY <1>9, <1>11 DEF NoSecondHandover, ViewInvariant
<1>21. QED
  BY <1>10, <1>11, <1>19, <1>20 DEF Advance, TypeOK

\* And the handover itself: the Xi messages that it sends are still pending.
LEMMA HandOverStep ==
    ASSUME TypeOK, ViewInvariant, NEW c \in Leaders, HandOver(c)
    PROVE  /\ Advance(net)
           /\ mainSessionKey' \in [Leaders -> SessionKeys \union {NoKey}]
<1>1. /\ handing[c] # NoKey
      /\ mainSessionKey' = [mainSessionKey EXCEPT ![c] = handing[c].key]
      /\ net' = net \union handing[c].unsent
      /\ handing' = [handing EXCEPT ![c] = NoKey]
      /\ UNCHANGED <<exited, keyLeft, keyRight, view>>
  BY DEF HandOver
<1>2. /\ handing[c].key = RingKey /\ mainSessionKey[c] = NoKey
      /\ \A m \in handing[c].unsent : XiPending(c, m)
      /\ ReceivedAllXs(view[c])
  BY <1>1 DEF ViewInvariant, Finished
<1>3. handing[c].unsent \subseteq Messages
  BY <1>1 DEF TypeOK, Handovers
<1>4. \A m \in handing[c].unsent : IsXi(m) /\ m.from = c
  BY <1>2 DEF XiPending, IsXi
<1>5. \A d : HasJoined(d)' = HasJoined(d)
  BY <1>1 DEF HasJoined
<1>6. \A d : \A m : XiPending(d, m)' = XiPending(d, m)
  BY <1>1, <1>5 DEF XiPending
<1>7. \A m \in net' : IsXi(m) => XiPending(m.from, m)'
  BY <1>1, <1>2, <1>4, <1>6 DEF ViewInvariant, IsXi
<1>8. ASSUME NEW d \in Leaders, handing'[d] # NoKey
      PROVE  /\ handing'[d].key = RingKey
             /\ mainSessionKey'[d] = NoKey
             /\ \A m \in handing'[d].unsent : XiPending(d, m)'
             /\ handing'[d].unsent \intersect net' = {}
  <2>1. d # c /\ handing'[d] = handing[d] /\ mainSessionKey'[d] = mainSessionKey[d]
    BY <1>1, <1>8 DEF TypeOK
  <2>2. /\ handing[d].key = RingKey /\ mainSessionKey[d] = NoKey
        /\ \A m \in handing[d].unsent : XiPending(d, m)
        /\ handing[d].unsent \intersect net = {}
    BY <1>8, <2>1 DEF ViewInvariant
  <2>3. \A m \in handing[d].unsent : m.from # c
    BY <2>1, <2>2 DEF XiPending
  <2>4. QED
    BY <1>1, <1>4, <1>6, <2>1, <2>2, <2>3
<1>9. \A d \in Leaders : mainSessionKey'[d] \in {NoKey, RingKey}
  BY <1>1, <1>2 DEF ViewInvariant, TypeOK
<1>10. ASSUME NEW d \in Leaders, Finished(d)' PROVE ReceivedAllXs(view'[d])
  BY <1>1, <1>2, <1>10 DEF ViewInvariant, Finished, TypeOK
<1>11. ViewInvariant'
  BY <1>1, <1>5, <1>7, <1>8, <1>9, <1>10 DEF ViewInvariant, IsXi
<1>12. NoSecondHandover
  BY <1>1 DEF NoSecondHandover, ViewInvariant, TypeOK
<1>13. QED
  BY <1>1, <1>2, <1>3, <1>4, <1>11, <1>12, RingKeyType DEF Advance, TypeOK
-----------------------------------------------------------------------------
\* The parts of the type invariant that Advance leaves open.
EdgeTypes ==
    /\ edge \in [Leaders -> EdgeModes]
    /\ started \subseteq Leaders
    /\ exited \subseteq started
    /\ keyLeft \in [Leaders -> Keys]
    /\ keyRight \in [Leaders -> Keys]
    /\ fetching \in [Leaders -> Leaders \union {NoKey}]
    /\ requester \in [Leaders -> {"none", "asking", "offering", "sending", "done"}]
    /\ mainSessionKey \in [Leaders -> SessionKeys \union {NoKey}]

\* What each step is shown to do.
Preserves == IndInv' /\ NoSecondHandover

\* The two parts of the invariant together: an Xi says nothing about the edges.
LEMMA Combine ==
    ASSUME NEW before, Advance(before), EdgeTypes',
           \A c \in Leaders : EdgeLeader(c)',
           \A m \in before : EdgeMessage(m)'
    PROVE  Preserves
<1>1. TypeOK'
  BY DEF Advance, EdgeTypes, TypeOK
<1>2. \A m \in net' : EdgeMessage(m)'
  BY DEF Advance, IsXi, EdgeMessage
<1>3. QED
  BY <1>1, <1>2 DEF Advance, EdgeInvariant, IndInv, Preserves

\* Messages of the 2-AKE and with key IDs are determined by their sender and
\* recipient.
LEMMA SameMessage ==
    ASSUME NEW m \in Messages, NEW n \in Messages,
           m.type = n.type, m.from = n.from, m.to = n.to,
           m.type \in {"LeadAkeOne", "LeadAkeTwo"}
    PROVE  m = n
<1>1. m = [type |-> m.type, from |-> m.from, to |-> m.to]
  BY DEF Messages
<1>2. n = [type |-> n.type, from |-> n.from, to |-> n.to]
  BY DEF Messages
<1>3. QED
  BY <1>1, <1>2

\* And so is a message with a key ID, by the ID.
LEMMA SameKeyID ==
    ASSUME NEW m \in Messages, NEW n \in Messages,
           m.from = n.from, m.to = n.to, m.type = "QKDIDLeader", n.type = "QKDIDLeader",
           m.id = n.id
    PROVE  m = n
<1>1. m = [type |-> "QKDIDLeader", from |-> m.from, to |-> m.to, id |-> m.id]
  BY DEF Messages
<1>2. n = [type |-> "QKDIDLeader", from |-> n.from, to |-> n.to, id |-> n.id]
  BY DEF Messages
<1>3. QED
  BY <1>1, <1>2

\* The left key comes once: the 2-AKE that the message began is still open.
LEMMA AkeOneStep ==
    ASSUME IndInv, NEW c \in Leaders, NEW m \in net, Ready(c), m.to = c, onAkeOne(c, m)
    PROVE  Preserves
<1> USE DEF IndInv
<1>1. /\ m \in Messages /\ m.type = "LeadAkeOne" /\ m.from \in Leaders
  BY DEF onAkeOne, TypeOK, Messages
<1>2. /\ m.from = LeftClusterID(c) /\ edge[m.from] = "kem" /\ m.from \in started
      /\ keyRight[m.from] = Zero /\ keyLeft[c] = Zero
  BY <1>1, RingIndex DEF EdgeInvariant, EdgeMessage
<1>3. c \in started /\ fetching[c] = NoKey
  BY DEF Ready, Running
<1> DEFINE before == (net \ {m}) \union {AkeTwoMsg(c, m.from)}
<1>4. /\ keyLeft' = [keyLeft EXCEPT ![c] = EdgeKey(LeftClusterID(c))]
      /\ keyRight' = keyRight
      /\ checkLeftRightKeys(c, EdgeKey(LeftClusterID(c)), keyRight[c], before)
      /\ UNCHANGED <<edge, started, fetching, requester, mainSessionKey>>
  BY <1>2 DEF onAkeOne, NewLeftKey, EdgeKey
<1>5. Joins(c, EdgeKey(LeftClusterID(c)), keyRight[c], before)
  <2>1. keyRight[c] \in {Zero, EdgeKey(c)} /\ ~HasJoined(c)
    BY <1>2 DEF ViewInvariant, HasJoined
  <2>2. AkeTwoMsg(c, m.from) \in Messages /\ ~IsXi(AkeTwoMsg(c, m.from))
    BY <1>1 DEF AkeTwoMsg, Messages, IsXi
  <2>3. keyRight' = [keyRight EXCEPT ![c] = keyRight[c]]
    BY <1>4 DEF TypeOK
  <2>4. QED
    BY <1>4, <2>1, <2>2, <2>3 DEF Joins, TypeOK
<1>6. Advance(before)
  BY <1>5, JoinStep
<1>7. EdgeTypes'
  BY <1>4, <1>6, RingIndex, EdgeKeyType DEF EdgeTypes, TypeOK, Advance
<1>8. /\ keyLeft'[c] # Zero
      /\ \A d \in Leaders : d # c => keyLeft'[d] = keyLeft[d]
  BY <1>4, RingIndex, EdgeKeyType DEF TypeOK
<1>9. ASSUME NEW d \in Leaders PROVE EdgeLeader(d)'
  <2>1. EdgeLeader(d) /\ RightClusterID(d) \in Leaders
        /\ (RightClusterID(d) = c => d = m.from)
    BY <1>2, RingIndex DEF EdgeInvariant
  <2>2. QED
    BY <1>2, <1>3, <1>4, <1>8, <2>1 DEF EdgeLeader
<1>10. ASSUME NEW n \in before PROVE EdgeMessage(n)'
  <2>1. CASE n = AkeTwoMsg(c, m.from)
    BY <1>1, <1>2, <1>4, <1>8, <2>1, RingIndex DEF AkeTwoMsg, EdgeMessage
  <2>2. CASE n \in net \ {m}
    <3>1. /\ EdgeMessage(n) /\ n \in Messages /\ n # m
          /\ n.from \in Leaders /\ n.to \in Leaders
      BY <2>2 DEF EdgeInvariant, TypeOK, Messages
    <3>2. n.type = "LeadAkeOne" => n.to # c
      BY <1>1, <1>2, <3>1, SameMessage, RingIndex DEF EdgeMessage
    <3>3. n.type = "QKDIDLeader" => n.to # c
      BY <1>2, <3>1, RingIndex DEF EdgeMessage
    <3>4. QED
      BY <1>3, <1>4, <1>8, <3>1, <3>2, <3>3 DEF EdgeMessage
  <2>3. QED
    BY <2>1, <2>2
<1>11. QED
  BY <1>6, <1>7, <1>9, <1>10, Combine

\* The right key comes once: an answer means that no first message is on its way.
LEMMA AkeTwoStep ==
    ASSUME IndInv, NEW c \in Leaders, NEW m \in net, Ready(c), m.to = c, onAkeTwo(c, m)
    PROVE  Preserves
<1> USE DEF IndInv
<1>1. /\ m \in Messages /\ m.type = "LeadAkeTwo" /\ m.from \in Leaders
  BY DEF onAkeTwo, TypeOK, Messages
<1>2. /\ m.from = RightClusterID(c) /\ edge[c] = "kem" /\ c \in started
      /\ keyRight[c] = Zero /\ keyLeft[RightClusterID(c)] # Zero
  BY <1>1 DEF EdgeInvariant, EdgeMessage
<1> DEFINE before == net \ {m}
<1>3. /\ keyRight' = [keyRight EXCEPT ![c] = EdgeKey(c)]
      /\ keyLeft' = keyLeft
      /\ checkLeftRightKeys(c, keyLeft[c], EdgeKey(c), before)
      /\ UNCHANGED <<edge, started, fetching, requester, mainSessionKey>>
  BY DEF onAkeTwo, NewRightKey, EdgeKey
<1>4. Joins(c, keyLeft[c], EdgeKey(c), before)
  <2>1. keyLeft[c] \in {Zero, EdgeKey(LeftClusterID(c))} /\ ~HasJoined(c)
    BY <1>2 DEF ViewInvariant, HasJoined
  <2>2. keyLeft' = [keyLeft EXCEPT ![c] = keyLeft[c]]
    BY <1>3 DEF TypeOK
  <2>3. QED
    BY <1>3, <2>1, <2>2 DEF Joins, TypeOK
<1>5. Advance(before)
  BY <1>4, JoinStep
<1>6. EdgeTypes'
  BY <1>3, <1>5, EdgeKeyType DEF EdgeTypes, TypeOK, Advance
<1>7. \A d \in Leaders : d # c => keyRight'[d] = keyRight[d]
  BY <1>3 DEF TypeOK
<1>8. ASSUME NEW d \in Leaders PROVE EdgeLeader(d)'
  BY <1>2, <1>3, <1>7 DEF EdgeInvariant, EdgeLeader
<1>9. ASSUME NEW n \in before PROVE EdgeMessage(n)'
  <2>1. /\ EdgeMessage(n) /\ n \in Messages /\ n # m
        /\ n.from \in Leaders /\ n.to \in Leaders
    BY DEF EdgeInvariant, TypeOK, Messages
  <2>2. n.type = "LeadAkeOne" => n.from # c
    BY <1>2, <2>1 DEF EdgeMessage
  <2>3. n.type = "LeadAkeTwo" => n.to # c
    BY <1>1, <1>2, <2>1, SameMessage DEF EdgeMessage
  <2>4. QED
    BY <1>3, <1>7, <2>1, <2>2, <2>3 DEF EdgeMessage
<1>10. QED
  BY <1>5, <1>6, <1>8, <1>9, Combine

\* The left key from the ETSI server comes once: it is asked for once.
LEMMA LeftKeyStep ==
    ASSUME IndInv, NEW c \in Leaders, onLeftKey(c), NewLeftKey(c, {Share[fetching[c]]}, net)
    PROVE  Preserves
<1> USE DEF IndInv
<1>1. /\ fetching[c] = LeftClusterID(c) /\ edge[LeftClusterID(c)] = "url"
      /\ keyLeft[c] = Zero /\ fetching[c] # NoKey /\ c \in started
  BY DEF EdgeInvariant, EdgeLeader, onLeftKey, Running
<1>2. /\ keyLeft' = [keyLeft EXCEPT ![c] = EdgeKey(LeftClusterID(c))]
      /\ keyRight' = keyRight
      /\ checkLeftRightKeys(c, EdgeKey(LeftClusterID(c)), keyRight[c], net)
      /\ fetching' = [fetching EXCEPT ![c] = NoKey]
      /\ UNCHANGED <<edge, started, requester, mainSessionKey>>
  BY <1>1 DEF onLeftKey, NewLeftKey, EdgeKey
<1>3. Joins(c, EdgeKey(LeftClusterID(c)), keyRight[c], net)
  <2>1. keyRight[c] \in {Zero, EdgeKey(c)} /\ ~HasJoined(c)
    BY <1>1 DEF ViewInvariant, HasJoined
  <2>2. keyRight' = [keyRight EXCEPT ![c] = keyRight[c]]
    BY <1>2 DEF TypeOK
  <2>3. QED
    BY <1>2, <2>1, <2>2 DEF Joins, TypeOK
<1>4. Advance(net)
  BY <1>3, JoinStep
<1>5. EdgeTypes'
  BY <1>2, <1>4, RingIndex, EdgeKeyType DEF EdgeTypes, TypeOK, Advance
<1>6. /\ keyLeft'[c] # Zero /\ fetching'[c] = NoKey
      /\ \A d \in Leaders : d # c => keyLeft'[d] = keyLeft[d] /\ fetching'[d] = fetching[d]
  BY <1>2, RingIndex, EdgeKeyType DEF TypeOK
<1>7. ASSUME NEW d \in Leaders PROVE EdgeLeader(d)'
  <2>1. /\ EdgeLeader(d) /\ RightClusterID(d) \in Leaders
        /\ RightClusterID(d) = c => d = LeftClusterID(c)
    BY RingIndex DEF EdgeInvariant
  <2>2. QED
    BY <1>1, <1>2, <1>6, <2>1 DEF EdgeLeader
<1>8. ASSUME NEW n \in net PROVE EdgeMessage(n)'
  <2>1. /\ EdgeMessage(n) /\ n.from \in Leaders /\ n.to \in Leaders
    BY DEF EdgeInvariant, TypeOK, Messages
  <2>2. n.type \in {"LeadAkeOne", "QKDIDLeader"} => n.to # c
    BY <1>1, <2>1, RingIndex DEF EdgeMessage
  <2>3. QED
    BY <1>2, <1>6, <2>1, <2>2 DEF EdgeMessage
<1>9. QED
  BY <1>4, <1>5, <1>7, <1>8, Combine

\* The right key from the ETSI server comes once: the goroutine offers it once.
LEMMA RightKeyStep ==
    ASSUME IndInv, NEW c \in Leaders, onRightKey(c), NewRightKey(c, {Share[c]}, net)
    PROVE  Preserves
<1> USE DEF IndInv
<1>1. requester[c] = "offering" /\ edge[c] = "url" /\ keyRight[c] = Zero /\ c \in started
  BY DEF EdgeInvariant, EdgeLeader, onRightKey, Ready, Running
<1>2. /\ keyRight' = [keyRight EXCEPT ![c] = EdgeKey(c)]
      /\ keyLeft' = keyLeft
      /\ checkLeftRightKeys(c, keyLeft[c], EdgeKey(c), net)
      /\ requester' = [requester EXCEPT ![c] = "sending"]
      /\ UNCHANGED <<edge, started, fetching, mainSessionKey>>
  BY DEF onRightKey, NewRightKey, EdgeKey
<1>3. Joins(c, keyLeft[c], EdgeKey(c), net)
  <2>1. keyLeft[c] \in {Zero, EdgeKey(LeftClusterID(c))} /\ ~HasJoined(c)
    BY <1>1 DEF ViewInvariant, HasJoined
  <2>2. keyLeft' = [keyLeft EXCEPT ![c] = keyLeft[c]]
    BY <1>2 DEF TypeOK
  <2>3. QED
    BY <1>2, <2>1, <2>2 DEF Joins, TypeOK
<1>4. Advance(net)
  BY <1>3, JoinStep
<1>5. EdgeTypes'
  BY <1>2, <1>4, EdgeKeyType DEF EdgeTypes, TypeOK, Advance
<1>6. /\ requester'[c] = "sending"
      /\ \A d \in Leaders : d # c =>
            keyRight'[d] = keyRight[d] /\ requester'[d] = requester[d]
  BY <1>2 DEF TypeOK
<1>7. ASSUME NEW d \in Leaders PROVE EdgeLeader(d)'
  BY <1>1, <1>2, <1>6 DEF EdgeInvariant, EdgeLeader
<1>8. ASSUME NEW n \in net PROVE EdgeMessage(n)'
  <2>1. EdgeMessage(n) /\ n.from \in Leaders /\ n.to \in Leaders
    BY DEF EdgeInvariant, TypeOK, Messages
  <2>2. /\ n.type \in {"LeadAkeOne", "QKDIDLeader"} => n.from # c
        /\ n.type = "LeadAkeTwo" => n.to # c
    BY <1>1, <2>1 DEF EdgeMessage
  <2>3. QED
    BY <1>2, <1>6, <2>1, <2>2 DEF EdgeMessage
<1>9. QED
  BY <1>4, <1>5, <1>7, <1>8, Combine

\* A step that leaves the keys and arrays alone and sends no Xi.
LEMMA QuietStep ==
    ASSUME TypeOK, ViewInvariant,
           UNCHANGED <<exited, keyLeft, keyRight, view, handing, mainSessionKey>>,
           net' \subseteq Messages, \A m \in net' : IsXi(m) => m \in net
    PROVE  Advance(net')
<1>1. \A d : HasJoined(d)' = HasJoined(d) /\ Finished(d)' = Finished(d)
  BY DEF HasJoined, Finished
<1>2. \A d : \A m : XiPending(d, m)' = XiPending(d, m)
  BY <1>1 DEF XiPending
<1>3. \A m \in net' : IsXi(m) => XiPending(m.from, m)'
  BY <1>2 DEF ViewInvariant, IsXi
<1>4. ASSUME NEW d \in Leaders, handing[d] # NoKey
      PROVE  /\ \A m \in handing[d].unsent : XiPending(d, m)'
             /\ handing[d].unsent \intersect net' = {}
  <2>1. ASSUME NEW m \in handing[d].unsent PROVE XiPending(d, m)' /\ m \notin net'
    <3>1. XiPending(d, m) /\ m \notin net
      BY <1>4, <2>1 DEF ViewInvariant
    <3>2. IsXi(m)
      BY <3>1 DEF XiPending, IsXi
    <3>3. QED
      BY <1>2, <3>1, <3>2
  <2>2. QED
    BY <2>1
<1>5. ViewInvariant'
  BY <1>1, <1>3, <1>4 DEF ViewInvariant, IsXi
<1>6. NoSecondHandover
  BY DEF NoSecondHandover, ViewInvariant
<1>7. QED
  BY <1>5, <1>6 DEF Advance, TypeOK

\* The answer is dropped: the request is over, and c stays without its left key.
LEMMA LeftKeyDropped ==
    ASSUME IndInv, NEW c \in Leaders, onLeftKey(c), DropKey
    PROVE  Preserves
<1> USE DEF IndInv
<1>1. /\ fetching' = [fetching EXCEPT ![c] = NoKey]
      /\ UNCHANGED <<edge, started, exited, keyLeft, keyRight, view, handing, requester,
                     mainSessionKey, net>>
  BY DEF onLeftKey, DropKey
<1>2. Advance(net')
  BY <1>1, QuietStep DEF TypeOK
<1>3. EdgeTypes'
  BY <1>1 DEF EdgeTypes, TypeOK
<1>4. \A d \in Leaders : fetching'[d] \in {fetching[d], NoKey}
  BY <1>1 DEF TypeOK
<1>5. ASSUME NEW d \in Leaders PROVE EdgeLeader(d)'
  BY <1>1, <1>4, RingIndex DEF EdgeInvariant, EdgeLeader
<1>6. ASSUME NEW n \in net' PROVE EdgeMessage(n)'
  <2>1. EdgeMessage(n) /\ n.to \in Leaders
    BY <1>1 DEF EdgeInvariant, TypeOK, Messages
  <2>2. QED
    BY <1>1, <1>4, <2>1 DEF EdgeMessage
<1>7. QED
  BY <1>2, <1>3, <1>5, <1>6, Combine

\* The answer is dropped: the goroutine sends its ID all the same.
LEMMA RightKeyDropped ==
    ASSUME IndInv, NEW c \in Leaders, onRightKey(c), DropKey
    PROVE  Preserves
<1> USE DEF IndInv
<1>1. /\ requester[c] = "offering" /\ edge[c] = "url" /\ keyRight[c] = Zero /\ c \in started
      /\ requester' = [requester EXCEPT ![c] = "sending"]
      /\ UNCHANGED <<edge, started, exited, keyLeft, keyRight, view, fetching, handing,
                     mainSessionKey, net>>
  BY DEF EdgeInvariant, EdgeLeader, onRightKey, DropKey, Ready, Running
<1>2. Advance(net')
  BY <1>1, QuietStep DEF TypeOK
<1>3. EdgeTypes'
  BY <1>1 DEF EdgeTypes, TypeOK
<1>4. /\ requester'[c] = "sending"
      /\ \A d \in Leaders : d # c => requester'[d] = requester[d]
  BY <1>1 DEF TypeOK
<1>5. ASSUME NEW d \in Leaders PROVE EdgeLeader(d)'
  BY <1>1, <1>4 DEF EdgeInvariant, EdgeLeader
<1>6. ASSUME NEW n \in net' PROVE EdgeMessage(n)'
  <2>1. EdgeMessage(n) /\ n.from \in Leaders
    BY <1>1 DEF EdgeInvariant, TypeOK, Messages
  <2>2. n.type = "QKDIDLeader" => n.from # c
    BY <1>1, <2>1 DEF EdgeMessage
  <2>3. QED
    BY <1>1, <1>4, <2>1, <2>2 DEF EdgeMessage
<1>7. QED
  BY <1>2, <1>3, <1>5, <1>6, Combine

\* A key ID is sent once, when its key has been offered, and is received once.
LEMMA QKDIDStep ==
    ASSUME IndInv, NEW c \in Leaders, NEW m \in net, Ready(c), m.to = c, onQKDID(c, m)
    PROVE  Preserves
<1> USE DEF IndInv
<1>1. /\ m \in Messages /\ m.type = "QKDIDLeader" /\ m.from \in Leaders /\ m.id \in Leaders
  BY DEF onQKDID, TypeOK, Messages
<1>2. /\ m.from = LeftClusterID(c) /\ m.id = m.from /\ edge[m.from] = "url"
      /\ requester[m.from] = "done" /\ keyLeft[c] = Zero /\ c \in started
  BY <1>1, RingIndex DEF EdgeInvariant, EdgeMessage, Ready, Running
<1>3. /\ fetching' = [fetching EXCEPT ![c] = LeftClusterID(c)]
      /\ net' = net \ {m}
      /\ UNCHANGED <<edge, started, exited, keyLeft, keyRight, view, handing, requester,
                     mainSessionKey>>
  BY <1>2 DEF onQKDID
<1>4. Advance(net')
  BY <1>3, QuietStep DEF TypeOK
<1>5. EdgeTypes'
  BY <1>3, RingIndex DEF EdgeTypes, TypeOK
<1>6. /\ fetching'[c] = LeftClusterID(c)
      /\ \A d \in Leaders : d # c => fetching'[d] = fetching[d]
  BY <1>3 DEF TypeOK
<1>7. ASSUME NEW d \in Leaders PROVE EdgeLeader(d)'
  <2>1. /\ EdgeLeader(d) /\ RightClusterID(d) \in Leaders
        /\ RightClusterID(d) = c => d = LeftClusterID(c)
    BY RingIndex DEF EdgeInvariant
  <2>2. QED
    BY <1>2, <1>3, <1>6, <2>1 DEF EdgeLeader
<1>8. ASSUME NEW n \in net' PROVE EdgeMessage(n)'
  <2>1. /\ EdgeMessage(n) /\ n \in Messages /\ n # m
        /\ n.from \in Leaders /\ n.to \in Leaders
    BY <1>3 DEF EdgeInvariant, TypeOK, Messages
  <2>2. n.type = "QKDIDLeader" => n.to # c
    BY <1>1, <1>2, <2>1, SameKeyID, RingIndex DEF EdgeMessage
  <2>3. QED
    BY <1>3, <1>6, <2>1, <2>2 DEF EdgeMessage
<1>9. QED
  BY <1>4, <1>5, <1>7, <1>8, Combine

\* The goroutine of main.
LEMMA GoroutineStep ==
    ASSUME IndInv, NEW c \in Leaders, Goroutine(c)
    PROVE  Preserves
<1> USE DEF IndInv
<1>1. CASE RequestKey(c)
  <2>1. /\ requester[c] = "asking" /\ edge[c] = "url" /\ keyRight[c] = Zero /\ c \in started
        /\ requester' = [requester EXCEPT ![c] = "offering"]
        /\ UNCHANGED <<edge, started, exited, keyLeft, keyRight, view, fetching, handing,
                       mainSessionKey, net>>
    BY <1>1 DEF EdgeInvariant, EdgeLeader, RequestKey, Running
  <2>2. Advance(net')
    BY <2>1, QuietStep DEF TypeOK
  <2>3. EdgeTypes'
    BY <2>1 DEF EdgeTypes, TypeOK
  <2>4. /\ requester'[c] = "offering"
        /\ \A d \in Leaders : d # c => requester'[d] = requester[d]
    BY <2>1 DEF TypeOK
  <2>5. \A d \in Leaders : EdgeLeader(d)'
    BY <2>1, <2>4 DEF EdgeInvariant, EdgeLeader
  <2>6. ASSUME NEW n \in net' PROVE EdgeMessage(n)'
    <3>1. EdgeMessage(n) /\ n.from \in Leaders
      BY <2>1 DEF EdgeInvariant, TypeOK, Messages
    <3>2. QED
      BY <2>1, <2>4, <3>1 DEF EdgeMessage
  <2>7. QED
    BY <2>2, <2>3, <2>5, <2>6, Combine
<1>2. CASE SendQKDID(c)
  <2>1. /\ requester[c] = "sending" /\ edge[c] = "url"
        /\ keyLeft[RightClusterID(c)] = Zero /\ fetching[RightClusterID(c)] = NoKey
        /\ requester' = [requester EXCEPT ![c] = "done"]
        /\ net' = net \union {QKDIDMsg(c)}
        /\ UNCHANGED <<edge, started, exited, keyLeft, keyRight, view, fetching, handing,
                       mainSessionKey>>
    BY <1>2 DEF EdgeInvariant, EdgeLeader, SendQKDID
  <2>2. QKDIDMsg(c) \in Messages /\ ~IsXi(QKDIDMsg(c))
    BY RingIndex DEF QKDIDMsg, Messages, IsXi
  <2>3. Advance(net')
    BY <2>1, <2>2, QuietStep DEF TypeOK
  <2>4. EdgeTypes'
    BY <2>1 DEF EdgeTypes, TypeOK
  <2>5. /\ requester'[c] = "done"
        /\ \A d \in Leaders : d # c => requester'[d] = requester[d]
    BY <2>1 DEF TypeOK
  <2>6. \A d \in Leaders : EdgeLeader(d)'
    BY <1>2, <2>1, <2>5 DEF EdgeInvariant, EdgeLeader, SendQKDID, Running
  <2>7. ASSUME NEW n \in net' PROVE EdgeMessage(n)'
    <3>1. CASE n = QKDIDMsg(c)
      BY <2>1, <2>5, <3>1 DEF QKDIDMsg, EdgeMessage
    <3>2. CASE n \in net
      <4>1. EdgeMessage(n) /\ n.from \in Leaders
        BY <3>2 DEF EdgeInvariant, TypeOK, Messages
      <4>2. QED
        BY <2>1, <2>5, <4>1 DEF EdgeMessage
    <3>3. QED
      BY <2>1, <3>1, <3>2
  <2>8. QED
    BY <2>3, <2>4, <2>6, <2>7, Combine
<1>3. QED
  BY <1>1, <1>2 DEF Goroutine

\* A step that leaves the way to the neighbour keys alone.
LEMMA EdgesKept ==
    ASSUME IndInv, NEW before \in SUBSET net, Advance(before),
           UNCHANGED <<edge, started, keyLeft, keyRight, fetching, requester>>,
           mainSessionKey' \in [Leaders -> SessionKeys \union {NoKey}]
    PROVE  Preserves
<1>1. EdgeTypes'
  BY DEF IndInv, EdgeTypes, TypeOK, Advance
<1>2. \A d \in Leaders : EdgeLeader(d)'
  BY DEF IndInv, EdgeInvariant, EdgeLeader
<1>3. \A n \in before : EdgeMessage(n)'
  BY DEF IndInv, EdgeInvariant, EdgeMessage
<1>4. QED
  BY <1>1, <1>2, <1>3, Combine

\* The events after a leader has both its keys.
LEMMA XiAndHandOver ==
    ASSUME IndInv, NEW c \in Leaders,
           \/ HandOver(c)
           \/ \E m \in net : Ready(c) /\ m.to = c /\ onXiRiCommitment(c, m)
    PROVE  Preserves
<1>1. CASE HandOver(c)
  <2>1. /\ Advance(net)
        /\ mainSessionKey' \in [Leaders -> SessionKeys \union {NoKey}]
    BY <1>1, HandOverStep DEF IndInv
  <2>2. UNCHANGED <<edge, started, keyLeft, keyRight, fetching, requester>>
    BY <1>1 DEF HandOver
  <2>3. QED
    BY <2>1, <2>2, EdgesKept
<1>2. ASSUME NEW m \in net, Ready(c), m.to = c, onXiRiCommitment(c, m)
      PROVE  Preserves
  <2>1. Advance(net \ {m})
    BY <1>2, XiStep DEF IndInv
  <2>2. /\ UNCHANGED <<edge, started, keyLeft, keyRight, fetching, requester>>
        /\ mainSessionKey' = mainSessionKey
    BY <1>2 DEF onXiRiCommitment
  <2>3. QED
    BY <2>1, <2>2, EdgesKept DEF IndInv, TypeOK
<1>3. QED
  BY <1>1, <1>2

\* A leader that starts gets the keys that are in files; nobody has sent it a
\* first message or a key ID that would bring such a key again.
LEMMA StartStep ==
    ASSUME IndInv, NEW c \in Leaders, Start(c)
    PROVE  Preserves
<1> USE DEF IndInv
<1> DEFINE l == LeftClusterID(c)
           right  == PathKey(edge[c], c)
           left   == PathKey(edge[l], l)
           before == IF edge[c] = "kem" THEN net \union {AkeOneMsg(c)} ELSE net
<1>1. /\ c \notin started /\ keyLeft[c] = Zero /\ keyRight[c] = Zero /\ requester[c] = "none"
      /\ edge[c] = "kem" => keyLeft[RightClusterID(c)] = Zero
      /\ l \in Leaders /\ RightClusterID(c) \in Leaders /\ RightClusterID(l) = c
  BY RingIndex DEF EdgeInvariant, EdgeLeader, Start
<1>2. /\ started' = started \union {c}
      /\ keyRight' = [keyRight EXCEPT ![c] = right]
      /\ keyLeft' = [keyLeft EXCEPT ![c] = left]
      /\ requester' = [requester EXCEPT ![c] = IF edge[c] = "url" THEN "asking" ELSE "none"]
      /\ checkLeftRightKeys(c, left, right, before)
      /\ UNCHANGED <<edge, fetching, mainSessionKey>>
  BY DEF Start, RightMode, LeftMode
<1>3. /\ left \in Keys /\ right \in Keys
      /\ left \in {Zero, EdgeKey(l)} /\ right \in {Zero, EdgeKey(c)}
      /\ edge[l] # "path" => left = Zero
      /\ edge[c] # "path" => right = Zero
  BY <1>1 DEF PathKey, EdgeKey, Keys, Secrets, Zero
<1>4. AkeOneMsg(c) \in Messages /\ ~IsXi(AkeOneMsg(c))
  BY <1>1 DEF AkeOneMsg, Messages, IsXi
<1> HIDE DEF left, right
<1>5. Joins(c, left, right, before)
  BY <1>1, <1>2, <1>3, <1>4 DEF Joins, TypeOK, HasJoined
<1>6. Advance(before)
  BY <1>5, JoinStep
<1>7. EdgeTypes'
  BY <1>2, <1>3, <1>6 DEF EdgeTypes, TypeOK, Advance
<1>8. /\ keyLeft'[c] = left /\ keyRight'[c] = right
      /\ requester'[c] = IF edge[c] = "url" THEN "asking" ELSE "none"
      /\ \A d \in Leaders : d # c => /\ keyLeft'[d] = keyLeft[d]
                                     /\ keyRight'[d] = keyRight[d]
                                     /\ requester'[d] = requester[d]
  BY <1>2 DEF TypeOK
<1>9. ASSUME NEW d \in Leaders PROVE EdgeLeader(d)'
  <2>1. /\ EdgeLeader(d) /\ RightClusterID(d) \in Leaders
        /\ RightClusterID(d) = c => d = l
    BY RingIndex DEF EdgeInvariant
  <2>2. /\ d \notin started' => d \notin started /\ d # c
        /\ requester[c] = "none"
    BY <1>1, <1>2
  <2>3. edge[d] \in {"kem", "url"} => keyLeft'[RightClusterID(d)] = keyLeft[RightClusterID(d)]
    BY <1>1, <1>3, <1>8, <2>1
  <2>4. CASE d = c
    <3>1. /\ requester'[c] # "none" => edge[c] = "url"
          /\ requester'[c] \in {"asking", "offering"} => keyRight'[c] = Zero
      BY <1>3, <1>8
    <3>2. edge[c] = "url" /\ requester'[c] # "done" =>
            keyLeft'[RightClusterID(c)] = Zero /\ fetching'[RightClusterID(c)] = NoKey
      BY <1>1, <1>2, <2>1, <2>3, <2>4 DEF EdgeLeader
    <3>3. fetching'[c] # NoKey =>
            fetching'[c] = l /\ edge[l] = "url" /\ keyLeft'[c] = Zero
      BY <1>2, <1>3, <1>8, <2>1, <2>4 DEF EdgeLeader
    <3>4. QED
      BY <1>2, <2>2, <2>4, <3>1, <3>2, <3>3 DEF EdgeLeader
  <2>5. CASE d # c
    BY <1>2, <1>8, <2>1, <2>2, <2>3, <2>5 DEF EdgeLeader
  <2>6. QED
    BY <2>4, <2>5
<1>10. ASSUME NEW n \in before PROVE EdgeMessage(n)'
  <2>1. CASE n \in net
    <3>1. /\ EdgeMessage(n) /\ n.from \in Leaders /\ n.to \in Leaders
      BY <2>1 DEF EdgeInvariant, TypeOK, Messages
    <3>2. CASE n.type = "LeadAkeOne"
      <4>1. n.from # c /\ (n.to = c => n.from = l /\ edge[l] = "kem")
        BY <1>1, <3>1, <3>2, RingIndex DEF EdgeMessage
      <4>2. QED
        BY <1>2, <1>3, <1>8, <3>1, <3>2, <4>1 DEF EdgeMessage
    <3>3. CASE n.type = "LeadAkeTwo"
      <4>1. n.to # c /\ n.from # c
        BY <1>1, <3>1, <3>3 DEF EdgeMessage
      <4>2. QED
        BY <1>2, <1>8, <3>1, <3>3, <4>1 DEF EdgeMessage
    <3>4. CASE n.type = "QKDIDLeader"
      <4>1. n.from # c /\ (n.to = c => edge[l] = "url")
        BY <1>1, <3>1, <3>4, RingIndex DEF EdgeMessage
      <4>2. QED
        BY <1>2, <1>3, <1>8, <3>1, <3>4, <4>1 DEF EdgeMessage
    <3>5. QED
      BY <3>2, <3>3, <3>4 DEF EdgeMessage
  <2>2. CASE n = AkeOneMsg(c) /\ edge[c] = "kem"
    <3>1. n.type = "LeadAkeOne" /\ n.from = c /\ n.to = RightClusterID(c)
      BY <2>2 DEF AkeOneMsg
    <3>2. RightClusterID(c) = c => l = c
      BY RingIndex
    <3>3. keyLeft'[RightClusterID(c)] = Zero
      BY <1>1, <1>3, <1>8, <2>2, <3>2
    <3>4. QED
      BY <1>2, <1>3, <1>8, <2>2, <3>1, <3>3 DEF EdgeMessage
  <2>3. QED
    BY <2>1, <2>2
<1>11. QED
  BY <1>6, <1>7, <1>9, <1>10, Combine
-----------------------------------------------------------------------------
\* The invariant holds before anybody has started.
LEMMA InitInd == Init => IndInv
<1> SUFFICES ASSUME Init PROVE IndInv
  OBVIOUS
<1>1. Zero \in Keys /\ ~(Zero # Zero)
  BY DEF Zero, Keys
<1>2. TypeOK
  BY <1>1 DEF Init, TypeOK
<1>3. ViewInvariant
  BY <1>1 DEF Init, ViewInvariant, HasJoined, Finished
<1>4. EdgeInvariant
  BY RingIndex DEF Init, EdgeInvariant, EdgeLeader
<1>5. QED
  BY <1>2, <1>3, <1>4 DEF IndInv

\* Nothing changes: in particular nothing is handed over.
LEMMA Stutter == IndInv /\ UNCHANGED vars => Preserves
<1> SUFFICES ASSUME IndInv, UNCHANGED vars PROVE Preserves
  OBVIOUS
<1>1. UNCHANGED <<edge, started, exited, keyLeft, keyRight, view, fetching, handing, requester,
                  mainSessionKey, net>>
  BY DEF vars
<1>2. Advance(net')
  BY <1>1, QuietStep DEF IndInv, TypeOK
<1>3. QED
  BY <1>1, <1>2, EdgesKept DEF IndInv, TypeOK

\* Every step preserves the invariant, and hands over nothing for a second time.
LEMMA NextInd == IndInv /\ [Next]_vars => Preserves
<1> SUFFICES ASSUME IndInv, [Next]_vars PROVE Preserves
  OBVIOUS
<1>1. ASSUME NEW c \in Leaders, NEW m \in net, handleMessage(c, m) PROVE Preserves
  BY <1>1, AkeOneStep, AkeTwoStep, XiAndHandOver, QKDIDStep DEF handleMessage
<1>2. ASSUME NEW c \in Leaders, onLeftKey(c) PROVE Preserves
  BY <1>2, LeftKeyStep, LeftKeyDropped DEF onLeftKey
<1>3. ASSUME NEW c \in Leaders, onRightKey(c) PROVE Preserves
  BY <1>3, RightKeyStep, RightKeyDropped DEF onRightKey
<1>4. QED
  BY <1>1, <1>2, <1>3, StartStep, GoroutineStep, XiAndHandOver, Stutter DEF Next, Idle

\* IndInv holds in every state the leaders reach, for every ring of clusters.
THEOREM Invariance == Spec => []IndInv
<1>1. IndInv /\ [Next]_vars => IndInv'
  BY NextInd DEF Preserves
<1>2. QED
  BY <1>1, InitInd, PTL DEF Spec

\* All fields, messages and handovers are of their type.
THEOREM TypeCorrect == Spec => []TypeOK
<1>1. IndInv => TypeOK
  BY DEF IndInv
<1>2. QED
  BY <1>1, Invariance, PTL

\* Whatever the mixture of edges and the order of messages and answers, every
\* cluster session gets the same main session key, that of the ring.
THEOREM MainKeyAgreementHolds == Spec => []MainKeyAgreement
<1>1. IndInv => MainKeyAgreement
  BY DEF IndInv, ViewInvariant, MainKeyAgreement
<1>2. QED
  BY <1>1, Invariance, PTL

\* Neither check of leader_protocol.tryFinalizeProtocol ever fails.
THEOREM NoAbortHolds == Spec => []NoAbort
<1>1. IndInv => NoAbort
  BY DEF IndInv, ViewInvariant, NoAbort
<1>2. QED
  BY <1>1, Invariance, PTL

\* No leader comes to wait a second time for its cluster session.
THEOREM HandedOverOnceHolds == Spec => HandedOverOnce
<1>1. IndInv /\ [Next]_vars => [NoSecondHandover]_vars
  BY NextInd DEF Preserves
<1>2. [NoSecondHandover]_vars <=>
        [\A c \in Leaders : mainSessionKey[c] # NoKey => handing'[c] = NoKey]_vars
  BY DEF NoSecondHandover
<1>3. QED
  BY <1>1, <1>2, Invariance, PTL DEF Spec, HandedOverOnce

\* With the same secret on both sides of one leader, no cluster session ever
\* gets a main session key, and no leader exits: its genuine Xi is zero.
THEOREM EqualNeighboursStallHolds == Spec => []EqualNeighboursStall
<1>1. IndInv => EqualNeighboursStall
  <2>1. SUFFICES ASSUME IndInv, NEW c \in Leaders, Share[c] = Share[LeftClusterID(c)],
                        NEW d \in Leaders
                 PROVE  mainSessionKey[d] = NoKey /\ d \notin exited
    BY DEF EqualNeighboursStall
  <2>2. ~Finished(d)
    <3>1. SUFFICES ASSUME Finished(d) PROVE FALSE
      OBVIOUS
    <3>2. ReceivedAllXs(view[d])
      BY <2>1, <3>1 DEF IndInv, ViewInvariant
    <3>3. view[d][c].x = XorKeys(EdgeKey(c), EdgeKey(LeftClusterID(c)))
      BY <2>1, <3>2, ReceivedNotBlank DEF IndInv, ViewInvariant, Genuine
    <3>4. view[d][c].x = Zero
      BY <2>1, <3>3, XorLaws DEF EdgeKey
    <3>5. QED
      BY <3>2, <3>4 DEF ReceivedAllXs
  <2>3. QED
    BY <2>1, <2>2 DEF IndInv, ViewInvariant, Finished
<1>2. QED
  BY <1>1, Invariance, PTL
=============================================================================
