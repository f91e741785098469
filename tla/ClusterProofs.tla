----------------------------- MODULE ClusterProofs -----------------------------
(***************************************************************************)
(* IndInv is an invariant of ClusterProtocol, for every number of members, *)
(* and with it the properties that the runs check on small clusters; and   *)
(* the protocol implements GroupKeyExchange.                               *)
(***************************************************************************)
EXTENDS ClusterRestart, GakeKeysProofs

\* The members form a ring, and each 2-AKE has its two ends at neighbours.
LEMMA RingIndex ==
    ASSUME NEW p \in Parties
    PROVE  /\ RightMemberID(p) \in Parties
           /\ (p + N - 1) % N \in Parties
           /\ (RightMemberID(p) + N - 1) % N = p
<1>1. N \in Nat \ {0} /\ p \in 0 .. N-1
  BY NAssumption DEF Parties
<1>2. RightMemberID(p) = IF p = N-1 THEN 0 ELSE p + 1
  BY <1>1, NextIndex DEF RightMemberID
<1>3. (p + N - 1) % N \in 0 .. N-1
  BY <1>1
<1>4. RightMemberID(p) \in 0 .. N-1
  BY <1>1, <1>2
<1>5. CASE p = N-1
  <2>1. RightMemberID(p) + N - 1 = N - 1
    BY <1>1, <1>2, <1>5
  <2>2. (N - 1) % N = N - 1
    BY <1>1
  <2>3. QED
    BY <1>3, <1>4, <1>5, <2>1, <2>2 DEF Parties
<1>6. CASE p # N-1
  <2>1. RightMemberID(p) + N - 1 = p + N
    BY <1>1, <1>2, <1>6
  <2>2. (p + N) % N = p
    BY <1>1
  <2>3. QED
    BY <1>3, <1>4, <2>1, <2>2 DEF Parties
<1>7. QED
  BY <1>5, <1>6

\* What a 2-AKE between first runs yields is the ring key of its responder.
LEMMA RingKeyType ==
    ASSUME NEW p \in Parties
    PROVE  /\ RingKey(p) \in Keys
           /\ RingKey(p) # Zero
           /\ RightMemberID(p) \in Parties
           /\ KexAkeSharedB(p, 1) = RingKey(RightMemberID(p))
           /\ KexAkeSharedA(p, 1, 1) = RingKey(RightMemberID(p))
<1>1. RingKey(p) # Zero
  BY DEF RingKey, Zero
<1>2. Secret((p + N - 1) % N, 1, 1) \in Secrets
  BY RingIndex DEF Secret, Secrets
<1>3. RingKey(p) \in Keys
  BY <1>2 DEF RingKey, Keys
<1>4. (RightMemberID(p) + N - 1) % N = p /\ RightMemberID(p) \in Parties
  BY RingIndex
<1>5. RingKey(RightMemberID(p)) = {Secret(p, 1, 1)}
  BY <1>4 DEF RingKey
<1>6. QED
  BY <1>1, <1>3, <1>4, <1>5, Zenon DEF KexAkeSharedB, KexAkeSharedA

\* The group key is a value of the type of session keys, and so is set.
LEMMA GroupKeyType == GroupKey \in SessionKeys /\ GroupKey # NoKey
<1>1. [q \in Parties |-> RingKey(q)] \in [Parties -> Keys]
  BY RingKeyType
<1>2. [q \in Parties |-> q] \in [Parties -> Parties]
  OBVIOUS
<1>3. GroupKey \in SessionKeys
  BY <1>1, <1>2 DEF GroupKey, SessionKeys
<1>4. QED
  BY <1>3, NoKeyAssumption

\* A member with its two ring keys makes a genuine entry.
LEMMA XiEntryGenuine ==
    ASSUME NEW p \in Parties, NEW r \in Coins
    PROVE  Genuine(p, XiEntry(p, RingKey(RightMemberID(p)), RingKey(p), r))
<1> DEFINE x == XorKeys(RingKey(RightMemberID(p)), RingKey(p))
<1>1. RingKey(RightMemberID(p)) \in Keys /\ RingKey(p) \in Keys
  BY RingKeyType
<1>2. x \in Keys
  BY <1>1 DEF Keys, XorKeys
<1> HIDE DEF x
<1>3. Commit_pke(p, x, p, r) \in Commitments
  BY <1>2 DEF Commit_pke, Commitments
<1> DEFINE entry == [x |-> x, r |-> r, commitment |-> Commit_pke(p, x, p, r), pid |-> p]
<1>4. entry \in Entries
  BY <1>2, <1>3 DEF Entries
<1>5. XiEntry(p, RingKey(RightMemberID(p)), RingKey(p), r) = entry
  BY DEF XiEntry, x
<1>6. Genuine(p, entry)
  BY <1>4 DEF Genuine, x
<1>7. QED
  BY <1>5, <1>6

\* Genuine entries from all pass both checks, and lead to the group key.
LEMMA ChecksOfRing ==
    ASSUME NEW p \in Parties, NEW v, \A i \in Parties : Genuine(i, v[i])
    PROVE  ChecksPass(v) /\ SessionKey(p, RingKey(p), v) = GroupKey
<1> DEFINE L == [q \in Parties |-> RingKey(q)]
<1>1. Xs(v) = RingXs(L, N)
  <2>1. \A i \in Parties : v[i].x = XorKeys(L[(i + 1) % N], L[i])
    BY RingIndex DEF Genuine, RightMemberID
  <2>2. QED
    BY <2>1, Zenon DEF Xs, RingXs, Parties
<1>2. CheckXs(RingXs(L, N), N)
  BY NAssumption, CheckXsOfRing
<1>3. checkCommitments(v)
  BY DEF checkCommitments, Genuine
<1>4. L[p] = RingKey(p)
  OBVIOUS
<1> HIDE DEF L
<1>5. \A q \in Parties : ComputeAllLeftKeys(N, p, L[p], RingXs(L, N))[q] = L[q]
  BY NAssumption, LeftKeysOfRing DEF Parties
<1>6. ComputeAllLeftKeys(N, p, L[p], RingXs(L, N)) = L
  <2>1. ComputeAllLeftKeys(N, p, L[p], RingXs(L, N)) =
            [q \in Parties |-> ComputeAllLeftKeys(N, p, L[p], RingXs(L, N))[q]]
    BY DEF ComputeAllLeftKeys, Parties
  <2>2. L = [q \in Parties |-> L[q]]
    BY DEF L
  <2>3. QED
    BY <1>5, <2>1, <2>2
<1>7. [i \in Parties |-> v[i].pid] = [q \in Parties |-> q]
  BY DEF Genuine
<1>8. SessionKey(p, RingKey(p), v) = computeSharedSecret(L, [q \in Parties |-> q])
  BY <1>1, <1>4, <1>6, <1>7 DEF SessionKey
<1>9. QED
  BY <1>1, <1>2, <1>3, <1>8, Zenon DEF ChecksPass, computeSharedSecret, GroupKey, L
-----------------------------------------------------------------------------
(***************************************************************************)
(* The three handlers of the key exchange change the state in one way:     *)
(* they add ring keys and genuine entries, they add the messages that go   *)
(* with them, and they finalize with the group key or not at all.          *)
(***************************************************************************)
Outcome(p, v, before, after) ==
    /\ view' = [view EXCEPT ![p] = v]
    /\ UNCHANGED status
    /\ \/ /\ net' = before \union after
          /\ UNCHANGED <<clusterSessionKey, mainSessionKey>>
       \/ /\ \A i \in Parties : v[i] # BlankEntry
          /\ clusterSessionKey' = [clusterSessionKey EXCEPT ![p] = GroupKey]
          /\ mainSessionKey' = [mainSessionKey EXCEPT ![p] = TransportedKey(p, GroupKey)]
          /\ net' = before \union TransportMsgs(p, GroupKey, mainSessionKey[p]) \union after

RingStep(p, v, before, after) ==
    /\ Outcome(p, v, before, after)
    /\ UNCHANGED <<epoch, keyCiphertext>>
    /\ keyLeft' \in [Parties -> Keys]
    /\ keyRight' \in [Parties -> Keys]
    /\ \A q \in Parties :
        /\ keyLeft'[q] \in {Zero, RingKey(q)}
        /\ keyRight'[q] \in {Zero, RingKey(RightMemberID(q))}
        /\ HasJoined(q) => HasJoined(q)'
        /\ q # p => HasJoined(q)' = HasJoined(q)
    /\ v \in [Parties -> Entries \union {BlankEntry}]
    /\ \A i \in Parties : v[i] # BlankEntry => Genuine(i, v[i]) /\ HasJoined(i)'
    /\ before \subseteq Messages
    /\ after \subseteq Messages
    /\ \A m \in before \union after : RingMessage(m)'
    /\ \A m \in before : m.type = "Key" => m \in net
    /\ \A m \in net : m.type = "Key" => m \in before
    /\ \A m \in after : m.type # "Key"

IsRingStep(p) == \E v, before, after : RingStep(p, v, before, after)

\* With genuine entries tryFinalizeProtocol never takes ExitWithMsg, and its
\* key is the group key.
LEMMA FinalizeOutcome ==
    ASSUME NEW p \in Parties, NEW left, NEW v, NEW before, NEW after,
           \A i \in Parties : v[i] # BlankEntry => Genuine(i, v[i]),
           v[p] # BlankEntry => left = RingKey(p),
           tryFinalizeProtocol(p, left, v, before, after)
    PROVE  Outcome(p, v, before, after)
<1>1. CASE Waiting(v, before, after)
  BY <1>1 DEF tryFinalizeProtocol, Waiting, Outcome
<1>2. CASE ReceivedAllXs(v)
  <2>1. \A i \in Parties : v[i] # BlankEntry
    BY <1>2 DEF ReceivedAllXs, BlankEntry
  <2>2. ChecksPass(v) /\ SessionKey(p, left, v) = GroupKey
    BY <2>1, ChecksOfRing
  <2>3. ~ExitWithMsg(p, v, before) /\ ~Waiting(v, before, after)
    BY <1>2, <2>2 DEF ExitWithMsg, Waiting
  <2>4. Finalize(p, left, v, before, after)
    BY <2>3 DEF tryFinalizeProtocol
  <2>5. QED
    BY <2>1, <2>2, <2>4 DEF tryFinalizeProtocol, Finalize, Outcome
<1>3. QED
  BY <1>1, <1>2 DEF tryFinalizeProtocol, ExitWithMsg, Finalize

\* What transportMainSessionKey stores and sends is of the right type.
LEMMA TransportType ==
    ASSUME TypeOK, NEW p \in Parties
    PROVE  /\ TransportedKey(p, GroupKey) \in MainKeys \union {NoKey}
           /\ TransportMsgs(p, GroupKey, mainSessionKey[p]) \subseteq Messages
<1>1. TransportedKey(p, GroupKey) \in MainKeys \union {NoKey}
  BY DEF TypeOK, TransportedKey, Decrypted, Ciphertexts
<1>2. TransportMsgs(p, GroupKey, mainSessionKey[p]) \subseteq Messages
  <2>1. CASE p = Leader /\ mainSessionKey[p] # NoKey
    <3>1. encryptAndHMAC(mainSessionKey[p], GroupKey) \in Ciphertexts
      BY <2>1, GroupKeyType DEF TypeOK, encryptAndHMAC, Ciphertexts
    <3>2. KeyMsgs(encryptAndHMAC(mainSessionKey[p], GroupKey)) \subseteq Messages
      BY <3>1, LeaderAssumption DEF KeyMsgs, Messages
    <3>3. QED
      BY <3>2 DEF TransportMsgs
  <2>2. CASE ~(p = Leader /\ mainSessionKey[p] # NoKey)
    BY <2>2 DEF TransportMsgs
  <2>3. QED
    BY <2>1, <2>2
<1>3. QED
  BY <1>1, <1>2

\* A step of the key exchange leaves all fields and messages of their type.
LEMMA RingStepType ==
    ASSUME TypeOK, NEW p \in Parties, NEW v, NEW before, NEW after,
           RingStep(p, v, before, after)
    PROVE  TypeOK'
<1>1. status' \in [Parties -> {"off", "up", "exited"}] /\ epoch' \in [Parties -> Nat]
  BY DEF TypeOK, RingStep, Outcome
<1>2. keyLeft' \in [Parties -> Keys] /\ keyRight' \in [Parties -> Keys]
  BY DEF RingStep
<1>3. view' \in [Parties -> [Parties -> Entries \union {BlankEntry}]]
  BY DEF TypeOK, RingStep, Outcome
<1>4. keyCiphertext' \in [Parties -> Ciphertexts \union {NoKey}]
  BY DEF TypeOK, RingStep
<1>5. clusterSessionKey' \in [Parties -> SessionKeys \union {NoKey}]
  BY GroupKeyType DEF TypeOK, RingStep, Outcome
<1>6. mainSessionKey' \in [Parties -> MainKeys \union {NoKey}]
  BY TransportType DEF TypeOK, RingStep, Outcome
<1>7. net' \subseteq Messages
  BY TransportType DEF RingStep, Outcome
<1>8. QED
  BY <1>1, <1>2, <1>3, <1>4, <1>5, <1>6, <1>7 DEF TypeOK

\* It adds only keys and entries of the ring.
LEMMA RingStepRing ==
    ASSUME TypeOK, RingInvariant, NEW p \in Parties, NEW v, NEW before, NEW after,
           RingStep(p, v, before, after)
    PROVE  RingInvariant'
<1>1. ASSUME NEW q \in Parties
      PROVE  /\ status'[q] # "exited"
             /\ epoch'[q] = IF status'[q] = "off" THEN 0 ELSE 1
             /\ keyLeft'[q] \in {Zero, RingKey(q)}
             /\ keyRight'[q] \in {Zero, RingKey(RightMemberID(q))}
  BY DEF RingInvariant, RingStep, Outcome
<1>2. ASSUME NEW q \in Parties, NEW i \in Parties, view'[q][i] # BlankEntry
      PROVE  Genuine(i, view'[q][i]) /\ HasJoined(i)'
  BY <1>2 DEF TypeOK, RingInvariant, RingStep, Outcome
<1>3. ASSUME NEW q \in Parties
      PROVE  /\ clusterSessionKey'[q] \in {NoKey, GroupKey}
             /\ clusterSessionKey'[q] # NoKey => \A i \in Parties : HasJoined(i)'
  BY DEF TypeOK, RingInvariant, RingStep, Outcome
<1>4. ASSUME NEW m \in net' PROVE RingMessage(m)'
  <2>1. CASE m \in before \union after
    BY <2>1 DEF RingStep
  <2>2. CASE m \in TransportMsgs(p, GroupKey, mainSessionKey[p])
    <3>1. m.type = "Key"
      BY <2>2 DEF TransportMsgs, KeyMsgs
    <3>2. QED
      BY <3>1 DEF RingMessage
  <2>3. QED
    BY <2>1, <2>2 DEF RingStep, Outcome
<1>5. QED
  BY <1>1, <1>2, <1>3, <1>4 DEF RingInvariant

\* If p finalizes, the main key is sent (p the leader) or opened (p a member)
\* in the same step, so that it is neither lost nor replaced.
LEMMA RingStepMain ==
    ASSUME TypeOK, RingInvariant, MainInvariant,
           NEW p \in Parties, NEW v, NEW before, NEW after,
           RingStep(p, v, before, after)
    PROVE  MainInvariant'
<1> USE LeaderAssumption
<1>1. CASE /\ net' = before \union after
           /\ UNCHANGED <<clusterSessionKey, mainSessionKey>>
  <2>1. LeaderHasBoth' = LeaderHasBoth /\ TheCiphertext' = TheCiphertext
    BY <1>1 DEF LeaderHasBoth, TheCiphertext
  <2>2. \A m \in net' : m.type = "Key" => m.to # Leader /\ LeaderHasBoth /\ m.ct = TheCiphertext
    BY <1>1 DEF RingStep, MainInvariant
  <2>3. MainKeyNotLost'
    BY <1>1 DEF RingStep, MainInvariant, MainKeyNotLost
  <2>4. keyCiphertext' = keyCiphertext /\ mainSessionKey' = mainSessionKey
        /\ clusterSessionKey' = clusterSessionKey
    BY <1>1 DEF RingStep
  <2>5. QED
    BY <2>1, <2>2, <2>3, <2>4 DEF MainInvariant
<1>2. CASE /\ clusterSessionKey' = [clusterSessionKey EXCEPT ![p] = GroupKey]
           /\ mainSessionKey' = [mainSessionKey EXCEPT ![p] = TransportedKey(p, GroupKey)]
           /\ net' = before \union TransportMsgs(p, GroupKey, mainSessionKey[p]) \union after
  <2>1. keyCiphertext' = keyCiphertext
    BY DEF RingStep
  <2>2. mainSessionKey'[Leader] = mainSessionKey[Leader]
    BY <1>2 DEF TransportedKey, TypeOK
  <2>3. TheCiphertext' = TheCiphertext
    BY <2>2 DEF TheCiphertext
  <2>4. LeaderHasBoth => LeaderHasBoth'
    BY <1>2, <2>2, GroupKeyType DEF LeaderHasBoth, TypeOK
  <2>5. \A q \in Parties : q # p => /\ mainSessionKey'[q] = mainSessionKey[q]
                                    /\ clusterSessionKey'[q] = clusterSessionKey[q]
    BY <1>2 DEF TypeOK
  <2>6. clusterSessionKey'[p] = GroupKey /\ mainSessionKey'[p] = TransportedKey(p, GroupKey)
    BY <1>2 DEF TypeOK
  <2>7. CASE p = Leader
    <3>1. \A m \in net' : m.type = "Key" =>
            m.to # Leader /\ LeaderHasBoth' /\ m.ct = TheCiphertext'
      <4>1. ASSUME NEW m \in TransportMsgs(p, GroupKey, mainSessionKey[p])
            PROVE  m.to # Leader /\ LeaderHasBoth' /\ m.ct = TheCiphertext'
        BY <2>2, <2>6, <2>7, GroupKeyType
        DEF TransportMsgs, KeyMsgs, LeaderHasBoth, TheCiphertext
      <4>2. ASSUME NEW m \in before, m.type = "Key"
            PROVE  m.to # Leader /\ LeaderHasBoth' /\ m.ct = TheCiphertext'
        BY <2>3, <2>4, <4>2 DEF RingStep, MainInvariant
      <4>3. QED
        BY <1>2, <4>1, <4>2 DEF RingStep
    <3>2. MainKeyNotLost'
      <4>1. SUFFICES ASSUME LeaderHasBoth', NEW q \in Parties \ {Leader}
                     PROVE  \E m \in net' : m.type = "Key" /\ m.to = q
        BY DEF MainKeyNotLost, LeaderHasBoth
      <4> DEFINE ct == encryptAndHMAC(mainSessionKey[p], GroupKey)
                 km == [type |-> "Key", from |-> Leader, to |-> q, ct |-> ct]
      <4>2. mainSessionKey[Leader] # NoKey
        BY <2>2, <4>1 DEF LeaderHasBoth
      <4>3. km \in TransportMsgs(p, GroupKey, mainSessionKey[p])
        BY <2>7, <4>2, GroupKeyType DEF TransportMsgs, KeyMsgs
      <4>4. km \in net' /\ km.type = "Key" /\ km.to = q
        BY <1>2, <4>3
      <4>5. QED
        BY <4>4
    <3>3. QED
      BY <2>1, <2>2, <2>3, <2>4, <2>5, <2>7, <3>1, <3>2 DEF MainInvariant
  <2>8. CASE p # Leader
    <3>1. net' = before \union after
      BY <1>2, <2>8 DEF TransportMsgs
    <3>2. LeaderHasBoth' = LeaderHasBoth
      BY <2>2, <2>5, <2>8 DEF LeaderHasBoth
    <3>3. \A m \in net' : m.type = "Key" =>
            m.to # Leader /\ LeaderHasBoth' /\ m.ct = TheCiphertext'
      BY <2>3, <3>1, <3>2 DEF RingStep, MainInvariant
    <3>4. keyCiphertext[p] # NoKey => LeaderHasBoth /\ mainSessionKey'[p] = mainSessionKey[Leader]
      BY <2>6, <2>8
      DEF MainInvariant, TransportedKey, Decrypted, TheCiphertext, encryptAndHMAC
    <3>5. keyCiphertext[p] = NoKey => mainSessionKey'[p] = mainSessionKey[p]
      BY <2>6 DEF TransportedKey
    <3>6. mainSessionKey'[p] # NoKey =>
            LeaderHasBoth' /\ clusterSessionKey'[p] # NoKey
            /\ mainSessionKey'[p] = mainSessionKey'[Leader]
      BY <2>2, <2>6, <2>8, <3>2, <3>4, <3>5, GroupKeyType DEF MainInvariant
    <3>7. MainKeyNotLost'
      <4>1. SUFFICES ASSUME LeaderHasBoth, NEW q \in Parties \ {Leader}
                     PROVE  \/ mainSessionKey'[q] = mainSessionKey'[Leader]
                            \/ \E m \in net' : m.type = "Key" /\ m.to = q
                            \/ keyCiphertext'[q] # NoKey /\ clusterSessionKey'[q] = NoKey
        BY <3>2 DEF MainKeyNotLost, LeaderHasBoth
      <4>2. \/ mainSessionKey[q] = mainSessionKey[Leader]
            \/ \E m \in net : m.type = "Key" /\ m.to = q
            \/ keyCiphertext[q] # NoKey /\ clusterSessionKey[q] = NoKey
        BY <4>1 DEF MainInvariant, MainKeyNotLost, LeaderHasBoth
      <4>3. CASE \E m \in net : m.type = "Key" /\ m.to = q
        BY <3>1, <4>3 DEF RingStep
      <4>4. CASE q = p
        BY <2>2, <3>4, <3>5, <4>2, <4>3, <4>4
      <4>5. CASE q # p
        BY <2>1, <2>2, <2>5, <4>2, <4>3, <4>5
      <4>6. QED
        BY <4>4, <4>5
    <3>8. ASSUME NEW q \in Parties \ {Leader}
          PROVE  /\ keyCiphertext'[q] # NoKey => LeaderHasBoth' /\ keyCiphertext'[q] = TheCiphertext'
                 /\ mainSessionKey'[q] # NoKey =>
                        /\ LeaderHasBoth'
                        /\ clusterSessionKey'[q] # NoKey
                        /\ mainSessionKey'[q] = mainSessionKey'[Leader]
      <4>1. CASE q = p
        BY <2>1, <2>3, <3>2, <3>6, <4>1 DEF MainInvariant
      <4>2. CASE q # p
        BY <2>1, <2>2, <2>3, <2>5, <3>2, <4>2 DEF MainInvariant
      <4>3. QED
        BY <4>1, <4>2
    <3>9. keyCiphertext'[Leader] = NoKey
      BY <2>1 DEF MainInvariant
    <3>10. QED
      BY <3>3, <3>7, <3>8, <3>9 DEF MainInvariant
  <2>9. QED
    BY <2>7, <2>8
<1>3. QED
  BY <1>1, <1>2 DEF RingStep, Outcome

\* So a step of the key exchange preserves the whole invariant.
LEMMA RingStepInd ==
    ASSUME IndInv, NEW p \in Parties, IsRingStep(p)
    PROVE  IndInv'
<1>1. PICK v, before, after : RingStep(p, v, before, after)
  BY DEF IsRingStep
<1>2. QED
  BY <1>1, RingStepType, RingStepRing, RingStepMain DEF IndInv
-----------------------------------------------------------------------------
\* A handler has put left and right into keyLeft and keyRight of p, and calls
\* checkLeftRightKeys with what is in the network by then.
Joins(p, left, right, before) ==
    /\ left \in {Zero, RingKey(p)}
    /\ right \in {Zero, RingKey(RightMemberID(p))}
    /\ HasJoined(p) => left # Zero /\ right # Zero
    /\ keyLeft' = [keyLeft EXCEPT ![p] = left]
    /\ keyRight' = [keyRight EXCEPT ![p] = right]
    /\ UNCHANGED <<epoch, keyCiphertext>>
    /\ before \subseteq Messages
    /\ \A m \in before : RingMessage(m)
    /\ \A m \in before : m.type = "Key" => m \in net
    /\ \A m \in net : m.type = "Key" => m \in before
    /\ checkLeftRightKeys(p, left, right, before)

\* A member that gets a neighbour key makes its Xi once it has both, and tries to
\* finalize: a step of the key exchange.
LEMMA JoinStep ==
    ASSUME IndInv, NEW p \in Parties, NEW left, NEW right, NEW before,
           Joins(p, left, right, before)
    PROVE  IsRingStep(p)
<1> USE DEF IndInv, Joins
<1>1. keyLeft' \in [Parties -> Keys] /\ keyRight' \in [Parties -> Keys]
  <2>1. left \in Keys /\ right \in Keys
    BY RingKeyType DEF Zero, Keys
  <2>2. QED
    BY <2>1 DEF TypeOK
<1>2. \A q \in Parties :
        /\ keyLeft'[q] \in {Zero, RingKey(q)}
        /\ keyRight'[q] \in {Zero, RingKey(RightMemberID(q))}
        /\ HasJoined(q) => HasJoined(q)'
        /\ q # p => HasJoined(q)' = HasJoined(q)
  BY DEF TypeOK, RingInvariant, HasJoined
<1>3. \A m \in Messages : RingMessage(m) => RingMessage(m)'
  BY <1>2 DEF RingMessage, Messages
<1>4. view[p] \in [Parties -> Entries \union {BlankEntry}]
      /\ \A i \in Parties : view[p][i] # BlankEntry => Genuine(i, view[p][i]) /\ HasJoined(i)'
  BY <1>2 DEF TypeOK, RingInvariant
<1>5. CASE left = Zero \/ right = Zero
  <2>1. /\ net' = before
        /\ UNCHANGED <<status, view, clusterSessionKey, mainSessionKey>>
    BY <1>5 DEF checkLeftRightKeys
  <2>2. Outcome(p, view[p], before, {})
    BY <2>1 DEF Outcome, TypeOK
  <2>3. RingStep(p, view[p], before, {})
    BY <1>1, <1>2, <1>3, <1>4, <2>2 DEF RingStep
  <2>4. QED
    BY <2>3 DEF IsRingStep
<1>6. CASE left # Zero /\ right # Zero
  <2>1. PICK r \in Coins :
            LET entry == XiEntry(p, right, left, r)
            IN  tryFinalizeProtocol(p, left, [view[p] EXCEPT ![p] = entry],
                                    before, XiRiCommitmentMsgs(p, entry))
    BY <1>6 DEF checkLeftRightKeys
  <2> DEFINE entry == XiEntry(p, right, left, r)
             v == [view[p] EXCEPT ![p] = entry]
             after == XiRiCommitmentMsgs(p, entry)
  <2>2. left = RingKey(p) /\ right = RingKey(RightMemberID(p))
    BY <1>6
  <2>3. Genuine(p, entry) /\ entry \in Entries
    BY <2>2, XiEntryGenuine DEF Genuine
  <2>4. HasJoined(p)'
    BY <1>6 DEF HasJoined, TypeOK
  <2> HIDE DEF entry
  <2>5. v \in [Parties -> Entries \union {BlankEntry}]
    BY <1>4, <2>3
  <2>6. \A i \in Parties : v[i] # BlankEntry => Genuine(i, v[i]) /\ HasJoined(i)'
    BY <1>4, <2>3, <2>4
  <2>7. after \subseteq Messages /\ \A m \in after : m.type # "Key" /\ RingMessage(m)'
    BY <2>3, <2>4 DEF XiRiCommitmentMsgs, Messages, RingMessage
  <2>8. tryFinalizeProtocol(p, left, v, before, after)
    BY <2>1 DEF entry
  <2> HIDE DEF v, after
  <2>9. Outcome(p, v, before, after)
    BY <2>2, <2>6, <2>8, FinalizeOutcome
  <2>10. RingStep(p, v, before, after)
    BY <1>1, <1>2, <1>3, <2>5, <2>6, <2>7, <2>9 DEF RingStep
  <2>11. QED
    BY <2>10 DEF IsRingStep
<1>7. QED
  BY <1>5, <1>6

\* onAkeOne is a step of the key exchange.
LEMMA AkeOneStep ==
    ASSUME IndInv, NEW p \in Parties, NEW m \in net, m.to = p, onAkeOne(p, m)
    PROVE  IsRingStep(p)
<1> USE DEF IndInv
<1> DEFINE left == KexAkeSharedB(m.from, m.eph)
           reply == AkeTwoMsg(p, m.from, m.eph)
           before == (net \ {m}) \union {reply}
<1>1. m \in Messages /\ m.type = "AkeOne" /\ m.from \in Parties
  BY DEF TypeOK, Messages, onAkeOne
<1>2. p = RightMemberID(m.from) /\ m.eph = 1 /\ epoch[m.from] = 1
  BY <1>1 DEF RingInvariant, RingMessage
<1>3. left = RingKey(p) /\ left # Zero
  BY <1>1, <1>2, RingKeyType
<1>4. reply \in Messages /\ RingMessage(reply) /\ reply.type # "Key"
  BY <1>1, <1>2 DEF AkeTwoMsg, Messages, RingMessage
<1>5. keyLeft' = [keyLeft EXCEPT ![p] = left] /\ UNCHANGED <<epoch, keyRight, keyCiphertext>>
      /\ checkLeftRightKeys(p, left, keyRight[p], before)
  BY DEF onAkeOne
<1> HIDE DEF left, reply
<1>6. keyRight' = [keyRight EXCEPT ![p] = keyRight[p]]
  BY <1>5 DEF TypeOK
<1>7. keyRight[p] \in {Zero, RingKey(RightMemberID(p))}
      /\ (HasJoined(p) => keyRight[p] # Zero)
  BY DEF RingInvariant, HasJoined
<1>8. /\ before \subseteq Messages
      /\ \A k \in before : RingMessage(k)
      /\ \A k \in before : k.type = "Key" => k \in net
      /\ \A k \in net : k.type = "Key" => k \in before
  BY <1>1, <1>4 DEF TypeOK, RingInvariant
<1>9. Joins(p, left, keyRight[p], before)
  BY <1>3, <1>5, <1>6, <1>7, <1>8 DEF Joins
<1> HIDE DEF before, IndInv
<1>10. QED
  BY <1>9, JoinStep

\* onAkeTwo is a step of the key exchange.
LEMMA AkeTwoStep ==
    ASSUME IndInv, NEW p \in Parties, NEW m \in net, m.to = p, onAkeTwo(p, m)
    PROVE  IsRingStep(p)
<1> USE DEF IndInv
<1> DEFINE right == KexAkeSharedA(p, epoch[p], m.eph)
           before == net \ {m}
<1>1. m \in Messages /\ m.type = "AkeTwo"
  BY DEF TypeOK, onAkeTwo
<1>2. m.eph = 1 /\ epoch[p] = 1
  BY <1>1 DEF RingInvariant, RingMessage
<1>3. right = RingKey(RightMemberID(p)) /\ right # Zero
  BY <1>2, RingKeyType
<1>4. keyRight' = [keyRight EXCEPT ![p] = right] /\ UNCHANGED <<epoch, keyLeft, keyCiphertext>>
      /\ checkLeftRightKeys(p, keyLeft[p], right, before)
  BY DEF onAkeTwo
<1> HIDE DEF right
<1>5. keyLeft' = [keyLeft EXCEPT ![p] = keyLeft[p]]
  BY <1>4 DEF TypeOK
<1>6. keyLeft[p] \in {Zero, RingKey(p)} /\ (HasJoined(p) => keyLeft[p] # Zero)
  BY DEF RingInvariant, HasJoined
<1>7. /\ before \subseteq Messages
      /\ \A k \in before : RingMessage(k)
      /\ \A k \in before : k.type = "Key" => k \in net
      /\ \A k \in net : k.type = "Key" => k \in before
  BY <1>1 DEF TypeOK, RingInvariant
<1>8. Joins(p, keyLeft[p], right, before)
  BY <1>3, <1>4, <1>5, <1>6, <1>7 DEF Joins
<1> HIDE DEF before, IndInv
<1>9. QED
  BY <1>8, JoinStep

\* The arrays get a genuine entry of a member that has joined.
LEMMA XiStep ==
    ASSUME IndInv, NEW p \in Parties, NEW m \in net, onXiRiCommitment(p, m)
    PROVE  IsRingStep(p)
<1> USE DEF IndInv
<1> DEFINE v == [view[p] EXCEPT ![m.from] = m.entry]
           before == net \ {m}
<1>1. m \in Messages /\ m.type = "XiRiCommitment" /\ m.from \in Parties /\ m.entry \in Entries
  BY DEF TypeOK, Messages, onXiRiCommitment
<1>2. Genuine(m.from, m.entry) /\ HasJoined(m.from)
  BY <1>1 DEF RingInvariant, RingMessage
<1>3. UNCHANGED <<epoch, keyLeft, keyRight, keyCiphertext>>
      /\ tryFinalizeProtocol(p, keyLeft[p], v, before, {})
  BY DEF onXiRiCommitment
<1>4. \A q \in Parties : HasJoined(q)' = HasJoined(q)
  BY <1>3 DEF HasJoined
<1>5. v \in [Parties -> Entries \union {BlankEntry}]
  BY <1>1 DEF TypeOK
<1>6. \A i \in Parties : v[i] # BlankEntry => Genuine(i, v[i]) /\ HasJoined(i)
  BY <1>1, <1>2 DEF TypeOK, RingInvariant
<1>7. \A k \in Messages : RingMessage(k) => RingMessage(k)'
  BY <1>3, <1>4 DEF RingMessage, Messages
<1>8. /\ before \subseteq Messages
      /\ \A k \in before : RingMessage(k)
      /\ \A k \in before : k.type = "Key" => k \in net
      /\ \A k \in net : k.type = "Key" => k \in before
  BY <1>1 DEF TypeOK, RingInvariant
<1> HIDE DEF v, before
<1>9. v[p] # BlankEntry => keyLeft[p] = RingKey(p)
  BY <1>6 DEF HasJoined, RingInvariant
<1>10. Outcome(p, v, before, {})
  BY <1>3, <1>6, <1>9, FinalizeOutcome
<1>11. RingStep(p, v, before, {})
  BY <1>3, <1>4, <1>5, <1>6, <1>7, <1>8, <1>10 DEF RingStep, TypeOK, RingInvariant
<1>12. QED
  BY <1>11 DEF IsRingStep
-----------------------------------------------------------------------------
\* A member that starts brings its first message and nothing else.
LEMMA StartStep ==
    ASSUME IndInv, NEW p \in Parties, Start(p)
    PROVE  IndInv'
<1> USE DEF IndInv
<1> DEFINE akeOne == AkeOneMsg(p, 1)
<1>1. epoch[p] = 0 /\ epoch' = [epoch EXCEPT ![p] = 1] /\ net' = net \union {akeOne}
  <2>1. epoch[p] = 0
    BY DEF Start, RingInvariant
  <2>2. epoch[p] + 1 = 1
    BY <2>1
  <2>3. epoch' = [epoch EXCEPT ![p] = epoch[p] + 1] /\ net' = net \union {AkeOneMsg(p, epoch[p] + 1)}
    BY DEF Start
  <2>4. QED
    BY <2>1, <2>2, <2>3
<1>2. akeOne \in Messages /\ akeOne.type = "AkeOne" /\ akeOne.from = p
      /\ akeOne.to = RightMemberID(p) /\ akeOne.eph = 1
  BY RingKeyType DEF AkeOneMsg, Messages
<1> HIDE DEF akeOne
<1>3. status' = [status EXCEPT ![p] = "up"]
      /\ UNCHANGED <<keyLeft, keyRight, view, clusterSessionKey, keyCiphertext, mainSessionKey>>
  BY DEF Start
<1>4. TypeOK'
  BY <1>1, <1>2, <1>3 DEF TypeOK
<1>5. \A q \in Parties : HasJoined(q)' = HasJoined(q)
  BY <1>3 DEF HasJoined
<1>6. RingInvariant'
  <2>1. ASSUME NEW m \in net' PROVE RingMessage(m)'
    <3>1. CASE m = akeOne
      BY <1>1, <1>2, <3>1 DEF RingMessage, TypeOK
    <3>2. CASE m \in net
      <4>1. RingMessage(m) /\ m \in Messages
        BY <3>2 DEF RingInvariant, TypeOK
      <4>2. \A q \in Parties : epoch[q] = 1 => epoch'[q] = 1
        BY <1>1 DEF TypeOK
      <4>3. QED
        BY <1>5, <4>1, <4>2 DEF RingMessage, Messages
    <3>3. QED
      BY <1>1, <3>1, <3>2
  <2>2. ASSUME NEW q \in Parties
        PROVE  status'[q] # "exited" /\ epoch'[q] = IF status'[q] = "off" THEN 0 ELSE 1
    BY <1>1, <1>3 DEF TypeOK, RingInvariant
  <2>3. QED
    BY <1>3, <1>5, <2>1, <2>2 DEF RingInvariant
<1>7. LeaderHasBoth' = LeaderHasBoth /\ TheCiphertext' = TheCiphertext
  BY <1>3 DEF LeaderHasBoth, TheCiphertext
<1>8. MainKeyNotLost'
  BY <1>1, <1>3 DEF MainInvariant, MainKeyNotLost
<1>9. MainInvariant'
  BY <1>1, <1>2, <1>3, <1>7, <1>8 DEF MainInvariant
<1>10. QED
  BY <1>4, <1>6, <1>9

\* A member opens the KeyMsg if it has the cluster session key, and puts the
\* ciphertext aside if not.  Either way the key is not lost.
LEMMA KeyStep ==
    ASSUME IndInv, NEW p \in Parties, NEW m \in net, m.to = p, onKey(p, m)
    PROVE  IndInv'
<1> USE LeaderAssumption DEF IndInv
<1>1. m \in Messages /\ m.type = "Key" /\ m.ct \in Ciphertexts
  BY DEF TypeOK, Messages, onKey
<1>2. p # Leader /\ LeaderHasBoth /\ m.ct = TheCiphertext
  BY <1>1 DEF MainInvariant
<1>3. net' = net \ {m}
      /\ UNCHANGED <<status, epoch, keyLeft, keyRight, view, clusterSessionKey>>
  BY DEF onKey
<1>4. \/ /\ clusterSessionKey[p] = NoKey
         /\ keyCiphertext' = [keyCiphertext EXCEPT ![p] = TheCiphertext]
         /\ mainSessionKey' = mainSessionKey
      \/ /\ clusterSessionKey[p] = GroupKey
         /\ mainSessionKey' = [mainSessionKey EXCEPT ![p] = mainSessionKey[Leader]]
         /\ keyCiphertext' = keyCiphertext
  <2>1. Decrypted(TheCiphertext, GroupKey, mainSessionKey[p]) = mainSessionKey[Leader]
    BY DEF Decrypted, TheCiphertext, encryptAndHMAC
  <2>2. clusterSessionKey[p] \in {NoKey, GroupKey}
    BY DEF RingInvariant
  <2>3. QED
    BY <1>2, <2>1, <2>2 DEF onKey
<1>5. TypeOK'
  BY <1>1, <1>2, <1>3, <1>4 DEF TypeOK
<1>6. RingInvariant'
  <2>1. \A q \in Parties : HasJoined(q)' = HasJoined(q)
    BY <1>3 DEF HasJoined
  <2>2. \A k \in Messages : RingMessage(k) => RingMessage(k)'
    BY <1>3, <2>1 DEF RingMessage, Messages
  <2>3. \A k \in net' : RingMessage(k)'
    BY <1>3, <2>2 DEF RingInvariant, TypeOK
  <2>4. QED
    BY <1>3, <2>1, <2>3 DEF RingInvariant
<1>7. mainSessionKey'[Leader] = mainSessionKey[Leader] /\ keyCiphertext'[Leader] = NoKey
  BY <1>2, <1>4 DEF TypeOK, MainInvariant
<1>8. LeaderHasBoth' /\ TheCiphertext' = TheCiphertext
  BY <1>2, <1>3, <1>7 DEF LeaderHasBoth, TheCiphertext
<1>9. \A q \in Parties \ {Leader} : q # p =>
        mainSessionKey'[q] = mainSessionKey[q] /\ keyCiphertext'[q] = keyCiphertext[q]
  BY <1>4 DEF TypeOK
<1>10. MainKeyNotLost'
  <2>1. ASSUME NEW q \in Parties \ {Leader}
        PROVE  \/ mainSessionKey'[q] = mainSessionKey'[Leader]
               \/ \E k \in net' : k.type = "Key" /\ k.to = q
               \/ keyCiphertext'[q] # NoKey /\ clusterSessionKey'[q] = NoKey
    <3>1. CASE q = p
      BY <1>1, <1>2, <1>3, <1>4, <1>7, <3>1, NoKeyAssumption DEF TypeOK
    <3>2. CASE q # p
      <4>1. \/ mainSessionKey[q] = mainSessionKey[Leader]
            \/ \E k \in net : k.type = "Key" /\ k.to = q
            \/ keyCiphertext[q] # NoKey /\ clusterSessionKey[q] = NoKey
        BY <1>2 DEF MainInvariant, MainKeyNotLost, LeaderHasBoth
      <4>2. QED
        BY <1>3, <1>7, <1>9, <3>2, <4>1
    <3>3. QED
      BY <3>1, <3>2
  <2>2. QED
    BY <2>1 DEF MainKeyNotLost
<1>11. ASSUME NEW q \in Parties \ {Leader}
       PROVE  /\ keyCiphertext'[q] # NoKey => LeaderHasBoth' /\ keyCiphertext'[q] = TheCiphertext'
              /\ mainSessionKey'[q] # NoKey =>
                    /\ LeaderHasBoth'
                    /\ clusterSessionKey'[q] # NoKey
                    /\ mainSessionKey'[q] = mainSessionKey'[Leader]
  <2>1. CASE q = p
    BY <1>3, <1>4, <1>7, <1>8, <2>1, GroupKeyType DEF TypeOK, MainInvariant
  <2>2. CASE q # p
    BY <1>3, <1>7, <1>8, <1>9, <2>2 DEF MainInvariant
  <2>3. QED
    BY <2>1, <2>2
<1>12. MainInvariant'
  BY <1>3, <1>7, <1>8, <1>10, <1>11 DEF MainInvariant
<1>13. QED
  BY <1>5, <1>6, <1>12

\* Before the leader has its main session key there is no ciphertext; if it has
\* the cluster session key by now, this step sends one to every member.
LEMMA MainSessionKeyStep ==
    ASSUME IndInv, mainSessionKey[Leader] = NoKey, NEW k \in MainKeys, onMainSessionKey(k)
    PROVE  IndInv'
<1> USE LeaderAssumption DEF IndInv
<1> DEFINE sent == TransportMsgs(Leader, clusterSessionKey[Leader], k)
<1>1. ~LeaderHasBoth
  BY DEF LeaderHasBoth
<1>2. mainSessionKey' = [mainSessionKey EXCEPT ![Leader] = k] /\ net' = net \union sent
      /\ UNCHANGED <<status, epoch, keyLeft, keyRight, view, clusterSessionKey, keyCiphertext>>
  BY DEF onMainSessionKey
<1>3. mainSessionKey'[Leader] = k /\ k # NoKey
  BY <1>2, NoKeyAssumption DEF TypeOK
<1>4. clusterSessionKey[Leader] \in {NoKey, GroupKey}
  BY DEF RingInvariant
<1>5. LeaderHasBoth' <=> clusterSessionKey[Leader] = GroupKey
  BY <1>2, <1>3, <1>4, GroupKeyType DEF LeaderHasBoth
<1>6. TheCiphertext' = encryptAndHMAC(k, GroupKey) /\ TheCiphertext' \in Ciphertexts
  BY <1>3, GroupKeyType DEF TheCiphertext, encryptAndHMAC, Ciphertexts
<1>7. sent = IF clusterSessionKey[Leader] = NoKey THEN {} ELSE KeyMsgs(TheCiphertext')
  BY <1>3, <1>4, <1>6 DEF TransportMsgs
<1> HIDE DEF sent
<1>8. \A m \in sent : /\ m.type = "Key" /\ m \in Messages /\ m.to # Leader
                      /\ LeaderHasBoth' /\ m.ct = TheCiphertext'
  BY <1>4, <1>5, <1>6, <1>7, GroupKeyType DEF KeyMsgs, Messages
<1>9. TypeOK'
  BY <1>2, <1>8 DEF TypeOK
<1>10. RingInvariant'
  <2>1. \A q \in Parties : HasJoined(q)' = HasJoined(q)
    BY <1>2 DEF HasJoined
  <2>2. \A m \in Messages : RingMessage(m) => RingMessage(m)'
    BY <1>2, <2>1 DEF RingMessage, Messages
  <2>3. \A m \in net' : RingMessage(m)'
    BY <1>2, <1>8, <2>2 DEF RingInvariant, TypeOK, RingMessage
  <2>4. QED
    BY <1>2, <2>1, <2>3 DEF RingInvariant
<1>11. ASSUME NEW q \in Parties \ {Leader}
       PROVE  keyCiphertext'[q] = NoKey /\ mainSessionKey'[q] = NoKey
  BY <1>1, <1>2 DEF TypeOK, MainInvariant
<1>12. \A m \in net : m.type # "Key"
  BY <1>1 DEF MainInvariant
<1>13. MainKeyNotLost'
  <2>1. ASSUME LeaderHasBoth', NEW q \in Parties \ {Leader}
        PROVE  \E m \in net' : m.type = "Key" /\ m.to = q
    <3> DEFINE km == [type |-> "Key", from |-> Leader, to |-> q, ct |-> TheCiphertext']
    <3>1. km \in sent
      BY <1>5, <1>7, <2>1, GroupKeyType DEF KeyMsgs
    <3>2. km \in net' /\ km.type = "Key" /\ km.to = q
      BY <1>2, <3>1
    <3>3. QED
      BY <3>2
  <2>2. QED
    BY <2>1 DEF MainKeyNotLost, LeaderHasBoth
<1>14. MainInvariant'
  BY <1>2, <1>8, <1>11, <1>12, <1>13 DEF MainInvariant
<1>15. QED
  BY <1>9, <1>10, <1>14
-----------------------------------------------------------------------------
\* The invariant holds before anybody has started.
LEMMA InitInd == Init => IndInv
<1> SUFFICES ASSUME Init PROVE IndInv
  OBVIOUS
<1>1. TypeOK
  <2>1. Zero \in Keys
    BY DEF Zero, Keys
  <2>2. QED
    BY <2>1 DEF Init, TypeOK
<1>2. RingInvariant
  BY DEF Init, RingInvariant
<1>3. MainInvariant
  BY LeaderAssumption DEF Init, MainInvariant, MainKeyNotLost
<1>4. QED
  BY <1>1, <1>2, <1>3 DEF IndInv

\* Every step preserves the invariant.
LEMMA NextInd == IndInv /\ [Next]_vars => IndInv'
<1> SUFFICES ASSUME IndInv, [Next]_vars PROVE IndInv'
  OBVIOUS
<1>1. ASSUME NEW p \in Parties, Start(p) PROVE IndInv'
  BY <1>1, StartStep
<1>2. ASSUME NEW p \in Parties, NEW m \in net, handleMessage(p, m) PROVE IndInv'
  BY <1>2, AkeOneStep, AkeTwoStep, XiStep, RingStepInd, KeyStep DEF handleMessage
<1>3. ASSUME LeaderProtocolFinishes PROVE IndInv'
  BY <1>3, MainSessionKeyStep DEF LeaderProtocolFinishes
<1>4. CASE UNCHANGED vars
  <2>1. UNCHANGED <<status, epoch, keyLeft, keyRight, view, clusterSessionKey,
                    keyCiphertext, mainSessionKey, net>>
    BY <1>4 DEF vars
  <2>2. TypeOK' /\ (\A q \in Parties : HasJoined(q)' = HasJoined(q))
        /\ LeaderHasBoth' = LeaderHasBoth /\ TheCiphertext' = TheCiphertext
    BY <2>1 DEF IndInv, TypeOK, HasJoined, LeaderHasBoth, TheCiphertext
  <2>3. RingInvariant'
    BY <2>1, <2>2 DEF IndInv, TypeOK, Messages, RingInvariant, RingMessage
  <2>4. MainInvariant'
    BY <2>1, <2>2 DEF IndInv, MainInvariant, MainKeyNotLost
  <2>5. QED
    BY <2>2, <2>3, <2>4 DEF IndInv
<1>5. QED
  BY <1>1, <1>2, <1>3, <1>4 DEF Next, Idle

\* IndInv holds in every state the protocol reaches, for every N.
THEOREM Invariance == Spec => []IndInv
  BY InitInd, NextInd, PTL DEF Spec

\* All fields and messages are of their type: no key, coin or commitment is
\* missing where a handler reads one.
THEOREM TypeCorrect == Spec => []TypeOK
<1>1. IndInv => TypeOK
  BY DEF IndInv
<1>2. QED
  BY <1>1, Invariance, PTL

\* Members that finalize, in whatever order the messages come, hold the same
\* cluster session key.
THEOREM KeyAgreementHolds == Spec => []KeyAgreement
<1>1. IndInv => KeyAgreement
  BY DEF IndInv, RingInvariant, KeyAgreement
<1>2. QED
  BY <1>1, Invariance, PTL

\* Neither check of tryFinalizeProtocol ever fails while nobody restarts.
THEOREM NoAbortHolds == Spec => []NoAbort
<1>1. IndInv => NoAbort
  BY DEF IndInv, RingInvariant, NoAbort
<1>2. QED
  BY <1>1, Invariance, PTL

\* The main session key of a member is that of the leader.
THEOREM MainKeyAgreementHolds == Spec => []MainKeyAgreement
<1>1. IndInv => MainKeyAgreement
  BY DEF IndInv, MainInvariant, MainKeyAgreement
<1>2. QED
  BY <1>1, Invariance, PTL

\* No order of KeyMsg and cluster session key loses the main session key.
THEOREM MainKeyNotLostHolds == Spec => []MainKeyNotLost
<1>1. IndInv => MainKeyNotLost
  BY DEF IndInv, MainInvariant
<1>2. QED
  BY <1>1, Invariance, PTL

-----------------------------------------------------------------------------
(***************************************************************************)
(* ClusterProtocol implements GroupKeyExchange, for every number of        *)
(* members: each step is a step of the ideal exchange or a stutter of it.  *)
(***************************************************************************)
abstractVars == <<Joined, clusterSessionKey, mainSessionKey>>

\* Before anybody has started, the ideal exchange has given out nothing.
LEMMA InitRefines == Init => Abstract!Init
<1> SUFFICES ASSUME Init PROVE Abstract!Init
  OBVIOUS
<1>1. Joined = {}
  BY DEF Init, Joined
<1>2. QED
  BY <1>1 DEF Init, Abstract!Init

\* A handler of the key exchange lets p advance.
LEMMA RingStepRefines ==
    ASSUME IndInv, NEW p \in Parties, IsRingStep(p)
    PROVE  Abstract!Advance(p)
<1>1. PICK v, before, after : RingStep(p, v, before, after)
  BY DEF IsRingStep
<1>2. IndInv'
  BY RingStepInd
<1>3. Joined' \in {Joined, Joined \union {p}}
  <2>1. Joined' = {q \in Parties : HasJoined(q)'} /\ Joined = {q \in Parties : HasJoined(q)}
    BY DEF Joined, HasJoined
  <2>2. \A q \in Parties : /\ HasJoined(q) => HasJoined(q)'
                           /\ q # p => HasJoined(q)' = HasJoined(q)
    BY <1>1 DEF RingStep
  <2>3. CASE HasJoined(p)' = HasJoined(p)
    BY <2>1, <2>2, <2>3
  <2>4. CASE HasJoined(p)' # HasJoined(p)
    BY <2>1, <2>2, <2>4
  <2>5. QED
    BY <2>3, <2>4
<1>4. CASE UNCHANGED <<clusterSessionKey, mainSessionKey>>
  BY <1>3, <1>4 DEF Abstract!Advance
<1>5. CASE /\ clusterSessionKey' = [clusterSessionKey EXCEPT ![p] = GroupKey]
           /\ mainSessionKey' = [mainSessionKey EXCEPT ![p] = TransportedKey(p, GroupKey)]
  <2>1. clusterSessionKey'[p] = GroupKey /\ GroupKey # NoKey
    BY <1>5, GroupKeyType DEF IndInv, TypeOK
  <2>2. UNCHANGED clusterSessionKey \/ Abstract!Establish(p, GroupKey)
    <3>1. CASE clusterSessionKey[p] = NoKey
      <4>1. \A i \in Parties : HasJoined(i)'
        BY <1>2, <2>1 DEF IndInv, RingInvariant
      <4>2. Joined' = Parties
        BY <4>1 DEF Joined, HasJoined
      <4>3. \A q \in Parties : clusterSessionKey[q] \in {NoKey, GroupKey}
        BY DEF IndInv, RingInvariant
      <4>4. QED
        BY <1>5, <3>1, <4>2, <4>3 DEF Abstract!Establish
    <3>2. CASE clusterSessionKey[p] # NoKey
      <4>1. clusterSessionKey[p] = GroupKey
        BY <3>2 DEF IndInv, RingInvariant
      <4>2. QED
        BY <1>5, <4>1 DEF IndInv, TypeOK
    <3>3. QED
      BY <3>1, <3>2
  <2>3. UNCHANGED mainSessionKey \/ Abstract!Learn(p)
    <3>1. CASE p # Leader /\ keyCiphertext[p] # NoKey
      <4>1. LeaderHasBoth /\ keyCiphertext[p] = TheCiphertext
        BY <3>1 DEF IndInv, MainInvariant
      <4>2. mainSessionKey' = [mainSessionKey EXCEPT ![p] = mainSessionKey[Leader]]
        BY <1>5, <3>1, <4>1 DEF TransportedKey, Decrypted, TheCiphertext, encryptAndHMAC
      <4>3. CASE mainSessionKey[p] = NoKey
        <5>1. clusterSessionKey'[Leader] # NoKey
          BY <1>5, <4>1, <3>1 DEF LeaderHasBoth, IndInv, TypeOK
        <5>2. QED
          BY <2>1, <3>1, <4>1, <4>2, <4>3, <5>1 DEF LeaderHasBoth, Abstract!Learn
      <4>4. CASE mainSessionKey[p] # NoKey
        <5>1. mainSessionKey[p] = mainSessionKey[Leader]
          BY <3>1, <4>4 DEF IndInv, MainInvariant
        <5>2. QED
          BY <4>2, <5>1 DEF IndInv, TypeOK
      <4>5. QED
        BY <4>3, <4>4
    <3>2. CASE ~(p # Leader /\ keyCiphertext[p] # NoKey)
      BY <1>5, <3>2 DEF TransportedKey, IndInv, TypeOK
    <3>3. QED
      BY <3>1, <3>2
  <2>4. QED
    BY <1>3, <2>2, <2>3 DEF Abstract!Advance
<1>6. QED
  BY <1>1, <1>4, <1>5 DEF RingStep, Outcome

\* A KeyMsg lets p learn the main key, or is of no effect that is seen.
LEMMA KeyRefines ==
    ASSUME IndInv, NEW p \in Parties, NEW m \in net, m.to = p, onKey(p, m)
    PROVE  Abstract!Advance(p)
<1>1. p # Leader /\ LeaderHasBoth /\ m.ct = TheCiphertext
  BY DEF IndInv, MainInvariant, onKey
<1>2. Joined' = Joined /\ clusterSessionKey' = clusterSessionKey
  BY DEF onKey, Joined
<1>3. UNCHANGED mainSessionKey \/ Abstract!Learn(p)
  <2>1. CASE clusterSessionKey[p] = NoKey
    BY <2>1 DEF onKey
  <2>2. CASE clusterSessionKey[p] # NoKey
    <3>1. clusterSessionKey[p] = GroupKey
      BY <2>2 DEF IndInv, RingInvariant
    <3>2. mainSessionKey' = [mainSessionKey EXCEPT ![p] = mainSessionKey[Leader]]
      BY <1>1, <2>2, <3>1 DEF onKey, Decrypted, TheCiphertext, encryptAndHMAC
    <3>3. CASE mainSessionKey[p] = NoKey
      BY <1>1, <1>2, <2>2, <3>2, <3>3 DEF LeaderHasBoth, Abstract!Learn
    <3>4. CASE mainSessionKey[p] # NoKey
      <4>1. mainSessionKey[p] = mainSessionKey[Leader]
        BY <1>1, <3>4 DEF IndInv, MainInvariant
      <4>2. QED
        BY <3>2, <4>1 DEF IndInv, TypeOK
    <3>5. QED
      BY <3>3, <3>4
  <2>3. QED
    BY <2>1, <2>2
<1>4. QED
  BY <1>2, <1>3 DEF Abstract!Advance

\* Every step is a step of the ideal exchange or leaves it alone.
LEMMA NextRefines == IndInv /\ [Next]_vars => [Abstract!Next]_abstractVars
<1> SUFFICES ASSUME IndInv, [Next]_vars PROVE Abstract!Next \/ UNCHANGED abstractVars
  OBVIOUS
<1>1. ASSUME NEW p \in Parties, Start(p) PROVE UNCHANGED abstractVars
  BY <1>1 DEF Start, abstractVars, Joined
<1>2. ASSUME NEW p \in Parties, NEW m \in net, handleMessage(p, m) PROVE Abstract!Next
  <2>1. Abstract!Advance(p)
    BY <1>2, AkeOneStep, AkeTwoStep, XiStep, RingStepRefines, KeyRefines DEF handleMessage
  <2>2. QED
    BY <2>1 DEF Abstract!Next
<1>3. ASSUME LeaderProtocolFinishes PROVE Abstract!Next
  <2>1. PICK k \in MainKeys : onMainSessionKey(k)
    BY <1>3 DEF LeaderProtocolFinishes
  <2>2. Abstract!Choose(k)
    BY <1>3, <2>1 DEF LeaderProtocolFinishes, onMainSessionKey, Abstract!Choose, Joined
  <2>3. QED
    BY <2>2 DEF Abstract!Next
<1>4. CASE UNCHANGED vars
  BY <1>4 DEF vars, abstractVars, Joined
<1>5. QED
  BY <1>1, <1>2, <1>3, <1>4 DEF Next, Idle

\* The sessions of a cluster, whatever its size and whatever the order of the
\* messages, do what the ideal group key exchange allows.
THEOREM Refinement == Spec => ImplementsGroupKeyExchange
<1>1. [Abstract!Next]_abstractVars <=> [Abstract!Next]_(Abstract!vars)
  BY DEF abstractVars, Abstract!vars
<1>2. QED
  BY <1>1, InitRefines, NextRefines, Invariance, PTL
  DEF Spec, ImplementsGroupKeyExchange, Abstract!Spec
-----------------------------------------------------------------------------
(***************************************************************************)
(* RestartInv is an invariant of ClusterRestart, for every number of       *)
(* members, of restarts and of lost messages, and with it what the members *)
(* that are running may rely on.                                           *)
(***************************************************************************)
\* The neighbours in the ring, seen from both sides.
LEMMA Neighbours ==
    ASSUME NEW p \in Parties
    PROVE  /\ RightMemberID(p) \in Parties /\ LeftMemberID(p) \in Parties
           /\ LeftMemberID(RightMemberID(p)) = p
           /\ RightMemberID(LeftMemberID(p)) = p
           /\ N > 1 => LeftMemberID(p) # p /\ RightMemberID(p) # p
<1>1. N \in Nat \ {0} /\ p \in 0 .. N-1
  BY NAssumption DEF Parties
<1>2. RightMemberID(p) = IF p = N-1 THEN 0 ELSE p + 1
  BY <1>1, NextIndex DEF RightMemberID
<1>3. LeftMemberID(p) = IF p = 0 THEN N-1 ELSE p - 1
  <2>1. CASE p = 0
    BY <1>1, <2>1 DEF LeftMemberID
  <2>2. CASE p # 0
    <3>1. p + N - 1 = (p - 1) + N /\ p - 1 \in 0 .. N-1
      BY <1>1, <2>2
    <3>2. ((p - 1) + N) % N = p - 1
      BY <1>1, <3>1
    <3>3. QED
      BY <2>2, <3>1, <3>2 DEF LeftMemberID
  <2>3. QED
    BY <2>1, <2>2
<1>4. LeftMemberID(p) \in 0 .. N-1
  BY <1>1, <1>3
<1>5. RightMemberID(LeftMemberID(p)) = IF LeftMemberID(p) = N-1 THEN 0 ELSE LeftMemberID(p) + 1
  BY <1>1, <1>4, NextIndex DEF RightMemberID
<1>6. RightMemberID(LeftMemberID(p)) = p
  BY <1>1, <1>3, <1>5
<1>7. LeftMemberID(RightMemberID(p)) = p /\ RightMemberID(p) \in Parties
  BY RingIndex DEF LeftMemberID
<1>8. N > 1 => LeftMemberID(p) # p /\ RightMemberID(p) # p
  BY <1>1, <1>2, <1>3
<1>9. QED
  BY <1>4, <1>6, <1>7, <1>8 DEF Parties

\* What is passed on to the right neighbour reaches everybody.
LEMMA AroundTheRing ==
    ASSUME NEW S, NEW p \in Parties, p \in S,
           \A i \in Parties : i \in S => RightMemberID(i) \in S
    PROVE  \A i \in Parties : i \in S
<1> DEFINE at(j) == (p + j) % N
           T == {j \in 0 .. N-1 : at(j) \notin S}
<1> USE NAssumption DEF Parties
<1>1. T = {}
  <2>1. SUFFICES ASSUME T # {} PROVE FALSE
    OBVIOUS
  <2>2. PICK m \in T : \A y \in T : ~(y < m)
    <3>1. T \subseteq Nat
      OBVIOUS
    <3> HIDE DEF T
    <3>2. QED
      BY <2>1, <3>1, NatLeast
  <2>3. at(0) = p
    OBVIOUS
  <2>4. m \in 1 .. N-1
    BY <2>2, <2>3
  <2>5. m - 1 \in 0 .. N-1 /\ m - 1 \notin T
    BY <2>2, <2>4
  <2>6. at(m-1) \in S /\ at(m-1) \in Parties
    BY <2>5
  <2>7. RightMemberID(at(m-1)) = at(m)
    <3>1. at(m-1) = IF p + (m-1) < N THEN p + (m-1) ELSE p + (m-1) - N
      BY <2>5
    <3>2. at(m) = IF p + m < N THEN p + m ELSE p + m - N
      BY <2>4
    <3>3. RightMemberID(at(m-1)) = IF at(m-1) = N-1 THEN 0 ELSE at(m-1) + 1
      BY <2>6, NextIndex DEF RightMemberID
    <3> HIDE DEF at
    <3>4. QED
      BY <2>4, <3>1, <3>2, <3>3
  <2>8. QED
    BY <2>2, <2>6, <2>7
<1>2. ASSUME NEW i \in Parties PROVE i \in S
  <2> DEFINE j == IF i >= p THEN i - p ELSE i - p + N
  <2>1. j \in 0 .. N-1
    OBVIOUS
  <2>2. at(j) = i
    <3>1. CASE i >= p
      BY <3>1
    <3>2. CASE i < p
      <4>1. p + j = i + N
        BY <3>2
      <4>2. (i + N) % N = i
        OBVIOUS
      <4>3. QED
        BY <4>1, <4>2
    <3>3. QED
      BY <3>1, <3>2
  <2>3. QED
    BY <1>1, <2>1, <2>2
<1>3. QED
  BY <1>2
-----------------------------------------------------------------------------
(***************************************************************************)
(* What an entry says of the runs it was made in.                          *)
(***************************************************************************)
LEMMA SecretsDiffer ==
    ASSUME NEW a, NEW t, NEW e, NEW b, NEW u, NEW f
    PROVE  /\ Secret(a, t, e) = Secret(b, u, f) <=> a = b /\ t = u /\ e = f
           /\ KexAkeSharedA(a, t, e) = KexAkeSharedA(b, u, f) <=> a = b /\ t = u /\ e = f
           /\ KexAkeSharedB(a, e) = KexAkeSharedB(b, f) <=> a = b /\ e = f
           /\ KexAkeSharedA(a, t, e) # Zero /\ KexAkeSharedB(a, e) # Zero
<1>1. /\ Secret(a, t, e) = Secret(b, u, f) <=> a = b /\ t = u /\ e = f
      /\ Secret(a, e, e) = Secret(b, f, f) <=> a = b /\ e = f
  BY DEF Secret
<1>2. \A x, y : {x} = {y} <=> x = y
  OBVIOUS
<1>3. KexAkeSharedA(a, t, e) = KexAkeSharedA(b, u, f) <=> a = b /\ t = u /\ e = f
  BY <1>1, <1>2, Zenon DEF KexAkeSharedA
<1>4. KexAkeSharedB(a, e) = KexAkeSharedB(b, f) <=> a = b /\ e = f
  BY <1>1, <1>2, Zenon DEF KexAkeSharedB
<1>5. QED
  BY <1>1, <1>3, <1>4 DEF KexAkeSharedA, KexAkeSharedB, Zero

LEMMA LeftSecretsDiffer ==
    ASSUME NEW a, NEW e, NEW b, NEW f, KexAkeSharedB(a, e) = KexAkeSharedB(b, f)
    PROVE  a = b /\ e = f
<1>1. KexAkeSharedA(a, e, e) = KexAkeSharedB(a, e)
  BY DEF KexAkeSharedA, KexAkeSharedB
<1>2. QED
  BY <1>1, SecretsDiffer

\* In a ring of several members the two secrets of an Xi cannot cancel out and
\* cannot be mistaken for each other.
LEMMA XOfTwo ==
    ASSUME N > 1, NEW i \in Parties, NEW t \in Makings
    PROVE  /\ MadeX(i, t) = {Secret(i, t.run, t.reply), Secret(LeftMemberID(i), t.left, t.left)}
           /\ MadeX(i, t) # Zero
           /\ \A u \in Makings : MadeX(i, u) = MadeX(i, t) => u = t
<1>1. ASSUME NEW u \in Makings
      PROVE  MadeX(i, u) = {Secret(i, u.run, u.reply), Secret(LeftMemberID(i), u.left, u.left)}
  <2>1. Secret(i, u.run, u.reply) # Secret(LeftMemberID(i), u.left, u.left)
    BY Neighbours, SecretsDiffer
  <2>2. \A x, y : x # y => XorKeys({x}, {y}) = {x, y}
    BY DEF XorKeys
  <2>3. QED
    BY <2>1, <2>2, Zenon DEF MadeX, KexAkeSharedA, KexAkeSharedB
<1>2. ASSUME NEW u \in Makings, MadeX(i, u) = MadeX(i, t)
      PROVE  u = t
  <2>1. Secret(i, u.run, u.reply) = Secret(i, t.run, t.reply)
    <3>1. Secret(i, u.run, u.reply) # Secret(LeftMemberID(i), t.left, t.left)
      BY Neighbours, SecretsDiffer
    <3>2. QED
      BY <1>1, <1>2, <3>1
  <2>2. Secret(LeftMemberID(i), u.left, u.left) = Secret(LeftMemberID(i), t.left, t.left)
    <3>1. Secret(LeftMemberID(i), u.left, u.left) # Secret(i, t.run, t.reply)
      BY Neighbours, SecretsDiffer
    <3>2. QED
      BY <1>1, <1>2, <3>1
  <2>3. u.run = t.run /\ u.reply = t.reply
    BY <2>1 DEF Secret
  <2>4. u.left = t.left
    BY <2>2 DEF Secret
  <2>5. QED
    BY <2>3, <2>4 DEF Makings
<1>3. QED
  BY <1>1, <1>2 DEF Zero

GoodEntry(i, entry) ==
    /\ entry \in Entries
    /\ entry.commitment = Commit_pke(i, entry.x, i, entry.r)
    /\ entry.pid = i
    /\ \E t \in Makings : entry.x = MadeX(i, t)

\* How i makes its entry when its run E[i] and its neighbours' runs E[_] belong together.
Turn(i, E) == [run |-> E[i], reply |-> E[i], left |-> E[LeftMemberID(i)]]

MadeInRuns(v, E) == \A i \in Parties : v[i].x = MadeX(i, Turn(i, E))

KeyOfRuns(E) ==
    [leftKeys |-> [q \in Parties |-> KexAkeSharedB(LeftMemberID(q), E[LeftMemberID(q)])],
     pids     |-> [q \in Parties |-> q]]

LEMMA TurnType ==
    ASSUME NEW E \in [Parties -> Runs], NEW i \in Parties
    PROVE  Turn(i, E) \in Makings
  BY Neighbours DEF Turn, Makings

\* CheckXs lets no mixture of runs through: if the Xs add up to zero, each entry
\* was made in the run that its right neighbour's entry was made for.
LEMMA RingOfRuns ==
    ASSUME N > 1, NEW v, \A i \in Parties : GoodEntry(i, v[i]), ChecksPass(v)
    PROVE  \E E \in [Parties -> Runs] : MadeInRuns(v, E)
<1> DEFINE T == [i \in Parties |-> CHOOSE t \in Makings : v[i].x = MadeX(i, t)]
           E == [i \in Parties |-> T[i].run]
<1>1. ASSUME NEW i \in Parties
      PROVE  T[i] \in Makings /\ v[i].x = MadeX(i, T[i])
  BY DEF GoodEntry
<1> HIDE DEF T
<1>2. ASSUME NEW i \in Parties
      PROVE  T[i].run = T[i].reply /\ T[i].run = T[RightMemberID(i)].left
  <2> DEFINE s == Secret(i, T[i].run, T[i].reply)
             j == RightMemberID(i)
  <2>1. Xs(v)[i] = {s, Secret(LeftMemberID(i), T[i].left, T[i].left)}
    BY <1>1, XOfTwo DEF Xs
  <2>2. CheckXs(Xs(v), N)
    BY DEF ChecksPass
  <2>3. PICK k \in Parties : k # i /\ s \in Xs(v)[k]
    BY <2>1, <2>2, LoneSecret, NAssumption DEF Parties
  <2>4. Xs(v)[k] = {Secret(k, T[k].run, T[k].reply), Secret(LeftMemberID(k), T[k].left, T[k].left)}
    BY <1>1, XOfTwo DEF Xs
  <2>5. s = Secret(LeftMemberID(k), T[k].left, T[k].left)
    BY <2>3, <2>4 DEF Secret
  <2>6. i = LeftMemberID(k) /\ T[i].run = T[k].left /\ T[i].reply = T[k].left
    BY <2>5 DEF Secret
  <2>7. k = j
    BY <2>6, Neighbours
  <2>8. QED
    BY <2>6, <2>7
<1>3. ASSUME NEW i \in Parties
      PROVE  T[i] = Turn(i, E)
  <2>1. LeftMemberID(i) \in Parties /\ RightMemberID(LeftMemberID(i)) = i
    BY Neighbours
  <2>2. T[i].left = T[LeftMemberID(i)].run
    BY <1>2, <2>1
  <2>3. T[i] = [run |-> T[i].run, reply |-> T[i].reply, left |-> T[i].left]
    BY <1>1 DEF Makings
  <2>4. QED
    BY <1>2, <2>1, <2>2, <2>3 DEF Turn
<1>4. E \in [Parties -> Runs]
  BY <1>1 DEF Makings
<1> HIDE DEF E
<1>5. MadeInRuns(v, E)
  BY <1>1, <1>3 DEF MadeInRuns
<1>6. QED
  BY <1>4, <1>5

\* The key computed from such entries names the runs that were in it.
LEMMA KeyFromRuns ==
    ASSUME N > 1, NEW p \in Parties, NEW v, NEW E \in [Parties -> Runs], MadeInRuns(v, E),
           \A i \in Parties : v[i].pid = i
    PROVE  SessionKey(p, KexAkeSharedB(LeftMemberID(p), E[LeftMemberID(p)]), v) = KeyOfRuns(E)
<1> DEFINE L == [q \in Parties |-> KexAkeSharedB(LeftMemberID(q), E[LeftMemberID(q)])]
<1>1. Xs(v) = RingXs(L, N)
  <2>1. ASSUME NEW i \in Parties
        PROVE  v[i].x = XorKeys(L[(i + 1) % N], L[i])
    <3>1. RightMemberID(i) \in Parties /\ LeftMemberID(RightMemberID(i)) = i
      BY Neighbours
    <3>2. L[RightMemberID(i)] = KexAkeSharedA(i, E[i], E[i])
      BY <3>1 DEF KexAkeSharedA, KexAkeSharedB
    <3>3. v[i].x = XorKeys(KexAkeSharedA(i, E[i], E[i]),
                           KexAkeSharedB(LeftMemberID(i), E[LeftMemberID(i)]))
      BY DEF MadeInRuns, MadeX, Turn
    <3>4. QED
      BY <3>2, <3>3 DEF RightMemberID
  <2>2. QED
    BY <2>1, Zenon DEF Xs, RingXs, Parties
<1>2. L[p] = KexAkeSharedB(LeftMemberID(p), E[LeftMemberID(p)])
  OBVIOUS
<1> HIDE DEF L
<1>3. \A q \in Parties : ComputeAllLeftKeys(N, p, L[p], RingXs(L, N))[q] = L[q]
  BY NAssumption, LeftKeysOfRing DEF Parties
<1>4. ComputeAllLeftKeys(N, p, L[p], RingXs(L, N)) = L
  <2>1. ComputeAllLeftKeys(N, p, L[p], RingXs(L, N)) =
            [q \in Parties |-> ComputeAllLeftKeys(N, p, L[p], RingXs(L, N))[q]]
    BY DEF ComputeAllLeftKeys, Parties
  <2>2. L = [q \in Parties |-> L[q]]
    BY DEF L
  <2>3. QED
    BY <1>3, <2>1, <2>2
<1>5. [i \in Parties |-> v[i].pid] = [q \in Parties |-> q]
  OBVIOUS
<1>6. SessionKey(p, L[p], v) = computeSharedSecret(L, [q \in Parties |-> q])
  BY <1>1, <1>4, <1>5 DEF SessionKey
<1>7. QED
  BY <1>2, <1>6, Zenon DEF computeSharedSecret, KeyOfRuns, L

LEMMA KeyOfRunsType ==
    ASSUME N > 1, NEW E \in [Parties -> Runs], MaxEpoch \in Nat
    PROVE  /\ KeyOfRuns(E) \in SessionKeys
           /\ KeyOfRuns(E) # NoKey
           /\ \A i \in Parties : KeyOfRuns(E).leftKeys[RightMemberID(i)] = KexAkeSharedB(i, E[i])
<1>1. ASSUME NEW q \in Parties
      PROVE  KexAkeSharedB(LeftMemberID(q), E[LeftMemberID(q)]) \in Keys
  <2>1. LeftMemberID(q) \in Parties /\ E[LeftMemberID(q)] \in Nat
    BY Neighbours DEF Runs
  <2>2. QED
    BY <2>1 DEF KexAkeSharedB, Keys, Secret, Secrets
<1>2. KeyOfRuns(E) \in SessionKeys
  BY <1>1 DEF KeyOfRuns, SessionKeys
<1>3. ASSUME NEW i \in Parties
      PROVE  KeyOfRuns(E).leftKeys[RightMemberID(i)] = KexAkeSharedB(i, E[i])
  BY Neighbours DEF KeyOfRuns
<1>4. QED
  BY <1>2, <1>3, NoKeyAssumption

\* The own entry tells the member's present run, and that it is in it.
LEMMA RunsOfView ==
    ASSUME N > 1, NEW p \in Parties, NEW v, NEW left, NEW right,
           NEW e \in Runs, NEW f \in Runs, NEW l \in Runs,
           left = KexAkeSharedB(LeftMemberID(p), l), right = KexAkeSharedA(p, e, f),
           v[p].x = XorKeys(right, left),
           \A i \in Parties : GoodEntry(i, v[i]), ChecksPass(v)
    PROVE  \E E \in [Parties -> Runs] :
            /\ MadeInRuns(v, E)
            /\ E[p] = e
            /\ SessionKey(p, left, v) = KeyOfRuns(E)
<1>1. PICK E \in [Parties -> Runs] : MadeInRuns(v, E)
  BY RingOfRuns
<1> DEFINE own == [run |-> e, reply |-> f, left |-> l]
<1>2. own \in Makings /\ v[p].x = MadeX(p, own)
  BY DEF Makings, MadeX
<1>3. Turn(p, E) \in Makings /\ v[p].x = MadeX(p, Turn(p, E))
  BY <1>1, TurnType DEF MadeInRuns
<1>4. own = Turn(p, E)
  <2> HIDE DEF own
  <2>1. QED
    BY <1>2, <1>3, XOfTwo
<1>5. E[p] = e /\ E[LeftMemberID(p)] = l
  BY <1>4 DEF Turn
<1>6. SessionKey(p, left, v) = KeyOfRuns(E)
  BY <1>1, <1>5, KeyFromRuns DEF GoodEntry
<1>7. QED
  BY <1>1, <1>5, <1>6

\* All entries in the arrays are good ones.
LEMMA EntriesGood ==
    ASSUME EntryInvariant, NEW i \in Parties, NEW entry \in EntriesOf(i)
    PROVE  GoodEntry(i, entry)
  BY DEF EntryInvariant, GoodEntry

LEMMA ViewEntries ==
    ASSUME NEW p \in Parties, NEW i \in Parties, view[p][i] # BlankEntry
    PROVE  view[p][i] \in EntriesOf(i)
  BY DEF EntriesOf

\* A running member's cluster session key names the runs in it, among them its
\* own present run.
LEMMA KeyedRuns ==
    ASSUME RestartInv, MaxEpoch \in Nat, NEW p \in Parties, Keyed(p)
    PROVE  /\ N > 1
           /\ \E E \in [Parties -> Runs] :
                /\ MadeInRuns(view[p], E)
                /\ \A i \in Parties : Turn(i, E) \in MadeBy(i)
                /\ E[p] = epoch[p]
                /\ clusterSessionKey[p] = KeyOfRuns(E)
<1>1. /\ N > 1
      /\ \A i \in Parties : view[p][i] # BlankEntry
      /\ ChecksPass(view[p])
      /\ clusterSessionKey[p] = SessionKey(p, keyLeft[p], view[p])
  BY DEF RestartInv, KeyedInvariant, Keyed
<1>2. \A i \in Parties : view[p][i] \in EntriesOf(i)
  BY <1>1, ViewEntries
<1>3. \A i \in Parties : GoodEntry(i, view[p][i])
  BY <1>2, EntriesGood DEF RestartInv
<1>4. /\ keyLeft[p] # Zero /\ keyRight[p] # Zero
      /\ view[p][p].x = XorKeys(keyRight[p], keyLeft[p])
      /\ epoch[p] <= MaxEpoch /\ epoch[p] >= 1
      /\ epoch[LeftMemberID(p)] <= MaxEpoch
      /\ epoch[p] \in Nat /\ epoch[LeftMemberID(p)] \in Nat
  BY <1>1, Neighbours DEF RestartInv, SessionInvariant, Keyed, Live, TypeOK
<1>5. PICK l \in 1 .. epoch[LeftMemberID(p)] : keyLeft[p] = KexAkeSharedB(LeftMemberID(p), l)
  BY <1>4 DEF RestartInv, SessionInvariant
<1>6. PICK f \in 1 .. epoch[p] : keyRight[p] = KexAkeSharedA(p, epoch[p], f)
  BY <1>4 DEF RestartInv, SessionInvariant
<1>7. l \in Runs /\ f \in Runs /\ epoch[p] \in Runs
  BY <1>4 DEF Runs
<1>8. PICK E \in [Parties -> Runs] :
            /\ MadeInRuns(view[p], E)
            /\ E[p] = epoch[p]
            /\ SessionKey(p, keyLeft[p], view[p]) = KeyOfRuns(E)
  BY <1>1, <1>3, <1>4, <1>5, <1>6, <1>7, RunsOfView
<1>9. \A i \in Parties : Turn(i, E) \in MadeBy(i)
  BY <1>2, <1>8, TurnType DEF MadeBy, MadeInRuns
<1>10. QED
  BY <1>1, <1>8, <1>9
-----------------------------------------------------------------------------
(***************************************************************************)
(* The four properties follow from the invariant.                          *)
(***************************************************************************)
\* A key in which a later or the same run of p took part has no earlier run of anybody.
LEMMA NoEarlierRun ==
    ASSUME RestartInv, N > 1, MaxEpoch \in Nat,
           NEW E \in [Parties -> Runs], NEW F \in [Parties -> Runs],
           \A i \in Parties : Turn(i, E) \in MadeBy(i) /\ Turn(i, F) \in MadeBy(i),
           NEW p \in Parties, F[p] <= E[p]
    PROVE  \A i \in Parties : F[i] <= E[i]
<1> DEFINE S == {i \in Parties : F[i] <= E[i]}
<1>1. ASSUME NEW i \in Parties, F[i] <= E[i]
      PROVE  F[RightMemberID(i)] <= E[RightMemberID(i)]
  <2> DEFINE j == RightMemberID(i)
             a == Turn(j, F)
             b == Turn(j, E)
             c == Turn(i, F)
  <2>1. j \in Parties /\ LeftMemberID(j) = i
    BY Neighbours
  <2>2. a \in MadeBy(j) /\ b \in MadeBy(j) /\ c \in MadeBy(LeftMemberID(j))
    BY <2>1
  <2>3. /\ a.run = F[j] /\ a.left = F[i] /\ b.run = E[j] /\ b.left = E[i]
        /\ c.run = F[i] /\ c.reply = F[i]
    BY <2>1 DEF Turn
  <2>4. F[j] \in Int /\ E[j] \in Int /\ F[i] \in Int /\ E[i] \in Int
    BY <2>1 DEF Runs
  <2> HIDE DEF j, a, b, c
  <2>5. CASE F[i] = E[i]
    <3>1. a.run = b.run
      BY <2>1, <2>2, <2>3, <2>5 DEF RestartInv, OneRunPerAkeOne
    <3>2. QED
      BY <2>3, <2>4, <3>1 DEF j
  <2>6. CASE F[i] < E[i]
    <3>1. a.run <= b.run
      BY <2>1, <2>2, <2>3, <2>6 DEF RestartInv, RunsInOrder
    <3>2. QED
      BY <2>3, <3>1 DEF j
  <2>7. QED
    BY <1>1, <2>4, <2>5, <2>6
<1>2. \A i \in Parties : i \in S => RightMemberID(i) \in S
  BY <1>1, Neighbours
<1>3. p \in S
  OBVIOUS
<1> HIDE DEF S
<1>4. \A i \in Parties : i \in S
  BY <1>2, <1>3, AroundTheRing
<1>5. QED
  BY <1>4 DEF S

LEMMA MadeBefore ==
    ASSUME RestartInv, N > 1, MaxEpoch \in Nat, NEW i \in Parties, NEW t \in MadeBy(i)
    PROVE  t \in Makings /\ t.run <= epoch[i] /\ t.reply <= epoch[i]
           /\ t.left <= epoch[LeftMemberID(i)]
<1>1. PICK entry \in EntriesOf(i) : entry.x = MadeX(i, t)
  BY DEF MadeBy
<1>2. PICK u \in Makings :
        /\ entry.x = MadeX(i, u)
        /\ u.run <= epoch[i] /\ u.reply <= epoch[i] /\ u.left <= epoch[LeftMemberID(i)]
  BY DEF RestartInv, EntryInvariant
<1>3. t \in Makings /\ u = t
  BY <1>1, <1>2, XOfTwo DEF MadeBy
<1>4. QED
  BY <1>2, <1>3

\* No run in either key is later than the present one of a member that is in both
\* with its present run, so neither key has a run that is earlier than the other's.
LEMMA KeysAgree ==
    ASSUME RestartInv, MaxEpoch \in Nat
    PROVE  LiveKeyAgreement
<1>1. ASSUME NEW p \in Parties, NEW q \in Parties, Keyed(p), Keyed(q)
      PROVE  clusterSessionKey[p] = clusterSessionKey[q]
  <2>1. N > 1
    BY <1>1, KeyedRuns
  <2>2. PICK E \in [Parties -> Runs] :
            /\ \A i \in Parties : Turn(i, E) \in MadeBy(i)
            /\ E[p] = epoch[p]
            /\ clusterSessionKey[p] = KeyOfRuns(E)
    BY <1>1, KeyedRuns
  <2>3. PICK F \in [Parties -> Runs] :
            /\ \A i \in Parties : Turn(i, F) \in MadeBy(i)
            /\ F[q] = epoch[q]
            /\ clusterSessionKey[q] = KeyOfRuns(F)
    BY <1>1, KeyedRuns
  <2>4. F[p] <= E[p] /\ E[q] <= F[q]
    <3>1. Turn(p, F).run <= epoch[p] /\ Turn(q, E).run <= epoch[q]
      BY <2>1, <2>2, <2>3, MadeBefore
    <3>2. QED
      BY <2>2, <2>3, <3>1 DEF Turn
  <2>5. \A i \in Parties : F[i] <= E[i] /\ E[i] <= F[i]
    BY <2>1, <2>2, <2>3, <2>4, NoEarlierRun
  <2>6. \A i \in Parties : E[i] = F[i]
    BY <2>5 DEF Runs
  <2>7. E = F
    BY <2>6
  <2>8. QED
    BY <2>2, <2>3, <2>7
<1>2. QED
  BY <1>1 DEF LiveKeyAgreement

\* A key has the leader's present run in it only if it is under that key that the
\* leader has sent its main session key.
LEMMA MainKeysAgree ==
    ASSUME RestartInv, MaxEpoch \in Nat
    PROVE  LiveMainKeyAgreement
<1>1. ASSUME NEW p \in Parties, Keyed(p), Keyed(Leader), mainSessionKey[Leader] # NoKey,
             mainSessionKey[p] # NoKey
      PROVE  mainSessionKey[p] = mainSessionKey[Leader]
  <2>1. clusterSessionKey[p] = clusterSessionKey[Leader]
    BY <1>1, KeysAgree, LeaderAssumption DEF LiveKeyAgreement
  <2>2. PICK E \in [Parties -> Runs] :
            E[Leader] = epoch[Leader] /\ clusterSessionKey[Leader] = KeyOfRuns(E)
    BY <1>1, KeyedRuns, LeaderAssumption
  <2>3. OfLeaderRun(clusterSessionKey[p], epoch[Leader])
    BY <1>1, <2>1, <2>2, KeyedRuns, KeyOfRunsType, LeaderAssumption DEF OfLeaderRun
  <2>4. status[Leader] # "off"
    BY <1>1 DEF Keyed, Live
  <2>5. p # Leader => MainOfRun(clusterSessionKey[p], mainSessionKey[p])
    BY <1>1 DEF RestartInv, MainKeyInvariant
  <2>6. QED
    BY <2>3, <2>4, <2>5 DEF MainOfRun
<1>2. QED
  BY <1>1 DEF LiveMainKeyAgreement

LEMMA NoGarbage ==
    ASSUME RestartInv, MaxEpoch \in Nat
    PROVE  NoGarbageInKey
<1>1. ASSUME NEW p \in Parties, Keyed(p), NEW q \in Parties
      PROVE  \E e \in Runs :
                clusterSessionKey[p].leftKeys[q] = {Secret((q + N - 1) % N, e, e)}
  <2>1. PICK E \in [Parties -> Runs] : clusterSessionKey[p] = KeyOfRuns(E)
    BY <1>1, KeyedRuns
  <2>2. clusterSessionKey[p].leftKeys[q] = KexAkeSharedB(LeftMemberID(q), E[LeftMemberID(q)])
    BY <2>1 DEF KeyOfRuns
  <2>3. E[LeftMemberID(q)] \in Runs
    BY Neighbours
  <2>4. QED
    BY <2>2, <2>3 DEF KexAkeSharedB, LeftMemberID
<1>2. QED
  BY <1>1 DEF NoGarbageInKey, Runs
-----------------------------------------------------------------------------
(***************************************************************************)
(* Every step but the start of a program leaves the runs as they are.  It  *)
(* takes keys from messages or forgets them, answers an AkeOne by taking   *)
(* it, and makes entries of the keys that are then there.                  *)
(***************************************************************************)
RoundStep ==
    /\ epoch' = epoch
    /\ \A q \in Parties :
        /\ \/ keyLeft'[q] \in {keyLeft[q], Zero}
           \/ \E m \in net \ net' :
                m.type = "AkeOne" /\ m.to = q /\ keyLeft'[q] = KexAkeSharedB(m.from, m.eph)
        /\ \/ keyRight'[q] \in {keyRight[q], Zero}
           \/ \E m \in net :
                m.type = "AkeTwo" /\ m.to = q /\ keyRight'[q] = KexAkeSharedA(q, epoch[q], m.eph)
    /\ \A m \in net' :
        \/ m \in net
        \/ m.type \in {"XiRiCommitment", "Key"}
        \/ m.type = "AkeTwo" /\ \E k \in net \ net' :
                k.type = "AkeOne" /\ k.from = m.to /\ k.eph = m.eph
    /\ \A i \in Parties : \A entry \in EntriesOf(i)' :
        \/ entry \in EntriesOf(i)
        \/ /\ keyLeft'[i] # Zero /\ keyRight'[i] # Zero
           /\ \E r \in Coins : entry = XiEntry(i, keyRight'[i], keyLeft'[i], r)

LEMMA AkeMessages ==
    ASSUME RestartInv, NEW m \in net
    PROVE  /\ m.type = "AkeOne" =>
                /\ m.from \in Parties /\ m.to \in Parties
                /\ m.to = RightMemberID(m.from) /\ m.from = LeftMemberID(m.to)
                /\ m.eph \in 1 .. epoch[m.from]
                /\ m = AkeOneMsg(m.from, m.eph)
           /\ m.type = "AkeTwo" => m.to \in Parties /\ m.eph \in 1 .. epoch[m.to]
<1>1. m \in Messages
  BY DEF RestartInv, TypeOK
<1>2. /\ m.type = "AkeOne" => m.to = RightMemberID(m.from) /\ m.eph \in 1 .. epoch[m.from]
      /\ m.type = "AkeTwo" => m.eph \in 1 .. epoch[m.to]
  BY DEF RestartInv, MessageInvariant
<1>3. CASE m.type = "AkeOne"
  <2>1. m = [type |-> "AkeOne", from |-> m.from, to |-> m.to, eph |-> m.eph]
        /\ m.from \in Parties /\ m.to \in Parties
    BY <1>1, <1>3 DEF Messages
  <2>2. m = AkeOneMsg(m.from, m.eph)
    BY <1>2, <1>3, <2>1 DEF AkeOneMsg
  <2>3. QED
    BY <1>2, <1>3, <2>1, <2>2, Neighbours
<1>4. CASE m.type = "AkeTwo"
  <2>1. m.to \in Parties
    BY <1>1, <1>4 DEF Messages
  <2>2. QED
    BY <1>2, <1>4, <2>1
<1>5. QED
  BY <1>3, <1>4

\* The keys after such a step are of the runs there are.
LEMMA RoundKeys ==
    ASSUME RestartInv, RoundStep, NEW q \in Parties
    PROVE  /\ keyLeft'[q] # Zero =>
                \E e \in 1 .. epoch[LeftMemberID(q)] : keyLeft'[q] = KexAkeSharedB(LeftMemberID(q), e)
           /\ keyRight'[q] # Zero =>
                \E e \in 1 .. epoch[q] : keyRight'[q] = KexAkeSharedA(q, epoch[q], e)
<1>1. ASSUME keyLeft'[q] # Zero, keyLeft'[q] = keyLeft[q]
      PROVE  \E e \in 1 .. epoch[LeftMemberID(q)] : keyLeft'[q] = KexAkeSharedB(LeftMemberID(q), e)
  BY <1>1 DEF RestartInv, SessionInvariant
<1>2. ASSUME NEW m \in net, m.type = "AkeOne", m.to = q, keyLeft'[q] = KexAkeSharedB(m.from, m.eph)
      PROVE  \E e \in 1 .. epoch[LeftMemberID(q)] : keyLeft'[q] = KexAkeSharedB(LeftMemberID(q), e)
  BY <1>2, AkeMessages
<1>3. ASSUME keyRight'[q] # Zero, keyRight'[q] = keyRight[q]
      PROVE  \E e \in 1 .. epoch[q] : keyRight'[q] = KexAkeSharedA(q, epoch[q], e)
  BY <1>3 DEF RestartInv, SessionInvariant
<1>4. ASSUME NEW m \in net, m.type = "AkeTwo", m.to = q,
             keyRight'[q] = KexAkeSharedA(q, epoch[q], m.eph)
      PROVE  \E e \in 1 .. epoch[q] : keyRight'[q] = KexAkeSharedA(q, epoch[q], e)
  BY <1>4, AkeMessages
<1>5. keyLeft'[q] # Zero =>
        \E e \in 1 .. epoch[LeftMemberID(q)] : keyLeft'[q] = KexAkeSharedB(LeftMemberID(q), e)
  BY <1>1, <1>2 DEF RoundStep
<1>6. keyRight'[q] # Zero =>
        \E e \in 1 .. epoch[q] : keyRight'[q] = KexAkeSharedA(q, epoch[q], e)
  BY <1>3, <1>4 DEF RoundStep
<1>7. QED
  BY <1>5, <1>6

\* What a member makes of its two keys, and in which run.
LEMMA NewEntry ==
    ASSUME RestartInv, RoundStep, MaxEpoch \in Nat, NEW i \in Parties, NEW r \in Coins,
           keyLeft'[i] # Zero, keyRight'[i] # Zero
    PROVE  LET entry == XiEntry(i, keyRight'[i], keyLeft'[i], r) IN
           /\ entry \in Entries
           /\ entry.x = XorKeys(keyRight'[i], keyLeft'[i])
           /\ entry.commitment = Commit_pke(i, entry.x, i, entry.r)
           /\ entry.pid = i
           /\ \E t \in Makings :
                /\ entry.x = MadeX(i, t)
                /\ keyLeft'[i] = KexAkeSharedB(LeftMemberID(i), t.left)
                /\ keyRight'[i] = KexAkeSharedA(i, epoch[i], t.reply)
                /\ t.run = epoch[i] /\ t.reply <= epoch[i] /\ t.left <= epoch[LeftMemberID(i)]
<1> DEFINE x == XorKeys(keyRight'[i], keyLeft'[i])
           j == LeftMemberID(i)
<1>1. PICK e \in 1 .. epoch[j] : keyLeft'[i] = KexAkeSharedB(j, e)
  BY RoundKeys
<1>2. PICK f \in 1 .. epoch[i] : keyRight'[i] = KexAkeSharedA(i, epoch[i], f)
  BY RoundKeys
<1>3. /\ j \in Parties
      /\ epoch[i] \in Nat /\ epoch[j] \in Nat /\ epoch[i] <= MaxEpoch /\ epoch[j] <= MaxEpoch
  BY Neighbours DEF RestartInv, TypeOK, SessionInvariant
<1> HIDE DEF j
<1>4. e \in Runs /\ f \in Runs /\ epoch[i] \in Runs
  BY <1>3 DEF Runs
<1>5. x \in Keys
  BY <1>1, <1>2, <1>3 DEF KexAkeSharedA, KexAkeSharedB, Secret, Secrets, Keys, XorKeys
<1> DEFINE t == [run |-> epoch[i], reply |-> f, left |-> e]
<1>6. t \in Makings /\ x = MadeX(i, t)
  BY <1>1, <1>2, <1>4 DEF Makings, MadeX, j
<1>7. /\ keyLeft'[i] = KexAkeSharedB(LeftMemberID(i), t.left)
      /\ keyRight'[i] = KexAkeSharedA(i, epoch[i], t.reply)
      /\ t.run = epoch[i] /\ t.reply <= epoch[i] /\ t.left <= epoch[LeftMemberID(i)]
  BY <1>1, <1>2, <1>3 DEF j
<1> HIDE DEF x, t
<1>8. Commit_pke(i, x, i, r) \in Commitments
  BY <1>5 DEF Commit_pke, Commitments
<1>9. XiEntry(i, keyRight'[i], keyLeft'[i], r) =
        [x |-> x, r |-> r, commitment |-> Commit_pke(i, x, i, r), pid |-> i]
  BY DEF XiEntry, x
<1>10. [x |-> x, r |-> r, commitment |-> Commit_pke(i, x, i, r), pid |-> i] \in Entries
  BY <1>5, <1>8 DEF Entries
<1>11. QED
  BY <1>6, <1>7, <1>9, <1>10 DEF x

LEMMA RoundStepEntries ==
    ASSUME RestartInv, RoundStep, MaxEpoch \in Nat
    PROVE  EntryInvariant'
<1>1. ASSUME NEW i \in Parties, NEW entry \in EntriesOf(i)'
      PROVE  /\ entry \in Entries
             /\ entry.commitment = Commit_pke(i, entry.x, i, entry.r)
             /\ entry.pid = i
             /\ \E t \in Makings :
                    /\ entry.x = MadeX(i, t)
                    /\ t.run <= epoch[i] /\ t.reply <= epoch[i] /\ t.left <= epoch[LeftMemberID(i)]
  <2>1. CASE entry \in EntriesOf(i)
    BY <2>1 DEF RestartInv, EntryInvariant
  <2>2. ASSUME keyLeft'[i] # Zero, keyRight'[i] # Zero,
               NEW r \in Coins, entry = XiEntry(i, keyRight'[i], keyLeft'[i], r)
        PROVE  /\ entry \in Entries
               /\ entry.commitment = Commit_pke(i, entry.x, i, entry.r)
               /\ entry.pid = i
               /\ \E t \in Makings :
                    /\ entry.x = MadeX(i, t)
                    /\ t.run <= epoch[i] /\ t.reply <= epoch[i] /\ t.left <= epoch[LeftMemberID(i)]
    <3>1. epoch[i] \in Nat
      BY DEF RestartInv, TypeOK
    <3>2. QED
      BY <2>2, <3>1, NewEntry
  <2>3. QED
    BY <2>1, <2>2 DEF RoundStep
<1>2. epoch' = epoch
  BY DEF RoundStep
<1>3. QED
  BY <1>1, <1>2 DEF EntryInvariant

\* In a ring of several members an entry that was not there before is made of the
\* keys of the present run.
LEMMA NewMaking ==
    ASSUME RestartInv, RoundStep, MaxEpoch \in Nat, N > 1,
           NEW i \in Parties, NEW t \in MadeBy(i)'
    PROVE  /\ t \in Makings
           /\ t.run <= epoch[i] /\ t.reply <= epoch[i] /\ t.left <= epoch[LeftMemberID(i)]
           /\ \/ t \in MadeBy(i)
              \/ /\ t.run = epoch[i]
                 /\ keyLeft'[i] = KexAkeSharedB(LeftMemberID(i), t.left)
                 /\ keyRight'[i] = KexAkeSharedA(i, epoch[i], t.reply)
<1>1. PICK entry \in EntriesOf(i)' : entry.x = MadeX(i, t)
  BY DEF MadeBy
<1>2. t \in Makings
  BY DEF MadeBy
<1>3. CASE entry \in EntriesOf(i)
  <2>1. t \in MadeBy(i)
    BY <1>1, <1>2, <1>3 DEF MadeBy
  <2>2. QED
    BY <1>2, <2>1, MadeBefore
<1>4. ASSUME keyLeft'[i] # Zero, keyRight'[i] # Zero,
             NEW r \in Coins, entry = XiEntry(i, keyRight'[i], keyLeft'[i], r)
      PROVE  /\ t.run <= epoch[i] /\ t.reply <= epoch[i] /\ t.left <= epoch[LeftMemberID(i)]
             /\ t.run = epoch[i]
             /\ keyLeft'[i] = KexAkeSharedB(LeftMemberID(i), t.left)
             /\ keyRight'[i] = KexAkeSharedA(i, epoch[i], t.reply)
  <2>1. PICK u \in Makings :
                /\ entry.x = MadeX(i, u)
                /\ keyLeft'[i] = KexAkeSharedB(LeftMemberID(i), u.left)
                /\ keyRight'[i] = KexAkeSharedA(i, epoch[i], u.reply)
                /\ u.run = epoch[i] /\ u.reply <= epoch[i] /\ u.left <= epoch[LeftMemberID(i)]
    BY <1>4, NewEntry
  <2>2. u = t
    BY <1>1, <1>2, <2>1, XOfTwo
  <2>3. epoch[i] \in Nat
    BY DEF RestartInv, TypeOK
  <2>4. QED
    BY <2>1, <2>2, <2>3
<1>5. QED
  BY <1>2, <1>3, <1>4 DEF RoundStep

\* What comes of an AkeOne comes of it after the message was taken.
LEMMA RoundStepPending ==
    ASSUME RestartInv, RoundStep, MaxEpoch \in Nat, N > 1
    PROVE  PendingUnused'
<1>1. ASSUME NEW m \in net', m.type = "AkeOne"
      PROVE  /\ keyLeft'[m.to] # KexAkeSharedB(m.from, m.eph)
             /\ keyRight'[m.from] # KexAkeSharedA(m.from, epoch[m.from], m.eph)
             /\ \A k \in net' : k.type = "AkeTwo" /\ k.to = m.from => k.eph # m.eph
             /\ \A t \in MadeBy(m.from)' : t.reply # m.eph
             /\ \A t \in MadeBy(m.to)' : t.left # m.eph
  <2>1. m \in net
    BY <1>1 DEF RoundStep
  <2>2. /\ m.from \in Parties /\ m.to \in Parties /\ m.from = LeftMemberID(m.to)
        /\ m = AkeOneMsg(m.from, m.eph)
    BY <1>1, <2>1, AkeMessages
  <2>3. /\ keyLeft[m.to] # KexAkeSharedB(m.from, m.eph)
        /\ keyRight[m.from] # KexAkeSharedA(m.from, epoch[m.from], m.eph)
        /\ \A k \in net : k.type = "AkeTwo" /\ k.to = m.from => k.eph # m.eph
        /\ \A t \in MadeBy(m.from) : t.reply # m.eph
        /\ \A t \in MadeBy(m.to) : t.left # m.eph
    BY <1>1, <2>1 DEF RestartInv, PendingUnused
  <2>4. ASSUME NEW k \in net \ net', k.type = "AkeOne", k.from = m.from
        PROVE  k.eph # m.eph
    BY <2>2, <2>4, AkeMessages
  <2>5. keyLeft'[m.to] # KexAkeSharedB(m.from, m.eph)
    <3>1. ASSUME NEW k \in net \ net', k.type = "AkeOne", k.to = m.to
          PROVE  KexAkeSharedB(k.from, k.eph) # KexAkeSharedB(m.from, m.eph)
      <4>1. k.from = m.from
        BY <2>2, <3>1, AkeMessages
      <4>2. k.eph # m.eph
        BY <2>4, <3>1, <4>1
      <4>3. QED
        BY <4>2, SecretsDiffer
    <3>2. KexAkeSharedB(m.from, m.eph) # Zero
      BY SecretsDiffer
    <3>3. QED
      BY <2>2, <2>3, <3>1, <3>2 DEF RoundStep
  <2>6. keyRight'[m.from] # KexAkeSharedA(m.from, epoch[m.from], m.eph)
    <3>1. ASSUME NEW k \in net, k.type = "AkeTwo", k.to = m.from
          PROVE  KexAkeSharedA(m.from, epoch[m.from], k.eph)
                    # KexAkeSharedA(m.from, epoch[m.from], m.eph)
      BY <2>3, <3>1, SecretsDiffer
    <3>2. KexAkeSharedA(m.from, epoch[m.from], m.eph) # Zero
      BY SecretsDiffer
    <3>3. QED
      BY <2>2, <2>3, <3>1, <3>2 DEF RoundStep
  <2>7. \A k \in net' : k.type = "AkeTwo" /\ k.to = m.from => k.eph # m.eph
    BY <2>3, <2>4 DEF RoundStep
  <2>8. \A t \in MadeBy(m.from)' : t.reply # m.eph
    BY <2>2, <2>3, <2>6, NewMaking
  <2>9. \A t \in MadeBy(m.to)' : t.left # m.eph
    BY <2>2, <2>3, <2>5, NewMaking
  <2>10. QED
    BY <2>5, <2>6, <2>7, <2>8, <2>9
<1>2. epoch' = epoch
  BY DEF RoundStep
<1>3. QED
  BY <1>1, <1>2 DEF PendingUnused

\* The key of an AkeOne that has just been taken has been in nothing before.
LEMMA FreshLeftKey ==
    ASSUME RestartInv, RoundStep, N > 1, NEW j \in Parties, NEW e,
           keyLeft'[j] = KexAkeSharedB(LeftMemberID(j), e),
           keyLeft[j] # KexAkeSharedB(LeftMemberID(j), e)
    PROVE  /\ \A t \in MadeBy(j) : t.left # e
           /\ \A t \in MadeBy(LeftMemberID(j)) : t.reply # e
<1>1. keyLeft'[j] # Zero
  BY SecretsDiffer
<1>2. PICK m \in net : m.type = "AkeOne" /\ m.to = j /\ keyLeft'[j] = KexAkeSharedB(m.from, m.eph)
  BY <1>1 DEF RoundStep
<1>3. m.from = LeftMemberID(j) /\ m.eph = e
  <2>1. KexAkeSharedB(LeftMemberID(j), e) = KexAkeSharedB(m.from, m.eph)
    BY <1>2
  <2>2. QED
    BY <2>1, LeftSecretsDiffer
<1>4. /\ \A t \in MadeBy(m.from) : t.reply # m.eph
      /\ \A t \in MadeBy(m.to) : t.left # m.eph
  BY <1>2 DEF RestartInv, PendingUnused
<1>5. QED
  BY <1>2, <1>3, <1>4

\* Entries made of one AkeOne are of one run, whether they were there before or not.
LEMMA SameRun ==
    ASSUME RestartInv, RoundStep, MaxEpoch \in Nat, N > 1, NEW j \in Parties,
           NEW a \in MadeBy(j) \union MadeBy(j)', NEW b \in MadeBy(j)', a.left = b.left
    PROVE  a.run = b.run
<1>1. ASSUME NEW t \in MadeBy(j),
             keyLeft'[j] = KexAkeSharedB(LeftMemberID(j), t.left)
      PROVE  t.run = epoch[j]
  <2>1. keyLeft[j] = KexAkeSharedB(LeftMemberID(j), t.left)
    BY <1>1, FreshLeftKey
  <2>2. QED
    BY <2>1 DEF RestartInv, OneRunPerAkeOne
<1>2. CASE a \in MadeBy(j) /\ b \in MadeBy(j)
  BY <1>2 DEF RestartInv, OneRunPerAkeOne
<1>3. CASE a \in MadeBy(j) /\ b \notin MadeBy(j)
  <2>1. b.run = epoch[j] /\ keyLeft'[j] = KexAkeSharedB(LeftMemberID(j), b.left)
    BY <1>3, NewMaking
  <2>2. QED
    BY <1>1, <1>3, <2>1
<1>4. CASE a \notin MadeBy(j) /\ b \in MadeBy(j)
  <2>1. a.run = epoch[j] /\ keyLeft'[j] = KexAkeSharedB(LeftMemberID(j), a.left)
    BY <1>4, NewMaking
  <2>2. QED
    BY <1>1, <1>4, <2>1
<1>5. CASE a \notin MadeBy(j) /\ b \notin MadeBy(j)
  BY <1>5, NewMaking
<1>6. QED
  BY <1>2, <1>3, <1>4, <1>5

LEMMA RoundStepOneRun ==
    ASSUME RestartInv, RoundStep, MaxEpoch \in Nat, N > 1
    PROVE  OneRunPerAkeOne'
<1>1. ASSUME NEW j \in Parties, NEW b \in MadeBy(j)',
             keyLeft'[j] = KexAkeSharedB(LeftMemberID(j), b.left)
      PROVE  b.run = epoch[j]
  <2>1. CASE b \in MadeBy(j)
    <3>1. keyLeft[j] = KexAkeSharedB(LeftMemberID(j), b.left)
      BY <1>1, <2>1, FreshLeftKey
    <3>2. QED
      BY <2>1, <3>1 DEF RestartInv, OneRunPerAkeOne
  <2>2. CASE b \notin MadeBy(j)
    BY <2>2, NewMaking
  <2>3. QED
    BY <2>1, <2>2
<1>2. epoch' = epoch
  BY DEF RoundStep
<1>3. QED
  BY <1>1, <1>2, SameRun DEF OneRunPerAkeOne

\* A new entry is made in the latest run of its maker.  It is made of an earlier
\* run of the left neighbour than another entry only in the run of that one, if
\* the neighbour's earlier run had got its reply.
LEMMA RoundStepOrder ==
    ASSUME RestartInv, RoundStep, MaxEpoch \in Nat, N > 1
    PROVE  RunsInOrder'
<1>1. ASSUME NEW j \in Parties, NEW c \in MadeBy(LeftMemberID(j))', NEW b \in MadeBy(j)',
             c.run = c.reply, c.run < b.left,
             keyLeft'[j] = KexAkeSharedB(LeftMemberID(j), c.run)
      PROVE  b.run = epoch[j]
  <2> DEFINE i == LeftMemberID(j)
  <2>1. i \in Parties /\ epoch[i] \in Nat
    BY Neighbours DEF RestartInv, TypeOK
  <2>2. b.left <= epoch[i] /\ b.left \in Nat /\ c.run \in Nat
    BY <2>1, NewMaking DEF Makings, Runs
  <2>3. c \in MadeBy(i)
    <3>1. c.run # epoch[i]
      BY <1>1, <2>1, <2>2
    <3>2. QED
      BY <2>1, <3>1, NewMaking
  <2>4. CASE b \notin MadeBy(j)
    BY <2>4, NewMaking
  <2>5. CASE b \in MadeBy(j)
    <3>1. keyLeft[j] = KexAkeSharedB(i, c.run)
      BY <1>1, <2>3, FreshLeftKey
    <3>2. QED
      BY <1>1, <2>3, <2>5, <3>1 DEF RestartInv, RunsInOrder
  <2>6. QED
    BY <2>4, <2>5
<1>2. ASSUME NEW j \in Parties, NEW c \in MadeBy(LeftMemberID(j))', NEW b \in MadeBy(j)',
             c.run = c.reply, c.run < b.left,
             NEW a \in MadeBy(j)', a.left = c.run
      PROVE  a.run <= b.run
  <2> DEFINE i == LeftMemberID(j)
  <2>1. i \in Parties /\ epoch[i] \in Nat /\ epoch[j] \in Nat
    BY Neighbours DEF RestartInv, TypeOK
  <2>2. b.left <= epoch[i] /\ b.left \in Nat /\ c.run \in Nat /\ a.run \in Nat /\ b.run \in Nat
        /\ a.run <= epoch[j] /\ b.run <= epoch[j]
    BY <2>1, NewMaking DEF Makings, Runs
  <2>3. c \in MadeBy(i)
    <3>1. c.run # epoch[i]
      BY <1>2, <2>1, <2>2
    <3>2. QED
      BY <2>1, <3>1, NewMaking
  <2>4. CASE b \notin MadeBy(j)
    <3>1. b.run = epoch[j]
      BY <2>4, NewMaking
    <3>2. QED
      BY <2>1, <2>2, <3>1
  <2>5. CASE a \in MadeBy(j) /\ b \in MadeBy(j)
    BY <1>2, <2>3, <2>5 DEF RestartInv, RunsInOrder
  <2>6. CASE a \notin MadeBy(j) /\ b \in MadeBy(j)
    <3>1. a.run = epoch[j] /\ keyLeft'[j] = KexAkeSharedB(i, a.left)
      BY <2>6, NewMaking
    <3>2. b.run = epoch[j]
      BY <1>1, <1>2, <3>1
    <3>3. QED
      BY <2>1, <3>1, <3>2
  <2>7. QED
    BY <2>4, <2>5, <2>6
<1>3. epoch' = epoch
  BY DEF RoundStep
<1>4. QED
  BY <1>1, <1>2, <1>3 DEF RunsInOrder
-----------------------------------------------------------------------------
(***************************************************************************)
(* The three handlers of the key exchange, at p: v are the arrays they     *)
(* leave, before and after what they send around tryFinalizeProtocol.      *)
(***************************************************************************)
Handler(p, v, before, after) ==
    /\ RoundStep
    /\ status[p] = "up"
    /\ UNCHANGED keyCiphertext
    /\ keyLeft' \in [Parties -> Keys] /\ keyRight' \in [Parties -> Keys]
    /\ \A q \in Parties \ {p} : keyLeft'[q] = keyLeft[q] /\ keyRight'[q] = keyRight[q]
    /\ v \in [Parties -> Entries \union {BlankEntry}]
    /\ view' = [view EXCEPT ![p] = v]
    /\ N > 1 => \A i \in Parties : view[p][i] # BlankEntry => v[i] # BlankEntry
    /\ v[p] # BlankEntry =>
        /\ keyLeft'[p] # Zero /\ keyRight'[p] # Zero
        /\ v[p].x = XorKeys(keyRight'[p], keyLeft'[p])
    /\ before \subseteq Messages /\ after \subseteq Messages
    /\ \A m \in before : m \in net \/ (m.type = "AkeTwo" /\ m.eph \in 1 .. epoch[m.to])
    /\ \A m \in after : m.type = "XiRiCommitment" /\ m.to # m.from
    /\ \/ /\ clusterSessionKey[p] # NoKey => ~ReceivedAllXs(v)
          /\ net' = before \union after
          /\ UNCHANGED <<status, clusterSessionKey, mainSessionKey>>
       \/ ExitWithMsg(p, v, before)
       \/ Finalize(p, keyLeft'[p], v, before, after)

\* The entries that are left are good ones, the new one included.
LEMMA HandlerEntries ==
    ASSUME RestartInv, MaxEpoch \in Nat, NEW p \in Parties, NEW v, NEW before, NEW after,
           Handler(p, v, before, after), NEW i \in Parties, v[i] # BlankEntry
    PROVE  v[i] \in EntriesOf(i)' /\ GoodEntry(i, v[i])
<1>1. v[i] \in EntriesOf(i)'
  <2>1. view'[p][i] = v[i]
    BY DEF Handler, RestartInv, TypeOK
  <2>2. QED
    BY <2>1 DEF EntriesOf
<1>2. EntryInvariant'
  BY RoundStepEntries DEF Handler
<1>3. QED
  BY <1>1, <1>2 DEF EntryInvariant, GoodEntry

\* A member of a cluster of one never finalizes.  Any other finalizes with a key that
\* names its present run, and with the same key again if it had one.
LEMMA HandlerFinalizes ==
    ASSUME RestartInv, MaxEpoch \in Nat, NEW p \in Parties, NEW v, NEW before, NEW after,
           Handler(p, v, before, after), ReceivedAllXs(v), ChecksPass(v)
    PROVE  /\ N > 1
           /\ \A i \in Parties : v[i] # BlankEntry
           /\ \E E \in [Parties -> Runs] :
                /\ E[p] = epoch[p] /\ \A i \in Parties : E[i] \in 1 .. epoch[i]
                /\ SessionKey(p, keyLeft'[p], v) = KeyOfRuns(E)
           /\ clusterSessionKey[p] # NoKey => clusterSessionKey[p] = SessionKey(p, keyLeft'[p], v)
<1>1. N > 1
  <2>1. SUFFICES ASSUME N = 1 PROVE FALSE
    BY NAssumption
  <2>2. CheckXs(Xs(v), 1) /\ 0 \in Parties
    BY <2>1 DEF ChecksPass, Parties
  <2>3. XorOf(Xs(v), {0}) = Zero
    <3>1. 0 .. 1-1 = {0} /\ 1 \in Nat \ {0}
      OBVIOUS
    <3>2. XorOf(Xs(v), 0 .. 1-1) = Zero
      BY <2>2, <3>1, CheckXsIsXor
    <3>3. QED
      BY <3>1, <3>2, Zenon
  <2>4. v[0].x = Zero
    BY <2>2, <2>3, XorOfOne DEF Xs
  <2>5. QED
    BY <2>2, <2>4 DEF ReceivedAllXs
<1>2. \A i \in Parties : v[i] # BlankEntry
  BY DEF ReceivedAllXs, BlankEntry
<1>3. \A i \in Parties : v[i] \in EntriesOf(i)' /\ GoodEntry(i, v[i])
  BY <1>2, HandlerEntries
<1>4. /\ keyLeft'[p] # Zero /\ keyRight'[p] # Zero
      /\ v[p].x = XorKeys(keyRight'[p], keyLeft'[p])
      /\ RoundStep
  BY <1>2 DEF Handler
<1>5. PICK l \in 1 .. epoch[LeftMemberID(p)] : keyLeft'[p] = KexAkeSharedB(LeftMemberID(p), l)
  BY <1>4, RoundKeys
<1>6. PICK f \in 1 .. epoch[p] : keyRight'[p] = KexAkeSharedA(p, epoch[p], f)
  BY <1>4, RoundKeys
<1>7. l \in Runs /\ f \in Runs /\ epoch[p] \in Runs
  <2>1. /\ epoch[p] \in Nat /\ epoch[LeftMemberID(p)] \in Nat
        /\ epoch[p] <= MaxEpoch /\ epoch[LeftMemberID(p)] <= MaxEpoch
    BY Neighbours DEF RestartInv, TypeOK, SessionInvariant
  <2>2. QED
    BY <2>1 DEF Runs
<1>8. PICK E \in [Parties -> Runs] :
            /\ MadeInRuns(v, E)
            /\ E[p] = epoch[p]
            /\ SessionKey(p, keyLeft'[p], v) = KeyOfRuns(E)
  BY <1>1, <1>3, <1>4, <1>5, <1>6, <1>7, RunsOfView
<1>9. ASSUME NEW i \in Parties
      PROVE  Turn(i, E) \in MadeBy(i)' /\ E[i] \in 1 .. epoch[i]
  <2>1. Turn(i, E) \in Makings /\ v[i].x = MadeX(i, Turn(i, E))
    BY <1>8, TurnType DEF MadeInRuns
  <2>2. Turn(i, E) \in MadeBy(i)'
    BY <1>3, <2>1 DEF MadeBy
  <2>3. Turn(i, E).run <= epoch[i] /\ Turn(i, E).run = E[i] /\ epoch[i] \in Nat
    BY <1>1, <1>4, <2>2, NewMaking DEF Turn, RestartInv, TypeOK
  <2>4. QED
    BY <2>2, <2>3 DEF Runs
<1>10. ASSUME clusterSessionKey[p] # NoKey
      PROVE  clusterSessionKey[p] = KeyOfRuns(E)
  <2>1. Keyed(p)
    BY <1>10 DEF Handler, Keyed, Live
  <2>2. PICK F \in [Parties -> Runs] :
                /\ \A i \in Parties : Turn(i, F) \in MadeBy(i)
                /\ F[p] = epoch[p]
                /\ clusterSessionKey[p] = KeyOfRuns(F)
    BY <2>1, KeyedRuns
  <2> DEFINE S == {i \in Parties : E[i] = F[i]}
  <2>3. ASSUME NEW i \in Parties, E[i] = F[i]
        PROVE  E[RightMemberID(i)] = F[RightMemberID(i)]
    <3> DEFINE j == RightMemberID(i)
    <3>1. j \in Parties /\ LeftMemberID(j) = i
      BY Neighbours
    <3>2. Turn(j, F) \in MadeBy(j) /\ Turn(j, E) \in MadeBy(j)'
      BY <1>9, <2>2, <3>1
    <3>3. Turn(j, F).left = Turn(j, E).left
      BY <2>3, <3>1 DEF Turn
    <3>4. Turn(j, F).run = Turn(j, E).run
      BY <1>1, <1>4, <3>1, <3>2, <3>3, SameRun
    <3>5. QED
      BY <3>4 DEF Turn
  <2>4. \A i \in Parties : i \in S => RightMemberID(i) \in S
    BY <2>3, Neighbours
  <2>5. p \in S
    BY <1>8, <2>2
  <2> HIDE DEF S
  <2>6. \A i \in Parties : i \in S
    BY <2>4, <2>5, AroundTheRing
  <2>7. \A i \in Parties : E[i] = F[i]
    BY <2>6 DEF S
  <2>8. E = F
    BY <2>7
  <2>9. QED
    BY <2>2, <2>8
<1>11. QED
  BY <1>1, <1>2, <1>8, <1>9, <1>10

\* What the leader sends is made of keys.
LEMMA TransportOfType ==
    ASSUME TypeOK, NEW p \in Parties, NEW key, key \in SessionKeys \union {NoKey},
           NEW main \in MainKeys \union {NoKey}
    PROVE  TransportMsgs(p, key, main) \subseteq Messages
<1>1. CASE p = Leader /\ key # NoKey /\ main # NoKey
  <2>1. encryptAndHMAC(main, key) \in Ciphertexts
    BY <1>1 DEF encryptAndHMAC, Ciphertexts
  <2>2. KeyMsgs(encryptAndHMAC(main, key)) \subseteq Messages
    BY <2>1, LeaderAssumption DEF KeyMsgs, Messages
  <2>3. QED
    BY <2>2 DEF TransportMsgs
<1>2. CASE ~(p = Leader /\ key # NoKey /\ main # NoKey)
  BY <1>2 DEF TransportMsgs
<1>3. QED
  BY <1>1, <1>2

LEMMA HandlerType ==
    ASSUME RestartInv, MaxEpoch \in Nat, NEW p \in Parties, NEW v, NEW before, NEW after,
           Handler(p, v, before, after)
    PROVE  TypeOK'
<1>1. epoch' \in [Parties -> Nat]
  BY DEF RestartInv, TypeOK, Handler, RoundStep
<1>2. keyLeft' \in [Parties -> Keys] /\ keyRight' \in [Parties -> Keys]
  BY DEF Handler
<1>3. view' \in [Parties -> [Parties -> Entries \union {BlankEntry}]]
  BY DEF RestartInv, TypeOK, Handler
<1>4. keyCiphertext' \in [Parties -> Ciphertexts \union {NoKey}]
  BY DEF RestartInv, TypeOK, Handler
<1>5. /\ status' \in [Parties -> {"off", "up", "exited"}]
      /\ clusterSessionKey' \in [Parties -> SessionKeys \union {NoKey}]
      /\ mainSessionKey' \in [Parties -> MainKeys \union {NoKey}]
      /\ net' \subseteq Messages
  <2>1. CASE UNCHANGED <<status, clusterSessionKey, mainSessionKey>> /\ net' = before \union after
    BY <2>1 DEF RestartInv, TypeOK, Handler
  <2>2. CASE ExitWithMsg(p, v, before)
    BY <2>2 DEF RestartInv, TypeOK, Handler, ExitWithMsg
  <2>3. CASE Finalize(p, keyLeft'[p], v, before, after)
    <3> DEFINE key == SessionKey(p, keyLeft'[p], v)
    <3>1. key \in SessionKeys
      BY <2>3, HandlerFinalizes, KeyOfRunsType DEF Finalize
    <3> HIDE DEF key
    <3>2. TransportedKey(p, key) \in MainKeys \union {NoKey}
      BY DEF RestartInv, TypeOK, TransportedKey, Decrypted, Ciphertexts
    <3>3. TransportMsgs(p, key, mainSessionKey[p]) \subseteq Messages
      BY <3>1, TransportOfType DEF RestartInv, TypeOK
    <3>4. QED
      BY <2>3, <3>1, <3>2, <3>3 DEF RestartInv, TypeOK, Handler, Finalize, key
  <2>4. QED
    BY <2>1, <2>2, <2>3 DEF Handler
<1>6. QED
  BY <1>1, <1>2, <1>3, <1>4, <1>5 DEF TypeOK

LEMMA HandlerSession ==
    ASSUME RestartInv, MaxEpoch \in Nat, NEW p \in Parties, NEW v, NEW before, NEW after,
           Handler(p, v, before, after)
    PROVE  SessionInvariant'
<1>1. RoundStep /\ epoch' = epoch
  BY DEF Handler, RoundStep
<1>2. /\ \A q \in Parties \ {p} :
            /\ status'[q] = status[q]
            /\ clusterSessionKey'[q] = clusterSessionKey[q]
            /\ mainSessionKey'[q] = mainSessionKey[q]
      /\ status'[p] # "off"
  <2>1. CASE UNCHANGED <<status, clusterSessionKey, mainSessionKey>>
    BY <2>1 DEF Handler
  <2>2. CASE ExitWithMsg(p, v, before)
    BY <2>2 DEF ExitWithMsg, RestartInv, TypeOK
  <2>3. CASE Finalize(p, keyLeft'[p], v, before, after)
    BY <2>3 DEF Finalize, Handler, RestartInv, TypeOK
  <2>4. QED
    BY <2>1, <2>2, <2>3 DEF Handler
<1>3. /\ view'[p] = v
      /\ \A q \in Parties \ {p} :
            /\ view'[q] = view[q] /\ keyLeft'[q] = keyLeft[q] /\ keyRight'[q] = keyRight[q]
      /\ keyCiphertext' = keyCiphertext
  BY DEF Handler, RestartInv, TypeOK
<1>4. ASSUME NEW q \in Parties
      PROVE  view'[q][q] # BlankEntry =>
                /\ keyLeft'[q] # Zero /\ keyRight'[q] # Zero
                /\ view'[q][q].x = XorKeys(keyRight'[q], keyLeft'[q])
  <2>1. CASE q = p
    BY <1>3, <2>1 DEF Handler
  <2>2. CASE q # p
    BY <1>3, <2>2 DEF RestartInv, SessionInvariant
  <2>3. QED
    BY <2>1, <2>2
<1>5. ASSUME NEW q \in Parties
      PROVE  /\ epoch[q] <= MaxEpoch
             /\ status'[q] # "off" => epoch[q] >= 1
  BY <1>2 DEF Handler, RestartInv, SessionInvariant
<1>6. ASSUME NEW q \in Parties, status'[q] = "off"
      PROVE  /\ epoch[q] < MaxEpoch
             /\ keyLeft'[q] = Zero /\ keyRight'[q] = Zero
             /\ view'[q] = [i \in Parties |-> BlankEntry]
             /\ clusterSessionKey'[q] = NoKey
             /\ keyCiphertext'[q] = NoKey
             /\ mainSessionKey'[q] = NoKey
  <2>1. q # p /\ status[q] = "off"
    BY <1>2, <1>6
  <2>2. QED
    BY <1>2, <1>3, <2>1 DEF RestartInv, SessionInvariant
<1>7. QED
  BY <1>1, <1>4, <1>5, <1>6, RoundKeys DEF SessionInvariant

\* What a handler leaves on its way, and the one ciphertext that it may add.
LEMMA HandlerNet ==
    ASSUME RestartInv, NEW p \in Parties, NEW v, NEW before, NEW after,
           Handler(p, v, before, after), NEW m \in net'
    PROVE  \/ m \in net
           \/ m.type = "AkeTwo" /\ m.eph \in 1 .. epoch[m.to]
           \/ m.type = "XiRiCommitment" /\ m.to # m.from
           \/ /\ Finalize(p, keyLeft'[p], v, before, after)
              /\ m \in TransportMsgs(p, SessionKey(p, keyLeft'[p], v), mainSessionKey[p])
<1>1. CASE net' = before \union after
  BY <1>1 DEF Handler
<1>2. CASE ExitWithMsg(p, v, before)
  BY <1>2 DEF Handler, ExitWithMsg
<1>3. CASE Finalize(p, keyLeft'[p], v, before, after)
  BY <1>3 DEF Handler, Finalize
<1>4. QED
  BY <1>1, <1>2, <1>3 DEF Handler

LEMMA TransportOfLeader ==
    ASSUME NEW p, NEW key, NEW main, NEW m \in TransportMsgs(p, key, main)
    PROVE  /\ p = Leader /\ key # NoKey /\ main # NoKey
           /\ m.type = "Key" /\ m.from = Leader /\ m.to # Leader
           /\ m.ct = encryptAndHMAC(main, key)
  BY DEF TransportMsgs, KeyMsgs

LEMMA HandlerMessages ==
    ASSUME RestartInv, NEW p \in Parties, NEW v, NEW before, NEW after,
           Handler(p, v, before, after)
    PROVE  MessageInvariant'
<1>1. epoch' = epoch
  BY DEF Handler, RoundStep
<1>2. ASSUME NEW m \in net'
      PROVE  /\ m.type = "AkeOne" => m.to = RightMemberID(m.from) /\ m.eph \in 1 .. epoch[m.from]
             /\ m.type = "AkeTwo" => m.eph \in 1 .. epoch[m.to]
             /\ m.type \in {"XiRiCommitment", "Key"} => m.to # m.from
  <2>1. CASE m \in net
    BY <2>1 DEF RestartInv, MessageInvariant
  <2>2. CASE m.type = "AkeTwo" /\ m.eph \in 1 .. epoch[m.to]
    BY <2>2
  <2>3. CASE m.type = "XiRiCommitment" /\ m.to # m.from
    BY <2>3
  <2>4. CASE m \in TransportMsgs(p, SessionKey(p, keyLeft'[p], v), mainSessionKey[p])
    BY <2>4, TransportOfLeader
  <2>5. QED
    BY <2>1, <2>2, <2>3, <2>4, HandlerNet
<1>3. QED
  BY <1>1, <1>2 DEF MessageInvariant

\* A member with a key has entries in all its slots, so that it does not wait again.
LEMMA HandlerKeyed ==
    ASSUME RestartInv, MaxEpoch \in Nat, NEW p \in Parties, NEW v, NEW before, NEW after,
           Handler(p, v, before, after)
    PROVE  KeyedInvariant'
<1>1. view'[p] = v /\ \A q \in Parties \ {p} : view'[q] = view[q] /\ keyLeft'[q] = keyLeft[q]
  BY DEF Handler, RestartInv, TypeOK
<1>2. ASSUME clusterSessionKey[p] # NoKey PROVE N > 1 /\ ReceivedAllXs(v)
  <2>1. N > 1 /\ \A i \in Parties : view[p][i] # BlankEntry
    BY <1>2 DEF RestartInv, KeyedInvariant, Handler, Live
  <2>2. \A i \in Parties : GoodEntry(i, v[i])
    BY <2>1, HandlerEntries DEF Handler
  <2>3. QED
    BY <2>1, <2>2, XOfTwo DEF ReceivedAllXs, GoodEntry
<1>3. CASE /\ clusterSessionKey[p] # NoKey => ~ReceivedAllXs(v)
           /\ UNCHANGED <<status, clusterSessionKey>>
  BY <1>1, <1>2, <1>3 DEF RestartInv, KeyedInvariant, Live
<1>4. CASE ExitWithMsg(p, v, before)
  <2>1. status'[p] = "exited" /\ clusterSessionKey' = clusterSessionKey
        /\ \A q \in Parties \ {p} : status'[q] = status[q]
    BY <1>4 DEF ExitWithMsg, RestartInv, TypeOK
  <2>2. QED
    BY <1>1, <1>2, <2>1 DEF RestartInv, KeyedInvariant, Live
<1>5. CASE Finalize(p, keyLeft'[p], v, before, after)
  <2>1. /\ ReceivedAllXs(v) /\ ChecksPass(v) /\ status' = status
        /\ clusterSessionKey'[p] = SessionKey(p, keyLeft'[p], v)
        /\ \A q \in Parties \ {p} : clusterSessionKey'[q] = clusterSessionKey[q]
    BY <1>5 DEF Finalize, RestartInv, TypeOK
  <2>2. N > 1 /\ \A i \in Parties : v[i] # BlankEntry
    BY <2>1, HandlerFinalizes
  <2>3. QED
    BY <1>1, <2>1, <2>2 DEF RestartInv, KeyedInvariant, Live
<1>6. QED
  BY <1>3, <1>4, <1>5 DEF Handler

\* The leader sends its main session key under a key of its present run, or it
\* sends nothing; any other main session key comes out of a ciphertext.
LEMMA MainStep ==
    ASSUME TypeOK, MainKeyInvariant,
           epoch'[Leader] \in Nat, epoch[Leader] <= epoch'[Leader],
           keyCiphertext'[Leader] = NoKey,
           \A key, main :
                /\ \E e \in 1 .. epoch[Leader] : OfLeaderRun(key, e)
                /\ MainOfRun(key, main)
                /\ main # NoKey
                => MainOfRun(key, main)',
           \A ct \in CiphertextsAround' :
                \/ ct \in CiphertextsAround
                \/ /\ epoch'[Leader] \in 1 .. epoch'[Leader]
                   /\ OfLeaderRun(ct.under, epoch'[Leader])
                   /\ status'[Leader] # "off"
                   /\ ct.main = mainSessionKey'[Leader],
           \A p \in Parties : clusterSessionKey'[p] # NoKey =>
                \/ clusterSessionKey'[p] = clusterSessionKey[p]
                \/ \E e \in 1 .. epoch'[Leader] : OfLeaderRun(clusterSessionKey'[p], e),
           \A p \in Parties \ {Leader} : mainSessionKey'[p] # NoKey =>
                /\ clusterSessionKey'[p] # NoKey
                /\ \/ /\ clusterSessionKey'[p] = clusterSessionKey[p]
                      /\ mainSessionKey'[p] = mainSessionKey[p]
                   \/ \E ct \in CiphertextsAround :
                        clusterSessionKey'[p] = ct.under /\ mainSessionKey'[p] = ct.main
    PROVE  MainKeyInvariant'
<1> DEFINE Sent(key, main) ==
        /\ main # NoKey
        /\ \E e \in 1 .. epoch[Leader] : OfLeaderRun(key, e)
        /\ MainOfRun(key, main)
        /\ \A ct \in CiphertextsAround : ct.under = key => ct.main = main
<1>1. epoch[Leader] \in Nat /\ 1 .. epoch[Leader] \subseteq 1 .. epoch'[Leader]
  BY LeaderAssumption DEF TypeOK
<1>2. ASSUME NEW ct \in CiphertextsAround
      PROVE  Sent(ct.under, ct.main)
  <2>1. ct \in Ciphertexts
    BY DEF CiphertextsAround, TypeOK, Messages
  <2>2. ct.main # NoKey
    BY <2>1, NoKeyAssumption DEF Ciphertexts
  <2>3. QED
    BY <2>2 DEF MainKeyInvariant
<1>3. ASSUME NEW key, NEW main, Sent(key, main)
      PROVE  /\ \E e \in 1 .. epoch'[Leader] : OfLeaderRun(key, e)
             /\ MainOfRun(key, main)'
             /\ \A ct \in CiphertextsAround' : ct.under = key => ct.main = main
  <2>1. MainOfRun(key, main)'
    BY <1>3
  <2>2. ASSUME NEW ct \in CiphertextsAround', ct.under = key
        PROVE  ct.main = main
    BY <1>3, <2>1, <2>2 DEF MainOfRun
  <2>3. QED
    BY <1>1, <1>3, <2>1, <2>2
<1>4. ASSUME NEW p \in Parties \ {Leader}, mainSessionKey'[p] # NoKey
      PROVE  Sent(clusterSessionKey'[p], mainSessionKey'[p])
  <2>1. CASE /\ clusterSessionKey'[p] = clusterSessionKey[p]
             /\ mainSessionKey'[p] = mainSessionKey[p]
    BY <1>4, <2>1 DEF MainKeyInvariant
  <2>2. CASE \E ct \in CiphertextsAround :
                clusterSessionKey'[p] = ct.under /\ mainSessionKey'[p] = ct.main
    BY <1>2, <2>2
  <2>3. QED
    BY <1>4, <2>1, <2>2
<1> HIDE DEF Sent
<1>5. ASSUME NEW ct \in CiphertextsAround'
      PROVE  /\ \E e \in 1 .. epoch'[Leader] : OfLeaderRun(ct.under, e)
             /\ MainOfRun(ct.under, ct.main)'
             /\ \A other \in CiphertextsAround' : other.under = ct.under => other.main = ct.main
  <2>1. CASE ct \in CiphertextsAround
    BY <1>2, <1>3, <2>1
  <2>2. CASE /\ epoch'[Leader] \in 1 .. epoch'[Leader]
             /\ OfLeaderRun(ct.under, epoch'[Leader])
             /\ status'[Leader] # "off"
             /\ ct.main = mainSessionKey'[Leader]
    <3>1. MainOfRun(ct.under, ct.main)'
      BY <2>2 DEF MainOfRun
    <3>2. ASSUME NEW other \in CiphertextsAround', other.under = ct.under
          PROVE  other.main = ct.main
      <4>1. CASE other \in CiphertextsAround
        <5>1. MainOfRun(other.under, other.main)'
          BY <1>2, <1>3, <4>1
        <5>2. QED
          BY <2>2, <3>2, <5>1 DEF MainOfRun
      <4>2. CASE other.main = mainSessionKey'[Leader]
        BY <2>2, <4>2
      <4>3. QED
        BY <4>1, <4>2
    <3>3. QED
      BY <2>2, <3>1, <3>2
  <2>3. QED
    BY <2>1, <2>2
<1>6. ASSUME NEW p \in Parties, clusterSessionKey'[p] # NoKey
      PROVE  \E e \in 1 .. epoch'[Leader] : OfLeaderRun(clusterSessionKey'[p], e)
  <2>1. CASE clusterSessionKey'[p] = clusterSessionKey[p]
    BY <1>1, <1>6, <2>1 DEF MainKeyInvariant
  <2>2. QED
    BY <1>6, <2>1
<1>7. ASSUME NEW p \in Parties \ {Leader}, mainSessionKey'[p] # NoKey
      PROVE  /\ clusterSessionKey'[p] # NoKey
             /\ MainOfRun(clusterSessionKey[p], mainSessionKey[p])'
             /\ \A ct \in CiphertextsAround' :
                    ct.under = clusterSessionKey'[p] => ct.main = mainSessionKey'[p]
  BY <1>3, <1>4, <1>7
<1>8. QED
  BY <1>5, <1>6, <1>7 DEF MainKeyInvariant

LEMMA HandlerMain ==
    ASSUME RestartInv, MaxEpoch \in Nat, NEW p \in Parties, NEW v, NEW before, NEW after,
           Handler(p, v, before, after)
    PROVE  MainKeyInvariant'
<1> DEFINE key == SessionKey(p, keyLeft'[p], v)
<1>1. /\ TypeOK /\ MainKeyInvariant
      /\ epoch' = epoch /\ epoch[Leader] \in Nat
      /\ keyCiphertext' = keyCiphertext /\ keyCiphertext[Leader] = NoKey
      /\ status[p] = "up"
  BY LeaderAssumption DEF RestartInv, TypeOK, MainKeyInvariant, Handler, RoundStep
<1>2. /\ mainSessionKey'[Leader] = mainSessionKey[Leader]
      /\ status'[Leader] = "off" <=> status[Leader] = "off"
  <2>1. CASE UNCHANGED <<status, clusterSessionKey, mainSessionKey>>
    BY <2>1
  <2>2. CASE ExitWithMsg(p, v, before)
    BY <1>1, <2>2, LeaderAssumption DEF ExitWithMsg, TypeOK
  <2>3. CASE Finalize(p, keyLeft'[p], v, before, after)
    <3>1. status' = status /\ mainSessionKey' = [mainSessionKey EXCEPT ![p] = TransportedKey(p, key)]
      BY <2>3 DEF Finalize
    <3>2. p = Leader => TransportedKey(p, key) = mainSessionKey[Leader]
      BY DEF TransportedKey
    <3>3. QED
      BY <1>1, <3>1, <3>2, LeaderAssumption DEF TypeOK
  <2>4. QED
    BY <2>1, <2>2, <2>3 DEF Handler
<1>3. \A k, main : MainOfRun(k, main) => MainOfRun(k, main)'
  BY <1>1, <1>2 DEF MainOfRun
<1>4. ASSUME Finalize(p, keyLeft'[p], v, before, after)
      PROVE  /\ clusterSessionKey'[p] = key /\ key # NoKey
             /\ \E e \in 1 .. epoch[Leader] : OfLeaderRun(key, e)
             /\ p = Leader => epoch[Leader] \in 1 .. epoch[Leader] /\ OfLeaderRun(key, epoch[Leader])
             /\ clusterSessionKey[p] # NoKey => clusterSessionKey[p] = key
             /\ mainSessionKey'[p] = TransportedKey(p, key)
             /\ \A q \in Parties \ {p} :
                    /\ clusterSessionKey'[q] = clusterSessionKey[q]
                    /\ mainSessionKey'[q] = mainSessionKey[q]
  <2>1. PICK E \in [Parties -> Runs] :
            /\ E[p] = epoch[p] /\ \A i \in Parties : E[i] \in 1 .. epoch[i]
            /\ key = KeyOfRuns(E)
    BY <1>4, HandlerFinalizes DEF Finalize
  <2>2. /\ key # NoKey
        /\ OfLeaderRun(key, E[Leader]) /\ E[Leader] \in 1 .. epoch[Leader]
    <3>1. N > 1
      BY <1>4, HandlerFinalizes DEF Finalize
    <3> HIDE DEF key
    <3>2. QED
      BY <2>1, <3>1, KeyOfRunsType, LeaderAssumption DEF OfLeaderRun
  <2>3. clusterSessionKey[p] # NoKey => clusterSessionKey[p] = key
    BY <1>4, HandlerFinalizes DEF Finalize
  <2>4. /\ clusterSessionKey' = [clusterSessionKey EXCEPT ![p] = key]
        /\ mainSessionKey' = [mainSessionKey EXCEPT ![p] = TransportedKey(p, key)]
    BY <1>4 DEF Finalize
  <2> HIDE DEF key
  <2>5. QED
    BY <1>1, <2>1, <2>2, <2>3, <2>4 DEF TypeOK
<1>5. ASSUME NEW ct \in CiphertextsAround'
      PROVE  \/ ct \in CiphertextsAround
             \/ /\ epoch'[Leader] \in 1 .. epoch'[Leader]
                /\ OfLeaderRun(ct.under, epoch'[Leader])
                /\ status'[Leader] # "off"
                /\ ct.main = mainSessionKey'[Leader]
  <2>1. CASE ct \in {keyCiphertext'[q] : q \in Parties} \ {NoKey}
    BY <1>1, <2>1 DEF CiphertextsAround
  <2>2. ASSUME NEW m \in net', m.type = "Key", ct = m.ct
        PROVE  \/ ct \in CiphertextsAround
               \/ /\ epoch'[Leader] \in 1 .. epoch'[Leader]
                  /\ OfLeaderRun(ct.under, epoch'[Leader])
                  /\ status'[Leader] # "off"
                  /\ ct.main = mainSessionKey'[Leader]
    <3>1. CASE m \in net
      BY <2>2, <3>1 DEF CiphertextsAround
    <3>2. CASE /\ Finalize(p, keyLeft'[p], v, before, after)
               /\ m \in TransportMsgs(p, key, mainSessionKey[p])
      <4>1. p = Leader /\ m.ct = encryptAndHMAC(mainSessionKey[p], key)
        BY <3>2, TransportOfLeader
      <4>2. ct.under = key /\ ct.main = mainSessionKey[Leader]
        BY <2>2, <4>1 DEF encryptAndHMAC
      <4>3. QED
        BY <1>1, <1>2, <1>4, <3>2, <4>1, <4>2
    <3>3. QED
      BY <2>2, <3>1, <3>2, HandlerNet
  <2>3. QED
    BY <2>1, <2>2 DEF CiphertextsAround
<1>6. ASSUME NEW q \in Parties, clusterSessionKey'[q] # NoKey
      PROVE  \/ clusterSessionKey'[q] = clusterSessionKey[q]
             \/ \E e \in 1 .. epoch'[Leader] : OfLeaderRun(clusterSessionKey'[q], e)
  <2>1. CASE UNCHANGED clusterSessionKey
    BY <2>1
  <2>2. CASE Finalize(p, keyLeft'[p], v, before, after)
    BY <1>1, <1>4, <2>2
  <2>3. QED
    BY <2>1, <2>2 DEF Handler, ExitWithMsg
<1>7. ASSUME NEW q \in Parties \ {Leader}, mainSessionKey'[q] # NoKey
      PROVE  /\ clusterSessionKey'[q] # NoKey
             /\ \/ /\ clusterSessionKey'[q] = clusterSessionKey[q]
                   /\ mainSessionKey'[q] = mainSessionKey[q]
                \/ \E ct \in CiphertextsAround :
                    clusterSessionKey'[q] = ct.under /\ mainSessionKey'[q] = ct.main
  <2>1. mainSessionKey[q] # NoKey => clusterSessionKey[q] # NoKey
    BY <1>1 DEF MainKeyInvariant
  <2>2. CASE UNCHANGED <<clusterSessionKey, mainSessionKey>>
    BY <1>7, <2>1, <2>2
  <2>3. CASE Finalize(p, keyLeft'[p], v, before, after)
    <3>1. CASE q # p
      BY <1>4, <1>7, <2>1, <2>3, <3>1
    <3>2. CASE q = p /\ mainSessionKey'[p] = mainSessionKey[p]
      BY <1>4, <1>7, <2>1, <2>3, <3>2
    <3>3. CASE q = p /\ mainSessionKey'[p] # mainSessionKey[p]
      <4>1. /\ keyCiphertext[p] # NoKey /\ keyCiphertext[p].under = key
            /\ mainSessionKey'[p] = keyCiphertext[p].main
        BY <1>4, <2>3, <3>3 DEF TransportedKey, Decrypted
      <4>2. keyCiphertext[p] \in CiphertextsAround
        BY <4>1 DEF CiphertextsAround
      <4>3. QED
        BY <1>4, <2>3, <3>3, <4>1, <4>2
    <3>4. QED
      BY <3>1, <3>2, <3>3
  <2>4. QED
    BY <2>2, <2>3 DEF Handler, ExitWithMsg
<1>8. QED
  BY <1>1, <1>3, <1>5, <1>6, <1>7, MainStep

\* A ciphertext under the key that p has opens to the main session key that p has.
LEMMA SameMainKey ==
    ASSUME RestartInv, NEW p \in Parties \ {Leader}, NEW ct \in CiphertextsAround,
           mainSessionKey[p] # NoKey, ct.under = clusterSessionKey[p]
    PROVE  ct.main = mainSessionKey[p]
  BY DEF RestartInv, MainKeyInvariant

LEMMA HandlerKeeps ==
    ASSUME RestartInv, MaxEpoch \in Nat, NEW p \in Parties, NEW v, NEW before, NEW after,
           Handler(p, v, before, after)
    PROVE  KeepsKeys
<1>1. CASE UNCHANGED <<clusterSessionKey, mainSessionKey>>
  BY <1>1 DEF KeepsKeys
<1>2. CASE Finalize(p, keyLeft'[p], v, before, after)
  <2> DEFINE key == SessionKey(p, keyLeft'[p], v)
  <2>1. /\ clusterSessionKey' = [clusterSessionKey EXCEPT ![p] = key]
        /\ mainSessionKey' = [mainSessionKey EXCEPT ![p] = TransportedKey(p, key)]
    BY <1>2 DEF Finalize
  <2>2. clusterSessionKey[p] # NoKey => clusterSessionKey[p] = key
    BY <1>2, HandlerFinalizes DEF Finalize
  <2> HIDE DEF key
  <2>3. ASSUME mainSessionKey[p] # NoKey, p # Leader, keyCiphertext[p] # NoKey,
               keyCiphertext[p].under = key
        PROVE  keyCiphertext[p].main = mainSessionKey[p]
    <3>1. clusterSessionKey[p] = key
      BY <2>2, <2>3 DEF RestartInv, MainKeyInvariant
    <3>2. keyCiphertext[p] \in CiphertextsAround
      BY <2>3 DEF CiphertextsAround
    <3>3. QED
      BY <2>3, <3>1, <3>2, SameMainKey
  <2>4. mainSessionKey[p] # NoKey => TransportedKey(p, key) = mainSessionKey[p]
    BY <2>3 DEF TransportedKey, Decrypted
  <2>5. QED
    BY <2>1, <2>2, <2>4 DEF KeepsKeys, RestartInv, TypeOK
<1>3. QED
  BY <1>1, <1>2 DEF Handler, ExitWithMsg

\* The three handlers leave the invariant true and replace no key.
LEMMA HandlerInd ==
    ASSUME RestartInv, MaxEpoch \in Nat, NEW p \in Parties, NEW v, NEW before, NEW after,
           Handler(p, v, before, after)
    PROVE  RestartInv' /\ KeepsKeys
<1>1. RoundStep
  BY DEF Handler
<1>2. N > 1 => PendingUnused' /\ OneRunPerAkeOne' /\ RunsInOrder'
  BY <1>1, RoundStepPending, RoundStepOneRun, RoundStepOrder
<1>3. QED
  BY <1>1, <1>2, RoundStepEntries, HandlerType, HandlerSession, HandlerMessages, HandlerKeyed,
     HandlerMain, HandlerKeeps DEF RestartInv
-----------------------------------------------------------------------------
(***************************************************************************)
(* onAkeOne, onAkeTwo and onXiRiCommitment are such handlers.              *)
(***************************************************************************)
\* Of an AkeOne that p handles only its reply is left, of any other message nothing.
TakenFor(p, m, before) ==
    /\ m \in net /\ m.to = p
    /\ before \subseteq Messages
    /\ \A k \in before :
        \/ k \in net /\ k # m
        \/ k.type = "AkeTwo" /\ m.type = "AkeOne" /\ k.to = m.from /\ k.eph = m.eph

\* left and right are the keys of p once it has got the one that m brings.
KeysWith(p, m, left, right) ==
    /\ left \in Keys /\ right \in Keys
    /\ keyLeft' = [keyLeft EXCEPT ![p] = left]
    /\ keyRight' = [keyRight EXCEPT ![p] = right]
    /\ left = keyLeft[p] \/ (m.type = "AkeOne" /\ left = KexAkeSharedB(m.from, m.eph))
    /\ right = keyRight[p] \/ (m.type = "AkeTwo" /\ right = KexAkeSharedA(p, epoch[p], m.eph))

\* p can make this entry of its two keys.
OwnEntry(p, left, right, entry) ==
    /\ left # Zero /\ right # Zero
    /\ \E r \in Coins : entry = XiEntry(p, right, left, r)

\* p waits, exits or finalizes with the arrays v.
Tried(p, left, v, before, after) ==
    \/ /\ clusterSessionKey[p] # NoKey => ~ReceivedAllXs(v)
       /\ net' = before \union after
       /\ UNCHANGED <<status, clusterSessionKey, mainSessionKey>>
    \/ ExitWithMsg(p, v, before)
    \/ Finalize(p, left, v, before, after)

LEMMA TriedNet ==
    ASSUME NEW p, NEW left, NEW v, NEW before, NEW after, Tried(p, left, v, before, after),
           NEW k \in net'
    PROVE  k \in before \/ k \in after \/ k.type = "Key"
<1>1. CASE net' = before \union after
  BY <1>1
<1>2. CASE ExitWithMsg(p, v, before)
  BY <1>2 DEF ExitWithMsg
<1>3. CASE Finalize(p, left, v, before, after)
  BY <1>3, TransportOfLeader DEF Finalize
<1>4. QED
  BY <1>1, <1>2, <1>3 DEF Tried

\* What the three handlers do at p when they handle m.
Handles(p, m, left, right, v, before, after) ==
    /\ status[p] = "up"
    /\ TakenFor(p, m, before)
    /\ KeysWith(p, m, left, right)
    /\ epoch' = epoch /\ keyCiphertext' = keyCiphertext
    /\ view' = [view EXCEPT ![p] = v]
    /\ v \in [Parties -> Entries \union {BlankEntry}]
    /\ \A i \in Parties : v[i] # view[p][i] =>
            v[i] \in EntriesOf(i) \/ (i = p /\ OwnEntry(p, left, right, v[i]))
    /\ v[p] # BlankEntry => left # Zero /\ right # Zero /\ v[p].x = XorKeys(right, left)
    /\ after \subseteq Messages
    /\ \A k \in after :
            /\ k.type = "XiRiCommitment" /\ k.from = p /\ k.to # p
            /\ OwnEntry(p, left, right, k.entry)
    /\ Tried(p, left, v, before, after)

LEMMA RoundOfHandler ==
    ASSUME RestartInv, NEW p \in Parties, NEW m, NEW left, NEW right, NEW v, NEW before, NEW after,
           Handles(p, m, left, right, v, before, after)
    PROVE  RoundStep
<1>1. /\ TakenFor(p, m, before) /\ KeysWith(p, m, left, right)
      /\ epoch' = epoch /\ keyCiphertext' = keyCiphertext /\ view' = [view EXCEPT ![p] = v]
      /\ \A i \in Parties : v[i] # view[p][i] =>
            v[i] \in EntriesOf(i) \/ (i = p /\ OwnEntry(p, left, right, v[i]))
      /\ \A k \in after :
            k.type = "XiRiCommitment" /\ k.from = p /\ OwnEntry(p, left, right, k.entry)
      /\ \A k \in net' : k \in before \/ k \in after \/ k.type = "Key"
  BY TriedNet DEF Handles
<1>2. /\ keyLeft'[p] = left /\ keyRight'[p] = right /\ view'[p] = v
      /\ \A q \in Parties \ {p} :
            keyLeft'[q] = keyLeft[q] /\ keyRight'[q] = keyRight[q] /\ view'[q] = view[q]
  BY <1>1 DEF KeysWith, RestartInv, TypeOK
<1>3. m.type = "AkeOne" => m \in net \ net'
  BY <1>1 DEF TakenFor
<1>4. ASSUME NEW q \in Parties
      PROVE  /\ \/ keyLeft'[q] \in {keyLeft[q], Zero}
                \/ \E k \in net \ net' :
                    k.type = "AkeOne" /\ k.to = q /\ keyLeft'[q] = KexAkeSharedB(k.from, k.eph)
             /\ \/ keyRight'[q] \in {keyRight[q], Zero}
                \/ \E k \in net :
                    k.type = "AkeTwo" /\ k.to = q
                        /\ keyRight'[q] = KexAkeSharedA(q, epoch[q], k.eph)
  <2>1. CASE q = p
    BY <1>1, <1>2, <1>3, <2>1 DEF TakenFor, KeysWith
  <2>2. CASE q # p
    BY <1>2, <2>2
  <2>3. QED
    BY <2>1, <2>2
<1>5. ASSUME NEW k \in net'
      PROVE  \/ k \in net
             \/ k.type \in {"XiRiCommitment", "Key"}
             \/ k.type = "AkeTwo" /\ \E l \in net \ net' :
                    l.type = "AkeOne" /\ l.from = k.to /\ l.eph = k.eph
  BY <1>1, <1>3 DEF TakenFor
<1>6. ASSUME NEW i \in Parties, NEW entry \in EntriesOf(i)'
      PROVE  \/ entry \in EntriesOf(i)
             \/ i = p /\ OwnEntry(p, left, right, entry)
  <2>1. ASSUME NEW q \in Parties, entry = view'[q][i], entry # BlankEntry
        PROVE  \/ entry \in EntriesOf(i)
               \/ i = p /\ OwnEntry(p, left, right, entry)
    <3>1. CASE entry = view[q][i]
      BY <2>1, <3>1, ViewEntries
    <3>2. CASE entry # view[q][i]
      BY <1>1, <1>2, <2>1, <3>2
    <3>3. QED
      BY <3>1, <3>2
  <2>2. ASSUME NEW k \in net', k.type = "XiRiCommitment", k.from = i, entry = k.entry
        PROVE  \/ entry \in EntriesOf(i)
               \/ i = p /\ OwnEntry(p, left, right, entry)
    <3>1. CASE k \in net
      BY <2>2, <3>1 DEF EntriesOf
    <3>2. CASE k \in after
      BY <1>1, <2>2, <3>2
    <3>3. QED
      BY <1>1, <2>2, <3>1, <3>2 DEF TakenFor
  <2>3. QED
    BY <2>1, <2>2 DEF EntriesOf
<1>7. QED
  BY <1>1, <1>2, <1>4, <1>5, <1>6 DEF RoundStep, OwnEntry

LEMMA HandlerOf ==
    ASSUME RestartInv, MaxEpoch \in Nat, NEW p \in Parties, NEW m, NEW left, NEW right, NEW v,
           NEW before, NEW after, Handles(p, m, left, right, v, before, after)
    PROVE  Handler(p, v, before, after)
<1>1. RoundStep
  BY RoundOfHandler
<1>2. /\ keyLeft'[p] = left /\ keyRight'[p] = right
      /\ keyLeft' \in [Parties -> Keys] /\ keyRight' \in [Parties -> Keys]
      /\ \A q \in Parties \ {p} : keyLeft'[q] = keyLeft[q] /\ keyRight'[q] = keyRight[q]
  BY DEF Handles, KeysWith, RestartInv, TypeOK
<1>3. ASSUME N > 1, NEW i \in Parties, view[p][i] # BlankEntry
      PROVE  v[i] # BlankEntry
  <2>1. CASE v[i] = view[p][i]
    BY <1>3, <2>1
  <2>2. CASE v[i] \in EntriesOf(i)
    <3>1. GoodEntry(i, v[i])
      BY <2>2, EntriesGood DEF RestartInv
    <3>2. QED
      BY <1>3, <3>1, XOfTwo DEF GoodEntry, BlankEntry
  <2>3. CASE i = p /\ OwnEntry(p, left, right, v[i])
    <3>1. PICK r \in Coins : v[i] = XiEntry(i, keyRight'[i], keyLeft'[i], r)
      BY <1>2, <2>3 DEF OwnEntry
    <3>2. \E t \in Makings : v[i].x = MadeX(i, t)
      BY <1>1, <1>2, <2>3, <3>1, NewEntry DEF OwnEntry
    <3>3. QED
      BY <1>3, <3>2, XOfTwo DEF BlankEntry
  <2>4. QED
    BY <2>1, <2>2, <2>3 DEF Handles
<1>4. ASSUME NEW k \in before
      PROVE  k \in net \/ (k.type = "AkeTwo" /\ k.eph \in 1 .. epoch[k.to])
  BY AkeMessages DEF Handles, TakenFor
<1>5. QED
  BY <1>1, <1>2, <1>3, <1>4 DEF Handles, Handler, Tried, TakenFor

\* A member that lacks one of its two keys has no entry of its own, and no key.
LEMMA NotJoined ==
    ASSUME RestartInv, NEW p \in Parties, status[p] = "up",
           keyLeft[p] = Zero \/ keyRight[p] = Zero
    PROVE  view[p][p] = BlankEntry /\ clusterSessionKey[p] = NoKey
<1>1. view[p][p] = BlankEntry
  BY DEF RestartInv, SessionInvariant
<1>2. QED
  BY <1>1 DEF RestartInv, KeyedInvariant, Live

\* checkLeftRightKeys, when the message has brought left or right.
LEMMA CheckLeftRightKeys ==
    ASSUME RestartInv, MaxEpoch \in Nat, NEW p \in Parties, NEW m, NEW before, NEW left, NEW right,
           status[p] = "up",
           TakenFor(p, m, before), KeysWith(p, m, left, right),
           left = Zero \/ right = Zero => keyLeft[p] = Zero \/ keyRight[p] = Zero,
           epoch' = epoch, keyCiphertext' = keyCiphertext,
           checkLeftRightKeys(p, left, right, before)
    PROVE  \E v, after : Handler(p, v, before, after)
<1>1. view \in [Parties -> [Parties -> Entries \union {BlankEntry}]]
  BY DEF RestartInv, TypeOK
<1>2. CASE /\ left = Zero \/ right = Zero
           /\ net' = before
           /\ UNCHANGED <<status, view, clusterSessionKey, mainSessionKey>>
  <2>1. view[p][p] = BlankEntry /\ clusterSessionKey[p] = NoKey
    BY <1>2, NotJoined
  <2>2. Tried(p, left, view[p], before, {})
    BY <1>2, <2>1 DEF Tried
  <2>3. view' = [view EXCEPT ![p] = view[p]] /\ view[p] \in [Parties -> Entries \union {BlankEntry}]
    BY <1>1, <1>2
  <2>4. Handles(p, m, left, right, view[p], before, {})
    BY <2>1, <2>2, <2>3 DEF Handles
  <2>5. QED
    BY <2>4, HandlerOf
<1>3. ASSUME left # Zero, right # Zero, NEW r \in Coins,
             tryFinalizeProtocol(p, left, [view[p] EXCEPT ![p] = XiEntry(p, right, left, r)],
                                 before, XiRiCommitmentMsgs(p, XiEntry(p, right, left, r)))
      PROVE  \E v, after : Handler(p, v, before, after)
  <2> DEFINE entry == XiEntry(p, right, left, r)
             v == [view[p] EXCEPT ![p] = entry]
             after == XiRiCommitmentMsgs(p, entry)
  <2>1. entry \in Entries /\ entry.x = XorKeys(right, left) /\ OwnEntry(p, left, right, entry)
    <3>1. XorKeys(right, left) \in Keys
      BY DEF KeysWith, XorKeys, Keys
    <3>2. Commit_pke(p, XorKeys(right, left), p, r) \in Commitments
      BY <3>1 DEF Commit_pke, Commitments
    <3>3. entry \in Entries /\ entry.x = XorKeys(right, left)
      BY <3>1, <3>2 DEF XiEntry, Entries
    <3>4. QED
      BY <1>3, <3>3 DEF OwnEntry
  <2> HIDE DEF entry
  <2>2. /\ v \in [Parties -> Entries \union {BlankEntry}]
        /\ v[p] = entry /\ \A i \in Parties : i # p => v[i] = view[p][i]
    BY <1>1, <2>1
  <2>3. /\ after \subseteq Messages
        /\ \A k \in after :
            k.type = "XiRiCommitment" /\ k.from = p /\ k.to # p /\ k.entry = entry
    BY <2>1 DEF XiRiCommitmentMsgs, Messages
  <2> HIDE DEF v, after
  <2>4. view' = [view EXCEPT ![p] = v] /\ Tried(p, left, v, before, after)
    <3>1. tryFinalizeProtocol(p, left, v, before, after)
      BY <1>3 DEF v, after, entry
    <3>2. QED
      BY <3>1 DEF tryFinalizeProtocol, Tried, Waiting
  <2>5. Handles(p, m, left, right, v, before, after)
    BY <1>3, <2>1, <2>2, <2>3, <2>4 DEF Handles
  <2>6. QED
    BY <2>5, HandlerOf
<1>4. QED
  BY <1>2, <1>3 DEF checkLeftRightKeys

LEMMA AkeKeysType ==
    ASSUME TypeOK, NEW p \in Parties, NEW from \in Parties, NEW eph \in Nat
    PROVE  KexAkeSharedB(from, eph) \in Keys /\ KexAkeSharedA(p, epoch[p], eph) \in Keys
<1>1. Secret(from, eph, eph) \in Secrets /\ Secret(p, epoch[p], eph) \in Secrets
  BY DEF Secret, Secrets, TypeOK
<1>2. QED
  BY <1>1 DEF KexAkeSharedA, KexAkeSharedB, Keys

LEMMA RestartAkeOne ==
    ASSUME RestartInv, MaxEpoch \in Nat, NEW p \in Parties, NEW m \in net,
           status[p] = "up", m.to = p, onAkeOne(p, m)
    PROVE  RestartInv' /\ KeepsKeys
<1> DEFINE left == KexAkeSharedB(m.from, m.eph)
           reply == AkeTwoMsg(p, m.from, m.eph)
           before == (net \ {m}) \union {reply}
<1>1. TypeOK /\ m.type = "AkeOne" /\ m.from \in Parties /\ m.eph \in Nat
  BY AkeMessages DEF RestartInv, TypeOK, onAkeOne
<1>2. left \in Keys /\ left # Zero
  BY <1>1, AkeKeysType, SecretsDiffer
<1>3. TakenFor(p, m, before)
  <2>1. reply \in Messages /\ reply.type = "AkeTwo" /\ reply.to = m.from /\ reply.eph = m.eph
    BY <1>1 DEF AkeTwoMsg, Messages
  <2> HIDE DEF reply
  <2>2. QED
    BY <1>1, <2>1 DEF TakenFor, TypeOK
<1> HIDE DEF before, left
<1>4. KeysWith(p, m, left, keyRight[p])
  <2>1. keyLeft' = [keyLeft EXCEPT ![p] = left] /\ keyRight' = [keyRight EXCEPT ![p] = keyRight[p]]
        /\ keyRight[p] \in Keys
    BY <1>1 DEF onAkeOne, TypeOK, left
  <2>2. QED
    BY <1>1, <1>2, <2>1 DEF KeysWith, left
<1>5. checkLeftRightKeys(p, left, keyRight[p], before) /\ epoch' = epoch /\ keyCiphertext' = keyCiphertext
  BY DEF onAkeOne, left, before
<1>6. \E v, after : Handler(p, v, before, after)
  BY <1>2, <1>3, <1>4, <1>5, CheckLeftRightKeys
<1>7. ASSUME NEW v, NEW after, Handler(p, v, before, after)
      PROVE  RestartInv' /\ KeepsKeys
  BY <1>7, HandlerInd
<1>8. QED
  BY <1>6, <1>7

LEMMA RestartAkeTwo ==
    ASSUME RestartInv, MaxEpoch \in Nat, NEW p \in Parties, NEW m \in net,
           status[p] = "up", m.to = p, onAkeTwo(p, m)
    PROVE  RestartInv' /\ KeepsKeys
<1> DEFINE right == KexAkeSharedA(p, epoch[p], m.eph)
           before == net \ {m}
<1>1. TypeOK /\ m.type = "AkeTwo" /\ m.eph \in Nat
  BY AkeMessages DEF RestartInv, TypeOK, onAkeTwo
<1>2. right \in Keys /\ right # Zero
  BY <1>1, AkeKeysType, SecretsDiffer
<1>3. TakenFor(p, m, before)
  BY <1>1 DEF TakenFor, TypeOK
<1> HIDE DEF before, right
<1>4. KeysWith(p, m, keyLeft[p], right)
  <2>1. keyRight' = [keyRight EXCEPT ![p] = right] /\ keyLeft' = [keyLeft EXCEPT ![p] = keyLeft[p]]
        /\ keyLeft[p] \in Keys
    BY <1>1 DEF onAkeTwo, TypeOK, right
  <2>2. QED
    BY <1>1, <1>2, <2>1 DEF KeysWith, right
<1>5. checkLeftRightKeys(p, keyLeft[p], right, before) /\ epoch' = epoch /\ keyCiphertext' = keyCiphertext
  BY DEF onAkeTwo, right, before
<1>6. \E v, after : Handler(p, v, before, after)
  BY <1>2, <1>3, <1>4, <1>5, CheckLeftRightKeys
<1>7. ASSUME NEW v, NEW after, Handler(p, v, before, after)
      PROVE  RestartInv' /\ KeepsKeys
  BY <1>7, HandlerInd
<1>8. QED
  BY <1>6, <1>7

LEMMA RestartXiRi ==
    ASSUME RestartInv, MaxEpoch \in Nat, NEW p \in Parties, NEW m \in net,
           status[p] = "up", m.to = p, onXiRiCommitment(p, m)
    PROVE  RestartInv' /\ KeepsKeys
<1> DEFINE v == [view[p] EXCEPT ![m.from] = m.entry]
           before == net \ {m}
<1>1. TypeOK /\ m.type = "XiRiCommitment" /\ m.from \in Parties /\ m.entry \in Entries
      /\ m.from # p
  BY DEF RestartInv, TypeOK, MessageInvariant, Messages, onXiRiCommitment
<1>2. m.entry \in EntriesOf(m.from)
  BY <1>1 DEF EntriesOf
<1>3. TakenFor(p, m, before)
  BY <1>1 DEF TakenFor, TypeOK
<1> HIDE DEF before
<1>4. KeysWith(p, m, keyLeft[p], keyRight[p])
  <2>1. keyRight' = [keyRight EXCEPT ![p] = keyRight[p]] /\ keyLeft' = [keyLeft EXCEPT ![p] = keyLeft[p]]
        /\ keyLeft[p] \in Keys /\ keyRight[p] \in Keys
    BY <1>1 DEF onXiRiCommitment, TypeOK
  <2>2. QED
    BY <2>1 DEF KeysWith
<1>5. /\ v \in [Parties -> Entries \union {BlankEntry}]
      /\ v[m.from] = m.entry /\ \A i \in Parties : i # m.from => v[i] = view[p][i]
  BY <1>1 DEF TypeOK
<1>6. tryFinalizeProtocol(p, keyLeft[p], v, before, {}) /\ epoch' = epoch /\ keyCiphertext' = keyCiphertext
  BY DEF onXiRiCommitment, before
<1> HIDE DEF v
<1>7. view' = [view EXCEPT ![p] = v] /\ Tried(p, keyLeft[p], v, before, {})
  BY <1>6 DEF tryFinalizeProtocol, Tried, Waiting
<1>8. v[p] # BlankEntry =>
        keyLeft[p] # Zero /\ keyRight[p] # Zero /\ v[p].x = XorKeys(keyRight[p], keyLeft[p])
  BY <1>1, <1>5 DEF RestartInv, SessionInvariant
<1>9. \A i \in Parties : v[i] # view[p][i] => v[i] \in EntriesOf(i)
  BY <1>2, <1>5
<1>10. Handles(p, m, keyLeft[p], keyRight[p], v, before, {})
  BY <1>3, <1>4, <1>5, <1>6, <1>7, <1>8, <1>9 DEF Handles
<1>11. QED
  BY <1>10, HandlerOf, HandlerInd
-----------------------------------------------------------------------------
(***************************************************************************)
(* The other steps.                                                        *)
(***************************************************************************)
\* Of a step that makes no AKE message and no entry, takes no AkeOne and gets
\* nobody a key, the first half of the invariant asks nothing more.
LEMMA QuietStep ==
    ASSUME RestartInv, MaxEpoch \in Nat, epoch' = epoch,
           \A q \in Parties :
                keyLeft'[q] \in {keyLeft[q], Zero} /\ keyRight'[q] \in {keyRight[q], Zero},
           \A q, i \in Parties : view'[q][i] \in {view[q][i], BlankEntry},
           \A m \in net' : m \in net \/ m.type = "Key"
    PROVE  /\ EntryInvariant'
           /\ N > 1 => PendingUnused' /\ OneRunPerAkeOne' /\ RunsInOrder'
<1>1. ASSUME NEW i \in Parties, NEW entry \in EntriesOf(i)'
      PROVE  entry \in EntriesOf(i)
  <2>1. ASSUME NEW q \in Parties, entry = view'[q][i], entry # BlankEntry
        PROVE  entry \in EntriesOf(i)
    BY <2>1 DEF EntriesOf
  <2>2. ASSUME NEW m \in net', m.type = "XiRiCommitment", m.from = i, entry = m.entry
        PROVE  entry \in EntriesOf(i)
    BY <2>2 DEF EntriesOf
  <2>3. QED
    BY <2>1, <2>2 DEF EntriesOf
<1>2. RoundStep
  BY <1>1 DEF RoundStep
<1>3. QED
  BY <1>2, RoundStepEntries, RoundStepPending, RoundStepOneRun, RoundStepOrder

LEMMA RestartKeyMsg ==
    ASSUME RestartInv, MaxEpoch \in Nat, NEW p \in Parties, NEW m \in net,
           status[p] = "up", m.to = p, onKey(p, m)
    PROVE  RestartInv' /\ KeepsKeys
<1>1. /\ m.type = "Key" /\ m.ct \in Ciphertexts /\ p # Leader
      /\ m.ct \in CiphertextsAround
  BY DEF RestartInv, TypeOK, MessageInvariant, Messages, onKey, CiphertextsAround
<1>2. /\ UNCHANGED <<status, epoch, keyLeft, keyRight, view, clusterSessionKey>>
      /\ net' = net \ {m}
  BY DEF onKey
<1>3. /\ keyCiphertext' \in {keyCiphertext, [keyCiphertext EXCEPT ![p] = m.ct]}
      /\ mainSessionKey' # mainSessionKey =>
            /\ clusterSessionKey[p] # NoKey
            /\ mainSessionKey' = [mainSessionKey EXCEPT
                    ![p] = Decrypted(m.ct, clusterSessionKey[p], @)]
  BY DEF onKey
<1>4. TypeOK'
  <2>1. m.ct.main \in MainKeys
    BY <1>1 DEF Ciphertexts
  <2>2. QED
    BY <1>1, <1>2, <1>3, <2>1 DEF RestartInv, TypeOK, Decrypted
<1>5. EntryInvariant' /\ (N > 1 => PendingUnused' /\ OneRunPerAkeOne' /\ RunsInOrder')
  BY <1>2, QuietStep
<1>6. SessionInvariant'
  <2>1. \A q \in Parties : status[q] = "off" =>
            keyCiphertext'[q] = keyCiphertext[q] /\ mainSessionKey'[q] = mainSessionKey[q]
    BY <1>3 DEF RestartInv, TypeOK
  <2>2. QED
    BY <1>2, <2>1 DEF RestartInv, SessionInvariant
<1>7. MessageInvariant' /\ KeyedInvariant'
  BY <1>2 DEF RestartInv, MessageInvariant, KeyedInvariant, Live
<1>8. MainKeyInvariant'
  <2>1. /\ TypeOK /\ MainKeyInvariant /\ epoch[Leader] \in Nat
        /\ keyCiphertext'[Leader] = NoKey /\ mainSessionKey'[Leader] = mainSessionKey[Leader]
    BY <1>1, <1>3, LeaderAssumption DEF RestartInv, MainKeyInvariant, TypeOK
  <2>2. \A key, main : MainOfRun(key, main) => MainOfRun(key, main)'
    BY <1>2, <2>1 DEF MainOfRun
  <2>3. \A ct \in CiphertextsAround' : ct \in CiphertextsAround
    BY <1>1, <1>2, <1>3, <2>1 DEF CiphertextsAround, TypeOK
  <2>4. ASSUME NEW q \in Parties \ {Leader}, mainSessionKey'[q] # NoKey
        PROVE  /\ clusterSessionKey'[q] # NoKey
               /\ \/ /\ clusterSessionKey'[q] = clusterSessionKey[q]
                     /\ mainSessionKey'[q] = mainSessionKey[q]
                  \/ \E ct \in CiphertextsAround :
                        clusterSessionKey'[q] = ct.under /\ mainSessionKey'[q] = ct.main
    <3>1. CASE mainSessionKey'[q] = mainSessionKey[q]
      BY <1>2, <2>1, <2>4, <3>1 DEF MainKeyInvariant
    <3>2. CASE mainSessionKey'[q] # mainSessionKey[q]
      <4>1. /\ q = p /\ clusterSessionKey[p] # NoKey
            /\ m.ct.under = clusterSessionKey[p] /\ mainSessionKey'[p] = m.ct.main
        BY <1>3, <2>1, <3>2 DEF Decrypted, TypeOK
      <4>2. QED
        BY <1>1, <1>2, <4>1
    <3>3. QED
      BY <3>1, <3>2
  <2>5. QED
    BY <1>2, <2>1, <2>2, <2>3, <2>4, MainStep
<1>9. KeepsKeys
  <2>1. /\ m.ct.under = clusterSessionKey[p] /\ mainSessionKey[p] # NoKey =>
            m.ct.main = mainSessionKey[p]
        /\ mainSessionKey \in [Parties -> MainKeys \union {NoKey}]
    BY <1>1, SameMainKey DEF RestartInv, TypeOK
  <2>2. mainSessionKey[p] # NoKey =>
            Decrypted(m.ct, clusterSessionKey[p], mainSessionKey[p]) = mainSessionKey[p]
    BY <2>1 DEF Decrypted
  <2>3. QED
    BY <1>2, <1>3, <2>1, <2>2 DEF KeepsKeys
<1>10. QED
  BY <1>4, <1>5, <1>6, <1>7, <1>8, <1>9 DEF RestartInv

LEMMA RestartMainSessionKey ==
    ASSUME RestartInv, MaxEpoch \in Nat, mainSessionKey[Leader] = NoKey,
           NEW k \in MainKeys, onMainSessionKey(k)
    PROVE  RestartInv' /\ KeepsKeys
<1> DEFINE new == TransportMsgs(Leader, clusterSessionKey[Leader], k)
<1>1. /\ status[Leader] = "up" /\ mainSessionKey[Leader] = NoKey
      /\ mainSessionKey' = [mainSessionKey EXCEPT ![Leader] = k]
      /\ net' = net \union new
      /\ UNCHANGED <<status, epoch, keyLeft, keyRight, view, clusterSessionKey, keyCiphertext>>
  BY DEF onMainSessionKey
<1>2. \A m \in new :
        /\ m.type = "Key" /\ m.from = Leader /\ m.to # Leader
        /\ clusterSessionKey[Leader] # NoKey
        /\ m.ct = encryptAndHMAC(k, clusterSessionKey[Leader])
  BY TransportOfLeader
<1>3. TypeOK'
  <2>1. TypeOK /\ clusterSessionKey[Leader] \in SessionKeys \union {NoKey}
    BY LeaderAssumption DEF RestartInv, TypeOK
  <2>2. new \subseteq Messages
    BY <2>1, TransportOfType, LeaderAssumption
  <2>3. QED
    BY <1>1, <2>1, <2>2 DEF TypeOK
<1> HIDE DEF new
<1>4. EntryInvariant' /\ (N > 1 => PendingUnused' /\ OneRunPerAkeOne' /\ RunsInOrder')
  BY <1>1, <1>2, QuietStep
<1>5. SessionInvariant'
  <2>1. \A q \in Parties : status[q] = "off" => mainSessionKey'[q] = mainSessionKey[q]
    BY <1>1 DEF RestartInv, TypeOK
  <2>2. QED
    BY <1>1, <2>1 DEF RestartInv, SessionInvariant
<1>6. MessageInvariant' /\ KeyedInvariant'
  BY <1>1, <1>2 DEF RestartInv, MessageInvariant, KeyedInvariant, Live
<1>7. MainKeyInvariant'
  <2>1. /\ TypeOK /\ MainKeyInvariant /\ epoch[Leader] \in Nat
        /\ keyCiphertext'[Leader] = NoKey /\ mainSessionKey'[Leader] = k
        /\ \A q \in Parties \ {Leader} : mainSessionKey'[q] = mainSessionKey[q]
    BY <1>1, LeaderAssumption DEF RestartInv, MainKeyInvariant, TypeOK
  <2>2. \A key, main : main # NoKey /\ MainOfRun(key, main) => MainOfRun(key, main)'
    BY <1>1 DEF MainOfRun
  <2>3. ASSUME NEW ct \in CiphertextsAround', ct \notin CiphertextsAround
        PROVE  /\ epoch'[Leader] \in 1 .. epoch'[Leader]
               /\ OfLeaderRun(ct.under, epoch'[Leader])
               /\ status'[Leader] # "off"
               /\ ct.main = mainSessionKey'[Leader]
    <3>1. /\ clusterSessionKey[Leader] # NoKey
          /\ ct = encryptAndHMAC(k, clusterSessionKey[Leader])
      BY <1>1, <1>2, <2>3 DEF CiphertextsAround
    <3>2. Keyed(Leader)
      BY <1>1, <3>1 DEF Keyed, Live
    <3>3. PICK E \in [Parties -> Runs] :
                E[Leader] = epoch[Leader] /\ clusterSessionKey[Leader] = KeyOfRuns(E)
      BY <3>2, KeyedRuns, LeaderAssumption
    <3>4. OfLeaderRun(clusterSessionKey[Leader], epoch[Leader])
      BY <3>2, <3>3, KeyedRuns, KeyOfRunsType, LeaderAssumption DEF OfLeaderRun
    <3>5. epoch[Leader] >= 1
      BY <1>1, LeaderAssumption DEF RestartInv, SessionInvariant
    <3>6. ct.under = clusterSessionKey[Leader] /\ ct.main = k
      BY <3>1 DEF encryptAndHMAC
    <3>7. QED
      BY <1>1, <2>1, <3>4, <3>5, <3>6
  <2>4. ASSUME NEW q \in Parties \ {Leader}, mainSessionKey'[q] # NoKey
        PROVE  /\ clusterSessionKey'[q] # NoKey
               /\ clusterSessionKey'[q] = clusterSessionKey[q]
               /\ mainSessionKey'[q] = mainSessionKey[q]
    BY <1>1, <2>1, <2>4 DEF MainKeyInvariant
  <2>5. QED
    BY <1>1, <2>1, <2>2, <2>3, <2>4, MainStep
<1>8. KeepsKeys
  BY <1>1, LeaderAssumption DEF KeepsKeys, RestartInv, TypeOK
<1>9. QED
  BY <1>3, <1>4, <1>5, <1>6, <1>7, <1>8 DEF RestartInv

LEMMA RestartEnd ==
    ASSUME RestartInv, MaxEpoch \in Nat, NEW p \in Parties, End(p)
    PROVE  RestartInv' /\ KeepsKeys
<1> DEFINE blank == [i \in Parties |-> BlankEntry]
<1>1. /\ epoch[p] < MaxEpoch /\ epoch' = epoch
      /\ net' \subseteq net
  BY DEF End
<1>2. /\ status'[p] = "off" /\ keyLeft'[p] = Zero /\ keyRight'[p] = Zero /\ view'[p] = blank
      /\ clusterSessionKey'[p] = NoKey /\ keyCiphertext'[p] = NoKey /\ mainSessionKey'[p] = NoKey
  BY DEF End, RestartInv, TypeOK
<1>3. \A q \in Parties \ {p} :
        /\ status'[q] = status[q] /\ keyLeft'[q] = keyLeft[q] /\ keyRight'[q] = keyRight[q]
        /\ view'[q] = view[q] /\ clusterSessionKey'[q] = clusterSessionKey[q]
        /\ keyCiphertext'[q] = keyCiphertext[q] /\ mainSessionKey'[q] = mainSessionKey[q]
  BY DEF End, RestartInv, TypeOK
<1>4. TypeOK'
  <2>1. Zero \in Keys /\ blank \in [Parties -> Entries \union {BlankEntry}]
    BY DEF Zero, Keys
  <2> HIDE DEF blank
  <2>2. view' = [view EXCEPT ![p] = blank]
    BY DEF End, blank
  <2>3. QED
    BY <2>1, <2>2 DEF RestartInv, TypeOK, End
<1>5. EntryInvariant' /\ (N > 1 => PendingUnused' /\ OneRunPerAkeOne' /\ RunsInOrder')
  <2>1. \A q, i \in Parties : view'[q][i] \in {view[q][i], BlankEntry}
    BY <1>2, <1>3
  <2>2. \A q \in Parties :
            keyLeft'[q] \in {keyLeft[q], Zero} /\ keyRight'[q] \in {keyRight[q], Zero}
    BY <1>2, <1>3
  <2>3. QED
    BY <1>1, <2>1, <2>2, QuietStep
<1>6. SessionInvariant'
  <2>1. ASSUME NEW q \in Parties \ {p}
        PROVE  /\ epoch[q] <= MaxEpoch
               /\ status'[q] # "off" => epoch[q] >= 1
               /\ keyLeft'[q] # Zero =>
                    \E e \in 1 .. epoch[LeftMemberID(q)] :
                        keyLeft'[q] = KexAkeSharedB(LeftMemberID(q), e)
               /\ keyRight'[q] # Zero =>
                    \E e \in 1 .. epoch[q] : keyRight'[q] = KexAkeSharedA(q, epoch[q], e)
               /\ view'[q][q] # BlankEntry =>
                    /\ keyLeft'[q] # Zero /\ keyRight'[q] # Zero
                    /\ view'[q][q].x = XorKeys(keyRight'[q], keyLeft'[q])
               /\ status'[q] = "off" =>
                    /\ epoch[q] < MaxEpoch
                    /\ keyLeft'[q] = Zero /\ keyRight'[q] = Zero
                    /\ view'[q] = blank
                    /\ clusterSessionKey'[q] = NoKey
                    /\ keyCiphertext'[q] = NoKey
                    /\ mainSessionKey'[q] = NoKey
    BY <1>3 DEF RestartInv, SessionInvariant
  <2>2. view'[p][p] = BlankEntry /\ epoch[p] <= MaxEpoch
    BY <1>1, <1>2 DEF RestartInv, SessionInvariant
  <2>3. QED
    BY <1>1, <1>2, <2>1, <2>2 DEF SessionInvariant
<1>7. MessageInvariant' /\ KeyedInvariant'
  BY <1>1, <1>2, <1>3 DEF RestartInv, MessageInvariant, KeyedInvariant, Live
<1>8. MainKeyInvariant'
  <2>1. TypeOK /\ MainKeyInvariant /\ epoch[Leader] \in Nat /\ keyCiphertext'[Leader] = NoKey
    BY <1>2, <1>3, LeaderAssumption DEF RestartInv, MainKeyInvariant, TypeOK
  <2>2. \A key, main : MainOfRun(key, main) => MainOfRun(key, main)'
    BY <1>1, <1>2, <1>3, LeaderAssumption DEF MainOfRun
  <2>3. \A ct \in CiphertextsAround' : ct \in CiphertextsAround
    BY <1>1, <1>2, <1>3 DEF CiphertextsAround
  <2>4. ASSUME NEW q \in Parties \ {Leader}, mainSessionKey'[q] # NoKey
        PROVE  /\ clusterSessionKey'[q] # NoKey
               /\ clusterSessionKey'[q] = clusterSessionKey[q]
               /\ mainSessionKey'[q] = mainSessionKey[q]
    BY <1>2, <1>3, <2>1, <2>4 DEF MainKeyInvariant
  <2>5. \A q \in Parties : clusterSessionKey'[q] # NoKey =>
            clusterSessionKey'[q] = clusterSessionKey[q]
    BY <1>2, <1>3
  <2>6. QED
    BY <1>1, <2>1, <2>2, <2>3, <2>4, <2>5, MainStep
<1>9. KeepsKeys
  BY <1>2, <1>3 DEF KeepsKeys
<1>10. QED
  BY <1>4, <1>5, <1>6, <1>7, <1>8, <1>9 DEF RestartInv

\* A new run has made nothing, and nothing has been made of its AkeOne.
LEMMA RestartStart ==
    ASSUME RestartInv, MaxEpoch \in Nat, NEW p \in Parties, Start(p)
    PROVE  RestartInv' /\ KeepsKeys
<1> DEFINE new == AkeOneMsg(p, epoch[p] + 1)
<1>1. /\ epoch \in [Parties -> Nat]
      /\ epoch'[p] = epoch[p] + 1 /\ \A q \in Parties \ {p} : epoch'[q] = epoch[q]
      /\ \A q \in Parties : epoch'[q] \in Nat /\ epoch[q] <= epoch'[q]
  BY DEF Start, RestartInv, TypeOK
<1>2. /\ status[p] = "off" /\ status'[p] = "up"
      /\ \A q \in Parties \ {p} : status'[q] = status[q]
      /\ net' = net \union {new}
      /\ UNCHANGED <<keyLeft, keyRight, view, clusterSessionKey, keyCiphertext, mainSessionKey>>
  BY DEF Start, RestartInv, TypeOK
<1>3. /\ epoch[p] < MaxEpoch
      /\ keyLeft[p] = Zero /\ keyRight[p] = Zero
      /\ view[p] = [i \in Parties |-> BlankEntry]
      /\ clusterSessionKey[p] = NoKey /\ keyCiphertext[p] = NoKey /\ mainSessionKey[p] = NoKey
  BY <1>2 DEF RestartInv, SessionInvariant
<1>4. /\ new.type = "AkeOne" /\ new.from = p /\ new.to = RightMemberID(p)
      /\ new.eph = epoch[p] + 1 /\ new \in Messages
  BY <1>1, Neighbours DEF AkeOneMsg, Messages
<1> HIDE DEF new
<1>5. TypeOK'
  BY <1>2, <1>4 DEF Start, RestartInv, TypeOK
<1>6. \A i \in Parties : EntriesOf(i)' = EntriesOf(i) /\ MadeBy(i)' = MadeBy(i)
  <2>1. \A i \in Parties : EntriesOf(i)' = EntriesOf(i)
    BY <1>2, <1>4 DEF EntriesOf
  <2>2. QED
    BY <2>1 DEF MadeBy
<1>7. EntryInvariant'
  <2>1. ASSUME NEW i \in Parties, NEW entry \in EntriesOf(i)
        PROVE  /\ entry \in Entries
               /\ entry.commitment = Commit_pke(i, entry.x, i, entry.r)
               /\ entry.pid = i
               /\ \E t \in Makings :
                    /\ entry.x = MadeX(i, t)
                    /\ t.run <= epoch'[i] /\ t.reply <= epoch'[i]
                    /\ t.left <= epoch'[LeftMemberID(i)]
    <3>1. PICK t \in Makings :
                /\ entry.x = MadeX(i, t)
                /\ t.run <= epoch[i] /\ t.reply <= epoch[i] /\ t.left <= epoch[LeftMemberID(i)]
      BY DEF RestartInv, EntryInvariant
    <3>2. t.run \in Nat /\ t.reply \in Nat /\ t.left \in Nat /\ LeftMemberID(i) \in Parties
      BY Neighbours DEF Makings, Runs
    <3>3. t.run <= epoch'[i] /\ t.reply <= epoch'[i] /\ t.left <= epoch'[LeftMemberID(i)]
      BY <1>1, <3>1, <3>2
    <3>4. QED
      BY <3>1, <3>3 DEF RestartInv, EntryInvariant
  <2>2. QED
    BY <1>6, <2>1 DEF EntryInvariant
<1>8. SessionInvariant'
  <2>1. ASSUME NEW q \in Parties, keyLeft[q] # Zero
        PROVE  \E e \in 1 .. epoch'[LeftMemberID(q)] :
                    keyLeft[q] = KexAkeSharedB(LeftMemberID(q), e)
    <3>1. PICK e \in 1 .. epoch[LeftMemberID(q)] : keyLeft[q] = KexAkeSharedB(LeftMemberID(q), e)
      BY <2>1 DEF RestartInv, SessionInvariant
    <3>2. e \in 1 .. epoch'[LeftMemberID(q)]
      BY <1>1, <3>1, Neighbours
    <3>3. QED
      BY <3>1, <3>2
  <2>2. ASSUME NEW q \in Parties, keyRight[q] # Zero
        PROVE  \E e \in 1 .. epoch'[q] : keyRight[q] = KexAkeSharedA(q, epoch'[q], e)
    BY <1>1, <1>3, <2>2 DEF RestartInv, SessionInvariant
  <2>3. ASSUME NEW q \in Parties
        PROVE  /\ epoch'[q] <= MaxEpoch
               /\ status'[q] # "off" => epoch'[q] >= 1
               /\ status'[q] = "off" => q # p /\ status[q] = "off" /\ epoch'[q] = epoch[q]
    BY <1>1, <1>2, <1>3 DEF RestartInv, SessionInvariant
  <2>4. QED
    BY <1>2, <2>1, <2>2, <2>3 DEF RestartInv, SessionInvariant
<1>9. MessageInvariant'
  <2>1. ASSUME NEW m \in net, m.type = "AkeOne"
        PROVE  m.to = RightMemberID(m.from) /\ m.eph \in 1 .. epoch'[m.from]
    BY <1>1, <2>1, AkeMessages
  <2>2. ASSUME NEW m \in net, m.type = "AkeTwo"
        PROVE  m.eph \in 1 .. epoch'[m.to]
    BY <1>1, <2>2, AkeMessages
  <2>3. ASSUME NEW m \in net, m.type \in {"XiRiCommitment", "Key"}
        PROVE  m.to # m.from
    BY <2>3 DEF RestartInv, MessageInvariant
  <2>4. new.eph \in 1 .. epoch'[new.from]
    BY <1>1, <1>4
  <2>5. QED
    BY <1>2, <1>4, <2>1, <2>2, <2>3, <2>4 DEF MessageInvariant
<1>10. ASSUME N > 1
       PROVE  PendingUnused' /\ OneRunPerAkeOne' /\ RunsInOrder'
  <2>1. ASSUME NEW m \in net', m.type = "AkeOne"
        PROVE  /\ keyLeft[m.to] # KexAkeSharedB(m.from, m.eph)
               /\ keyRight[m.from] # KexAkeSharedA(m.from, epoch'[m.from], m.eph)
               /\ \A k \in net : k.type = "AkeTwo" /\ k.to = m.from => k.eph # m.eph
               /\ \A t \in MadeBy(m.from) : t.reply # m.eph
               /\ \A t \in MadeBy(m.to) : t.left # m.eph
    <3>1. CASE m \in net
      <4>1. m.from \in Parties
        BY <2>1, <3>1, AkeMessages
      <4>2. keyRight[m.from] # KexAkeSharedA(m.from, epoch'[m.from], m.eph)
        <5>1. CASE m.from = p
          BY <1>3, <5>1, SecretsDiffer
        <5>2. CASE m.from # p
          BY <1>1, <1>10, <2>1, <3>1, <4>1, <5>2 DEF RestartInv, PendingUnused
        <5>3. QED
          BY <5>1, <5>2
      <4>3. QED
        BY <1>10, <2>1, <3>1, <4>2 DEF RestartInv, PendingUnused
    <3>2. CASE m = new
      <4> DEFINE j == RightMemberID(p)
      <4>1. j \in Parties /\ LeftMemberID(j) = p /\ epoch[p] \in Nat
        BY <1>1, Neighbours
      <4>2. keyLeft[j] # KexAkeSharedB(p, epoch[p] + 1)
        <5>1. SUFFICES ASSUME keyLeft[j] = KexAkeSharedB(p, epoch[p] + 1) PROVE FALSE
          OBVIOUS
        <5>2. keyLeft[j] # Zero
          BY <5>1, SecretsDiffer
        <5>3. PICK e \in 1 .. epoch[p] : keyLeft[j] = KexAkeSharedB(p, e)
          BY <4>1, <5>2 DEF RestartInv, SessionInvariant
        <5>4. KexAkeSharedB(p, e) = KexAkeSharedB(p, epoch[p] + 1)
          BY <5>1, <5>3
        <5>5. e = epoch[p] + 1
          BY <5>4, LeftSecretsDiffer
        <5>6. QED
          BY <4>1, <5>3, <5>5
      <4>3. keyRight[p] # KexAkeSharedA(p, epoch'[p], epoch[p] + 1)
        BY <1>3, SecretsDiffer
      <4>4. \A k \in net : k.type = "AkeTwo" /\ k.to = p => k.eph # epoch[p] + 1
        BY <4>1, AkeMessages
      <4>5. /\ \A t \in MadeBy(p) : t.reply # epoch[p] + 1
            /\ \A t \in MadeBy(j) : t.left # epoch[p] + 1
        <5>1. /\ \A t \in MadeBy(p) : t.reply \in Nat /\ t.reply <= epoch[p]
              /\ \A t \in MadeBy(j) : t.left \in Nat /\ t.left <= epoch[p]
          BY <1>10, <4>1, MadeBefore DEF Makings, Runs
        <5>2. QED
          BY <4>1, <5>1
      <4>6. QED
        BY <1>4, <3>2, <4>2, <4>3, <4>4, <4>5
    <3>3. QED
      BY <1>2, <3>1, <3>2
  <2>2. PendingUnused'
    <3>1. \A k \in net' : k.type = "AkeTwo" => k \in net
      BY <1>2, <1>4
    <3>2. \A m \in net' : m.type = "AkeOne" => m.from \in Parties /\ m.to \in Parties
      BY <1>5 DEF TypeOK, Messages
    <3>3. QED
      BY <1>2, <1>6, <2>1, <3>1, <3>2 DEF PendingUnused
  <2>3. ASSUME NEW j \in Parties, NEW e, keyLeft[j] = KexAkeSharedB(LeftMemberID(j), e)
        PROVE  epoch'[j] = epoch[j]
    <3>1. j # p
      BY <1>3, <2>3, SecretsDiffer
    <3>2. QED
      BY <1>1, <3>1
  <2>4. OneRunPerAkeOne'
    BY <1>2, <1>6, <1>10, <2>3 DEF RestartInv, OneRunPerAkeOne
  <2>5. RunsInOrder'
    <3>1. ASSUME NEW j \in Parties, NEW c \in MadeBy(LeftMemberID(j)), NEW b \in MadeBy(j),
                 c.run = c.reply, c.run < b.left
          PROVE  /\ keyLeft[j] = KexAkeSharedB(LeftMemberID(j), c.run) => b.run = epoch'[j]
                 /\ \A a \in MadeBy(j) : a.left = c.run => a.run <= b.run
      BY <1>10, <2>3, <3>1 DEF RestartInv, RunsInOrder
    <3>2. \A j \in Parties : LeftMemberID(j) \in Parties
      BY Neighbours
    <3>3. QED
      BY <1>2, <1>6, <3>1, <3>2 DEF RunsInOrder
  <2>6. QED
    BY <2>2, <2>4, <2>5
<1>11. KeyedInvariant'
  BY <1>2, <1>3 DEF RestartInv, KeyedInvariant, Live
<1>12. MainKeyInvariant'
  <2>1. /\ TypeOK /\ MainKeyInvariant /\ keyCiphertext'[Leader] = NoKey
        /\ epoch[Leader] \in Nat /\ epoch'[Leader] \in Nat /\ epoch[Leader] <= epoch'[Leader]
    BY <1>1, <1>2, LeaderAssumption DEF RestartInv, MainKeyInvariant
  <2>2. ASSUME NEW key, NEW main, NEW e \in 1 .. epoch[Leader], OfLeaderRun(key, e),
               MainOfRun(key, main)
        PROVE  MainOfRun(key, main)'
    <3>1. CASE p = Leader
      <4>1. OfLeaderRun(key, epoch'[Leader]) => e = epoch'[Leader]
        BY <2>2, LeftSecretsDiffer DEF OfLeaderRun
      <4>2. QED
        BY <1>1, <2>1, <3>1, <4>1 DEF MainOfRun
    <3>2. CASE p # Leader
      BY <1>1, <1>2, <2>2, <3>2, LeaderAssumption DEF MainOfRun
    <3>3. QED
      BY <3>1, <3>2
  <2>3. \A ct \in CiphertextsAround' : ct \in CiphertextsAround
    BY <1>2, <1>4 DEF CiphertextsAround
  <2>4. ASSUME NEW q \in Parties \ {Leader}, mainSessionKey'[q] # NoKey
        PROVE  /\ clusterSessionKey'[q] # NoKey
               /\ clusterSessionKey'[q] = clusterSessionKey[q]
               /\ mainSessionKey'[q] = mainSessionKey[q]
    BY <1>2, <2>1, <2>4 DEF MainKeyInvariant
  <2>5. QED
    BY <1>2, <2>1, <2>2, <2>3, <2>4, MainStep
<1>13. KeepsKeys
  BY <1>2 DEF KeepsKeys
<1>14. QED
  BY <1>5, <1>7, <1>8, <1>9, <1>10, <1>11, <1>12, <1>13 DEF RestartInv
-----------------------------------------------------------------------------
LEMMA RestartInit ==
    ASSUME Init, MaxEpoch \in Nat \ {0}
    PROVE  RestartInv
<1>1. TypeOK
  <2>1. Zero \in Keys
    BY DEF Zero, Keys
  <2>2. QED
    BY <2>1 DEF Init, TypeOK
<1>2. \A i \in Parties : EntriesOf(i) = {}
  BY DEF Init, EntriesOf
<1>3. EntryInvariant
  BY <1>2 DEF EntryInvariant
<1>4. SessionInvariant /\ MessageInvariant /\ KeyedInvariant
  BY DEF Init, SessionInvariant, MessageInvariant, KeyedInvariant
<1>5. PendingUnused /\ OneRunPerAkeOne /\ RunsInOrder
  <2>1. \A i \in Parties : MadeBy(i) = {}
    BY <1>2 DEF MadeBy
  <2>2. QED
    BY <2>1 DEF Init, PendingUnused, OneRunPerAkeOne, RunsInOrder
<1>6. MainKeyInvariant
  <2>1. CiphertextsAround = {}
    BY DEF Init, CiphertextsAround
  <2>2. QED
    BY <2>1, LeaderAssumption DEF Init, MainKeyInvariant
<1>7. QED
  BY <1>1, <1>3, <1>4, <1>5, <1>6 DEF RestartInv

LEMMA RestartUnchanged ==
    ASSUME RestartInv, UNCHANGED vars
    PROVE  RestartInv' /\ KeepsKeys
<1>1. /\ status' = status /\ epoch' = epoch /\ keyLeft' = keyLeft /\ keyRight' = keyRight
      /\ view' = view /\ clusterSessionKey' = clusterSessionKey
      /\ keyCiphertext' = keyCiphertext /\ mainSessionKey' = mainSessionKey /\ net' = net
  BY DEF vars
<1>2. /\ \A i \in Parties : EntriesOf(i)' = EntriesOf(i) /\ MadeBy(i)' = MadeBy(i)
      /\ CiphertextsAround' = CiphertextsAround
  BY <1>1 DEF EntriesOf, MadeBy, CiphertextsAround
<1>3. TypeOK' /\ SessionInvariant' /\ MessageInvariant'
  BY <1>1 DEF RestartInv, TypeOK, SessionInvariant, MessageInvariant
<1>4. EntryInvariant' /\ KeyedInvariant'
  BY <1>1, <1>2 DEF RestartInv, EntryInvariant, KeyedInvariant, Live
<1>5. N > 1 => PendingUnused' /\ OneRunPerAkeOne' /\ RunsInOrder'
  <2>1. \A j \in Parties : LeftMemberID(j) \in Parties
    BY Neighbours
  <2>2. ASSUME N > 1, NEW m \in net', m.type = "AkeOne"
        PROVE  m.from \in Parties /\ m.to \in Parties
    BY <1>1, <2>2, AkeMessages
  <2>3. N > 1 => PendingUnused'
    BY <1>1, <1>2, <2>2 DEF RestartInv, PendingUnused
  <2>4. N > 1 => OneRunPerAkeOne' /\ RunsInOrder'
    BY <1>1, <1>2, <2>1 DEF RestartInv, OneRunPerAkeOne, RunsInOrder
  <2>5. QED
    BY <2>3, <2>4
<1>6. MainKeyInvariant'
  BY <1>1, <1>2 DEF RestartInv, MainKeyInvariant, MainOfRun
<1>7. KeepsKeys
  BY <1>1 DEF KeepsKeys
<1>8. QED
  BY <1>3, <1>4, <1>5, <1>6, <1>7 DEF RestartInv

LEMMA RestartStep ==
    ASSUME RestartInv, MaxEpoch \in Nat, [RestartNext]_vars
    PROVE  RestartInv' /\ KeepsKeys
<1>1. ASSUME NEW p \in Parties, Start(p)
      PROVE  RestartInv' /\ KeepsKeys
  BY <1>1, RestartStart
<1>2. ASSUME NEW p \in Parties, NEW m \in net, handleMessage(p, m)
      PROVE  RestartInv' /\ KeepsKeys
  BY <1>2, RestartAkeOne, RestartAkeTwo, RestartXiRi, RestartKeyMsg DEF handleMessage
<1>3. ASSUME LeaderProtocolFinishes
      PROVE  RestartInv' /\ KeepsKeys
  BY <1>3, RestartMainSessionKey DEF LeaderProtocolFinishes
<1>4. ASSUME NEW p \in Parties, End(p)
      PROVE  RestartInv' /\ KeepsKeys
  BY <1>4, RestartEnd
<1>5. CASE UNCHANGED vars
  BY <1>5, RestartUnchanged
<1>6. QED
  BY <1>1, <1>2, <1>3, <1>4, <1>5 DEF RestartNext, Next, Idle

\* However often members end and start again, and whatever messages are lost with
\* them or arrive late, what the sessions and the messages hold stays what RestartInv
\* says of it.
THEOREM RestartInvariance ==
    ASSUME MaxEpoch \in Nat \ {0}
    PROVE  RestartSpec => []RestartInv
<1>1. Init => RestartInv
  BY RestartInit
<1>2. RestartInv /\ [RestartNext]_vars => RestartInv'
  BY RestartStep
<1>3. QED
  BY <1>1, <1>2, PTL DEF RestartSpec

\* Two running members with a cluster session key have the same one, in a cluster of
\* any size and after any number of restarts (tryFinalizeProtocol and its checks).
THEOREM LiveKeyAgreementHolds ==
    ASSUME MaxEpoch \in Nat \ {0}
    PROVE  RestartSpec => []LiveKeyAgreement
<1>1. RestartInv => LiveKeyAgreement
  BY KeysAgree
<1>2. QED
  BY <1>1, RestartInvariance, PTL

\* A running member of the leader's group has the leader's main session key or none
\* (onKey and transportMainSessionKey).
THEOREM LiveMainKeyAgreementHolds ==
    ASSUME MaxEpoch \in Nat \ {0}
    PROVE  RestartSpec => []LiveMainKeyAgreement
<1>1. RestartInv => LiveMainKeyAgreement
  BY MainKeysAgree
<1>2. QED
  BY <1>1, RestartInvariance, PTL

\* No key is computed from a 2-AKE whose two ends did not agree (CheckXs).
THEOREM NoGarbageInKeyHolds ==
    ASSUME MaxEpoch \in Nat \ {0}
    PROVE  RestartSpec => []NoGarbageInKey
<1>1. RestartInv => NoGarbageInKey
  BY NoGarbage
<1>2. QED
  BY <1>1, RestartInvariance, PTL

\* A run of the program replaces neither of its two keys (tryFinalizeProtocol, which
\* may be run again by a late message, and decryptAndStoreKey).
THEOREM KeyFinalInRunHolds ==
    ASSUME MaxEpoch \in Nat \ {0}
    PROVE  RestartSpec => KeyFinalInRun
<1>1. RestartInv /\ [RestartNext]_vars => [KeepsKeys]_vars
  BY RestartStep
<1>2. QED
  BY <1>1, RestartInvariance, PTL DEF RestartSpec, KeyFinalInRun
=============================================================================
