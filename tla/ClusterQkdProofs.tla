-------------------------- MODULE ClusterQkdProofs --------------------------
(***************************************************************************)
(* The invariant of ClusterQkd and its refinement of GroupKeyExchange, for *)
(* every number of members and every set of keys.  All of it rests on one  *)
(* step: a party that establishes the QKD key, whichever event brings it.  *)
(***************************************************************************)
EXTENDS ClusterQkd, TLAPS

\* The unset value is none of the keys.
LEMMA NoKeyApart == \A k \in QkdKeys \union MainKeys : k # NoKey
  BY NoKeyAssumption

\* Nothing has been sent or set before the start.
LEMMA InitInd == Init => IndInv
<1> SUFFICES ASSUME Init PROVE IndInv
  OBVIOUS
<1> USE LeaderAssumption DEF Init
<1>1. TypeOK
  BY DEF TypeOK
<1>2. KeyInvariant
  BY DEF KeyInvariant, MainKeyNotLost
<1>3. QED
  BY <1>1, <1>2 DEF IndInv

\* The leader's transport sends the one ciphertext to everybody else, and a
\* member's gives it the leader's main session key if the ciphertext is in.
LEMMA Transport ==
    ASSUME IndInv, NEW p \in Parties
    PROVE  /\ TransportMsgs(p, qkdKey, mainSessionKey[p]) \subseteq
                IF p = Leader /\ mainSessionKey[Leader] # NoKey
                THEN KeyMsgs(TheCiphertext) ELSE {}
           /\ p = Leader /\ mainSessionKey[Leader] # NoKey =>
                TransportMsgs(p, qkdKey, mainSessionKey[p]) = KeyMsgs(TheCiphertext)
           /\ p = Leader => TransportedKey(p, qkdKey) = mainSessionKey[Leader]
           /\ p # Leader /\ keyCiphertext[p] # NoKey =>
                /\ LeaderHasBoth
                /\ TransportedKey(p, qkdKey) = mainSessionKey[Leader]
           /\ keyCiphertext[p] = NoKey => TransportedKey(p, qkdKey) = mainSessionKey[p]
<1>1. qkdKey # NoKey
  BY NoKeyApart DEF IndInv, TypeOK
<1>2. p # Leader /\ keyCiphertext[p] # NoKey => LeaderHasBoth /\ keyCiphertext[p] = TheCiphertext
  BY DEF IndInv, KeyInvariant
<1>3. TheCiphertext.under = qkdKey /\ TheCiphertext.main = mainSessionKey[Leader]
  BY DEF TheCiphertext, encryptAndHMAC
<1>4. QED
  BY <1>1, <1>2, <1>3 DEF TransportMsgs, TransportedKey, Decrypted, TheCiphertext

\* Whoever establishes the QKD key stays within the types.
LEMMA EstablishType ==
    ASSUME IndInv, NEW p \in Parties, EstablishClusterKey(p, qkdKey)
    PROVE  /\ mode' \in Modes /\ qkdKey' \in QkdKeys
           /\ clusterSessionKey' \in [Parties -> QkdKeys \union {NoKey}]
           /\ keyCiphertext' \in [Parties -> Ciphertexts \union {NoKey}]
           /\ mainSessionKey' \in [Parties -> MainKeys \union {NoKey}]
           /\ net' \subseteq Messages
<1> USE DEF IndInv, TypeOK, EstablishClusterKey
<1>1. TransportedKey(p, qkdKey) \in MainKeys \union {NoKey}
  BY Transport, LeaderAssumption
<1>2. mainSessionKey[Leader] # NoKey => KeyMsgs(TheCiphertext) \subseteq Messages
  BY LeaderAssumption DEF KeyMsgs, TheCiphertext, encryptAndHMAC, Messages, Ciphertexts
<1>3. net' \subseteq Messages
  BY <1>2, Transport
<1>4. QED
  BY <1>1, <1>3

\* The keys and messages of p and of the others after p has established the
\* QKD key, as far as the invariant sees them.
LEMMA EstablishEffect ==
    ASSUME IndInv, NEW p \in Parties, EstablishClusterKey(p, qkdKey)
    PROVE  /\ UNCHANGED <<mode, qkdKey, keyCiphertext>>
           /\ clusterSessionKey'[p] = qkdKey /\ qkdKey # NoKey
           /\ mainSessionKey'[Leader] = mainSessionKey[Leader]
           /\ mainSessionKey'[p] \in {mainSessionKey[p], mainSessionKey[Leader]}
           /\ keyCiphertext[p] = NoKey => mainSessionKey'[p] = mainSessionKey[p]
           /\ keyCiphertext[p] # NoKey /\ p # Leader =>
                LeaderHasBoth /\ mainSessionKey'[p] = mainSessionKey[Leader]
           /\ \A q \in Parties : q # p => /\ clusterSessionKey'[q] = clusterSessionKey[q]
                                          /\ mainSessionKey'[q] = mainSessionKey[q]
           /\ LeaderHasBoth => LeaderHasBoth'
           /\ TheCiphertext' = TheCiphertext
           /\ net \subseteq net'
           /\ p # Leader => net' = net
           /\ \A m \in net' \ net : LeaderHasBoth' /\ m \in KeyMsgs(TheCiphertext)
           /\ p = Leader /\ LeaderHasBoth' => KeyMsgs(TheCiphertext) \subseteq net'
<1> USE DEF EstablishClusterKey
<1>1. qkdKey # NoKey
  BY NoKeyApart DEF IndInv, TypeOK
<1>2. /\ clusterSessionKey'[p] = qkdKey
      /\ mainSessionKey'[p] = TransportedKey(p, qkdKey)
      /\ \A q \in Parties : q # p => /\ clusterSessionKey'[q] = clusterSessionKey[q]
                                     /\ mainSessionKey'[q] = mainSessionKey[q]
  BY DEF IndInv, TypeOK
<1>3. keyCiphertext[Leader] = NoKey
  BY DEF IndInv, KeyInvariant
<1>4. /\ mainSessionKey'[p] \in {mainSessionKey[p], mainSessionKey[Leader]}
      /\ keyCiphertext[p] = NoKey => mainSessionKey'[p] = mainSessionKey[p]
      /\ keyCiphertext[p] # NoKey /\ p # Leader =>
            LeaderHasBoth /\ mainSessionKey'[p] = mainSessionKey[Leader]
  BY <1>2, <1>3, Transport
<1>5. mainSessionKey'[Leader] = mainSessionKey[Leader]
  BY <1>2, <1>3, <1>4, LeaderAssumption
<1>6. LeaderHasBoth => LeaderHasBoth'
  BY <1>1, <1>2, <1>5, LeaderAssumption DEF LeaderHasBoth
<1>7. TheCiphertext' = TheCiphertext
  BY <1>5 DEF TheCiphertext, encryptAndHMAC
<1>8. /\ net \subseteq net'
      /\ p # Leader => net' = net
      /\ \A m \in net' \ net : LeaderHasBoth' /\ m \in KeyMsgs(TheCiphertext)
  BY <1>1, <1>2, <1>5, Transport DEF LeaderHasBoth
<1>9. p = Leader /\ LeaderHasBoth' => KeyMsgs(TheCiphertext) \subseteq net'
  BY <1>5, Transport DEF LeaderHasBoth
<1>10. QED
  BY <1>1, <1>2, <1>4, <1>5, <1>6, <1>7, <1>8, <1>9

\* The order of the leader's two keys and of a member's key and ciphertext does
\* not matter: after p has established the QKD key the key invariant holds.
LEMMA EstablishKeys ==
    ASSUME IndInv, NEW p \in Parties, EstablishClusterKey(p, qkdKey),
           \A q \in Parties : fetching'[q] \in {NoKey, fetching[q]}
    PROVE  KeyInvariant'
<1> USE EstablishEffect, LeaderAssumption
<1>1. keyCiphertext'[Leader] = NoKey
  BY DEF IndInv, KeyInvariant
<1>2. \A q \in Parties : clusterSessionKey'[q] \in {NoKey, qkdKey'} /\ fetching'[q] \in {NoKey, qkdKey'}
  BY DEF IndInv, KeyInvariant
<1>3. ASSUME NEW q \in Parties \ {Leader}, keyCiphertext'[q] # NoKey
      PROVE  LeaderHasBoth' /\ keyCiphertext'[q] = TheCiphertext'
  BY <1>3 DEF IndInv, KeyInvariant
<1>4. ASSUME NEW q \in Parties \ {Leader}, mainSessionKey'[q] # NoKey
      PROVE  /\ LeaderHasBoth'
             /\ clusterSessionKey'[q] # NoKey
             /\ mainSessionKey'[q] = mainSessionKey'[Leader]
  <2>1. CASE q = p /\ keyCiphertext[p] # NoKey
    BY <2>1
  <2>2. CASE ~(q = p /\ keyCiphertext[p] # NoKey)
    BY <1>4, <2>2 DEF IndInv, KeyInvariant
  <2>3. QED
    BY <2>1, <2>2
<1>5. ASSUME NEW m \in net'
      PROVE  /\ m.to # Leader
             /\ m.type = "Key" => LeaderHasBoth' /\ m.ct = TheCiphertext'
             /\ m.type = "QKDIDMember" => m.id = qkdKey'
  <2>1. CASE m \in net
    BY <2>1 DEF IndInv, KeyInvariant
  <2>2. CASE m \notin net
    BY <2>2 DEF KeyMsgs
  <2>3. QED
    BY <2>1, <2>2
<1>6. MainKeyNotLost'
  <2> SUFFICES ASSUME LeaderHasBoth', NEW q \in Parties \ {Leader}
               PROVE  \/ mainSessionKey'[q] = mainSessionKey'[Leader]
                      \/ \E m \in net' : m.type = "Key" /\ m.to = q
                      \/ keyCiphertext'[q] # NoKey /\ clusterSessionKey'[q] = NoKey
    BY DEF MainKeyNotLost, LeaderHasBoth
  <2>1. CASE p = Leader
    <3> DEFINE km == [type |-> "Key", to |-> q, ct |-> TheCiphertext]
    <3>1. km \in KeyMsgs(TheCiphertext)
      BY DEF KeyMsgs
    <3>2. km \in net' /\ km.type = "Key" /\ km.to = q
      BY <2>1, <3>1
    <3>3. QED
      BY <3>2
  <2>2. CASE p # Leader
    <3>1. LeaderHasBoth
      BY <2>2 DEF LeaderHasBoth
    <3>2. \/ mainSessionKey[q] = mainSessionKey[Leader]
          \/ \E m \in net : m.type = "Key" /\ m.to = q
          \/ keyCiphertext[q] # NoKey /\ clusterSessionKey[q] = NoKey
      BY <3>1 DEF IndInv, KeyInvariant, MainKeyNotLost, LeaderHasBoth
    <3>3. CASE q = p
      BY <2>2, <3>2, <3>3
    <3>4. CASE q # p
      BY <2>2, <3>2, <3>4
    <3>5. QED
      BY <3>3, <3>4
  <2>3. QED
    BY <2>1, <2>2
<1>7. QED
  BY <1>1, <1>2, <1>3, <1>4, <1>5, <1>6 DEF KeyInvariant

\* main and Init: the key of a file, or a goroutine that asks for one.
LEMMA StartInd ==
    ASSUME IndInv, NEW p \in Parties, Start(p)
    PROVE  IndInv'
<1>1. started' \subseteq Parties /\ fetching' = fetching
  BY DEF Start, IndInv, TypeOK
<1>2. CASE EstablishClusterKey(p, qkdKey) /\ requester' = requester
  <2>1. TypeOK'
    BY <1>1, <1>2, EstablishType DEF IndInv, TypeOK
  <2>2. KeyInvariant'
    BY <1>1, <1>2, EstablishKeys
  <2>3. QED
    BY <2>1, <2>2 DEF IndInv
<1>3. CASE /\ requester' \in {requester, "asking"}
           /\ UNCHANGED <<mode, qkdKey, clusterSessionKey, keyCiphertext, mainSessionKey, net>>
  BY <1>1, <1>3 DEF IndInv, TypeOK, KeyInvariant, MainKeyNotLost, LeaderHasBoth, TheCiphertext
<1>4. QED
  BY <1>2, <1>3 DEF Start

\* The two ways for a key of the ETSI server to arrive: at the leader, at a member.
LEMMA QKDClusterKeyInd ==
    ASSUME IndInv, NEW p \in Parties,
           (LeaderQKDClusterKey /\ p = Leader) \/ onQKDClusterKey(p)
    PROVE  IndInv'
<1>1. /\ EstablishClusterKey(p, qkdKey)
      /\ started' = started
      /\ requester' \in {requester, "sending", "done"}
      /\ fetching' \in [Parties -> QkdKeys \union {NoKey}]
      /\ \A q \in Parties : fetching'[q] \in {NoKey, fetching[q]}
  <2>1. CASE LeaderQKDClusterKey /\ p = Leader
    BY <2>1 DEF LeaderQKDClusterKey, IndInv, TypeOK
  <2>2. CASE onQKDClusterKey(p)
    <3>1. fetching[p] = qkdKey
      BY <2>2 DEF onQKDClusterKey, IndInv, KeyInvariant
    <3>2. QED
      BY <2>2, <3>1 DEF onQKDClusterKey, IndInv, TypeOK
  <2>3. QED
    BY <2>1, <2>2
<1>2. TypeOK'
  BY <1>1, EstablishType DEF IndInv, TypeOK
<1>3. QED
  BY <1>1, <1>2, EstablishKeys DEF IndInv

\* The goroutine of the leader has its answer, hands the key over and sends the ID.
LEMMA RequesterInd ==
    ASSUME IndInv, RequestKey \/ TakeQKDKey \/ SendQKDID
    PROVE  IndInv'
<1>1. CASE RequestKey \/ TakeQKDKey
  BY <1>1 DEF RequestKey, TakeQKDKey, IndInv, TypeOK, KeyInvariant, MainKeyNotLost, LeaderHasBoth, TheCiphertext
<1>2. CASE SendQKDID
  <2>1. \A m \in QKDIDMsgs(qkdKey) : /\ m \in Messages /\ m.to # Leader
                                     /\ m.type = "QKDIDMember" /\ m.id = qkdKey
    BY DEF QKDIDMsgs, Messages, IndInv, TypeOK
  <2>2. TypeOK'
    BY <1>2, <2>1 DEF SendQKDID, IndInv, TypeOK
  <2>3. MainKeyNotLost'
    BY <1>2 DEF SendQKDID, IndInv, KeyInvariant, MainKeyNotLost
  <2>4. \A m \in net' : /\ m.to # Leader
                        /\ m.type = "Key" => LeaderHasBoth /\ m.ct = TheCiphertext
                        /\ m.type = "QKDIDMember" => m.id = qkdKey
    BY <1>2, <2>1 DEF SendQKDID, IndInv, KeyInvariant
  <2>5. QED
    BY <1>2, <2>2, <2>3, <2>4 DEF SendQKDID, IndInv, KeyInvariant, LeaderHasBoth, TheCiphertext
<1>3. QED
  BY <1>1, <1>2

\* A member that learns the key ID starts to ask for the key.
LEMMA QKDIDInd ==
    ASSUME IndInv, NEW p \in Parties, NEW m \in net, m.to = p, onQKDID(p, m)
    PROVE  IndInv'
<1>1. m.id = qkdKey
  BY DEF onQKDID, IndInv, KeyInvariant
<1>2. TypeOK'
  BY <1>1 DEF onQKDID, IndInv, TypeOK
<1>3. MainKeyNotLost'
  BY DEF onQKDID, IndInv, KeyInvariant, MainKeyNotLost
<1>4. \A q \in Parties : fetching'[q] \in {NoKey, qkdKey}
  BY <1>1 DEF onQKDID, IndInv, TypeOK, KeyInvariant
<1>5. QED
  BY <1>2, <1>3, <1>4 DEF onQKDID, IndInv, KeyInvariant, LeaderHasBoth, TheCiphertext

\* A KeyMsg is opened with the QKD key, or put aside for it.
LEMMA KeyInd ==
    ASSUME IndInv, NEW p \in Parties, NEW m \in net, m.to = p, onKey(p, m)
    PROVE  IndInv'
<1>1. p # Leader /\ LeaderHasBoth /\ m.ct = TheCiphertext
  BY DEF IndInv, KeyInvariant, onKey
<1>2. TheCiphertext.under = qkdKey /\ TheCiphertext.main = mainSessionKey[Leader]
  BY DEF TheCiphertext, encryptAndHMAC
<1>3. TheCiphertext \in Ciphertexts
  BY <1>1, LeaderAssumption DEF TheCiphertext, encryptAndHMAC, Ciphertexts, LeaderHasBoth, IndInv, TypeOK
<1>4. /\ UNCHANGED <<mode, qkdKey, started, requester, fetching, clusterSessionKey>>
      /\ net' = net \ {m}
  BY DEF onKey
<1>5. CASE /\ clusterSessionKey[p] = NoKey
           /\ keyCiphertext' = [keyCiphertext EXCEPT ![p] = TheCiphertext]
           /\ mainSessionKey' = mainSessionKey
  <2>1. TypeOK'
    BY <1>3, <1>4, <1>5 DEF IndInv, TypeOK
  <2>2. LeaderHasBoth' = LeaderHasBoth /\ TheCiphertext' = TheCiphertext
    BY <1>4, <1>5 DEF LeaderHasBoth, TheCiphertext
  <2>3. TheCiphertext # NoKey
    BY <1>3, NoKeyAssumption
  <2>4. keyCiphertext'[p] = TheCiphertext
        /\ \A q \in Parties : q # p => keyCiphertext'[q] = keyCiphertext[q]
    BY <1>5 DEF IndInv, TypeOK
  <2>5. MainKeyNotLost'
    BY <1>4, <1>5, <2>3, <2>4 DEF IndInv, KeyInvariant, MainKeyNotLost
  <2>6. QED
    BY <1>1, <1>4, <1>5, <2>1, <2>2, <2>4, <2>5 DEF IndInv, KeyInvariant
<1>6. CASE /\ clusterSessionKey[p] # NoKey
           /\ mainSessionKey' = [mainSessionKey EXCEPT ![p] = mainSessionKey[Leader]]
           /\ keyCiphertext' = keyCiphertext
  <2>1. TypeOK'
    BY <1>4, <1>6, LeaderAssumption DEF IndInv, TypeOK
  <2>2. mainSessionKey'[p] = mainSessionKey[Leader]
        /\ \A q \in Parties : q # p => mainSessionKey'[q] = mainSessionKey[q]
    BY <1>6 DEF IndInv, TypeOK
  <2>3. mainSessionKey'[Leader] = mainSessionKey[Leader]
    BY <1>1, <2>2, LeaderAssumption
  <2>4. LeaderHasBoth' = LeaderHasBoth /\ TheCiphertext' = TheCiphertext
    BY <1>4, <2>3 DEF LeaderHasBoth, TheCiphertext
  <2>5. MainKeyNotLost'
    BY <1>4, <1>6, <2>2, <2>3 DEF IndInv, KeyInvariant, MainKeyNotLost
  <2>6. QED
    BY <1>1, <1>4, <1>6, <2>1, <2>2, <2>3, <2>4, <2>5 DEF IndInv, KeyInvariant
<1>7. QED
  <2>1. clusterSessionKey[p] # NoKey => clusterSessionKey[p] = qkdKey
    BY DEF IndInv, KeyInvariant
  <2>2. QED
    BY <1>1, <1>2, <1>5, <1>6, <2>1 DEF onKey, Decrypted

\* The main session key comes to the leader: it goes on to the members if the
\* leader has its QKD key, and waits for that one if not.
LEMMA MainSessionKeyInd ==
    ASSUME IndInv, mainSessionKey[Leader] = NoKey, NEW k \in MainKeys, onMainSessionKey(k)
    PROVE  IndInv'
<1>1. ~LeaderHasBoth /\ k # NoKey
  BY NoKeyApart DEF LeaderHasBoth
<1>2. /\ mainSessionKey'[Leader] = k
      /\ \A q \in Parties : q # Leader => mainSessionKey'[q] = mainSessionKey[q]
  BY LeaderAssumption DEF onMainSessionKey, IndInv, TypeOK
<1>3. /\ UNCHANGED <<mode, qkdKey, started, requester, fetching, clusterSessionKey, keyCiphertext>>
      /\ net' = net \union TransportMsgs(Leader, clusterSessionKey[Leader], k)
  BY DEF onMainSessionKey
<1>4. clusterSessionKey[Leader] \in {NoKey, qkdKey} /\ qkdKey # NoKey
  BY LeaderAssumption, NoKeyApart DEF IndInv, TypeOK, KeyInvariant
<1>5. /\ clusterSessionKey[Leader] = NoKey => net' = net /\ ~LeaderHasBoth'
      /\ clusterSessionKey[Leader] # NoKey =>
            LeaderHasBoth' /\ net' = net \union KeyMsgs(TheCiphertext')
  BY <1>1, <1>2, <1>3, <1>4 DEF TransportMsgs, LeaderHasBoth, TheCiphertext
<1>6. LeaderHasBoth' => KeyMsgs(TheCiphertext') \subseteq Messages
  BY <1>2, <1>3 DEF KeyMsgs, TheCiphertext, encryptAndHMAC, Messages, Ciphertexts, IndInv, TypeOK
<1>7. TypeOK'
  <2>1. net' \subseteq Messages
    BY <1>5, <1>6 DEF IndInv, TypeOK
  <2>2. QED
    BY <1>3, <2>1 DEF onMainSessionKey, IndInv, TypeOK
<1>8. ASSUME NEW m \in net'
      PROVE  /\ m.to # Leader
             /\ m.type = "Key" => LeaderHasBoth' /\ m.ct = TheCiphertext'
             /\ m.type = "QKDIDMember" => m.id = qkdKey'
  <2>1. CASE m \in net
    BY <1>1, <1>3, <2>1 DEF IndInv, KeyInvariant
  <2>2. CASE m \notin net
    BY <1>5, <2>2 DEF KeyMsgs
  <2>3. QED
    BY <2>1, <2>2
<1>9. MainKeyNotLost'
  <2> SUFFICES ASSUME LeaderHasBoth', NEW q \in Parties \ {Leader}
               PROVE  \E m \in net' : m.type = "Key" /\ m.to = q
    BY DEF MainKeyNotLost, LeaderHasBoth
  <2> DEFINE km == [type |-> "Key", to |-> q, ct |-> TheCiphertext']
  <2>1. km \in KeyMsgs(TheCiphertext')
    BY DEF KeyMsgs
  <2>2. km \in net' /\ km.type = "Key" /\ km.to = q
    BY <1>5, <2>1
  <2>3. QED
    BY <2>2
<1>10. KeyInvariant'
  BY <1>1, <1>2, <1>3, <1>8, <1>9 DEF IndInv, KeyInvariant
<1>11. QED
  BY <1>7, <1>10 DEF IndInv

\* Every step keeps the invariant.
LEMMA NextInd == IndInv /\ [Next]_vars => IndInv'
<1> SUFFICES ASSUME IndInv, [Next]_vars PROVE IndInv'
  OBVIOUS
<1>1. ASSUME NEW p \in Parties, NEW m \in net, handleMessage(p, m) PROVE IndInv'
  BY <1>1, QKDIDInd, KeyInd DEF handleMessage
<1>2. CASE LeaderQKDClusterKey
  BY <1>2, QKDClusterKeyInd, LeaderAssumption
<1>3. CASE UNCHANGED vars
  BY <1>3 DEF vars, IndInv, TypeOK, KeyInvariant, MainKeyNotLost, LeaderHasBoth, TheCiphertext
<1>4. QED
  BY <1>1, <1>2, <1>3, StartInd, QKDClusterKeyInd, RequesterInd, MainSessionKeyInd
     DEF Next, Idle, LeaderProtocolFinishes
-----------------------------------------------------------------------------
\* The key invariant holds in every reachable state of a cluster with QKD.
THEOREM Invariance == Spec => []IndInv
  BY InitInd, NextInd, PTL DEF Spec

\* A member has the leader's main session key or none (transportMainSessionKey).
THEOREM MainKeyAgreementHolds == Spec => []MainKeyAgreement
<1>1. IndInv => MainKeyAgreement
  BY LeaderAssumption DEF IndInv, KeyInvariant, MainKeyAgreement
<1>2. QED
  BY <1>1, Invariance, PTL

\* A KeyMsg that overtakes the key ID or the answer of the ETSI server is not
\* lost (onKey, onQKDClusterKey).
THEOREM MainKeyNotLostHolds == Spec => []MainKeyNotLost
<1>1. IndInv => MainKeyNotLost
  BY DEF IndInv, KeyInvariant
<1>2. QED
  BY <1>1, Invariance, PTL
-----------------------------------------------------------------------------
abstractVars == <<{}, clusterSessionKey, mainSessionKey>>

\* Who establishes the QKD key advances: it may establish the group key for the
\* first time, and learn the main key from the ciphertext put aside.
LEMMA EstablishRefines ==
    ASSUME IndInv, NEW p \in Parties, EstablishClusterKey(p, qkdKey)
    PROVE  Abstract!Advance(p)
<1> USE EstablishEffect
<1>1. UNCHANGED clusterSessionKey \/ Abstract!Establish(p, qkdKey)
  <2>1. clusterSessionKey' = [clusterSessionKey EXCEPT ![p] = qkdKey]
    BY DEF EstablishClusterKey
  <2>2. \A q \in Parties : clusterSessionKey[q] \in {NoKey, qkdKey}
    BY DEF IndInv, KeyInvariant
  <2>3. CASE clusterSessionKey[p] = NoKey
    BY <2>1, <2>2, <2>3 DEF Abstract!Establish
  <2>4. CASE clusterSessionKey[p] = qkdKey
    BY <2>1, <2>4 DEF IndInv, TypeOK
  <2>5. QED
    BY <2>2, <2>3, <2>4
<1>2. UNCHANGED mainSessionKey \/ Abstract!Learn(p)
  <2>1. mainSessionKey' = [mainSessionKey EXCEPT ![p] = TransportedKey(p, qkdKey)]
    BY DEF EstablishClusterKey
  <2>2. CASE TransportedKey(p, qkdKey) = mainSessionKey[p]
    BY <2>1, <2>2 DEF IndInv, TypeOK
  <2>3. CASE TransportedKey(p, qkdKey) # mainSessionKey[p]
    <3>1. p # Leader /\ LeaderHasBoth /\ TransportedKey(p, qkdKey) = mainSessionKey[Leader]
      BY <2>3, Transport
    <3>2. mainSessionKey[p] = NoKey
      BY <2>3, <3>1 DEF IndInv, KeyInvariant
    <3>3. clusterSessionKey'[p] # NoKey /\ clusterSessionKey'[Leader] # NoKey
      BY <3>1, LeaderAssumption DEF LeaderHasBoth
    <3>4. QED
      BY <2>1, <3>1, <3>2, <3>3 DEF Abstract!Learn, LeaderHasBoth
  <2>4. QED
    BY <2>2, <2>3
<1>3. qkdKey \in QkdKeys
  BY DEF IndInv, TypeOK
<1>4. QED
  BY <1>1, <1>2, <1>3 DEF Abstract!Advance

\* A KeyMsg lets p learn the main key, or has no effect that is seen.
LEMMA KeyRefines ==
    ASSUME IndInv, NEW p \in Parties, NEW m \in net, m.to = p, onKey(p, m)
    PROVE  Abstract!Advance(p)
<1>1. p # Leader /\ LeaderHasBoth /\ m.ct = TheCiphertext
  BY DEF IndInv, KeyInvariant, onKey
<1>2. clusterSessionKey' = clusterSessionKey
  BY DEF onKey
<1>3. UNCHANGED mainSessionKey \/ Abstract!Learn(p)
  <2>1. CASE clusterSessionKey[p] = NoKey
    BY <2>1 DEF onKey
  <2>2. CASE clusterSessionKey[p] # NoKey
    <3>1. clusterSessionKey[p] = qkdKey
      BY <2>2 DEF IndInv, KeyInvariant
    <3>2. mainSessionKey' = [mainSessionKey EXCEPT ![p] = mainSessionKey[Leader]]
      BY <1>1, <2>2, <3>1 DEF onKey, Decrypted, TheCiphertext, encryptAndHMAC
    <3>3. CASE mainSessionKey[p] = NoKey
      BY <1>1, <1>2, <2>2, <3>2, <3>3 DEF LeaderHasBoth, Abstract!Learn
    <3>4. CASE mainSessionKey[p] # NoKey
      BY <1>1, <3>2, <3>4 DEF IndInv, TypeOK, KeyInvariant
    <3>5. QED
      BY <3>3, <3>4
  <2>3. QED
    BY <2>1, <2>2
<1>4. QED
  BY <1>2, <1>3 DEF Abstract!Advance

\* Every step is a step of the ideal exchange or leaves it alone.
LEMMA NextRefines == IndInv /\ [Next]_vars => [Abstract!Next]_abstractVars
<1> SUFFICES ASSUME IndInv, [Next]_vars PROVE Abstract!Next \/ UNCHANGED abstractVars
  OBVIOUS
<1>1. ASSUME NEW p \in Parties, EstablishClusterKey(p, qkdKey) PROVE Abstract!Next
  BY <1>1, EstablishRefines DEF Abstract!Next
<1>2. ASSUME NEW p \in Parties, Start(p) PROVE Abstract!Next \/ UNCHANGED abstractVars
  BY <1>1, <1>2 DEF Start, abstractVars
<1>3. ASSUME RequestKey \/ TakeQKDKey \/ SendQKDID PROVE UNCHANGED abstractVars
  BY <1>3 DEF RequestKey, TakeQKDKey, SendQKDID, abstractVars
<1>4. ASSUME LeaderQKDClusterKey PROVE Abstract!Next
  BY <1>1, <1>4, LeaderAssumption DEF LeaderQKDClusterKey
<1>5. ASSUME NEW p \in Parties, onQKDClusterKey(p) PROVE Abstract!Next
  <2>1. fetching[p] = qkdKey
    BY <1>5 DEF onQKDClusterKey, IndInv, KeyInvariant
  <2>2. QED
    BY <1>1, <1>5, <2>1 DEF onQKDClusterKey
<1>6. ASSUME NEW p \in Parties, NEW m \in net, handleMessage(p, m)
      PROVE  Abstract!Next \/ UNCHANGED abstractVars
  <2>1. CASE onQKDID(p, m)
    BY <2>1 DEF onQKDID, abstractVars
  <2>2. CASE onKey(p, m)
    BY <1>6, <2>2, KeyRefines DEF handleMessage, Abstract!Next
  <2>3. QED
    BY <1>6, <2>1, <2>2 DEF handleMessage
<1>7. ASSUME LeaderProtocolFinishes PROVE Abstract!Next
  BY <1>7 DEF LeaderProtocolFinishes, onMainSessionKey, Abstract!Choose, Abstract!Next
<1>8. CASE UNCHANGED vars
  BY <1>8 DEF vars, abstractVars
<1>9. QED
  BY <1>2, <1>3, <1>4, <1>5, <1>6, <1>7, <1>8 DEF Next, Idle

\* A cluster with QKD implements the ideal group key exchange to which nobody
\* contributes, whatever its size and whatever the order of messages and
\* answers (onQKDClusterKey, onKey, transportMainSessionKey).
THEOREM Refinement == Spec => ImplementsGroupKeyExchange
<1>1. Init => Abstract!Init
  BY DEF Init, Abstract!Init
<1>2. [Abstract!Next]_abstractVars <=> [Abstract!Next]_(Abstract!vars)
  BY DEF abstractVars, Abstract!vars
<1>3. QED
  BY <1>1, <1>2, NextRefines, Invariance, PTL
  DEF Spec, ImplementsGroupKeyExchange, Abstract!Spec
=============================================================================
