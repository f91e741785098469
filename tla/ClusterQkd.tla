----------------------------- MODULE ClusterQkd -----------------------------
(***************************************************************************)
(* cluster_protocol.Session when the cluster session key does not come     *)
(* from the members but from QKD: from a file that all of them have, or    *)
(* from an ETSI server, which gives the leader a key and everybody who     *)
(* names its ID the same key.  The main session key goes down as in        *)
(* ClusterProtocol.                                                        *)
(*                                                                         *)
(* The goroutines that wait for the server wait outside of the handler     *)
(* loop, so that the session goes on handling messages, a KeyMsg under the *)
(* key it is still waiting for among them.                                 *)
(***************************************************************************)
EXTENDS Integers

CONSTANTS
    N,          \* nMembers of the cluster, the leader included
    Leader,     \* the memberID of the leader
    Modes,      \* the ways the configurations use to get the key
    QkdKeys,    \* the keys the file or the server may hold
    MainKeys,   \* the main session keys the leader protocol can come up with
    NoKey       \* a byte array or slice that has not been set

Parties     == 0 .. N-1
Ciphertexts == [main : MainKeys, under : QkdKeys]
Messages    == [type : {"Key"}, to : Parties, ct : Ciphertexts]
        \union [type : {"QKDIDMember"}, to : Parties, id : QkdKeys]

ASSUME NAssumption == N \in Nat \ {0}
ASSUME LeaderAssumption == Leader \in Parties
ASSUME ModesAssumption == Modes \subseteq {"path", "url"}
ASSUME NoKeyAssumption == NoKey \notin MainKeys \union QkdKeys \union Ciphertexts

VARIABLES
    mode, qkdKey,       \* the configuration and the key that it leads to
    started,            \* the members whose process has started
    requester,          \* where the goroutine that gets the leader's key is
    fetching,           \* the key ID that a goroutine of onQKDID is asking for
    clusterSessionKey,  \* CryptoSession.clusterSessionKey
    keyCiphertext,      \* Session.keyCiphertext
    mainSessionKey,     \* Session.mainSessionKey
    net                 \* the messages on their way, one per recipient

vars == <<mode, qkdKey, started, requester, fetching, clusterSessionKey,
          keyCiphertext, mainSessionKey, net>>
-----------------------------------------------------------------------------
KeyMsgs(ct) == {[type |-> "Key", to |-> p, ct |-> ct] : p \in Parties \ {Leader}}

\* The router sends a broadcast to every other member.
QKDIDMsgs(id) == {[type |-> "QKDIDMember", to |-> p, id |-> id] : p \in Parties \ {Leader}}

encryptAndHMAC(main, key) == [main |-> main, under |-> key]

\* decryptAndStoreKey: a ciphertext whose tag does not match changes nothing.
Decrypted(ct, key, old) == IF ct.under = key THEN ct.main ELSE old

\* The leader's callback without its test for a missing cluster session key.
TransportMsgs_Unkeyed(p, key, main) ==
    IF p = Leader /\ main # NoKey THEN KeyMsgs(encryptAndHMAC(main, key)) ELSE {}

\* transportMainSessionKey at the leader: a KeyMsg unless a key is missing.
TransportMsgs(p, key, main) ==
    IF p = Leader /\ key # NoKey /\ main # NoKey
    THEN KeyMsgs(encryptAndHMAC(main, key))
    ELSE {}

\* The ciphertext that came too early is left where it is.
TransportedKey_Skipped(p, key) == mainSessionKey[p]

\* transportMainSessionKey at a member: open the ciphertext put aside, if any.
TransportedKey(p, key) ==
    IF p # Leader /\ keyCiphertext[p] # NoKey
    THEN Decrypted(keyCiphertext[p], key, mainSessionKey[p])
    ELSE mainSessionKey[p]

\* p gets its cluster session key and calls transportMainSessionKey.
EstablishClusterKey(p, key) ==
    /\ clusterSessionKey' = [clusterSessionKey EXCEPT ![p] = key]
    /\ mainSessionKey' = [mainSessionKey EXCEPT ![p] = TransportedKey(p, key)]
    /\ net' = net \union TransportMsgs(p, key, mainSessionKey[p])
    /\ UNCHANGED <<mode, qkdKey, keyCiphertext>>
-----------------------------------------------------------------------------
Init ==
    /\ mode \in Modes
    /\ qkdKey \in QkdKeys
    /\ started = {}
    /\ requester = "none"
    /\ fetching = [p \in Parties |-> NoKey]
    /\ clusterSessionKey = [p \in Parties |-> NoKey]
    /\ keyCiphertext = [p \in Parties |-> NoKey]
    /\ mainSessionKey = [p \in Parties |-> NoKey]
    /\ net = {}

\* main and Session.Init: the key of a file is there at once; for one of the
\* ETSI server the leader starts a goroutine and the members wait for its ID.
Start(p) ==
    /\ p \notin started
    /\ started' = started \union {p}
    /\ \/ /\ mode = "path"
          /\ EstablishClusterKey(p, qkdKey)
          /\ UNCHANGED requester
       \/ /\ mode = "url"
          /\ requester' = IF p = Leader THEN "asking" ELSE requester
          /\ UNCHANGED <<mode, qkdKey, clusterSessionKey, keyCiphertext, mainSessionKey, net>>
    /\ UNCHANGED fetching

\* The leader's goroutine: RequestKey until it succeeds, the key to the handler
\* loop, then its ID to the members.  The channel has no buffer: once the loop has
\* taken the key the handler and the goroutine go on side by side.
RequestKey ==
    /\ requester = "asking"
    /\ requester' = "offering"
    /\ UNCHANGED <<mode, qkdKey, started, fetching, clusterSessionKey, keyCiphertext,
                   mainSessionKey, net>>

TakeQKDKey ==
    /\ requester = "offering"
    /\ requester' = "taken"
    /\ UNCHANGED <<mode, qkdKey, started, fetching, clusterSessionKey, keyCiphertext,
                   mainSessionKey, net>>

\* onQKDClusterKey at the leader.
LeaderQKDClusterKey ==
    /\ requester \in {"taken", "announced"}
    /\ requester' = IF requester = "taken" THEN "sending" ELSE "done"
    /\ EstablishClusterKey(Leader, qkdKey)
    /\ UNCHANGED <<started, fetching>>

SendQKDID ==
    /\ requester \in {"taken", "sending"}
    /\ requester' = IF requester = "taken" THEN "announced" ELSE "done"
    /\ net' = net \union QKDIDMsgs(qkdKey)
    /\ UNCHANGED <<mode, qkdKey, started, fetching, clusterSessionKey, keyCiphertext, mainSessionKey>>

\* The handler loop of p is there for the next message.
Free(p) == p \in started /\ (p = Leader => requester \notin {"taken", "announced"})

\* onQKDID starts a goroutine, which asks the server until it is answered and
\* then hands the key to the handler loop: onQKDClusterKey at a member.
onQKDID(p, m) ==
    /\ m.type = "QKDIDMember"
    /\ fetching' = [fetching EXCEPT ![p] = m.id]
    /\ net' = net \ {m}
    /\ UNCHANGED <<mode, qkdKey, started, requester, clusterSessionKey, keyCiphertext, mainSessionKey>>

\* The goroutine asks for a key, not for the key of the ID.
onQKDClusterKey_NewKey(p) ==
    /\ fetching[p] # NoKey
    /\ fetching' = [fetching EXCEPT ![p] = NoKey]
    /\ \E key \in QkdKeys : EstablishClusterKey(p, key)
    /\ UNCHANGED <<started, requester>>

onQKDClusterKey(p) ==
    /\ fetching[p] # NoKey
    /\ fetching' = [fetching EXCEPT ![p] = NoKey]
    /\ EstablishClusterKey(p, fetching[p])
    /\ UNCHANGED <<started, requester>>

onKey(p, m) ==
    /\ m.type = "Key"
    /\ \/ /\ clusterSessionKey[p] = NoKey
          /\ keyCiphertext' = [keyCiphertext EXCEPT ![p] = m.ct]
          /\ UNCHANGED mainSessionKey
       \/ /\ clusterSessionKey[p] # NoKey
          /\ mainSessionKey' = [mainSessionKey EXCEPT
                ![p] = Decrypted(m.ct, clusterSessionKey[p], @)]
          /\ UNCHANGED keyCiphertext
    /\ net' = net \ {m}
    /\ UNCHANGED <<mode, qkdKey, started, requester, fetching, clusterSessionKey>>

handleMessage(p, m) ==
    /\ Free(p)
    /\ m.to = p
    /\ onQKDID(p, m) \/ onKey(p, m)

\* The MainSessionKeyMsg of the leader protocol.  The key is copied over any
\* there was.
onMainSessionKey(k) ==
    /\ Free(Leader)
    /\ mainSessionKey' = [mainSessionKey EXCEPT ![Leader] = k]
    /\ net' = net \union TransportMsgs(Leader, clusterSessionKey[Leader], k)
    /\ UNCHANGED <<mode, qkdKey, started, requester, fetching, clusterSessionKey, keyCiphertext>>

\* The environment: the leader protocol finishes at a time of its own and hands
\* over one key, as in ClusterProtocol.
LeaderProtocolFinishes ==
    /\ mainSessionKey[Leader] = NoKey
    /\ \E k \in MainKeys : onMainSessionKey(k)

\* Every session has the main key: all the handlers wait on their channels.
Established == \A p \in Parties : mainSessionKey[p] # NoKey

Idle == Established /\ UNCHANGED vars

Next ==
    \/ \E p \in Parties : Start(p)
    \/ RequestKey
    \/ TakeQKDKey
    \/ LeaderQKDClusterKey
    \/ SendQKDID
    \/ \E p \in Parties : onQKDClusterKey(p)
    \/ \E p \in Parties : \E m \in net : handleMessage(p, m)
    \/ LeaderProtocolFinishes
    \/ Idle

Spec == Init /\ [][Next]_vars

(***************************************************************************)
(* Fairness: all are started, the router delivers, the loops and           *)
(* goroutines run, the ETSI server answers in the end (every request: the  *)
(* members ask for the same ID), and the leader protocol finishes.         *)
(***************************************************************************)
Fairness ==
    /\ \A p \in Parties : WF_vars(Start(p)) /\ WF_vars(onQKDClusterKey(p))
    /\ WF_vars(RequestKey) /\ WF_vars(TakeQKDKey)
    /\ WF_vars(LeaderQKDClusterKey) /\ WF_vars(SendQKDID)
    /\ \A p \in Parties : WF_vars(\E m \in net : handleMessage(p, m))
    /\ WF_vars(LeaderProtocolFinishes)

FairSpec == Spec /\ Fairness
-----------------------------------------------------------------------------
\* Every field holds a value of its Go type.
TypeOK ==
    /\ mode \in Modes
    /\ qkdKey \in QkdKeys
    /\ started \subseteq Parties
    /\ requester \in {"none", "asking", "offering", "taken", "announced", "sending", "done"}
    /\ fetching \in [Parties -> QkdKeys \union {NoKey}]
    /\ clusterSessionKey \in [Parties -> QkdKeys \union {NoKey}]
    /\ keyCiphertext \in [Parties -> Ciphertexts \union {NoKey}]
    /\ mainSessionKey \in [Parties -> MainKeys \union {NoKey}]
    /\ net \subseteq Messages

\* A member has the leader's main session key or none.
MainKeyAgreement ==
    \A p \in Parties : mainSessionKey[p] \in {NoKey, mainSessionKey[Leader]}

\* Once the leader has both keys, the main session key is never lost on its way
\* to a member, even though the KeyMsg overtakes the key ID and the answer of
\* the ETSI server: it has arrived, or its KeyMsg is still to be delivered, or
\* its ciphertext is put aside for the cluster session key to come.
MainKeyNotLost ==
    mainSessionKey[Leader] # NoKey /\ clusterSessionKey[Leader] # NoKey =>
        \A p \in Parties \ {Leader} :
            \/ mainSessionKey[p] = mainSessionKey[Leader]
            \/ \E m \in net : m.type = "Key" /\ m.to = p
            \/ keyCiphertext[p] # NoKey /\ clusterSessionKey[p] = NoKey

\* Everybody ends up with the main session key, provided the server answers.
EventuallyEstablished == <>[]Established
-----------------------------------------------------------------------------
(***************************************************************************)
(* The inductive invariant of ClusterQkd, and the ideal group key exchange *)
(* that it implements: no party contributes to a QKD key.                  *)
(***************************************************************************)
LeaderHasBoth == mainSessionKey[Leader] # NoKey /\ clusterSessionKey[Leader] # NoKey

\* The one KeyMsg content there is.
TheCiphertext == encryptAndHMAC(mainSessionKey[Leader], qkdKey)

KeyInvariant ==
    /\ keyCiphertext[Leader] = NoKey
    /\ \A p \in Parties :
        /\ clusterSessionKey[p] \in {NoKey, qkdKey}
        /\ fetching[p] \in {NoKey, qkdKey}
    /\ \A p \in Parties \ {Leader} :
        /\ keyCiphertext[p] # NoKey => LeaderHasBoth /\ keyCiphertext[p] = TheCiphertext
        /\ mainSessionKey[p] # NoKey =>
                /\ LeaderHasBoth
                /\ clusterSessionKey[p] # NoKey
                /\ mainSessionKey[p] = mainSessionKey[Leader]
    /\ \A m \in net :
        /\ m.to # Leader
        /\ m.type = "Key" => LeaderHasBoth /\ m.ct = TheCiphertext
        /\ m.type = "QKDIDMember" => m.id = qkdKey
    /\ MainKeyNotLost

\* All orders of messages and answers leave this true; MainKeyAgreement and
\* the refinement follow from it.
IndInv == TypeOK /\ KeyInvariant

Abstract == INSTANCE GroupKeyExchange WITH
                joined       <- {},
                groupKey     <- clusterSessionKey,
                mainKey      <- mainSessionKey,
                Contributors <- {},
                GroupKeys    <- QkdKeys

\* Seen from outside a cluster with QKD is the same group key exchange: each
\* step is one of the ideal exchange or changes nothing it can see.
ImplementsGroupKeyExchange == Abstract!Spec
=============================================================================
