--------------------------- MODULE ClusterProtocol ---------------------------
(***************************************************************************)
(* cluster_protocol.Session in Kyber-GAKE mode: the N members of one       *)
(* cluster, the leader among them, agree on a cluster session key and the  *)
(* leader hands the main session key down under it.                        *)
(*                                                                         *)
(* A session handles one message at a time (MessageHandler), so a handler  *)
(* is one action.  net holds the messages the router has not delivered;    *)
(* any of them may come next.  The router is not part of the repository.   *)
(* It has to hold what it gets for a client that has not logged in yet:    *)
(* an AkeOne is sent once, when its sender starts, and never repeated.     *)
(***************************************************************************)
EXTENDS GakeKeys

CONSTANTS
    N,          \* nMembers of the cluster, the leader included
    Leader,     \* the memberID of the leader
    Coins,      \* the values of the coin Ri
    MainKeys,   \* the main session keys the leader protocol can come up with
    NoKey       \* a byte array or slice that has not been set

Parties == 0 .. N-1

ASSUME NAssumption == N \in Nat \ {0}
ASSUME LeaderAssumption == Leader \in Parties

\* The values the fields and messages take.
Secrets     == [init : Parties, tk : Nat, eph : Nat]
Keys        == SUBSET Secrets
Commitments == [pk : Parties, x : Keys, i : Parties, r : Coins]
Entries     == [x : Keys, r : Coins, commitment : Commitments, pid : Parties]
SessionKeys == [leftKeys : [Parties -> Keys], pids : [Parties -> Parties]]
Ciphertexts == [main : MainKeys, under : SessionKeys]

ASSUME NoKeyAssumption ==
    /\ NoKey \notin MainKeys
    /\ NoKey \notin SessionKeys
    /\ NoKey \notin Ciphertexts

VARIABLES
    status,             \* is the process "off", "up" or "exited"
    epoch,              \* which run of the program it is; names its (tkRight, eskaRight)
    keyLeft, keyRight,  \* CryptoSession.keyLeft, .keyRight
    view,               \* CryptoSession.xs, .rs, .commitments and .pids, by index
    clusterSessionKey,  \* CryptoSession.clusterSessionKey
    keyCiphertext,      \* Session.keyCiphertext
    mainSessionKey,     \* Session.mainSessionKey
    net                 \* the messages on their way, one per recipient

pairwise == <<keyLeft, keyRight>>
vars == <<status, epoch, keyLeft, keyRight, view, clusterSessionKey,
          keyCiphertext, mainSessionKey, net>>
-----------------------------------------------------------------------------
RightMemberID(p) == (p + 1) % N

(***************************************************************************)
(* The 2-AKE of kex.c, from A to its right neighbour.  eph is the run of A *)
(* that made the ephemeral key pair and tk.  B encapsulates to the         *)
(* ephemeral key it received and decapsulates tk.  A decapsulates with its *)
(* current eskaRight and uses its current tkRight: the result is the       *)
(* secret of B just when the reply answers this run's AkeOne.              *)
(***************************************************************************)
Secret(a, tk, eph) == [init |-> a, tk |-> tk, eph |-> eph]

KexAkeSharedB(a, eph)     == {Secret(a, eph, eph)}
KexAkeSharedA(a, tk, eph) == {Secret(a, tk, eph)}

\* Hashing, encryption and commitment are free constructors: equal results
\* come from equal arguments only.
Commit_pke(pk, x, i, r) == [pk |-> pk, x |-> x, i |-> i, r |-> r]

computeSharedSecret(leftKeys, pids) == [leftKeys |-> leftKeys, pids |-> pids]

encryptAndHMAC(main, key) == [main |-> main, under |-> key]

-----------------------------------------------------------------------------
AkeOneMsg(p, eph) ==
    [type |-> "AkeOne", from |-> p, to |-> RightMemberID(p), eph |-> eph]

AkeTwoMsg(p, to, eph) ==
    [type |-> "AkeTwo", from |-> p, to |-> to, eph |-> eph]

\* The router sends a broadcast to every other member.
XiRiCommitmentMsgs(p, entry) ==
    {[type |-> "XiRiCommitment", from |-> p, to |-> q, entry |-> entry] :
        q \in Parties \ {p}}

KeyMsgs(ct) ==
    {[type |-> "Key", from |-> Leader, to |-> q, ct |-> ct] : q \in Parties \ {Leader}}

\* The slots of the four arrays before anything has been written to them.
BlankEntry == [x |-> Zero, r |-> NoKey, commitment |-> NoKey, pid |-> NoKey]

\* getXiCommitmentCoinMsg: what p writes in its own slots and broadcasts.
XiEntry(p, right, left, r) ==
    LET x == XorKeys(right, left)
    IN  [x |-> x, r |-> r, commitment |-> Commit_pke(p, x, p, r), pid |-> p]

Xs(v) == [i \in Parties |-> v[i].x]

ReceivedAllXs(v) == \A i \in Parties : v[i].x # Zero

checkCommitments(v) ==
    \A i \in Parties : v[i].commitment = Commit_pke(i, v[i].x, i, v[i].r)

\* The Xs are not checked.
ChecksPass_NoXs(v) == checkCommitments(v)

ChecksPass(v) == CheckXs(Xs(v), N) /\ checkCommitments(v)

\* The key tryFinalizeProtocol arrives at when both checks pass.
SessionKey(p, left, v) ==
    computeSharedSecret(ComputeAllLeftKeys(N, p, left, Xs(v)),
                        [i \in Parties |-> v[i].pid])

\* The tag is not compared.
Decrypted_NoTag(ct, key, old) == ct.main

\* decryptAndStoreKey: a ciphertext whose tag does not match changes nothing.
Decrypted(ct, key, old) == IF ct.under = key THEN ct.main ELSE old

(***************************************************************************)
(* The callback transportMainSessionKey, called with cluster session key   *)
(* key and, at the leader, main session key main.  The leader sends its    *)
(* KeyMsg unless one of the two is missing.  A member opens the ciphertext *)
(* it has put aside, if there is one.                                      *)
(***************************************************************************)
TransportMsgs(p, key, main) ==
    IF p = Leader /\ key # NoKey /\ main # NoKey
    THEN KeyMsgs(encryptAndHMAC(main, key))
    ELSE {}

\* The ciphertext that came too early is left where it is.
TransportedKey_Skipped(p, key) == mainSessionKey[p]

TransportedKey(p, key) ==
    IF p # Leader /\ keyCiphertext[p] # NoKey
    THEN Decrypted(keyCiphertext[p], key, mainSessionKey[p])
    ELSE mainSessionKey[p]

(***************************************************************************)
(* tryFinalizeProtocol at p, whose arrays are now v and whose left key is  *)
(* left.  The handler has already sent `before' and sends `after' once     *)
(* this returns, which ExitWithMsg does not.                               *)
(***************************************************************************)
Waiting(v, before, after) ==
    /\ ~ReceivedAllXs(v)
    /\ net' = before \union after
    /\ UNCHANGED <<status, clusterSessionKey, mainSessionKey>>

ExitWithMsg(p, v, before) ==
    /\ ReceivedAllXs(v)
    /\ ~ChecksPass(v)
    /\ status' = [status EXCEPT ![p] = "exited"]
    /\ net' = before
    /\ UNCHANGED <<clusterSessionKey, mainSessionKey>>

Finalize(p, left, v, before, after) ==
    LET key == SessionKey(p, left, v) IN
    /\ ReceivedAllXs(v)
    /\ ChecksPass(v)
    /\ clusterSessionKey' = [clusterSessionKey EXCEPT ![p] = key]
    /\ mainSessionKey' = [mainSessionKey EXCEPT ![p] = TransportedKey(p, key)]
    /\ net' = before \union TransportMsgs(p, key, mainSessionKey[p]) \union after
    /\ UNCHANGED status

tryFinalizeProtocol(p, left, v, before, after) ==
    /\ view' = [view EXCEPT ![p] = v]
    /\ \/ Waiting(v, before, after)
       \/ ExitWithMsg(p, v, before)
       \/ Finalize(p, left, v, before, after)

\* Both neighbour keys are there: p makes its Xi, tries to finalize, and only
\* then does the handler send the Xi.
checkLeftRightKeys(p, left, right, before) ==
    \/ /\ left = Zero \/ right = Zero
       /\ net' = before
       /\ UNCHANGED <<status, view, clusterSessionKey, mainSessionKey>>
    \/ /\ left # Zero /\ right # Zero
       /\ \E r \in Coins :
            LET entry == XiEntry(p, right, left, r)
            IN  tryFinalizeProtocol(p, left, [view[p] EXCEPT ![p] = entry],
                                    before, XiRiCommitmentMsgs(p, entry))
-----------------------------------------------------------------------------
Init ==
    /\ status = [p \in Parties |-> "off"]
    /\ epoch = [p \in Parties |-> 0]
    /\ keyLeft = [p \in Parties |-> Zero]
    /\ keyRight = [p \in Parties |-> Zero]
    /\ view = [p \in Parties |-> [i \in Parties |-> BlankEntry]]
    /\ clusterSessionKey = [p \in Parties |-> NoKey]
    /\ keyCiphertext = [p \in Parties |-> NoKey]
    /\ mainSessionKey = [p \in Parties |-> NoKey]
    /\ net = {}

\* The program starts: main, and Session.Init with a new 2-AKE key pair.
Start(p) ==
    /\ status[p] = "off"
    /\ status' = [status EXCEPT ![p] = "up"]
    /\ epoch' = [epoch EXCEPT ![p] = @ + 1]
    /\ net' = net \union {AkeOneMsg(p, epoch[p] + 1)}
    /\ UNCHANGED <<keyLeft, keyRight, view, clusterSessionKey, keyCiphertext, mainSessionKey>>

onAkeOne(p, m) ==
    /\ m.type = "AkeOne"
    /\ keyLeft' = [keyLeft EXCEPT ![p] = KexAkeSharedB(m.from, m.eph)]
    /\ checkLeftRightKeys(p, KexAkeSharedB(m.from, m.eph), keyRight[p],
                          (net \ {m}) \union {AkeTwoMsg(p, m.from, m.eph)})
    /\ UNCHANGED <<epoch, keyRight, keyCiphertext>>

onAkeTwo(p, m) ==
    LET right == KexAkeSharedA(p, epoch[p], m.eph) IN
    /\ m.type = "AkeTwo"
    /\ keyRight' = [keyRight EXCEPT ![p] = right]
    /\ checkLeftRightKeys(p, keyLeft[p], right, net \ {m})
    /\ UNCHANGED <<epoch, keyLeft, keyCiphertext>>

onXiRiCommitment(p, m) ==
    /\ m.type = "XiRiCommitment"
    /\ tryFinalizeProtocol(p, keyLeft[p], [view[p] EXCEPT ![m.from] = m.entry],
                           net \ {m}, {})
    /\ UNCHANGED <<epoch, keyLeft, keyRight, keyCiphertext>>

onKey(p, m) ==
    /\ m.type = "Key"
    /\ \/ /\ clusterSessionKey[p] = NoKey
          /\ keyCiphertext' = [keyCiphertext EXCEPT ![p] = m.ct]
          /\ UNCHANGED mainSessionKey
       \/ /\ clusterSessionKey[p] # NoKey
          /\ mainSessionKey' = [mainSessionKey EXCEPT
                ![p] = Decrypted(m.ct, clusterSessionKey[p], @)]
          /\ UNCHANGED keyCiphertext
    /\ net' = net \ {m}
    /\ UNCHANGED <<status, epoch, keyLeft, keyRight, view, clusterSessionKey>>

\* The MainSessionKeyMsg of the leader protocol.  The key is copied over any
\* there was.
onMainSessionKey(k) ==
    /\ status[Leader] = "up"
    /\ mainSessionKey' = [mainSessionKey EXCEPT ![Leader] = k]
    /\ net' = net \union TransportMsgs(Leader, clusterSessionKey[Leader], k)
    /\ UNCHANGED <<status, epoch, keyLeft, keyRight, view, clusterSessionKey, keyCiphertext>>

(***************************************************************************)
(* The environment: the leader protocol, which runs in the leader's        *)
(* process, finishes at a time of its own.  It hands over one key in a run *)
(* of the program, as HandedOverOnce of LeaderProtocol says of leaders     *)
(* that do not restart; LeaderProcess has those that hand over another.    *)
(***************************************************************************)
LeaderProtocolFinishes ==
    /\ mainSessionKey[Leader] = NoKey
    /\ \E k \in MainKeys : onMainSessionKey(k)

handleMessage(p, m) ==
    /\ status[p] = "up"
    /\ m.to = p
    /\ \/ onAkeOne(p, m)
       \/ onAkeTwo(p, m)
       \/ onXiRiCommitment(p, m)
       \/ onKey(p, m)

\* Every session has the main key: all the handlers wait on their channels.
Established == \A p \in Parties : mainSessionKey[p] # NoKey

Idle == Established /\ UNCHANGED vars

Next ==
    \/ \E p \in Parties : Start(p)
    \/ \E p \in Parties : \E m \in net : handleMessage(p, m)
    \/ LeaderProtocolFinishes
    \/ Idle

Spec == Init /\ [][Next]_vars

(***************************************************************************)
(* Fairness: every member is started, the router delivers what it holds    *)
(* and the handler loop takes it, and the leader protocol finishes.        *)
(***************************************************************************)
Fairness ==
    /\ \A p \in Parties : WF_vars(Start(p))
    /\ \A p \in Parties : WF_vars(\E m \in net : handleMessage(p, m))
    /\ WF_vars(LeaderProtocolFinishes)

FairSpec == Spec /\ Fairness
-----------------------------------------------------------------------------
Messages ==
         [type : {"AkeOne", "AkeTwo"}, from : Parties, to : Parties, eph : Nat]
  \union [type : {"XiRiCommitment"}, from : Parties, to : Parties, entry : Entries]
  \union [type : {"Key"}, from : {Leader}, to : Parties, ct : Ciphertexts]

\* Every field holds a value of its Go type, and the slots of one index in xs,
\* rs, commitments and pids are either all unset or all set.
TypeOK ==
    /\ status \in [Parties -> {"off", "up", "exited"}]
    /\ epoch \in [Parties -> Nat]
    /\ keyLeft \in [Parties -> Keys]
    /\ keyRight \in [Parties -> Keys]
    /\ view \in [Parties -> [Parties -> Entries \union {BlankEntry}]]
    /\ clusterSessionKey \in [Parties -> SessionKeys \union {NoKey}]
    /\ keyCiphertext \in [Parties -> Ciphertexts \union {NoKey}]
    /\ mainSessionKey \in [Parties -> MainKeys \union {NoKey}]
    /\ net \subseteq Messages

\* The secret of the one 2-AKE between the left neighbour of q and q, when
\* every program is started once.
RingKey(q) == {Secret((q + N - 1) % N, 1, 1)}

GroupKey == [leftKeys |-> [q \in Parties |-> RingKey(q)],
             pids     |-> [q \in Parties |-> q]]

\* Whatever the order of the messages, every member that arrives at a cluster
\* session key arrives at the same one, the hash of the N secrets of the ring
\* and the N names, each in its place (cluster_protocol.tryFinalizeProtocol).
KeyAgreement == \A p \in Parties : clusterSessionKey[p] \in {NoKey, GroupKey}

\* As long as nobody restarts, no order of the messages makes the Xs or the
\* commitments check fail, which would end the program.
NoAbort == \A p \in Parties : status[p] # "exited"

\* A member has the leader's main session key or none.
MainKeyAgreement ==
    \A p \in Parties : mainSessionKey[p] \in {NoKey, mainSessionKey[Leader]}

\* Once the leader has both keys, the main session key is never lost on its way
\* to a member: it has arrived, or the KeyMsg is still to be delivered, or
\* its ciphertext is put aside for the cluster session key to come (onKey
\* against transportMainSessionKey, in either order).
MainKeyNotLost ==
    mainSessionKey[Leader] # NoKey /\ clusterSessionKey[Leader] # NoKey =>
        \A p \in Parties \ {Leader} :
            \/ mainSessionKey[p] = mainSessionKey[Leader]
            \/ \E m \in net : m.type = "Key" /\ m.to = p
            \/ keyCiphertext[p] # NoKey /\ clusterSessionKey[p] = NoKey

\* Everybody ends up with the main session key ("You can now securely chat!").
EventuallyEstablished == <>[]Established
-----------------------------------------------------------------------------
(***************************************************************************)
(* The inductive invariant of ClusterProtocol.  KeyAgreement and NoAbort   *)
(* do not carry themselves: they hold because of what is in the arrays and *)
(* on its way, which RingInvariant says.  MainKeyAgreement and             *)
(* MainKeyNotLost likewise rest on MainInvariant.                          *)
(***************************************************************************)
\* p has both its neighbour keys, and so has made its Xi.
HasJoined(p) == keyLeft[p] # Zero /\ keyRight[p] # Zero

\* The entry that i makes out of the secrets of the ring.
Genuine(i, entry) ==
    /\ entry \in Entries
    /\ entry.x = XorKeys(RingKey(RightMemberID(i)), RingKey(i))
    /\ entry.commitment = Commit_pke(i, entry.x, i, entry.r)
    /\ entry.pid = i

RingMessage(m) ==
    /\ m.type = "AkeOne" => m.to = RightMemberID(m.from) /\ m.eph = 1 /\ epoch[m.from] = 1
    /\ m.type = "AkeTwo" => m.from = RightMemberID(m.to) /\ m.eph = 1 /\ epoch[m.to] = 1
    /\ m.type = "XiRiCommitment" => Genuine(m.from, m.entry) /\ HasJoined(m.from)

\* One run per member; all keys, Xs and messages are those of the one ring.
RingInvariant ==
    /\ \A p \in Parties :
        /\ status[p] # "exited"
        /\ epoch[p] = IF status[p] = "off" THEN 0 ELSE 1
        /\ keyLeft[p] \in {Zero, RingKey(p)}
        /\ keyRight[p] \in {Zero, RingKey(RightMemberID(p))}
        /\ clusterSessionKey[p] \in {NoKey, GroupKey}
        /\ clusterSessionKey[p] # NoKey => \A i \in Parties : HasJoined(i)
        /\ \A i \in Parties :
            view[p][i] # BlankEntry => Genuine(i, view[p][i]) /\ HasJoined(i)
    /\ \A m \in net : RingMessage(m)

LeaderHasBoth == mainSessionKey[Leader] # NoKey /\ clusterSessionKey[Leader] # NoKey

\* The one KeyMsg content there is.
TheCiphertext == encryptAndHMAC(mainSessionKey[Leader], GroupKey)

\* Every ciphertext and every main key at a member is the leader's.
MainInvariant ==
    /\ keyCiphertext[Leader] = NoKey
    /\ \A p \in Parties \ {Leader} :
        /\ keyCiphertext[p] # NoKey => LeaderHasBoth /\ keyCiphertext[p] = TheCiphertext
        /\ mainSessionKey[p] # NoKey =>
                /\ LeaderHasBoth
                /\ clusterSessionKey[p] # NoKey
                /\ mainSessionKey[p] = mainSessionKey[Leader]
    /\ \A m \in net : m.type = "Key" =>
        m.to # Leader /\ LeaderHasBoth /\ m.ct = TheCiphertext
    /\ MainKeyNotLost

\* All the orders of messages leave this true; KeyAgreement, NoAbort,
\* MainKeyAgreement and MainKeyNotLost follow from it.
IndInv == TypeOK /\ RingInvariant /\ MainInvariant
-----------------------------------------------------------------------------
(***************************************************************************)
(* ClusterProtocol implements GroupKeyExchange: a party has joined when it *)
(* holds the secrets of both its 2-AKEs.                                   *)
(***************************************************************************)
Joined == {p \in Parties : keyLeft[p] # Zero /\ keyRight[p] # Zero}

Abstract == INSTANCE GroupKeyExchange WITH
                joined       <- Joined,
                groupKey     <- clusterSessionKey,
                mainKey      <- mainSessionKey,
                Contributors <- Parties,
                GroupKeys    <- {GroupKey}

\* Every step of the sessions is a step of the ideal group key exchange or
\* changes nothing it can see (the handlers of cluster_protocol.Session).
ImplementsGroupKeyExchange == Abstract!Spec
=============================================================================
