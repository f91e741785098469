--------------------------- MODULE LeaderProtocol ---------------------------
(***************************************************************************)
(* leader_protocol.Session: the leaders of NClusters clusters agree on the *)
(* main session key.  The key between a leader and its right neighbour     *)
(* comes from a 2-AKE, from a file both have, or from an ETSI server.      *)
(*                                                                         *)
(* A handler that calls tryFinalizeProtocol may be held up there: the main *)
(* session key goes to the cluster session over an unbuffered channel, and *)
(* what the handler still has to send, the leader's own Xi among it, waits *)
(* with it.  Likewise onQKDID waits for the ETSI server.  So a handler is  *)
(* one action up to such a point and another one after it.                 *)
(***************************************************************************)
EXTENDS GakeKeys

CONSTANTS
    NClusters,  \* nClusters
    EdgeModes,  \* the ways the configurations use to get the key of an edge
    Share,      \* the secret that leader c and its right neighbour get
    Coins,      \* the values of the coin Ri
    NoKey       \* a byte array that has not been set, a channel nobody waits on

Leaders == 0 .. NClusters-1
Secrets == {Share[c] : c \in Leaders}
Keys    == SUBSET Secrets

\* The values the fields and messages take.
Entries == [x : Keys, r : Coins, commitment : [x : Keys, r : Coins], pid : Leaders]

SessionKeys == [leftKeys : [0 .. NClusters-2 -> Keys], pids : [0 .. NClusters-2 -> Leaders]]

Messages ==
         [type : {"LeadAkeOne", "LeadAkeTwo"}, from : Leaders, to : Leaders]
  \union [type : {"QKDIDLeader"}, from : Leaders, to : Leaders, id : Leaders]
  \union [type : {"LeaderXiRiCommitment"}, from : Leaders, to : Leaders, entry : Entries]

Handovers == [key : SessionKeys, unsent : SUBSET Messages]

ASSUME NClustersAssumption == NClusters \in Nat \ {0}
ASSUME EdgeModesAssumption == EdgeModes \subseteq {"kem", "path", "url"}
ASSUME NoKeyAssumption == NoKey \notin SessionKeys \union Leaders \union Handovers

VARIABLES
    edge,               \* the configuration: the mode between c and its right neighbour
    started, exited,    \* the leaders whose process has started, and those that ended themselves
    keyLeft, keyRight,  \* CryptoSession.keyLeft, .keyRight
    view,               \* CryptoSession.xs, .rs, .commitments and .pids, by index
    fetching,           \* the key ID that onQKDID is asking the ETSI server for
    handing,            \* the handler that waits on clusterSessionChan: its key and unsent messages
    requester,          \* where the goroutine that gets the right QKD key is
    mainSessionKey,     \* what the cluster session has received
    net                 \* the messages on their way, one per recipient

vars == <<edge, started, exited, keyLeft, keyRight, view, fetching, handing, requester,
          mainSessionKey, net>>
-----------------------------------------------------------------------------
RightClusterID(c) == (c + 1) % NClusters
LeftClusterID(c)  == (c + NClusters - 1) % NClusters

\* The left mode is taken from the leader's own right edge.
LeftMode_OwnEdge(c) == edge[c]

\* The configurations match up: the left mode of a leader is the right mode of
\* its left neighbour.
RightMode(c) == edge[c]
LeftMode(c)  == edge[LeftClusterID(c)]

AkeOneMsg(c) == [type |-> "LeadAkeOne", from |-> c, to |-> RightClusterID(c)]

AkeTwoMsg(c, to) == [type |-> "LeadAkeTwo", from |-> c, to |-> to]

QKDIDMsg(c) == [type |-> "QKDIDLeader", from |-> c, to |-> RightClusterID(c), id |-> c]

\* The router sends a broadcast to its sender too.
XiRiCommitmentMsgs_Echo(c, entry) ==
    {[type |-> "LeaderXiRiCommitment", from |-> c, to |-> d, entry |-> entry] :
        d \in Leaders}

XiRiCommitmentMsgs(c, entry) ==
    {[type |-> "LeaderXiRiCommitment", from |-> c, to |-> d, entry |-> entry] :
        d \in Leaders \ {c}}

BlankEntry == [x |-> Zero, r |-> NoKey, commitment |-> NoKey, pid |-> NoKey]

\* sha256 of Xi and Ri: equal hashes come from equal arguments only.
Sum256(x, r) == [x |-> x, r |-> r]

\* getXiRiCommitmentMsg
XiEntry(c, right, left, r) ==
    LET x == XorKeys(right, left)
    IN  [x |-> x, r |-> r, commitment |-> Sum256(x, r), pid |-> c]

Xs(v) == [i \in Leaders |-> v[i].x]

\* An Xi counts as received when its sender's name is there.
ReceivedAllXs_ByName(v) == \A i \in Leaders : v[i].pid # NoKey

ReceivedAllXs(v) == \A i \in Leaders : v[i].x # Zero

checkCommitments(v) == \A i \in Leaders : v[i].commitment = Sum256(v[i].x, v[i].r)

ChecksPass(v) == CheckXs(Xs(v), NClusters) /\ checkCommitments(v)

\* The hash is over the first NClusters - 1 left keys and as many names.
computeSharedSecret(leftKeys, pids) ==
    [leftKeys |-> [i \in 0 .. NClusters-2 |-> leftKeys[i]],
     pids     |-> [i \in 0 .. NClusters-2 |-> pids[i]]]

SharedSecret(c, left, v) ==
    computeSharedSecret(ComputeAllLeftKeys(NClusters, c, left, Xs(v)),
                        [i \in Leaders |-> v[i].pid])

(***************************************************************************)
(* tryFinalizeProtocol at c, whose arrays are now v and whose left key is  *)
(* left.  The handler has already sent `before' and sends `after' once     *)
(* this returns.                                                           *)
(***************************************************************************)
tryFinalizeProtocol(c, left, v, before, after) ==
    /\ view' = [view EXCEPT ![c] = v]
    /\ \/ /\ ~ReceivedAllXs(v)
          /\ net' = before \union after
          /\ UNCHANGED <<exited, handing>>
       \/ /\ ReceivedAllXs(v) /\ ~ChecksPass(v)
          /\ exited' = exited \union {c}
          /\ net' = before
          /\ UNCHANGED handing
       \/ /\ ReceivedAllXs(v) /\ ChecksPass(v)
          /\ handing' = [handing EXCEPT
                ![c] = [key |-> SharedSecret(c, left, v), unsent |-> after]]
          /\ net' = before
          /\ UNCHANGED exited

\* Both neighbour keys are there: c makes its Xi, tries to finalize, and only
\* then does the caller send the Xi.
checkLeftRightKeys(c, left, right, before) ==
    \/ /\ left = Zero \/ right = Zero
       /\ net' = before
       /\ UNCHANGED <<exited, view, handing>>
    \/ /\ left # Zero /\ right # Zero
       /\ \E r \in Coins :
            LET entry == XiEntry(c, right, left, r)
            IN  tryFinalizeProtocol(c, left, [view[c] EXCEPT ![c] = entry],
                                    before, XiRiCommitmentMsgs(c, entry))
-----------------------------------------------------------------------------
Init ==
    /\ edge \in [Leaders -> EdgeModes]
    /\ started = {}
    /\ exited = {}
    /\ keyLeft = [c \in Leaders |-> Zero]
    /\ keyRight = [c \in Leaders |-> Zero]
    /\ view = [c \in Leaders |-> [i \in Leaders |-> BlankEntry]]
    /\ fetching = [c \in Leaders |-> NoKey]
    /\ handing = [c \in Leaders |-> NoKey]
    /\ requester = [c \in Leaders |-> "none"]
    /\ mainSessionKey = [c \in Leaders |-> NoKey]
    /\ net = {}

PathKey(mode, c) == IF mode = "path" THEN {Share[c]} ELSE Zero

\* main and Session.Init: keys from files are there at once, and may be all it
\* takes; a 2-AKE is begun; the goroutine for a key from an ETSI server starts.
Start(c) ==
    LET right == PathKey(RightMode(c), c)
        left  == PathKey(LeftMode(c), LeftClusterID(c))
    IN
    /\ c \notin started
    /\ started' = started \union {c}
    /\ keyRight' = [keyRight EXCEPT ![c] = right]
    /\ keyLeft' = [keyLeft EXCEPT ![c] = left]
    /\ requester' = [requester EXCEPT ![c] = IF RightMode(c) = "url" THEN "asking" ELSE "none"]
    /\ checkLeftRightKeys(c, left, right,
            IF RightMode(c) = "kem" THEN net \union {AkeOneMsg(c)} ELSE net)
    /\ UNCHANGED <<edge, fetching, mainSessionKey>>

Running(c) == c \in started \ exited

\* The handler loop is in none of its waits.
Ready(c) == Running(c) /\ fetching[c] = NoKey /\ handing[c] = NoKey

NewLeftKey(c, left, before) ==
    /\ keyLeft' = [keyLeft EXCEPT ![c] = left]
    /\ checkLeftRightKeys(c, left, keyRight[c], before)
    /\ UNCHANGED keyRight

NewRightKey(c, right, before) ==
    /\ keyRight' = [keyRight EXCEPT ![c] = right]
    /\ checkLeftRightKeys(c, keyLeft[c], right, before)
    /\ UNCHANGED keyLeft

\* What the ETSI server has answered is not base64 or too short: it is logged,
\* and that is all.
DropKey == UNCHANGED <<exited, keyLeft, keyRight, view, handing, net>>

onAkeOne(c, m) ==
    /\ m.type = "LeadAkeOne"
    /\ NewLeftKey(c, {Share[m.from]}, (net \ {m}) \union {AkeTwoMsg(c, m.from)})
    /\ UNCHANGED <<edge, started, fetching, requester, mainSessionKey>>

onAkeTwo(c, m) ==
    /\ m.type = "LeadAkeTwo"
    /\ NewRightKey(c, {Share[c]}, net \ {m})
    /\ UNCHANGED <<edge, started, fetching, requester, mainSessionKey>>

onXiRiCommitment(c, m) ==
    /\ m.type = "LeaderXiRiCommitment"
    /\ tryFinalizeProtocol(c, keyLeft[c], [view[c] EXCEPT ![m.from] = m.entry],
                           net \ {m}, {})
    /\ UNCHANGED <<edge, started, keyLeft, keyRight, fetching, requester, mainSessionKey>>

\* onQKDID up to its request to the ETSI server, which is repeated until it
\* is answered, and from there on: onLeftKey with the key of that ID.
onQKDID(c, m) ==
    /\ m.type = "QKDIDLeader"
    /\ fetching' = [fetching EXCEPT ![c] = m.id]
    /\ net' = net \ {m}
    /\ UNCHANGED <<edge, started, exited, keyLeft, keyRight, view, handing, requester, mainSessionKey>>

onLeftKey(c) ==
    /\ Running(c)
    /\ fetching[c] # NoKey
    /\ fetching' = [fetching EXCEPT ![c] = NoKey]
    /\ NewLeftKey(c, {Share[fetching[c]]}, net) \/ DropKey
    /\ UNCHANGED <<edge, started, requester, mainSessionKey>>

\* The goroutine of main: RequestKey until it succeeds, the key to the handler,
\* and only then its ID to the right neighbour (whether the handler has used the
\* key by then or dropped it).
RequestKey(c) ==
    /\ Running(c)
    /\ requester[c] = "asking"
    /\ requester' = [requester EXCEPT ![c] = "offering"]
    /\ UNCHANGED <<edge, started, exited, keyLeft, keyRight, view, fetching, handing, mainSessionKey, net>>

onRightKey(c) ==
    /\ Ready(c)
    /\ requester[c] = "offering"
    /\ requester' = [requester EXCEPT ![c] = "sending"]
    /\ NewRightKey(c, {Share[c]}, net) \/ DropKey
    /\ UNCHANGED <<edge, started, fetching, mainSessionKey>>

SendQKDID(c) ==
    /\ Running(c)
    /\ requester[c] = "sending"
    /\ requester' = [requester EXCEPT ![c] = "done"]
    /\ net' = net \union {QKDIDMsg(c)}
    /\ UNCHANGED <<edge, started, exited, keyLeft, keyRight, view, fetching, handing, mainSessionKey>>

\* The cluster session takes the MainSessionKeyMsg, and the handler that was
\* waiting sends what it had left.
HandOver(c) ==
    /\ Running(c)
    /\ handing[c] # NoKey
    /\ mainSessionKey' = [mainSessionKey EXCEPT ![c] = handing[c].key]
    /\ net' = net \union handing[c].unsent
    /\ handing' = [handing EXCEPT ![c] = NoKey]
    /\ UNCHANGED <<edge, started, exited, keyLeft, keyRight, view, fetching, requester>>

handleMessage(c, m) ==
    /\ Ready(c)
    /\ m.to = c
    /\ \/ onAkeOne(c, m)
       \/ onAkeTwo(c, m)
       \/ onXiRiCommitment(c, m)
       \/ onQKDID(c, m)

Goroutine(c) == RequestKey(c) \/ SendQKDID(c)

Established == \A c \in Leaders : mainSessionKey[c] # NoKey

\* The two ends of an edge with an ETSI server have had the server's answer, and
\* c has no key from it.
DroppedRight(c) == requester[c] \in {"sending", "done"} /\ keyRight[c] = Zero

DroppedLeft(c) ==
    LET left == LeftClusterID(c)
    IN  /\ requester[left] = "done"
        /\ QKDIDMsg(left) \notin net
        /\ fetching[c] = NoKey
        /\ keyLeft[c] = Zero

Dropped == \E c \in Leaders : DroppedRight(c) \/ DroppedLeft(c)

\* Nothing is left to do: the handlers wait for messages.
Idle ==
    /\ Established \/ Dropped
    /\ net = {}
    /\ \A c \in Leaders : handing[c] = NoKey /\ fetching[c] = NoKey
    /\ UNCHANGED vars

Next ==
    \/ \E c \in Leaders : Start(c)
    \/ \E c \in Leaders : \E m \in net : handleMessage(c, m)
    \/ \E c \in Leaders : onRightKey(c)
    \/ \E c \in Leaders : onLeftKey(c)
    \/ \E c \in Leaders : Goroutine(c)
    \/ \E c \in Leaders : HandOver(c)
    \/ Idle

Spec == Init /\ [][Next]_vars

(***************************************************************************)
(* Fairness: the leaders are started, the router delivers, the handler     *)
(* loop and the goroutine run, the ETSI server answers in the end, and the *)
(* cluster session comes back to its channel.                              *)
(***************************************************************************)
Fairness ==
    \A c \in Leaders :
        /\ WF_vars(Start(c))
        /\ WF_vars(\E m \in net : handleMessage(c, m))
        /\ WF_vars(onRightKey(c))
        /\ WF_vars(onLeftKey(c))
        /\ WF_vars(Goroutine(c))
        /\ WF_vars(HandOver(c))

FairSpec == Spec /\ Fairness
-----------------------------------------------------------------------------
\* Every field holds a value of its Go type.
TypeOK ==
    /\ edge \in [Leaders -> EdgeModes]
    /\ started \subseteq Leaders
    /\ exited \subseteq started
    /\ keyLeft \in [Leaders -> Keys]
    /\ keyRight \in [Leaders -> Keys]
    /\ view \in [Leaders -> [Leaders -> Entries \union {BlankEntry}]]
    /\ fetching \in [Leaders -> Leaders \union {NoKey}]
    /\ handing \in [Leaders -> Handovers \union {NoKey}]
    /\ requester \in [Leaders -> {"none", "asking", "offering", "sending", "done"}]
    /\ mainSessionKey \in [Leaders -> SessionKeys \union {NoKey}]
    /\ net \subseteq Messages

\* The secrets of the edges 0..n-2 into leader i, and the names 0..n-2.
RingKey == [leftKeys |-> [i \in 0 .. NClusters-2 |-> {Share[LeftClusterID(i)]}],
            pids     |-> [i \in 0 .. NClusters-2 |-> i]]

\* Whatever the mixture of KEM, file and ETSI edges and whatever the order of
\* messages and answers, every cluster session gets the same main session key,
\* made of the secrets of the ring (leader_protocol.tryFinalizeProtocol).
MainKeyAgreement == \A c \in Leaders : mainSessionKey[c] \in {NoKey, RingKey}

\* No order of messages and answers makes a check of tryFinalizeProtocol fail.
NoAbort == exited = {}

\* The leader session hands over one key only: the handler that waits for the
\* cluster session cannot come to wait a second time.
HandedOverOnce == [][\A c \in Leaders : mainSessionKey[c] # NoKey => handing'[c] = NoKey]_vars

\* Every cluster session gets the main session key in the end, unless an answer
\* of an ETSI server is no key (onLeftKey, onRightKey): that leader does not ask
\* again.
EventuallyEstablished == <>[]Established \/ <>Dropped

\* With two equal neighbouring secrets (the same key file on both sides of a
\* leader) its Xi is zero, which counts as not received: nobody finalizes.
EqualNeighboursStall ==
    (\E c \in Leaders : Share[c] = Share[LeftClusterID(c)]) =>
        \A c \in Leaders : mainSessionKey[c] = NoKey /\ c \notin exited
-----------------------------------------------------------------------------
(***************************************************************************)
(* The inductive invariant of LeaderProtocol, in two parts: what is in the *)
(* arrays and in the Xi messages, and how far the way to each neighbour    *)
(* key has come, so that each key is obtained once.                        *)
(***************************************************************************)
\* The key that leader c and its right neighbour share.
EdgeKey(c) == {Share[c]}

HasJoined(c) == keyLeft[c] # Zero /\ keyRight[c] # Zero

\* The entry that i makes out of the keys of its two edges.
Genuine(i, entry) ==
    /\ entry \in Entries
    /\ entry.x = XorKeys(EdgeKey(i), EdgeKey(LeftClusterID(i)))
    /\ entry.commitment = Sum256(entry.x, entry.r)
    /\ entry.pid = i

\* A message with the one Xi that c makes, which its recipient does not have yet.
XiPending(c, m) ==
    /\ m.type = "LeaderXiRiCommitment"
    /\ m.from = c /\ m.to # c
    /\ HasJoined(c) /\ m.entry = view[c][c]
    /\ view[m.to][c] = BlankEntry

Finished(c) == handing[c] # NoKey \/ mainSessionKey[c] # NoKey

ViewInvariant ==
    /\ exited = {}
    /\ \A c \in Leaders :
        /\ keyLeft[c] \in {Zero, EdgeKey(LeftClusterID(c))}
        /\ keyRight[c] \in {Zero, EdgeKey(c)}
        /\ \A i \in Leaders :
            view[c][i] # BlankEntry => Genuine(i, view[c][i]) /\ HasJoined(i)
        /\ HasJoined(c) => view[c][c] # BlankEntry
        /\ Finished(c) => ReceivedAllXs(view[c])
        /\ mainSessionKey[c] \in {NoKey, RingKey}
        /\ handing[c] # NoKey =>
            /\ handing[c].key = RingKey
            /\ mainSessionKey[c] = NoKey
            /\ \A m \in handing[c].unsent : XiPending(c, m)
            /\ handing[c].unsent \intersect net = {}
    /\ \A m \in net : m.type = "LeaderXiRiCommitment" => XiPending(m.from, m)

\* What a message of the 2-AKE or with a key ID says about its two ends.
EdgeMessage(m) ==
    /\ m.type = "LeadAkeOne" =>
        /\ m.to = RightClusterID(m.from) /\ edge[m.from] = "kem" /\ m.from \in started
        /\ keyRight[m.from] = Zero /\ keyLeft[m.to] = Zero
    /\ m.type = "LeadAkeTwo" =>
        /\ m.from = RightClusterID(m.to) /\ edge[m.to] = "kem" /\ m.to \in started
        /\ keyRight[m.to] = Zero /\ keyLeft[m.from] # Zero
    /\ m.type = "QKDIDLeader" =>
        /\ m.to = RightClusterID(m.from) /\ m.id = m.from /\ edge[m.from] = "url"
        /\ requester[m.from] = "done"
        /\ keyLeft[m.to] = Zero /\ fetching[m.to] = NoKey

\* How far the way to the keys of c's edges has come.
EdgeLeader(c) ==
    /\ c \notin started =>
        /\ keyLeft[c] = Zero /\ keyRight[c] = Zero
        /\ requester[c] = "none"
        /\ edge[c] = "kem" => keyLeft[RightClusterID(c)] = Zero
    /\ requester[c] # "none" => edge[c] = "url"
    /\ requester[c] \in {"asking", "offering"} => keyRight[c] = Zero
    /\ edge[c] = "url" /\ requester[c] # "done" =>
        keyLeft[RightClusterID(c)] = Zero /\ fetching[RightClusterID(c)] = NoKey
    /\ fetching[c] # NoKey =>
        /\ fetching[c] = LeftClusterID(c) /\ edge[LeftClusterID(c)] = "url"
        /\ keyLeft[c] = Zero

EdgeInvariant ==
    /\ \A c \in Leaders : EdgeLeader(c)
    /\ \A m \in net : EdgeMessage(m)

\* All orders of messages and answers leave this true, whatever the mixture of
\* edges; MainKeyAgreement and NoAbort follow from it.
IndInv == TypeOK /\ ViewInvariant /\ EdgeInvariant
=============================================================================
