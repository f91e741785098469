----------------------------- MODULE LeaderProcess -----------------------------
(***************************************************************************)
(* The process of one cluster leader (leader.go): the listener, the        *)
(* goroutine of demuxMessages, the handlers of the two sessions, the       *)
(* goroutines that get QKD keys, and main, which runs Init of both         *)
(* sessions before it starts their handlers.  All channels are unbuffered: *)
(* a send waits for its receiver, so a message changes hands in a step of  *)
(* both.  Of the sessions only what decides about waiting is kept: which   *)
(* keys and Xs are there, and what a handler does when it finalizes.       *)
(***************************************************************************)
EXTENDS Integers

CONSTANTS
    NClusters,      \* nClusters
    Me,             \* clusterID
    Modes,          \* left and right: "kem", "path", "url"
    ClusterModes,   \* the cluster: "none", "kem", "path", "url"
    MaxIn,          \* bound: messages that come in
    None            \* no message

Leaders == 0 .. NClusters-1

ASSUME NClustersAssumption == NClusters \in Nat \ {0} /\ Me \in Leaders
ASSUME ModesAssumption == Modes \subseteq {"kem", "path", "url"}

LeaderMsgs  == [type : {"LeadAkeOne", "LeadAkeTwo", "QKDIDLeader"}]
               \union [type : {"LeaderXiRiCommitment"}, of : Leaders \ {Me}]
\* LastXi: the message that lets the cluster protocol finish.
ClusterMsgs == [type : {"LastXi", "Text"}]
Messages    == LeaderMsgs \union ClusterMsgs

VARIABLES
    left, right, cluster,   \* the configuration
    equalKeys,              \* ... whether both neighbours share one key with this leader
    main,                   \* where main is
    read, listener,         \* how many messages were read, and the one not handed on yet
    demux,                  \* the message demuxMessages wants to hand on
    leaderLoop,             \* the leader session's handler: "off", "idle", "fetching", "handing"
    haveLeft, haveRight,    \* keyLeft and keyRight are set
    xs,                     \* the slots of xs that are not zero
    unsent, sentXi,         \* an own Xi that waits behind the hand-over, and whether one was sent
    clusterLoop,            \* the cluster session's handler: "off", "idle"
    mainKeys, clusterKeys,  \* how many main and cluster session keys it has got
    announced,              \* those two in the last KeyMsg
    rightGetter, clusterGetter, \* the goroutines for QKD keys
    exited

config   == <<left, right, cluster, equalKeys>>
incoming == <<read, listener, demux>>
leader   == <<leaderLoop, haveLeft, haveRight, xs, unsent, sentXi>>
session  == <<clusterLoop, mainKeys, clusterKeys, announced>>
getters  == <<rightGetter, clusterGetter>>
vars     == <<config, main, incoming, leader, session, getters, exited>>

IsClusterType(m) == m \in ClusterMsgs

HasCluster == cluster # "none"

\* An all-zero Xi counts as not received.
XiIsZero == equalKeys

\* Slots beyond the two neighbours are not looked at.
ReceivedAllXs_OwnOnly(slots) == Me \in slots

ReceivedAllXs(slots) == slots = Leaders

\* The XOR of all Xs: of a single one it is that one.  Of more it may be anything, as
\* some may come from a run before a restart.
CheckXsOutcomes == IF NClusters = 1 THEN {XiIsZero} ELSE BOOLEAN

(***************************************************************************)
(* tryFinalizeProtocol and what its caller does then: go on, wait for the  *)
(* cluster session, or end the program.  loop is the handler it runs in,   *)
(* own whether the caller has an Xi to send afterwards.                    *)
(***************************************************************************)
tryFinalizeProtocol(slots, own, waiting, going) ==
    /\ xs' = slots
    /\ \/ /\ ~ReceivedAllXs(slots)
          /\ sentXi' = (sentXi \/ own)
          /\ going
          /\ UNCHANGED <<unsent, exited>>
       \/ /\ ReceivedAllXs(slots) /\ TRUE \in CheckXsOutcomes
          /\ unsent' = own
          /\ waiting
          /\ UNCHANGED <<sentXi, exited>>
       \/ /\ ReceivedAllXs(slots) /\ FALSE \in CheckXsOutcomes
          /\ exited' = TRUE
          /\ UNCHANGED <<sentXi, unsent, leaderLoop, main>>

checkLeftRightKeys(l, r, waiting, going) ==
    /\ haveLeft' = l /\ haveRight' = r
    /\ IF l /\ r
       THEN tryFinalizeProtocol(IF XiIsZero THEN xs \ {Me} ELSE xs \union {Me}, TRUE, waiting, going)
       ELSE going /\ UNCHANGED <<xs, unsent, sentXi, exited>>
-----------------------------------------------------------------------------
Init ==
    /\ left \in Modes /\ right \in Modes /\ cluster \in ClusterModes
    /\ equalKeys \in BOOLEAN /\ (NClusters = 1 /\ left = "kem" /\ right = "kem" => equalKeys)
    /\ main = "leaderInit"
    /\ read = 0 /\ listener = None /\ demux = None
    /\ leaderLoop = "off" /\ haveLeft = FALSE /\ haveRight = FALSE
    /\ xs = {} /\ unsent = FALSE /\ sentXi = FALSE
    /\ clusterLoop = "off" /\ mainKeys = 0 /\ clusterKeys = 0 /\ announced = <<0, 0>>
    /\ rightGetter = "none" /\ clusterGetter = "none"
    /\ exited = FALSE

\* leaderSession.Init() on the goroutine of main.
LeaderInit ==
    /\ main = "leaderInit"
    /\ checkLeftRightKeys(left = "path", right = "path",
           main' = "handing" /\ UNCHANGED leaderLoop,
           main' = "clusterInit" /\ UNCHANGED leaderLoop)
    /\ UNCHANGED <<config, incoming, session, getters>>

\* The cluster session's handler is started for leaders with a cluster only.
ClusterInit_NoHandler ==
    /\ main = "clusterInit"
    /\ main' = "ui"
    /\ clusterKeys' = IF cluster = "path" THEN 1 ELSE 0
    /\ leaderLoop' = "idle"
    /\ clusterLoop' = IF HasCluster THEN "idle" ELSE "off"
    /\ clusterGetter' = IF cluster = "url" THEN "asking" ELSE "none"
    /\ rightGetter' = IF right = "url" THEN "asking" ELSE "none"
    /\ UNCHANGED <<config, incoming, haveLeft, haveRight, xs, unsent, sentXi, mainKeys, announced, exited>>

\* clusterSession.Init(), the two handlers, the goroutines for keys, and the terminal.
ClusterInit ==
    /\ main = "clusterInit"
    /\ main' = "ui"
    /\ clusterKeys' = IF cluster = "path" THEN 1 ELSE 0
    /\ leaderLoop' = "idle"
    /\ clusterLoop' = "idle"
    /\ clusterGetter' = IF cluster = "url" THEN "asking" ELSE "none"
    /\ rightGetter' = IF right = "url" THEN "asking" ELSE "none"
    /\ UNCHANGED <<config, incoming, haveLeft, haveRight, xs, unsent, sentXi, mainKeys, announced, exited>>

\* What others send to a leader of this configuration, now or before its restart.
Possible(m) ==
    CASE m.type = "LeadAkeOne"  -> left = "kem"
      [] m.type = "LeadAkeTwo"  -> right = "kem" /\ main # "leaderInit"
      [] m.type = "QKDIDLeader" -> left = "url"
      [] m.type = "LastXi"      -> cluster = "kem"
      [] OTHER -> TRUE

Listen ==
    /\ listener = None /\ read < MaxIn
    /\ \E m \in Messages : Possible(m) /\ listener' = m /\ read' = read + 1
    /\ UNCHANGED <<config, main, demux, leader, session, getters, exited>>

ToDemux ==
    /\ listener # None /\ demux = None
    /\ demux' = listener /\ listener' = None
    /\ UNCHANGED <<config, main, read, leader, session, getters, exited>>

Handing == leaderLoop' = "handing" /\ UNCHANGED main
Going   == leaderLoop' = "idle" /\ UNCHANGED main

\* A message for the leader session goes from demuxMessages to its handler.
HandleLeader ==
    /\ demux # None /\ ~IsClusterType(demux) /\ leaderLoop = "idle"
    /\ demux' = None
    /\ \/ /\ demux.type = "LeadAkeOne"
          /\ checkLeftRightKeys(TRUE, haveRight, Handing, Going)
       \/ /\ demux.type = "LeadAkeTwo"
          /\ checkLeftRightKeys(haveLeft, TRUE, Handing, Going)
       \/ /\ demux.type = "LeaderXiRiCommitment"
          /\ tryFinalizeProtocol(xs \union {demux.of}, FALSE, Handing, Going)
          /\ UNCHANGED <<haveLeft, haveRight>>
       \/ /\ demux.type = "QKDIDLeader"
          /\ leaderLoop' = "fetching"
          /\ UNCHANGED <<main, haveLeft, haveRight, xs, unsent, sentXi, exited>>
    /\ UNCHANGED <<config, read, listener, session, getters>>

\* The ETSI server answers onQKDID.
LeftKeyFetched ==
    /\ leaderLoop = "fetching"
    /\ checkLeftRightKeys(TRUE, haveRight, Handing, Going)
    /\ UNCHANGED <<config, incoming, session, getters>>

\* RequestKey of the goroutine for the right key is answered.
RightKeyFetched ==
    /\ rightGetter = "asking"
    /\ rightGetter' = "offering"
    /\ UNCHANGED <<config, main, incoming, leader, session, clusterGetter, exited>>

OfferRightKey ==
    /\ rightGetter = "offering" /\ leaderLoop = "idle"
    /\ rightGetter' = "done"
    /\ checkLeftRightKeys(haveLeft, TRUE, Handing, Going)
    /\ UNCHANGED <<config, incoming, session, clusterGetter>>

\* Only the first main session key is announced.
transportMainSessionKey_Once(m, c) ==
    announced' = IF HasCluster /\ m > 0 /\ c > 0 /\ announced = <<0, 0>> THEN <<m, c>> ELSE announced

\* transportMainSessionKey of a leader: a KeyMsg as soon as both keys are there.
transportMainSessionKey(m, c) ==
    announced' = IF HasCluster /\ m > 0 /\ c > 0 THEN <<m, c>> ELSE announced

onMainSessionKey ==
    /\ mainKeys' = mainKeys + 1
    /\ transportMainSessionKey(mainKeys + 1, clusterKeys)
    /\ UNCHANGED <<clusterLoop, clusterKeys>>

NewClusterKey ==
    /\ clusterKeys' = clusterKeys + 1
    /\ transportMainSessionKey(mainKeys, clusterKeys + 1)
    /\ UNCHANGED <<clusterLoop, mainKeys>>

\* The cluster session takes the key; the handler that waited goes on with its Xi.
HandOver ==
    /\ leaderLoop = "handing" \/ main = "handing"
    /\ clusterLoop = "idle"
    /\ onMainSessionKey
    /\ sentXi' = (sentXi \/ unsent) /\ unsent' = FALSE
    /\ leaderLoop' = IF leaderLoop = "handing" THEN "idle" ELSE leaderLoop
    /\ main' = IF leaderLoop # "handing" THEN "clusterInit" ELSE main
    /\ UNCHANGED <<config, incoming, haveLeft, haveRight, xs, getters, exited>>

\* A message for the cluster session goes from demuxMessages to its handler.
HandleCluster ==
    /\ demux # None /\ IsClusterType(demux) /\ clusterLoop = "idle"
    /\ demux' = None
    /\ IF demux.type = "LastXi" THEN NewClusterKey ELSE UNCHANGED session
    /\ UNCHANGED <<config, main, read, listener, leader, getters, exited>>

ClusterKeyFetched ==
    /\ clusterGetter = "asking"
    /\ clusterGetter' = "offering"
    /\ UNCHANGED <<config, main, incoming, leader, session, rightGetter, exited>>

OfferClusterKey ==
    /\ clusterGetter = "offering" /\ clusterLoop = "idle"
    /\ clusterGetter' = "done"
    /\ NewClusterKey
    /\ UNCHANGED <<config, main, incoming, leader, rightGetter, exited>>

\* What the process does by itself, and what it waits for the ETSI servers to do.
Internal == LeaderInit \/ ClusterInit \/ ToDemux \/ HandleLeader \/ OfferRightKey
            \/ HandOver \/ HandleCluster \/ OfferClusterKey

Answers == LeftKeyFetched \/ RightKeyFetched \/ ClusterKeyFetched

Next == ~exited /\ (Internal \/ Answers \/ Listen)

Spec == Init /\ [][Next]_vars

\* Every goroutine runs on, and the ETSI servers answer in the end.
Fairness ==
    /\ WF_vars(~exited /\ (LeaderInit \/ ClusterInit)) /\ WF_vars(~exited /\ ToDemux)
    /\ WF_vars(~exited /\ HandleLeader) /\ WF_vars(~exited /\ HandOver)
    /\ WF_vars(~exited /\ HandleCluster)
    /\ WF_vars(~exited /\ OfferRightKey) /\ WF_vars(~exited /\ OfferClusterKey)
    /\ WF_vars(~exited /\ LeftKeyFetched) /\ WF_vars(~exited /\ RightKeyFetched)
    /\ WF_vars(~exited /\ ClusterKeyFetched)

FairSpec == Spec /\ Fairness
-----------------------------------------------------------------------------
\* Init of the leader session runs on main's goroutine, before anyone takes from the
\* cluster session's channel: it never gets to the point of handing over a key, with
\* key files on both sides, with one cluster, whatever has come in by then
\* (leader.go, the order of Init and MessageHandler).
InitNeverWaits == main # "handing"

\* Nobody waits in a circle: when the process can do nothing by itself, it has handled
\* all that came in and handed over all keys, or the leader's handler is waiting for
\* the ETSI server and what stands behind it waits with it.
StuckOnlyOnEtsi ==
    exited \/ ENABLED Internal
    \/ leaderLoop = "fetching"
    \/ /\ listener = None /\ demux = None /\ leaderLoop = "idle" /\ main = "ui"
       /\ rightGetter # "offering" /\ clusterGetter # "offering"

\* The last KeyMsg sent to the cluster has the newest main session key, under the newest
\* cluster session key, whichever of the two goroutines brought which first.
NewestAnnounced ==
    HasCluster /\ mainKeys > 0 /\ clusterKeys > 0 => announced = <<mainKeys, clusterKeys>>

\* An Xi that waits behind the hand-over is sent, and every message is handled.
NothingStays ==
    /\ unsent ~> (~unsent \/ exited)
    /\ (listener # None \/ demux # None) ~> (exited \/ (listener = None /\ demux = None))
=============================================================================
