-------------------------- MODULE LeaderProcessProofs --------------------------
(***************************************************************************)
(* For any number of clusters and any messages: main never waits for a     *)
(* handler that it has not started yet, and the last KeyMsg carries the    *)
(* newest keys.  Both rest on what is true while main is in its two Init   *)
(* calls: no handler runs, so no key has been handed over.                 *)
(***************************************************************************)
EXTENDS LeaderProcess, TLAPS

\* Before the handlers are started no main session key has been handed over.
BeforeHandlers ==
    main # "ui" =>
        /\ leaderLoop = "off" /\ clusterLoop = "off"
        /\ mainKeys = 0

\* The leader session starts without Xs.
NoXsAtFirst == main = "leaderInit" /\ ~exited => xs = {}

ProofTypes ==
    /\ mainKeys \in Nat /\ clusterKeys \in Nat
    /\ equalKeys \in BOOLEAN

IndInv == ProofTypes /\ BeforeHandlers /\ NoXsAtFirst /\ InitNeverWaits /\ NewestAnnounced
-----------------------------------------------------------------------------
LEMMA InitEstablishes == Init => IndInv
  BY DEF Init, IndInv, ProofTypes, BeforeHandlers, NoXsAtFirst, InitNeverWaits, NewestAnnounced

\* The own Xi alone finalizes nothing: other leaders' slots are empty, and the only
\* leader has either a zero Xi, which fills no slot, or one that fails checkXs.
LEMMA OwnXiNeverWaits ==
    ASSUME equalKeys \in BOOLEAN,
           NEW slots, slots = IF XiIsZero THEN {} ELSE {Me},
           ReceivedAllXs(slots)
    PROVE  TRUE \notin CheckXsOutcomes
<1>1. CASE NClusters = 1
  <2>1. Leaders = {0} /\ Me = 0
    BY <1>1, NClustersAssumption DEF Leaders
  <2>2. equalKeys = FALSE
    BY <2>1 DEF ReceivedAllXs, XiIsZero
  <2>. QED BY <1>1, <2>2 DEF CheckXsOutcomes, XiIsZero
<1>2. CASE NClusters # 1
  <2>1. 0 \in Leaders /\ 1 \in Leaders
    BY <1>2, NClustersAssumption DEF Leaders
  <2>. QED BY <2>1 DEF ReceivedAllXs
<1>. QED BY <1>1, <1>2

\* Init of the leader session leaves main in clusterInit or ends the program.
LEMMA LeaderInitStep ==
    ASSUME IndInv, ~exited, LeaderInit
    PROVE  IndInv'
<1>1. /\ xs = {} /\ main = "leaderInit" /\ equalKeys \in BOOLEAN
      /\ UNCHANGED <<config, session>>
  BY DEF IndInv, NoXsAtFirst, LeaderInit, ProofTypes
<1>2. /\ leaderLoop' = leaderLoop
      /\ main' = "clusterInit" \/ (main' = main /\ exited' = TRUE)
  <2>1. CASE left = "path" /\ right = "path"
    <3> DEFINE slots == IF XiIsZero THEN {} ELSE {Me}
    <3>1. (IF XiIsZero THEN xs \ {Me} ELSE xs \union {Me}) = slots
      BY <1>1
    <3>2. tryFinalizeProtocol(slots, TRUE, main' = "handing" /\ UNCHANGED leaderLoop,
                                           main' = "clusterInit" /\ UNCHANGED leaderLoop)
      BY <2>1, <3>1 DEF LeaderInit, checkLeftRightKeys
    <3> HIDE DEF slots
    <3>3. CASE ~ReceivedAllXs(slots)
      BY <3>2, <3>3 DEF tryFinalizeProtocol
    <3>4. CASE ReceivedAllXs(slots)
      <4>1. TRUE \notin CheckXsOutcomes
        BY <1>1, <3>4, OwnXiNeverWaits DEF slots
      <4>. QED BY <1>1, <3>2, <3>4, <4>1 DEF tryFinalizeProtocol
    <3>. QED BY <3>3, <3>4
  <2>2. CASE ~(left = "path" /\ right = "path")
    BY <2>2 DEF LeaderInit, checkLeftRightKeys
  <2>. QED BY <2>1, <2>2
<1>. QED
  BY <1>1, <1>2 DEF IndInv, ProofTypes, BeforeHandlers, NoXsAtFirst, InitNeverWaits,
                    NewestAnnounced, HasCluster, config, session

LEMMA ClusterInitStep ==
    ASSUME IndInv, ClusterInit
    PROVE  IndInv'
  BY DEF IndInv, ProofTypes, BeforeHandlers, NoXsAtFirst, InitNeverWaits, NewestAnnounced,
         HasCluster, ClusterInit, config

\* The leader session's handler in the middle of finalizing, with main in its terminal.
HandlerStays ==
    /\ main = "ui" /\ main' = "ui"
    /\ UNCHANGED <<config, session>>

LEMMA HandlerKeepsInvariant ==
    ASSUME IndInv, HandlerStays
    PROVE  IndInv'
  BY DEF IndInv, HandlerStays, ProofTypes, BeforeHandlers, NoXsAtFirst, InitNeverWaits,
         NewestAnnounced, HasCluster, config, session

\* Whatever a handler finds out about its keys, main stays where it is.
LEMMA CheckStays ==
    ASSUME NEW l, NEW r, checkLeftRightKeys(l, r, Handing, Going)
    PROVE  UNCHANGED main
  BY DEF checkLeftRightKeys, tryFinalizeProtocol, Handing, Going

LEMMA LeaderHandlerStep ==
    ASSUME IndInv, HandleLeader \/ LeftKeyFetched \/ OfferRightKey
    PROVE  IndInv'
<1>1. main = "ui"
  BY DEF IndInv, BeforeHandlers, HandleLeader, LeftKeyFetched, OfferRightKey
<1>2. UNCHANGED <<config, session>>
  BY DEF HandleLeader, LeftKeyFetched, OfferRightKey, session
<1>3. CASE HandleLeader
  <2>1. CASE demux.type = "LeadAkeOne" /\ checkLeftRightKeys(TRUE, haveRight, Handing, Going)
    BY <2>1, CheckStays, <1>1, <1>2, HandlerKeepsInvariant DEF HandlerStays
  <2>2. CASE demux.type = "LeadAkeTwo" /\ checkLeftRightKeys(haveLeft, TRUE, Handing, Going)
    BY <2>2, CheckStays, <1>1, <1>2, HandlerKeepsInvariant DEF HandlerStays
  <2>3. CASE tryFinalizeProtocol(xs \union {demux.of}, FALSE, Handing, Going)
    <3>1. UNCHANGED main
      BY <2>3 DEF tryFinalizeProtocol, Handing, Going
    <3>. QED BY <3>1, <1>1, <1>2, HandlerKeepsInvariant DEF HandlerStays
  <2>4. CASE UNCHANGED main
    BY <2>4, <1>1, <1>2, HandlerKeepsInvariant DEF HandlerStays
  <2>. QED BY <1>3, <2>1, <2>2, <2>3, <2>4 DEF HandleLeader
<1>4. CASE LeftKeyFetched \/ OfferRightKey
  <2>1. UNCHANGED main
    BY <1>4, CheckStays DEF LeftKeyFetched, OfferRightKey
  <2>. QED BY <2>1, <1>1, <1>2, HandlerKeepsInvariant DEF HandlerStays
<1>. QED BY <1>3, <1>4

\* A new key of either kind is announced together with the newest of the other.
LEMMA HandOverStep ==
    ASSUME IndInv, HandOver
    PROVE  IndInv'
<1>1. main = "ui" /\ leaderLoop = "handing"
  BY DEF IndInv, BeforeHandlers, InitNeverWaits, HandOver
<1>. QED
  BY <1>1 DEF IndInv, ProofTypes, BeforeHandlers, NoXsAtFirst, InitNeverWaits, NewestAnnounced,
              HasCluster, HandOver, onMainSessionKey, transportMainSessionKey, config

LEMMA NewClusterKeyStep ==
    ASSUME IndInv, NewClusterKey, clusterLoop = "idle", UNCHANGED <<config, main>>
    PROVE  IndInv'
  BY DEF IndInv, ProofTypes, BeforeHandlers, NoXsAtFirst, InitNeverWaits, NewestAnnounced,
         HasCluster, NewClusterKey, transportMainSessionKey, config

LEMMA OtherStep ==
    ASSUME IndInv, UNCHANGED <<config, main, leader, session, exited>>
    PROVE  IndInv'
  BY DEF IndInv, ProofTypes, BeforeHandlers, NoXsAtFirst, InitNeverWaits, NewestAnnounced,
         HasCluster, config, leader, session

LEMMA NextKeepsInvariant == IndInv /\ [Next]_vars => IndInv'
<1>. SUFFICES ASSUME IndInv, [Next]_vars PROVE IndInv'
  OBVIOUS
<1>1. CASE ~exited /\ LeaderInit
  BY <1>1, LeaderInitStep
<1>2. CASE ClusterInit
  BY <1>2, ClusterInitStep
<1>3. CASE HandleLeader \/ LeftKeyFetched \/ OfferRightKey
  BY <1>3, LeaderHandlerStep
<1>4. CASE HandOver
  BY <1>4, HandOverStep
<1>5. CASE HandleCluster
  <2>1. clusterLoop = "idle" /\ UNCHANGED <<config, main, leader, exited>>
    BY <1>5 DEF HandleCluster
  <2>2. NewClusterKey \/ UNCHANGED session
    BY <1>5 DEF HandleCluster
  <2>. QED BY <2>1, <2>2, NewClusterKeyStep, OtherStep
<1>6. CASE OfferClusterKey
  BY <1>6, NewClusterKeyStep DEF OfferClusterKey
<1>7. CASE ToDemux \/ RightKeyFetched \/ ClusterKeyFetched \/ Listen \/ UNCHANGED vars
  BY <1>7, OtherStep DEF ToDemux, RightKeyFetched, ClusterKeyFetched, Listen, vars
<1>. QED
  BY <1>1, <1>2, <1>3, <1>4, <1>5, <1>6, <1>7 DEF Next, Internal, Answers
-----------------------------------------------------------------------------
\* Main never blocks on the channel to a cluster handler that only main can start.
THEOREM InitNeverWaitsHolds == Spec => []InitNeverWaits
<1>1. IndInv => InitNeverWaits
  BY DEF IndInv
<1>. QED BY <1>1, InitEstablishes, NextKeepsInvariant, PTL DEF Spec

\* The last KeyMsg has the newest keys of both sessions, whichever came first.
THEOREM NewestAnnouncedHolds == Spec => []NewestAnnounced
<1>1. IndInv => NewestAnnounced
  BY DEF IndInv
<1>. QED BY <1>1, InitEstablishes, NextKeepsInvariant, PTL DEF Spec
=============================================================================
