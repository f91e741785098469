---------------------------- MODULE ConfigGenerator ----------------------------
(***************************************************************************)
(* The generator of keys and configurations (util/cmd/main.go).  A key     *)
(* pair is the name of what it is generated for; a directory is a record   *)
(* of the files with keys in it, named as the configurations name them.    *)
(***************************************************************************)
EXTENDS Integers, FiniteSets

CONSTANTS
    MaxClusters,    \* bound: the clusters the user asks for
    MaxMembers      \* bound: the members of each

VARIABLES
    mode,       \* the flag -m
    nClusters,  \* what the user answers
    i,          \* the cluster to be written next
    files,      \* the files with keys, by directory
    configs,    \* the configurations, by directory
    printed,    \* what is printed instead, with -m 0, 1 or 2
    phase       \* "start", "clusters", "done"

vars == <<mode, nClusters, i, files, configs, printed, phase>>

pk(pair)   == [pk |-> pair]
sk(pair)   == [sk |-> pair]
pks(pairs) == [pks |-> pairs]
NoFile     == <<>>

Leader(c)       == <<"leader", c>>
Member(c, j)    == <<"member", c, j>>
LeaderPair(c)   == <<"leader key", c>>
MemberPair(c, j) == <<"member key", c, j>>

leftIndex_Right(c)  == (c + 1 + nClusters) % nClusters
leftIndex(c)  == (c - 1 + nClusters) % nClusters
rightIndex(c) == (c + 1 + nClusters) % nClusters

AllPks(c, nMembers) == pks([m \in 0 .. nMembers-1 |-> MemberPair(c, m)])

\* With a cluster of its own, the leader is its last member.
LeaderFilesOf(c, nMembers) ==
    [sk          |-> sk(LeaderPair(c)),
     left_pk     |-> pk(LeaderPair(leftIndex(c))),
     right_pk    |-> pk(LeaderPair(rightIndex(c))),
     cluster_pks |-> IF nMembers > 1 THEN AllPks(c, nMembers) ELSE NoFile,
     cluster_sk  |-> IF nMembers > 1 THEN sk(MemberPair(c, nMembers-1)) ELSE NoFile]

LeaderConfig(c, nMembers) ==
    [clusterID |-> c,
     leaders |-> [nClusters |-> nClusters, leftCrypto |-> "left_pk", rightCrypto |-> "right_pk",
                  secretKey |-> "sk"],
     cluster |-> IF nMembers > 1
                 THEN <<[nMembers |-> nMembers, memberID |-> nMembers-1,
                         publicKeys |-> "cluster_pks", secretKey |-> "cluster_sk"]>>
                 ELSE <<>>]

MemberFilesOf(c, j, nMembers) == [pks |-> AllPks(c, nMembers), sk |-> sk(MemberPair(c, j))]

MemberConfig(c, j, nMembers) ==
    [clusterID |-> c, leaders |-> <<>>,
     cluster |-> <<[nMembers |-> nMembers, memberID |-> j, publicKeys |-> "pks", secretKey |-> "sk"]>>]

\* The directories of cluster c, and what is written to them.
Directories(c, nMembers) == {Leader(c)} \union {Member(c, j) : j \in 0 .. nMembers-2}

FilesOf(c, nMembers) ==
    [w \in Directories(c, nMembers) |->
        IF w = Leader(c) THEN LeaderFilesOf(c, nMembers) ELSE MemberFilesOf(c, w[3], nMembers)]

ConfigsOf(c, nMembers) ==
    [w \in Directories(c, nMembers) |->
        IF w = Leader(c) THEN LeaderConfig(c, nMembers) ELSE MemberConfig(c, w[3], nMembers)]

\* What is written replaces what was there.
Over(new, old) ==
    [w \in DOMAIN new \union DOMAIN old |-> IF w \in DOMAIN new THEN new[w] ELSE old[w]]
-----------------------------------------------------------------------------
Init ==
    /\ mode \in 0 .. 3
    /\ nClusters = 0 /\ i = 0
    /\ files = <<>> /\ configs = <<>> /\ printed = "nothing"
    /\ phase = "start"

Generate ==
    /\ phase = "start" /\ mode # 3
    /\ printed' = CASE mode = 0 -> "cluster shared secret"
                    [] mode = 1 -> "KEM keypairs"
                    [] mode = 2 -> "2-AKE shared secret"
    /\ phase' = "done"
    /\ UNCHANGED <<mode, nClusters, i, files, configs>>

generateConfig ==
    /\ phase = "start" /\ mode = 3
    /\ nClusters' \in -1 .. MaxClusters
    /\ phase' = IF nClusters' <= 1 THEN "done" ELSE "clusters"
    /\ UNCHANGED <<mode, i, files, configs, printed>>

\* One turn of the loop over the clusters.
GenerateCluster ==
    /\ phase = "clusters"
    /\ \E answer \in -1 .. MaxMembers :
         LET nMembers == IF answer <= 0 THEN 1 ELSE answer
         IN  files' = Over(FilesOf(i, nMembers), files) /\ configs' = Over(ConfigsOf(i, nMembers), configs)
    /\ i' = i + 1
    /\ phase' = IF i + 1 = nClusters THEN "done" ELSE "clusters"
    /\ UNCHANGED <<mode, nClusters, printed>>

Next == Generate \/ generateConfig \/ GenerateCluster

Spec == Init /\ [][Next]_vars
-----------------------------------------------------------------------------
FileOf(who, name) == files[who][name]

\* The leaders' edges match up: the public key a leader has for its right neighbour belongs
\* to that neighbour's secret key, and that neighbour's left one to this leader's
\* (the README's IMPORTANT note on leftCrypto and rightCrypto).
EdgesMatch ==
    phase = "done" => \A c \in 0 .. i-1 :
        LET next == (c + 1) % nClusters
            l(d) == configs[Leader(d)].leaders
        IN  /\ configs[Leader(c)].clusterID = c /\ l(c).nClusters = nClusters
            /\ FileOf(Leader(c), l(c).rightCrypto).pk = FileOf(Leader(next), l(next).secretKey).sk
            /\ FileOf(Leader(next), l(next).leftCrypto).pk = FileOf(Leader(c), l(c).secretKey).sk

\* The members of a cluster, with its leader, have one list of public keys, are numbered
\* 0 to nMembers-1 without a gap, and each has the secret key of its place in the list.
MembersMatch ==
    phase = "done" => \A c \in 0 .. i-1 :
        LET Of == {w \in DOMAIN configs : configs[w].clusterID = c /\ configs[w].cluster # <<>>}
            own(w) == configs[w].cluster[1]
            keys(w) == FileOf(w, own(w).publicKeys).pks
        IN  \A w \in Of :
              /\ \A v \in Of : keys(v) = keys(w) /\ (own(v).memberID = own(w).memberID => v = w)
              /\ {own(v).memberID : v \in Of} = DOMAIN keys(w)
              /\ own(w).nMembers = Cardinality(Of)
              /\ FileOf(w, own(w).secretKey).sk = keys(w)[own(w).memberID]
=============================================================================
