--------------------------- MODULE ClusterRestart ---------------------------
(***************************************************************************)
(* ClusterProtocol with members that are stopped, crash or exit and are    *)
(* started again.  Nothing is kept on disk: a new run begins with an empty *)
(* session and a new AkeOne, and nobody tells the others.                  *)
(***************************************************************************)
EXTENDS ClusterProtocol

CONSTANTS
    Restarting,     \* the members that may end and be started again
    MaxEpoch        \* bound on the runs of one of them

\* The program ends, by a crash, by the user or after ExitWithMsg, and its
\* memory is gone.  What was on its way to or from it may be lost: in a broken
\* connection, in a handler that was cut short between two of its sends, or in
\* the goroutine that was to send the AkeOne.
End(p) ==
    /\ p \in Restarting
    /\ status[p] \in {"up", "exited"}
    /\ epoch[p] < MaxEpoch
    /\ status' = [status EXCEPT ![p] = "off"]
    /\ keyLeft' = [keyLeft EXCEPT ![p] = Zero]
    /\ keyRight' = [keyRight EXCEPT ![p] = Zero]
    /\ view' = [view EXCEPT ![p] = [i \in Parties |-> BlankEntry]]
    /\ clusterSessionKey' = [clusterSessionKey EXCEPT ![p] = NoKey]
    /\ keyCiphertext' = [keyCiphertext EXCEPT ![p] = NoKey]
    /\ mainSessionKey' = [mainSessionKey EXCEPT ![p] = NoKey]
    /\ \E lost \in SUBSET {m \in net : m.to = p \/ m.from = p} : net' = net \ lost
    /\ UNCHANGED epoch

RestartNext == Next \/ \E p \in Parties : End(p)

RestartSpec == Init /\ [][RestartNext]_vars
-----------------------------------------------------------------------------
Live(p) == status[p] = "up"

Keyed(p) == Live(p) /\ clusterSessionKey[p] # NoKey

\* Two running members that both hold a cluster session key hold the same one,
\* no matter how many of them have been restarted and which old messages were
\* delivered to a new run: CheckXs lets no mixture of runs through.
LiveKeyAgreement ==
    \A p, q \in Parties :
        Keyed(p) /\ Keyed(q) => clusterSessionKey[p] = clusterSessionKey[q]

\* The leader and a running member of its group have the same main session key
\* or the member has none: a KeyMsg of an earlier group is not accepted.
LiveMainKeyAgreement ==
    \A p \in Parties :
        Keyed(p) /\ Keyed(Leader) /\ mainSessionKey[Leader] # NoKey =>
            mainSessionKey[p] \in {NoKey, mainSessionKey[Leader]}

KeepsKeys ==
    \A p \in Parties : epoch'[p] = epoch[p] /\ status'[p] # "off" =>
        /\ clusterSessionKey[p] # NoKey => clusterSessionKey'[p] = clusterSessionKey[p]
        /\ mainSessionKey[p] # NoKey => mainSessionKey'[p] = mainSessionKey[p]

\* A run of the program never replaces a cluster or main session key: if the
\* group changes under it, it exits instead.
KeyFinalInRun == [][KeepsKeys]_vars

\* No member gets a cluster session key out of a 2-AKE whose two ends did not
\* agree: every left key in it is a secret of one run of the party it is from.
NoGarbageInKey ==
    \A p \in Parties : Keyed(p) =>
        \A q \in Parties : \E e \in 1 .. MaxEpoch :
            clusterSessionKey[p].leftKeys[q] = {Secret((q + N - 1) % N, e, e)}
-----------------------------------------------------------------------------
(***************************************************************************)
(* The inductive invariant.  A cluster session key says of each member in  *)
(* which of its runs it took part.  That two such keys are the same rests  *)
(* on what can be said of the entries that are anywhere: an AkeOne is sent *)
(* once and answered once, so the run of a member in which its left        *)
(* neighbour's AkeOne arrived is determined, and it does not go down when  *)
(* the left neighbour's run goes up.                                       *)
(***************************************************************************)
LeftMemberID(p) == (p + N - 1) % N

Runs == 1 .. MaxEpoch

\* An entry is made in a run of its maker, from the reply to the AkeOne of one of
\* its runs and from the AkeOne of a run of its left neighbour.
Makings == [run : Runs, reply : Runs, left : Runs]

MadeX(i, t) ==
    XorKeys(KexAkeSharedA(i, t.run, t.reply), KexAkeSharedB(LeftMemberID(i), t.left))

\* The entries of i, in the arrays of all members and on their way.
EntriesOf(i) ==
    ({view[p][i] : p \in Parties} \ {BlankEntry})
        \union {m.entry : m \in {k \in net : k.type = "XiRiCommitment" /\ k.from = i}}

MadeBy(i) == {t \in Makings : \E entry \in EntriesOf(i) : entry.x = MadeX(i, t)}

EntryInvariant ==
    \A i \in Parties : \A entry \in EntriesOf(i) :
        /\ entry \in Entries
        /\ entry.commitment = Commit_pke(i, entry.x, i, entry.r)
        /\ entry.pid = i
        /\ \E t \in Makings :
            /\ entry.x = MadeX(i, t)
            /\ t.run <= epoch[i] /\ t.reply <= epoch[i] /\ t.left <= epoch[LeftMemberID(i)]

\* What a session holds belongs to its present run; one that is off holds nothing.
SessionInvariant ==
    \A p \in Parties :
        /\ epoch[p] <= MaxEpoch
        /\ status[p] # "off" => epoch[p] >= 1
        /\ keyLeft[p] # Zero =>
            \E e \in 1 .. epoch[LeftMemberID(p)] : keyLeft[p] = KexAkeSharedB(LeftMemberID(p), e)
        /\ keyRight[p] # Zero =>
            \E e \in 1 .. epoch[p] : keyRight[p] = KexAkeSharedA(p, epoch[p], e)
        /\ view[p][p] # BlankEntry =>
            /\ keyLeft[p] # Zero /\ keyRight[p] # Zero
            /\ view[p][p].x = XorKeys(keyRight[p], keyLeft[p])
        /\ status[p] = "off" =>
            /\ epoch[p] < MaxEpoch
            /\ keyLeft[p] = Zero /\ keyRight[p] = Zero
            /\ view[p] = [i \in Parties |-> BlankEntry]
            /\ clusterSessionKey[p] = NoKey
            /\ keyCiphertext[p] = NoKey
            /\ mainSessionKey[p] = NoKey

MessageInvariant ==
    \A m \in net :
        /\ m.type = "AkeOne" => m.to = RightMemberID(m.from) /\ m.eph \in 1 .. epoch[m.from]
        /\ m.type = "AkeTwo" => m.eph \in 1 .. epoch[m.to]
        /\ m.type \in {"XiRiCommitment", "Key"} => m.to # m.from

\* As long as an AkeOne is on its way nothing has been made of it.
PendingUnused ==
    \A m \in net : m.type = "AkeOne" =>
        /\ keyLeft[m.to] # KexAkeSharedB(m.from, m.eph)
        /\ keyRight[m.from] # KexAkeSharedA(m.from, epoch[m.from], m.eph)
        /\ \A k \in net : k.type = "AkeTwo" /\ k.to = m.from => k.eph # m.eph
        /\ \A t \in MadeBy(m.from) : t.reply # m.eph
        /\ \A t \in MadeBy(m.to) : t.left # m.eph

\* An AkeOne arrives in one run: all that is made of it is made in that run.
OneRunPerAkeOne ==
    \A j \in Parties : \A b \in MadeBy(j) :
        /\ keyLeft[j] = KexAkeSharedB(LeftMemberID(j), b.left) => b.run = epoch[j]
        /\ \A a \in MadeBy(j) : a.left = b.left => a.run = b.run

\* A run that got the reply to its own AkeOne was answered before the next run
\* began, and so by no later run than those that answered the next ones.
RunsInOrder ==
    \A j \in Parties : \A c \in MadeBy(LeftMemberID(j)), b \in MadeBy(j) :
        c.run = c.reply /\ c.run < b.left =>
            /\ keyLeft[j] = KexAkeSharedB(LeftMemberID(j), c.run) => b.run = epoch[j]
            /\ \A a \in MadeBy(j) : a.left = c.run => a.run <= b.run

\* A running member with a cluster session key would come to the same one again.
KeyedInvariant ==
    \A p \in Parties : clusterSessionKey[p] # NoKey =>
        /\ N > 1
        /\ Live(p) =>
            /\ \A i \in Parties : view[p][i] # BlankEntry
            /\ ChecksPass(view[p])
            /\ clusterSessionKey[p] = SessionKey(p, keyLeft[p], view[p])

\* key is one in which run e of the leader took part.
OfLeaderRun(key, e) == key.leftKeys[RightMemberID(Leader)] = KexAkeSharedB(Leader, e)

\* As long as the leader's run goes on, main is its main session key.
MainOfRun(key, main) ==
    OfLeaderRun(key, epoch[Leader]) /\ status[Leader] # "off" => mainSessionKey[Leader] = main

CiphertextsAround ==
    ({keyCiphertext[p] : p \in Parties} \ {NoKey})
        \union {m.ct : m \in {k \in net : k.type = "Key"}}

MainKeyInvariant ==
    /\ keyCiphertext[Leader] = NoKey
    /\ \A ct \in CiphertextsAround :
        /\ \E e \in 1 .. epoch[Leader] : OfLeaderRun(ct.under, e)
        /\ MainOfRun(ct.under, ct.main)
        /\ \A other \in CiphertextsAround : other.under = ct.under => other.main = ct.main
    /\ \A p \in Parties :
        /\ clusterSessionKey[p] # NoKey =>
            \E e \in 1 .. epoch[Leader] : OfLeaderRun(clusterSessionKey[p], e)
        /\ p # Leader /\ mainSessionKey[p] # NoKey =>
            /\ clusterSessionKey[p] # NoKey
            /\ MainOfRun(clusterSessionKey[p], mainSessionKey[p])
            /\ \A ct \in CiphertextsAround :
                ct.under = clusterSessionKey[p] => ct.main = mainSessionKey[p]

\* Restarts and late messages leave this true; the four properties above follow.
\* With one member, who is its own neighbour, an entry does not say which runs it
\* was made of; but then no member gets a key.
RestartInv ==
    /\ TypeOK
    /\ EntryInvariant
    /\ SessionInvariant
    /\ MessageInvariant
    /\ N > 1 => PendingUnused /\ OneRunPerAkeOne /\ RunsInOrder
    /\ KeyedInvariant
    /\ MainKeyInvariant
=============================================================================
