----------------------------- MODULE Configuration -----------------------------
(***************************************************************************)
(* The configuration of a program (config.go): what validate accepts, and  *)
(* what the accessors make of it when the program is constructed,          *)
(* initialized and gets its first 2-AKE message.  A field that holds a     *)
(* text is a record: whether blanks surround it, the form of what is left  *)
(* ("none" if nothing is), and the file it names.  A file is unreadable,   *)
(* has one key of some length, or has a number of public keys.  Files are  *)
(* read again at every use, and may be replaced at any time.               *)
(***************************************************************************)
EXTENDS Integers, Sequences

CONSTANTS
    MemberClusters, MemberFiles,    \* a member's cluster section, and its files by name
    LeaderClusters, LeaderSections, LeaderFiles,    \* the same for a leader
    ClusterIDs,     \* clusterID
    Replacements,   \* what a file may become
    Nil             \* a field or section that is not there

SsLen == "SsLen"
SharedLen == "2*SsLen"
SkLen == "SkLen"
PkLen == "PkLen"

KeyFile(len) == [readable |-> TRUE, key |-> len, publicKeys |-> 0]
PksFile(n)   == [readable |-> TRUE, key |-> "0", publicKeys |-> n]
Unreadable   == [readable |-> FALSE, key |-> "0", publicKeys |-> 0]

VARIABLES
    config, files,  \* the configuration, and the contents of the files by name
    replaced,       \* whether a file has been replaced
    phase           \* "load", "new", "init", "run", or how it ended: "refused", "exited", "panicked"

vars == <<config, files, replaced, phase>>

Trimmed(text)  == [text EXCEPT !.blank = FALSE]
IsSet(text)    == text.form # "none"
HasPath(text)  == text.form = "path" /\ ~text.blank
HasUrl(text)   == text.form = "url" /\ ~text.blank

\* What os.ReadFile gets for the text as it stands, and for what follows "path ".
FileNamed(text)  == IF text.form = "file" /\ ~text.blank THEN files[text.file] ELSE Unreadable
FileOfPath(text) == files[text.file]

\* loadJSONKey and the comparison of the length.
HasKey(content, expectLen) == content.readable /\ content.key = expectLen

\* The number of the keys is not compared.
PublicKeysOk_AnyNumber(content, n) ==
    content.readable /\ content.publicKeys > 0

PublicKeysOk(content, n) ==
    content.readable /\ content.publicKeys > 0 /\ content.publicKeys = n

exactlyOne(a, b) == a # b

(***************************************************************************)
(* validate of the two sections and of the whole.                          *)
(***************************************************************************)
CryptoOk(crypto) ==
    LET c == Trimmed(crypto) IN HasUrl(c) \/ (HasPath(c) /\ HasKey(FileOfPath(c), SharedLen))

ClusterValid(c) ==
    /\ c.NMembers # Nil /\ c.NMembers > 0
    /\ c.MemberID # Nil /\ c.MemberID >= 0
    /\ LET hasPK == IsSet(c.PublicKeys)
           hasSK == IsSet(c.SecretKey)
       IN  /\ exactlyOne(IsSet(c.Crypto), hasPK /\ hasSK)
           /\ IF IsSet(c.Crypto)
              THEN CryptoOk(c.Crypto)
              ELSE /\ PublicKeysOk(FileNamed(c.PublicKeys), c.NMembers)
                   /\ HasKey(FileNamed(c.SecretKey), SkLen)

checkPKFile(text) ==
    LET t == Trimmed(text)
    IN  \/ (HasPath(t) /\ HasKey(FileOfPath(t), SsLen))
        \/ HasUrl(t)
        \/ HasKey(FileNamed(t), PkLen)

LeaderValid(l) ==
    /\ l.NClusters # Nil /\ l.NClusters > 0
    /\ HasKey(FileNamed(l.SecretKey), SkLen)
    /\ checkPKFile(l.LeftCrypto) /\ checkPKFile(l.RightCrypto)

validate ==
    /\ config.ClusterID # Nil /\ config.ClusterID >= 0
    /\ config.Cluster # Nil => ClusterValid(config.Cluster)
    /\ config.Leader # Nil => LeaderValid(config.Leader)

(***************************************************************************)
(* The accessors: "ok", or how the program ends.                           *)
(***************************************************************************)
openAndDecodeKey(content, expectLen) == IF HasKey(content, expectLen) THEN "ok" ELSE "exited"

\* The key of another member is looked up, or the own one.
GetPublicKeys(c, index) ==
    IF ~PublicKeysOk(FileNamed(c.PublicKeys), c.NMembers) THEN "exited"
    ELSE IF index < FileNamed(c.PublicKeys).publicKeys THEN "ok" ELSE "panicked"

InSlots(index, n) == IF index < n THEN "ok" ELSE "panicked"

UsesKem(text) == ~HasPath(text) /\ ~HasUrl(text)

\* On to the next phase, unless one ends the program: then none after it is called.
Then(results, next) ==
    \/ (\A n \in DOMAIN results : results[n] = "ok") /\ phase' = next
    \/ \E n \in DOMAIN results :
         /\ results[n] # "ok" /\ phase' = results[n]
         /\ \A m \in 1 .. n-1 : results[m] = "ok"
-----------------------------------------------------------------------------
Init ==
    /\ \/ \E id \in ClusterIDs, c \in MemberClusters :
            config = [program |-> "member", ClusterID |-> id, Cluster |-> c, Leader |-> Nil]
       \/ \E id \in ClusterIDs, c \in LeaderClusters, l \in LeaderSections :
            config = [program |-> "leader", ClusterID |-> id, Cluster |-> c, Leader |-> l]
       \/ \E program \in {"member", "leader"} :
            config = [program |-> program, ClusterID |-> 0, Cluster |-> Nil, Leader |-> Nil]
    /\ files \in IF config.program = "member" THEN MemberFiles ELSE LeaderFiles
    /\ replaced = FALSE
    /\ phase = "load"

GetConfig ==
    /\ phase = "load"
    /\ phase' = IF validate THEN "new" ELSE "refused"
    /\ UNCHANGED <<config, files, replaced>>

\* NewSession or NewLeaderSession with NewCryptoSession, and the leader's NewSession.
NewSessions ==
    /\ phase = "new"
    /\ phase' = IF (config.program = "member" /\ config.Cluster = Nil)
                   \/ (config.program = "leader" /\ config.Leader = Nil) THEN "panicked" ELSE "init"
    /\ UNCHANGED <<config, files, replaced>>

LeaderInit(l) ==
    <<IF HasPath(l.RightCrypto) THEN openAndDecodeKey(FileOfPath(l.RightCrypto), SsLen) ELSE "ok",
      IF HasPath(l.LeftCrypto) THEN openAndDecodeKey(FileOfPath(l.LeftCrypto), SsLen) ELSE "ok",
      IF HasPath(l.RightCrypto) /\ HasPath(l.LeftCrypto) THEN InSlots(config.ClusterID, l.NClusters) ELSE "ok",
      IF UsesKem(l.RightCrypto) THEN openAndDecodeKey(FileNamed(l.RightCrypto), PkLen) ELSE "ok">>

ClusterInit(c) ==
    IF HasUrl(c.Crypto) THEN <<>>
    ELSE IF HasPath(c.Crypto) THEN <<openAndDecodeKey(FileOfPath(c.Crypto), SharedLen)>>
    ELSE <<GetPublicKeys(c, (c.MemberID + 1) % c.NMembers)>>

Inits ==
    /\ phase = "init"
    /\ Then((IF config.program = "leader" THEN LeaderInit(config.Leader) ELSE <<>>)
            \o (IF config.Cluster # Nil THEN ClusterInit(config.Cluster) ELSE <<>>), "run")
    /\ UNCHANGED <<config, files, replaced>>

\* onAkeOne of the leader session, and its Xi once both neighbour keys are there.
LeaderAkeOne ==
    /\ phase = "run" /\ config.program = "leader"
    /\ LET l == config.Leader
       IN  /\ UsesKem(l.LeftCrypto)
           /\ Then(<<openAndDecodeKey(FileNamed(l.SecretKey), SkLen),
                     openAndDecodeKey(FileNamed(l.LeftCrypto), PkLen),
                     InSlots(config.ClusterID, l.NClusters)>>, "run")
    /\ UNCHANGED <<config, files, replaced>>

\* onAkeOne of the cluster session, and its Xi with its commitment.
ClusterAkeOne ==
    /\ phase = "run" /\ config.Cluster # Nil
    /\ LET c == config.Cluster
       IN  /\ UsesKem(c.Crypto)
           /\ \E sender \in 0 .. c.NMembers-1 :
                Then(<<openAndDecodeKey(FileNamed(c.SecretKey), SkLen), GetPublicKeys(c, sender),
                       GetPublicKeys(c, c.MemberID), InSlots(c.MemberID, c.NMembers)>>, "run")
    /\ UNCHANGED <<config, files, replaced>>

\* The user replaces a key file of a program that has been started.
Replace ==
    /\ phase \in {"new", "init", "run"} /\ ~replaced
    /\ \E f \in DOMAIN files, new \in Replacements : files' = [files EXCEPT ![f] = new]
    /\ replaced' = TRUE
    /\ UNCHANGED <<config, phase>>

Next == GetConfig \/ NewSessions \/ Inits \/ LeaderAkeOne \/ ClusterAkeOne \/ Replace

Spec == Init /\ [][Next]_vars
-----------------------------------------------------------------------------
(***************************************************************************)
(* What the check of the configuration is worth to the program, and        *)
(* whether it follows the documentation.                                   *)
(***************************************************************************)
Below(id, n) == id # Nil /\ n # Nil => id < n

\* What the user has to keep in order himself, as validate does not look at it: the
\* section of the program is there, the IDs are in range, no blanks around a crypto.
Tidy ==
    /\ config.program = "member" => config.Cluster # Nil
    /\ config.program = "leader" => config.Leader # Nil
    /\ config.Cluster # Nil => ~config.Cluster.Crypto.blank /\ Below(config.Cluster.MemberID, config.Cluster.NMembers)
    /\ config.Leader # Nil => /\ ~config.Leader.LeftCrypto.blank /\ ~config.Leader.RightCrypto.blank
                              /\ Below(config.ClusterID, config.Leader.NClusters)

\* A program whose configuration was accepted and tidy never panics, whatever becomes of
\* its key files while it runs, and ends only if one of them was replaced: everything it
\* loads later was checked with the same rule (config.go, validate and the accessors).
TidyRunsOn == Tidy => phase # "panicked" /\ (phase = "exited" => replaced)

\* The README's rules for a cluster and for a leader.
DocumentedCluster(c) ==
    /\ c.NMembers \in Nat \ {0} /\ c.MemberID \in 0 .. c.NMembers-1
    /\ \/ /\ HasUrl(c.Crypto) \/ (HasPath(c.Crypto) /\ FileOfPath(c.Crypto) = KeyFile(SharedLen))
          /\ ~IsSet(c.PublicKeys) /\ ~IsSet(c.SecretKey)
       \/ /\ ~IsSet(c.Crypto)
          /\ FileNamed(c.PublicKeys) = PksFile(c.NMembers)
          /\ FileNamed(c.SecretKey) = KeyFile(SkLen)

DocumentedEdge(text) ==
    \/ HasUrl(text)
    \/ (HasPath(text) /\ FileOfPath(text) = KeyFile(SsLen))
    \/ FileNamed(text) = KeyFile(PkLen)

Documented ==
    /\ config.ClusterID \in Nat
    /\ config.Cluster # Nil => DocumentedCluster(config.Cluster)
    /\ config.Leader # Nil => /\ config.Leader.NClusters \in Nat \ {0}
                              /\ FileNamed(config.Leader.SecretKey) = KeyFile(SkLen)
                              /\ DocumentedEdge(config.Leader.LeftCrypto)
                              /\ DocumentedEdge(config.Leader.RightCrypto)

\* Every configuration that follows the README is accepted.
DocumentedIsAccepted == Documented /\ ~replaced => phase # "refused"
=============================================================================
