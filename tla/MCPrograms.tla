------------------------------- MODULE MCPrograms -------------------------------
(***************************************************************************)
(* Five parts of the programs that do not touch each other's state, side   *)
(* by side for one run of TLC: a behaviour is one of the part `component`  *)
(* names, and the variables of the others stay as they are at the start.   *)
(***************************************************************************)
EXTENDS ChatTexts

CONSTANTS
    Components,
    LogCap, MsgCap, CharCap, Handlers, InitLogs, MaxProduced, Keyboard, MaxTyped,
    Clients, Talkers, Pingers, Refused, Goroutines, Pinger, MaxSent,
    Requesters, Getters, LeaderOf, r1, r2, g3, MaxFailures, MaxCrashes,
    MemberClusters, MemberFiles, LeaderClusters, LeaderSections, LeaderFiles,
    ClusterIDs, Replacements,
    MaxClusters, MaxMembers,
    None, Nil

VARIABLES
    component,
    main, listened, logChan, msgChan, chars, closed, produced, waiting, keyboard, ended,
    stdin, buffered, holding, loop, input, lines, shown, keySet, exited,
    mutex, sending, sent, written, stream, inbox, forwarded, listener, nextMsg, handled,
    peer, clientExited,
    keyStore, lastID, up, forgotten, call, answer, result, announced, failures, crashes,
    config, files, replaced, phase,
    mode, nClusters, nextCluster, configs, keysPrinted

\* The goroutine that pings is one of them, and a mutex without owner is told from a locked one.
ASSUME TransportAssumption == Pinger \in Goroutines /\ None \notin Goroutines

\* A program that announces an ID asks for none, and a getter waits for one that does.
ASSUME EtsiAssumption ==
    Requesters \intersect Getters = {} /\ LeaderOf \in [Getters -> Requesters]

\* A text as Configuration has it; a number may be any the JSON decoder accepts, or not there.
AnyText    == [blank : BOOLEAN, form : {"none", "path", "url", "file"}, file : STRING]
AnyNumber  == Int \union {Nil}
AnyCluster == [NMembers : AnyNumber, MemberID : AnyNumber,
               Crypto : AnyText, PublicKeys : AnyText, SecretKey : AnyText]
AnyLeader  == [NClusters : AnyNumber, LeftCrypto : AnyText, RightCrypto : AnyText, SecretKey : AnyText]

\* Configurations are what the decoder can make of a file, and what is not there is no number.
ASSUME ConfigurationAssumption ==
    /\ Nil \notin Int /\ ClusterIDs \subseteq AnyNumber
    /\ MemberClusters \subseteq AnyCluster /\ LeaderClusters \subseteq AnyCluster \union {Nil}
    /\ LeaderSections \subseteq AnyLeader

T == INSTANCE Terminal
N == INSTANCE Transport WITH exited <- clientExited
E == INSTANCE EtsiKeys
C == INSTANCE Configuration
G == INSTANCE ConfigGenerator WITH i <- nextCluster, printed <- keysPrinted

tui  == <<main, listened, logChan, msgChan, chars, closed, produced, waiting, keyboard, ended,
          stdin, buffered, holding, loop, input, lines, shown, keySet, exited>>
net  == <<mutex, sending, sent, written, stream, inbox, forwarded, listener, nextMsg, handled,
          peer, clientExited>>
etsi == <<keyStore, lastID, up, forgotten, call, answer, result, announced, failures, crashes>>
settings  == <<config, replaced>>
generator == <<mode, nClusters, nextCluster, configs, keysPrinted>>
allVars   == <<component, vars, tui, net, etsi, settings, generator, files, phase>>
-----------------------------------------------------------------------------
\* Two of the programs that get a key by its ID belong to one leader.
MCLeaderOf == [g \in Getters |-> IF g = g3 THEN r2 ELSE r1]

(***************************************************************************)
(* Fields that are unset, have a form and perhaps blanks around it, or are *)
(* out of range; files that are unreadable or hold a key of another kind.  *)
(***************************************************************************)
\* The kinds of files, which do not depend on the inputs.
F == INSTANCE Configuration WITH MemberClusters <- {}, MemberFiles <- {}, LeaderClusters <- {},
                                 LeaderSections <- {}, LeaderFiles <- {}, ClusterIDs <- {}, Replacements <- {}

Text(blank, form, file) == [blank |-> blank, form |-> form, file |-> file]
NoText == Text(FALSE, "none", "a")

Cryptos(file) == {NoText} \union {Text(b, form, file) : b \in BOOLEAN, form \in {"path", "url", "file"}}
Optional(file) == {NoText, Text(FALSE, "file", file)}

MCMemberClusters ==
    [NMembers : {Nil, 0, 2, 3}, MemberID : {Nil, -1, 0, 1, 2}, Crypto : Cryptos("crypto"),
     PublicKeys : Optional("pks"), SecretKey : Optional("sk")]

MCMemberFiles ==
    [crypto : {F!Unreadable, F!KeyFile(F!SharedLen), F!KeyFile(F!SsLen)},
     pks : {F!Unreadable, F!PksFile(2), F!PksFile(3)}, sk : {F!KeyFile(F!SkLen), F!KeyFile(F!PkLen)}]

MCLeaderClusters ==
    {Nil, [NMembers |-> 2, MemberID |-> 1, Crypto |-> Text(FALSE, "path", "crypto"),
           PublicKeys |-> NoText, SecretKey |-> NoText]}

MCLeaderSections ==
    [NClusters : {Nil, 0, 1, 2}, LeftCrypto : Cryptos("left"), RightCrypto : Cryptos("right"),
     SecretKey : Optional("leaderSk")]

MCLeaderFiles ==
    [left : {F!KeyFile(F!SsLen), F!KeyFile(F!PkLen)},
     right : {F!Unreadable, F!KeyFile(F!SsLen), F!KeyFile(F!PkLen)},
     leaderSk : {F!KeyFile(F!SkLen), F!KeyFile(F!SsLen)}, crypto : {F!KeyFile(F!SharedLen)}]

MCClusterIDs == {Nil, -1, 0, 1}

MCReplacements == {F!Unreadable, F!KeyFile(F!SsLen), F!PksFile(1), F!PksFile(2)}
-----------------------------------------------------------------------------
NoGenerator     == mode = None /\ nClusters = None /\ nextCluster = None /\ configs = None /\ keysPrinted = None
NoConfiguration == config = None /\ replaced = None

ProgramsInit ==
    /\ component \in Components
    /\ Init /\ T!Init /\ N!Init /\ E!Init
    /\ CASE component = "configuration" -> C!Init /\ NoGenerator
         [] component = "generator" -> G!Init /\ NoConfiguration
         [] OTHER -> NoGenerator /\ NoConfiguration /\ files = None /\ phase = None

ProgramsNext ==
    /\ \/ component = "chat" /\ Next /\ UNCHANGED <<tui, net, etsi, settings, generator, files, phase>>
       \/ component = "terminal" /\ T!Next /\ UNCHANGED <<vars, net, etsi, settings, generator, files, phase>>
       \/ component = "transport" /\ N!Next /\ UNCHANGED <<vars, tui, etsi, settings, generator, files, phase>>
       \/ component = "etsi" /\ E!Next /\ UNCHANGED <<vars, tui, net, settings, generator, files, phase>>
       \/ component = "configuration" /\ C!Next /\ UNCHANGED <<vars, tui, net, etsi, generator>>
       \/ component = "generator" /\ G!Next /\ UNCHANGED <<vars, tui, net, etsi, settings>>
    /\ UNCHANGED component

\* Users and handlers are alike; clients and requesters are not.
Alike == Permutations(Users) \union Permutations(Handlers)

ProgramsSpec == ProgramsInit /\ [][ProgramsNext]_allVars

\* The fairness of each part (Fairness of its module), for the behaviours that are its own.
ChatFairness == \A u \in Users : WF_vars(component = "chat" /\ Program(u))

InTui == component = "terminal" /\ ~exited
TerminalFairness ==
    /\ WF_tui(InTui /\ (T!InitLog \/ T!StartTUI)) /\ WF_tui(InTui /\ T!ListenerLog)
    /\ \A h \in Handlers : WF_tui(InTui /\ (T!LogLine(h) \/ T!PrintLine(h)))
    /\ WF_tui(InTui /\ T!Reader)
    /\ WF_tui(InTui /\ T!TakeLog) /\ WF_tui(InTui /\ T!TakeMsg) /\ WF_tui(InTui /\ T!TakeRune)
    /\ WF_tui(InTui /\ T!LoopLog)

InNet(c) == component = "transport" /\ ~clientExited[c]
TransportFairness ==
    \A c \in Clients :
        /\ WF_net(InNet(c) /\ N!Listens(c)) /\ WF_net(component = "transport" /\ N!Forward(c))
        /\ c \in Pingers => WF_net(InNet(c) /\ N!Tick(c))
        /\ \A g \in N!Senders(c) : WF_net(InNet(c) /\ N!Send(c, g))

InEtsi == component = "etsi"
EtsiFairness ==
    /\ \A r \in Requesters : WF_etsi(InEtsi /\ (E!Calls(r) \/ E!getKeys(r) \/ E!Announce(r)))
    /\ \A g \in Getters : WF_etsi(InEtsi /\ (E!Calls(g) \/ E!handleDecKeys(g)))
    /\ WF_etsi(InEtsi /\ E!Restart)

ProgramsFairSpec ==
    ProgramsSpec /\ ChatFairness /\ TerminalFairness /\ TransportFairness /\ EtsiFairness
-----------------------------------------------------------------------------
(***************************************************************************)
(* What the runs check of the other parts; the properties of ChatTexts     *)
(* have their own names.                                                   *)
(***************************************************************************)
\* Terminal: when nothing can go on by itself there is nothing to do, or the loop waits for
\* room in the log channel that only it empties; and what was typed is in the lines.
StuckOnlyOnOwnLog == component = "terminal" => T!StuckOnlyOnOwnLog /\ T!TypedIsKept

\* Terminal: what a handler logs or prints is shown in the end, unless the loop waits for itself.
EverythingShown == T!EverythingShown

\* Transport: the server gets whole lines, whichever goroutines send at the same time, and
\* what comes is handled in the order in which it came, up to a line too long.
LinesWholeInOrder == component = "transport" => N!LinesWhole /\ N!HandledIsPrefix

\* Transport: a program whose connection is closed by the server ends, and what comes over
\* an open one is handled, unless after a line too long.
ConnectionIsServed == N!ClosedIsNoticed /\ N!PassedOnIsHandled

\* EtsiKeys: both sides of an edge, and all of a cluster, get the one key of an ID, although
\* requests and answers are lost; unless the server has lost it too.
EverybodyHasOneKey == [](component = "etsi" => E!OneKey) /\ E!EverybodyHasKey

\* Configuration: a configuration that follows the README is accepted, and a tidy one that
\* was accepted never ends in a panic, and ends the program only if a key file was replaced.
TidyRunsOn == component = "configuration" => C!TidyRunsOn /\ C!DocumentedIsAccepted

\* ConfigGenerator: neighbouring leaders have each other's public keys, on the right side,
\* and the members of a cluster agree on the keys and have each its own place.
FilesMatch == component = "generator" => G!EdgesMatch /\ G!MembersMatch
=============================================================================
