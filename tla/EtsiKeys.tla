-------------------------------- MODULE EtsiKeys --------------------------------
(***************************************************************************)
(* QKD keys from an ETSI server: the programs that request a key and       *)
(* announce its ID, those that request it by that ID (etsi.go), and the    *)
(* mock server (mock_etsi), whose handlers use one map without a lock.     *)
(* The Go runtime ends a program when it sees a map used while it is       *)
(* written; the keys are lost with it.  A key is known by its ID.          *)
(***************************************************************************)
EXTENDS Integers, FiniteSets

CONSTANTS
    Requesters,     \* programs that call RequestKey
    Getters,        \* programs that call RequestKeyByID
    LeaderOf,       \* whose ID a getter gets
    MaxFailures,    \* bound: requests and answers that are lost
    MaxCrashes,     \* bound: ends of the server
    None

VARIABLES
    keyStore, lastID,   \* the server's keys, and the last ID it has made
    up, forgotten,      \* whether it runs, and the keys it has lost
    call,               \* by program: where its request is
    answer,             \* the ID in the answer; 0 for an error
    result,             \* what the function has returned
    announced,          \* the ID a requester has sent
    failures, crashes

server   == <<keyStore, lastID, up, forgotten>>
programs == <<call, answer, result, announced>>
vars     == <<server, programs, failures, crashes>>

Programs == Requesters \union Getters
Using    == {p \in Programs : call[p] \in {"writing", "reading"}}
-----------------------------------------------------------------------------
Init ==
    /\ keyStore = {} /\ lastID = 0 /\ up = TRUE /\ forgotten = {}
    /\ call = [p \in Programs |-> "ask"]
    /\ answer = [p \in Programs |-> 0]
    /\ result = [p \in Programs |-> None]
    /\ announced = [r \in Requesters |-> None]
    /\ failures = 0 /\ crashes = 0

\* getKey, or getKeyByID once the ID has come.
Ask(p) ==
    /\ call[p] = "ask"
    /\ p \in Getters => announced[LeaderOf[p]] # None
    /\ call' = [call EXCEPT ![p] = "sent"]
    /\ UNCHANGED <<server, answer, result, announced, failures, crashes>>

\* keysHandler: getKeys is about to write the map, handleDecKeys to read it.
Serve(p) ==
    /\ call[p] = "sent" /\ up
    /\ call' = [call EXCEPT ![p] = IF p \in Requesters THEN "writing" ELSE "reading"]
    /\ UNCHANGED <<server, answer, result, announced, failures, crashes>>

getKeys(p) ==
    /\ call[p] = "writing"
    /\ lastID' = lastID + 1 /\ keyStore' = keyStore \union {lastID + 1}
    /\ call' = [call EXCEPT ![p] = "answered"] /\ answer' = [answer EXCEPT ![p] = lastID + 1]
    /\ UNCHANGED <<up, forgotten, result, announced, failures, crashes>>

\* A key is given out once.
handleDecKeys_Deletes(p) ==
    /\ call[p] = "reading"
    /\ LET id == announced[LeaderOf[p]]
       IN  /\ answer' = [answer EXCEPT ![p] = IF id \in keyStore THEN id ELSE 0]
           /\ keyStore' = keyStore \ {id}
    /\ call' = [call EXCEPT ![p] = "answered"]
    /\ UNCHANGED <<lastID, up, forgotten, result, announced, failures, crashes>>

handleDecKeys(p) ==
    /\ call[p] = "reading"
    /\ LET id == announced[LeaderOf[p]]
       IN  answer' = [answer EXCEPT ![p] = IF id \in keyStore THEN id ELSE 0]
    /\ call' = [call EXCEPT ![p] = "answered"]
    /\ UNCHANGED <<server, result, announced, failures, crashes>>

\* The map is written by one handler and used by another.
Crash ==
    /\ up /\ crashes < MaxCrashes
    /\ Cardinality(Using) > 1 /\ \E p \in Using : call[p] = "writing"
    /\ up' = FALSE /\ crashes' = crashes + 1
    /\ forgotten' = forgotten \union keyStore /\ keyStore' = {}
    /\ call' = [p \in Programs |-> IF p \in Using THEN "retry" ELSE call[p]]
    /\ UNCHANGED <<lastID, answer, result, announced, failures>>

Restart ==
    /\ ~up /\ up' = TRUE
    /\ UNCHANGED <<keyStore, lastID, forgotten, programs, failures, crashes>>

\* http.Get or the reading of the body fails.
Fail(p) ==
    /\ \/ call[p] = "sent" /\ ~up /\ UNCHANGED failures
       \/ call[p] \in {"sent", "answered"} /\ failures < MaxFailures /\ failures' = failures + 1
    /\ call' = [call EXCEPT ![p] = "retry"]
    /\ UNCHANGED <<server, answer, result, announced, crashes>>

\* parseResponse; the loops of RequestKey and RequestKeyByID.
Receive(p) ==
    /\ call[p] = "answered"
    /\ IF answer[p] = 0
       THEN call' = [call EXCEPT ![p] = "retry"] /\ UNCHANGED result
       ELSE call' = [call EXCEPT ![p] = "done"] /\ result' = [result EXCEPT ![p] = answer[p]]
    /\ UNCHANGED <<server, answer, announced, failures, crashes>>

Retry(p) ==
    /\ call[p] = "retry"
    /\ call' = [call EXCEPT ![p] = "ask"]
    /\ UNCHANGED <<server, answer, result, announced, failures, crashes>>

\* The ID of the key goes to the other side (leader.go).
Announce(r) ==
    /\ call[r] = "done" /\ announced[r] = None
    /\ announced' = [announced EXCEPT ![r] = result[r]]
    /\ UNCHANGED <<server, call, answer, result, failures, crashes>>

Next ==
    \/ \E p \in Programs : Ask(p) \/ Serve(p) \/ Fail(p) \/ Receive(p) \/ Retry(p)
    \/ \E r \in Requesters : getKeys(r) \/ Announce(r)
    \/ \E g \in Getters : handleDecKeys(g)
    \/ Crash \/ Restart

Spec == Init /\ [][Next]_vars

\* Every program and the handler of its request run on, a request to a server that has ended
\* fails, and the server is started again.
Calls(p) == Ask(p) \/ Serve(p) \/ Receive(p) \/ Retry(p) \/ (call[p] = "sent" /\ ~up /\ Fail(p))

Fairness ==
    /\ \A r \in Requesters : WF_vars(Calls(r) \/ getKeys(r) \/ Announce(r))
    /\ \A g \in Getters : WF_vars(Calls(g) \/ handleDecKeys(g))
    /\ WF_vars(Restart)

FairSpec == Spec /\ Fairness
-----------------------------------------------------------------------------
\* Both sides of an edge, and all members of a cluster, end up with one key, whatever was
\* lost and asked for again, and however often the server made another key for a request.
OneKey == \A g \in Getters : result[g] # None => result[g] = result[LeaderOf[g]]

\* Everyone who asks for a new key gets one, and everyone who asks for one by its ID gets it,
\* unless the server has lost it: then it is asked for without end.
EverybodyHasKey ==
    /\ \A r \in Requesters : (call[r] = "sent") ~> (result[r] # None)
    /\ \A g \in Getters : (call[g] = "sent") ~> (result[g] # None \/ announced[LeaderOf[g]] \in forgotten)
=============================================================================
