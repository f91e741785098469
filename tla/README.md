# PQGCH in TLA+

PQGCH is a terminal chat for clusters of users. The members of a cluster agree
on a *cluster session key*; the leaders of all clusters agree on the *main
session key*; every leader hands the main session key down to its members,
encrypted under the cluster session key; texts are encrypted with the main
session key. Keys between neighbours come from a two-party key exchange
(Kyber 2-AKE), from a file, or from an ETSI QKD server. All messages go through
a routing server that is not part of the repository.

This directory holds TLA+ modules for that program, configurations for TLC, and
proofs checked by TLAPS. `PROJECT.json` lists the components, the runs, the
source lines of every definition, the hazards and the theorems.

## 1. The system

| component | state | operations | talks to |
|---|---|---|---|
| cluster protocol (`cluster_protocol/protocol.go`) | `CryptoSession`: `tkRight`, `eskaRight`, `keyLeft`, `keyRight`, arrays `xs`, `commitments`, `rs`, `pids`, `clusterSessionKey`; `Session`: `keyCiphertext`, `mainSessionKey` | `Init`, `onAkeOne`, `onAkeTwo`, `onXiRiCommitment`, `onKey`, `onMainSessionKey`, `onQKDClusterKey`, `onQKDID`, `onText`, `SendText` | the sessions of the same cluster, by messages; the leader session, by a channel; the terminal |
| leader protocol (`leader_protocol/protocol.go`) | the same arrays for clusters, neighbour keys | `Init`, `onAkeOne`, `onAkeTwo`, `onXiRiCommitment`, `onLeftKey`, `onRightKey`, `onQKDID` | the other leaders; the cluster session of its process over an unbuffered channel; the ETSI server |
| leader process (`leader/leader.go`) | two channels behind a demultiplexer, goroutines for QKD keys | `demuxMessages`, `main` | both sessions |
| member process (`cluster_member/cluster_member.go`) | none of its own | `main` | one session |
| key arithmetic (`util/crypto.go`, `gake` `mod`, `xor_keys`) | none | `CheckXs`, `ComputeAllLeftKeys`, `Mod`, `XorKeys` | both protocols |
| 2-AKE, commitment, hash (`gake/wrapper.go` and the C code below it) | none | `KexAke*`, `Commit_pke`, `Sha3_512` | both protocols |
| configuration (`util/config.go`) | the parsed file | `validate`, accessors | everything |
| transport (`util/tcp.go`, `util/message.go`) | a connection | `listen`, `Send`, ping | the routing server |
| ETSI client (`util/etsi.go`) | none | `RequestKey`, `RequestKeyByID`, both repeated until answered | the ETSI server |
| terminal (`util/tui.go`) | log and message channels of capacity 100, input line | input loop, `Log*`, `ExitWithMsg` | all goroutines |
| generator (`util/cmd/main.go`) | the keys it has made | asks for clusters and members, writes key files and configurations | the configuration |
| mock server (`mock_etsi`) | `keyStore`, one map for all HTTP handlers | `enc_keys`, `dec_keys` | the ETSI client |
| the C library (`gake/kyber-gake/ref`) | the generators of random bytes; the array of parties of `gake.c` | Kyber, KEM, 2-AKE, commitments, the rounds of the group exchange, Keccak, AES, SHA-2 | `gake/wrapper.go` and its own tests |

What makes it hard:

- *Ordering.* Finalization is triggered by whichever message is last, at every
  member separately, and the main session key may come before or after the
  cluster session key, at the leader and at each member.
- *Restarts.* `AkeOne` is sent once, by `Init`. A program that is started again
  uses new secrets. Its neighbours replace theirs and make a new Xi, while
  messages of the earlier run are still on their way and nothing in a message
  says which run it belongs to.
- *Blocking.* The leader session hands the main key over an unbuffered channel
  in the middle of a handler, before it has sent its own Xi, and waits for the
  ETSI server inside a handler.
- *Shared memory.* `SendText` reads the main session key on the terminal's
  goroutine while a handler may be copying a new one into it; every text has a
  goroutine of its own; the terminal's loop writes to a bounded channel that
  only it empties; the mock server's handlers share a map.
- *Lost and late answers.* A key request is repeated for ever; the server closes
  connections; a key file may change after it was checked.
- *Integers.* The C code relies on 16 bit sums that do not overflow, on
  reductions that return two representatives of zero, on carries in counters,
  and on padding at the borders of blocks.
- *Sentinels.* Zero means "not received yet" for keys and for Xs.

Correct means: all members that finalize have the same cluster session key, and
all clusters the same main session key; nobody aborts unless there was a
restart; the main session key reaches everybody in the end; and after a restart
whoever is running and keyed still agrees. Around the sessions: no goroutine
waits for ever for another of its own process, messages and lines keep their
order and nothing is lost between socket and handler or keyboard and session, a
text is encrypted under one key, an accepted configuration carries a program to
its end, and the configurations the generator writes fit each other. Below them:
the C code computes what its names say, at every border of its buffers.

## 2. The modules

### The protocol

| module | models |
|---|---|
| `GakeKeys` | XOR, `Mod`, `CheckXs`, `ComputeAllLeftKeys` |
| `ClusterProtocol` | the sessions of one cluster in Kyber-GAKE mode and the messages between them; its inductive invariant |
| `GroupKeyExchange` | what a cluster promises; `ClusterProtocol` ends with the mapping that shows it to be kept |
| `ClusterQkd` | the sessions of one cluster that gets its key from a file or an ETSI server; its inductive invariant and the same mapping |
| `ClusterRestart` | the sessions of one cluster when programs end and are started again; its inductive invariant |
| `LeaderProtocol` | the leader sessions of all clusters, with mixed ways to get neighbour keys; its inductive invariant |

### The programs around it

| module | models | state and steps |
|---|---|---|
| `LeaderProcess` | `leader.go`: listener, `demuxMessages`, both handlers, `main` with both `Init` calls, the goroutines for QKD keys | a place per goroutine; a message changes hands in a step of sender and receiver, as all channels are unbuffered |
| `ChatTexts` | `SendText`, its goroutines, `onText`, and the copying of a new main key | a key is a sequence of parts; copying, comparing and encrypting take it part by part |
| `Terminal` | `tui.go` | both channels, the reader and its buffer, the loop, what the handlers want to log |
| `Transport` | `tcp.go`, `message.go` | the mutex, lines in two pieces, the reader's message, the server's error that ends the program, what it has done to the connection |
| `EtsiKeys` | `etsi.go`, `mock_etsi` | the place of every request, the server's map, lost requests and answers, crashes |
| `Configuration` | `config.go` and who calls its accessors | the fields, the key files, and where the program is: checked, refused, loading, running, ended, panicked |
| `ConfigGenerator` | `util/cmd/main.go` | the files and configurations written so far |

### The library

| module | models |
|---|---|
| `KyberReduce` | the reductions, with their 16 and 32 bit integers; the ring that the transform splits |
| `KyberNtt` | `ntt`, `basemul`, `invntt`, one butterfly a step |
| `KyberPoly`, `KyberPolyCheck` | packing, compression, messages, `cbd` of `poly.c`, `polyvec.c`, `cbd.c`; the same against what they are for |
| `KyberMatrix` | `rej_uniform` and `gen_matrix` over any output of the XOF |
| `KyberIndcpa` | key generation, encryption and decryption with the real arithmetic |
| `KyberKem`, `KyberKex` | the key encapsulations, and the three exchanges with several sessions of one pair |
| `KyberCommitment` | `commitment.c`, `indcca.c` and their qrom variants |
| `GakeRounds` | `gake.c`, `gake_qrom.c`, round by round |
| `KyberUtils` | `itoa`, `reverse`, `verify`, `cmov`, the last two also as in avx2 |
| `Keccak`, `KeccakSponge` | the permutation, and absorbing and squeezing over an ideal one |
| `Aes256ctr`, `Sha2` | bitsliced AES in counter mode; SHA-256 and SHA-512 |
| `SeedExpander`, `CtrDrbg`, `RandomBytes` | the three sources of bytes |

### Proofs and instances

`*Proofs` modules hold the theorems of section 4. `MCClusterProtocol`,
`MCClusterQkd` and `MCLeaderProtocol` give constants their values.
`MCClusterRestart` bounds how many messages are on their way at a time.
`MCPrograms`, `MCExchanges` and `MCComputations` put several modules that share no state side
by side: `component` is chosen at the start and never changes, a step is one
of that component, and the variables of the others stay as they are. Each property is
restated there for its component (`component = "x" => X!P`); the fairness of a
component is conjoined for the behaviours that are its own. `MCExchanges` also has the reference
definitions that `GakeKeys` is checked against.

### Data

A 32 byte key is the *set of the independent secrets XORed into it*; XOR is
symmetric difference and the zero key the empty set. Two keys are equal when
they are the XOR of the same secrets: exact, apart from random collisions. A
2-AKE secret is named by the run of the initiator's ephemeral key pair and of
its `tk`; the initiator gets the responder's secret exactly if the reply
answers the `AkeOne` of its present run. Hash, commitment and the encryption of
the main key are free constructors (records of their arguments). The arrays
`xs`, `rs`, `commitments` and `pids` are one array of records, `view`: every
statement that writes one of them writes the same index of all four.

In the library a byte string is a term where only equality matters (`KyberKem`,
`KyberKex`, `KyberCommitment`), a polynomial is a function to integers with the code's widths, and the
words of the bitsliced and rotated code (`Keccak`, `Aes256ctr`, `Sha2`) are the sets of their one bits.

### Handlers and actions

A session handles one message at a time, and nothing else touches the state
that is modelled; so a handler is one action. `onAkeOne` in the model
includes what the code's handler calls: the `AkeTwo`, `checkLeftRightKeys`, the
Xi, `tryFinalizeProtocol` with both checks, and the callback
`transportMainSessionKey`, in the order of the code. The order shows where it
matters: `ExitWithMsg` ends the program before the handler has sent its Xi.

In `LeaderProtocol` a handler can be held up at two points, and is split there:
`handing` is the handler that waits on `clusterSessionChan` together with what
it has not sent yet, `HandOver` its continuation; `fetching` is `onQKDID`
between its request and the answer, `onLeftKey` its continuation.
`requester` is the goroutine of `main` that gets the right key; the ID it sends and what the
handler does with the key touch nothing of each other, so the ID is sent after it. An answer that is
no key is dropped (`DropKey`) and not asked for again, so that `EventuallyEstablished` is up to
that (`Dropped`).

`ClusterQkd` is `cluster_protocol.Session` in its other two modes. There
`onQKDID` does *not* hold the handler up: it starts a goroutine, `fetching`, and
the session goes on, so that a `KeyMsg` can be handled between the request and
the answer. The goroutine's message to `receiveChan` and `onQKDClusterKey` are one
action: until then the goroutine only holds a value nobody else reads. At the leader the goroutine
sends the ID beside the handler, before it or after it (`TakeQKDKey`, `LeaderQKDClusterKey`,
`SendQKDID`), and until the handler is done the loop takes nothing else (`Free`). The
server answers every `dec_keys` request for an ID with the same key, so ID and key are one
value; the mock server does the same, it keeps every key it has given out.

`onMainSessionKey` copies any key it is given, at any time. When it is given one is up to the
leader protocol, which `ClusterProtocol`, `ClusterRestart` and `ClusterQkd` leave to their environment
(`LeaderProtocolFinishes`): one key in a run of the leader's program. For leaders that do not
restart that is `HandedOverOnce`, checked and proved in `LeaderProtocol`; a leader session that is handed
another, after restarts, is in `LeaderProcess` (`NewestAnnounced`).

`LeaderProcess` looks at the same goroutines from the other side: of the sessions
it keeps only whether both neighbour keys and which Xs are there, and so when a handler
finalizes and has to wait. What comes in is any message that another program
could have sent, in any order, as after restarts: more than the protocol would send.

### The abstract specification

`GroupKeyExchange` has no messages: the `Contributors` join, then each party may
establish the one group key, and with it learn the leader's main key. A Kyber-GAKE
cluster implements it with every party a contributor, a QKD cluster with none
(the key is there before the parties are).

### The network

`net` is the set of messages on their way, one per recipient. Any message may
be delivered next, so messages overtake each other freely: more behaviours than
one TCP connection per client through a router has. Delivery takes the message
out (`ChatTexts` and `Transport` keep the order of a connection, as their
properties are about it). No message is lost or duplicated while all programs run, which TCP gives,
*provided the router keeps messages for clients that have not logged in yet*:
`AkeOne` is sent once and never repeated. In `ClusterRestart` any part of the
messages addressed to a program may be lost at the moment it ends.

## 3. What TLC checks

| run | instance | shows |
|---|---|---|
| `cluster_3` | 3 members, leader 2, 2 coins, 2 main keys, all interleavings, fair | `KeyAgreement`, `MainKeyNotLost`, `EventuallyEstablished`; the inductive invariant `IndInv`, with `TypeOK`, and from which `NoAbort` and `MainKeyAgreement` follow; every step is one of the ideal exchange (`ImplementsGroupKeyExchange`) |
| `cluster_qkd_3` | 3 members, both QKD modes, 2 QKD keys, 2 main keys, fair | `IndInv`, `ImplementsGroupKeyExchange` and `EventuallyEstablished` for a cluster with QKD |
| `cluster_restart` | 3 members, each of which may end and start once more, losing any messages | `LiveKeyAgreement`, `LiveMainKeyAgreement`, `NoGarbageInKey`, `KeyFinalInRun` |
| `leaders_3` | 3 leaders, all 27 mixtures of KEM, file and ETSI edges, any answer of a server dropped, fair | `MainKeyAgreement`, `HandedOverOnce`, `EventuallyEstablished`, `IndInv` |
| `leaders_shared_file` | 3 leaders, one key file on two neighbouring edges | `EqualNeighboursStall` |
| `leader_alone` | 1 cluster | *violation* of `EventuallyEstablished`, see section 6 |
| `leader_process` | one of 3 leaders, every configuration of both edges and the cluster, any 6 messages, fair | `InitNeverWaits`; `StuckOnlyOnEtsi`: only the ETSI server can hold the process up; `NewestAnnounced`; `NothingStays` |
| `programs` | see below | `ChatTexts`: `TextUnderOneKey`, `OvertakenOnlyBeside`. `Terminal`: `StuckOnlyOnOwnLog`. `Transport`: `LinesWholeInOrder`. `Configuration`: `TidyRunsOn`. `ConfigGenerator`: `FilesMatch` |
| `programs_live` | smaller, with fairness | `EventuallyPrinted`, `EverythingShown`, `ConnectionIsServed`, `EverybodyHasOneKey` |
| `chat_texts_torn` | 2 users | *violation* of `TextUnderMainKey`, see section 6 |
| `exchanges` | see below | the key arithmetic, the exchanges, commitments and rounds of the library, and its sources of bytes |
| `computations` | see below | the arithmetic of Kyber with its matrix sampling, the number helpers and the symmetric primitives, against the mathematical definition and the standards |

The last two runs, and some properties of `programs`, take together what the modules
state one by one; `MCExchanges`, `MCComputations` and `MCPrograms` say how:

| checked | made of |
|---|---|
| `HelpersAreExact` | `CheckXsIsParity`, `LeftKeysAreXorsBetween`, `ModIsRemainder` (of `GakeKeys`) |
| `KeyNamesTranscript` | `SameTranscriptSameKey`, `SameKeySameTranscript`, `KeysOfOneSideDiffer`, `UnsetOnlyWhenChanged` (`KyberKex`) |
| `AcceptedRoundsAgree` | `OpensOnlyToItsOwn`, `DecryptsOnlyUnchanged` (`KyberCommitment`), `NeighboursShareKeys`, `AcceptsOnlySent`, `MasterKeysAreLeftKeys`, `AllKeysEqual` (`GakeRounds`) |
| `StreamsAreWhole` | `PaddingIsInjective`, `OutputIsOneStream` (`KeccakSponge`), `OneStream`, `Accounted` (`SeedExpander`), `SecretsNotServed`, `RequestFilled` (`CtrDrbg`), `ReturnsFilled` (`RandomBytes`) |
| `RunsEnd` | `HonestRunAccepts` (`GakeRounds`), `CallEnds` (`RandomBytes`) |
| `KyberIsExact` | `LoopInv`, `BlocksAreResidues`, `ComputesProduct` (of `KyberNtt`), `UnpackInvertsPack`, `BytesKeepCoefficients`, `NoiseFromOwnBits`, `CompressionIsClose`, `MessageToleratesNoise` (`KyberPolyCheck`), `DecryptsToMessage`, `SizesAsDeclared` (`KyberIndcpa`), `EntryIsPrefix`, `BelowFourQ` (`KyberMatrix`) |
| `PrimitivesAreStandard` | `IsKeccak`, `IsAes`, `CountersFollow`, `PrfIsPrefix`, `IsSha2`, `PaddingIsStandard` (`Keccak`, `Aes256ctr`, `Sha2`), `ItoaIsDecimal`, `VerifyComparesAll`, `CmovTakesAllOrNothing` (`KyberUtils`) |
| `StuckOnlyOnOwnLog` | with `TypedIsKept` (`Terminal`) |
| `LinesWholeInOrder`, `ConnectionIsServed` | `LinesWhole`, `HandledIsPrefix`; `ClosedIsNoticed`, `PassedOnIsHandled` (`Transport`) |
| `EverybodyHasOneKey` | `OneKey`, `EverybodyHasKey` (`EtsiKeys`) |
| `TidyRunsOn` | with `DocumentedIsAccepted` (`Configuration`) |
| `FilesMatch` | `EdgesMatch`, `MembersMatch` (`ConfigGenerator`) |

### Bounds

*Protocol.* Three is the smallest ring in which left and right neighbour differ
and each left key is rebuilt over more than one step. More members add no new
kind of step, and the theorems cover every number. Two coins and two main keys let a mixture of two
values show. Restarts are bounded by the number of
runs of each program (`MaxEpoch`): a message of run 1 can meet a program in run
2, which is all that "stale" can be for one program. All three may restart, because an AkeOne is
sent once per run: only when every member has begun a new run can a second group form and meet the
ciphertexts of the first. What this costs is a bound of three messages on their way (`MaxInNet`):
the three AkeOnes, or an early ciphertext beside a broadcast. The others are delivered before or are
lost with a restart; the theorems have no such bound.

*Programs.* `ChatTexts`: 2 users, 2 keys, 2 lines, keys in 2 parts: enough for a
mixture, for a replaced key and for one line to overtake another. `Terminal`:
channels of capacity 2, 1 and 1 instead of 100, 100 and 256, so that they fill
up; 2 handlers. `InitLogs` stays below the capacity, as the few lines `Init`
logs do. `Transport`: 2 programs, one with two goroutines that send a message each, short
or too long, the other with pings between what it is sent (`Pingers`) and perhaps refused, once
(`Refused`). In `programs_live` one goroutine sends 2 messages, no program is refused, and the
other parts are smaller too, as liveness is dearer. `EtsiKeys`: one
requester with two that ask by its ID (a cluster) and one with one (an edge), a lost
request or answer and a crash of the server.
`Configuration`: every combination of unset, zero, negative, in and
out of range numbers, of all forms of each field, and of files that are right, of
another kind or unreadable; one file replaced at any time. `ConfigGenerator`: up
to 4 clusters of up to 4 members. Users are alike, and so are handlers: `programs`, which
checks invariants only, uses that symmetry.

*Library.* `KyberNtt` runs with all 256 coefficients, on inputs at the ends of the
range and on mixed ones; the theorem covers all inputs. `KyberPolyCheck` has
every coefficient from 0 to q for compression, and single bits at every position
of a packing group. `KyberIndcpa` runs for K = 2, 3 and 4. `KyberMatrix` has buffers of
a few values so that they run out; `KyberUtils` integers of 12 bits and bytes of
2, with vectors of 2 bytes. `Keccak`, `Aes256ctr` and `Sha2` are whole; states, keys
and messages are chosen so that every bit position is set in some and not in others, and lengths at
both sides of every border. `GakeRounds`: 1 to 5 parties with up to 2 changed
values. The sponge has rates of 2 to 4 bytes, and bytes that look like padding. The generators
have short counters and blocks, so that carries and buffer ends come together.

### Fairness

Only weak fairness is used. In the protocols: the start of each program; the handling of some
message by a session that has one (the handler loop, and a router that
delivers); the arrival of the leader's main key; in `LeaderProtocol` also the
goroutine, the answer of the ETSI server (the code asks again for ever, so a
server that is up in the end is needed; in `ClusterQkd` likewise, for the leader
and for each member), and the receive of the
cluster session, whose handlers never wait for the leader session. In
`LeaderProcess` each goroutine that can go on does, and the server answers in
the end. In `ChatTexts`, `Terminal` and `Transport` the Go scheduler runs every
goroutine; a `select` whose channel stays ready takes it in the end; nobody is
made to type. In `EtsiKeys` the callers go on, the server's handlers run, and a
server that has crashed is started again; what is lost is bounded. A leader that
never gets an answer is the exception `StuckOnlyOnEtsi` names.

## 4. What is proved

For every number of members (`N >= 1`), leader, set of coins and main keys
(`GakeKeysProofs`, `ClusterProofs`):

| theorem | statement |
|---|---|
| `CheckXsOfRing` | `CheckXs` accepts the Xs of every ring |
| `LeftKeysOfRing` | `ComputeAllLeftKeys` returns the ring's left keys, each at its owner |
| `CheckXsIsXor` | `CheckXs` accepts an array, whatever it holds, exactly if each secret is in an even number of Xs |
| `Invariance` | `Spec => []IndInv` |
| `KeyAgreementHolds`, `MainKeyNotLostHolds` | invariants of `cluster_3` |
| `TypeCorrect`, `NoAbortHolds`, `MainKeyAgreementHolds` | what else follows from `IndInv` |
| `Refinement` | `Spec => ImplementsGroupKeyExchange` |

with ends and restarts of any members, any number of runs of each (`MaxEpoch`) and any
messages lost with them or late (`ClusterProofs`):

| theorem | statement |
|---|---|
| `RestartInvariance` | `RestartSpec => []RestartInv` |
| `LiveKeyAgreementHolds`, `LiveMainKeyAgreementHolds`, `NoGarbageInKeyHolds` | the invariants of `cluster_restart` |
| `KeyFinalInRunHolds` | `RestartSpec => KeyFinalInRun` |

for every number of clusters, every mixture of edges and every choice of
the edges' secrets, equal ones included (`LeaderProtocolProofs`):

| theorem | statement |
|---|---|
| `Invariance` | `Spec => []IndInv` |
| `MainKeyAgreementHolds`, `TypeCorrect`, `NoAbortHolds` | the invariant of `leaders_3`, and what else follows from `IndInv` |
| `HandedOverOnceHolds` | `Spec => HandedOverOnce` |
| `EqualNeighboursStallHolds` | the invariant of `leaders_shared_file` |

for every number of members, leader and sets of keys with QKD
(`ClusterQkdProofs`):

| theorem | statement |
|---|---|
| `Invariance` | `Spec => []IndInv` |
| `MainKeyAgreementHolds`, `MainKeyNotLostHolds` | what follows from `IndInv` |
| `Refinement` | `Spec => ImplementsGroupKeyExchange` |

for every number of clusters, one included, every configuration and any messages
(`LeaderProcessProofs`):

| theorem | statement |
|---|---|
| `InitNeverWaitsHolds` | `main` never waits for a handler that only it can start |
| `NewestAnnouncedHolds` | the last `KeyMsg` has the newest keys of both sessions |

for every size of the parts that `MCPrograms` puts side by side (`ProgramsProofs`):

| theorem | for any | statement |
|---|---|---|
| `TextUnderOneKeyHolds` | users, keys, lines, parts of a key | a text is under one whole key, or `SendText` ran beside a copy |
| `OvertakenOnlyBesideHolds` | the same | lines overtake each other only from goroutines that were there together |
| `LinesWholeInOrderHolds` | programs, goroutines that send, messages | lines are whole where they arrive, and what comes is handled in order up to a line too long |
| `OneKeyHolds` | programs, edges and clusters, lost requests, crashes | the first half of `EverybodyHasOneKey`: who gets a key by its ID has the announcer's key |
| `TidyRunsOnHolds` | configurations, files and replacements | a documented configuration is accepted; one that was accepted and is tidy neither panics nor ends the program unless a file was replaced |
| `FilesMatchHolds` | clusters and members | neighbours have each other's keys; the members of a cluster have one list and each its own place in it |

for the key arithmetic and the library as `MCExchanges` puts them side by side (`ExchangesProofs`):

| theorem | for any | statement |
|---|---|---|
| `HelpersAreExactHolds` | parties, keys that need not come from a ring | `Mod` is the remainder, `CheckXs` and `ComputeAllLeftKeys` are the XORs they stand for |
| `KeyNamesTranscriptHolds` | variant of the 2-AKE, sessions, changed messages | a key stands for the messages of exactly one exchange |
| `AcceptedRoundsAgreeHolds` | owners, texts, coins; parties, changed values | a commitment opens to nothing else; all that accept the rounds have the same session key, of the ring's left keys |
| `StreamsAreWholeHolds` | rates, lengths of blocks, counters, requests | the sponge keeps messages apart and gives one stream; the generators hand out each byte of their blocks once, and none of a block that their next state is made of; every byte asked for is written |

and for every polynomial with coefficients in -q .. q, every factor with coefficients in
0 .. 4q - 1 and every table of zetas below q (`KyberNttProofs`):

| theorem | statement |
|---|---|
| `MontgomeryReduce`, `BarrettReduce` | range and congruence of the two reductions, for every argument |
| `LoopInvariant` | the bounds of all coefficients after every butterfly |
| `LoopsDoNotOverflow` | no sum of `ntt`, `basemul` and `invntt` leaves an `int16_t`, and none of their products the range `montgomery_reduce` asks for |

*Assumptions.* `NAssumption` (N is a positive natural), `LeaderAssumption` (the leader is
a member), `NoKeyAssumption` (the unset value is none of the set ones);
`NClustersAssumption`, `EdgeModesAssumption`, `ModesAssumption` and the leaders'
`NoKeyAssumption` likewise; `ChatAssumption` (at least one key and one part);
`TransportAssumption` (the pinger is one of the goroutines), `EtsiAssumption` (each getter
follows one announcer, and is none), `ConfigurationAssumption` (fields have the types of
the structs of `config.go`, whatever their values);
`MaxEpoch \in Nat \ {0}` is a hypothesis of the theorems about restarts;
`MCExchanges` assumes that `Modes` are variants that exist, that bytes are bytes and a block is not
empty (`RatesAssumption`, `BytesAssumption`, `SeedAssumption`), and in `DrbgAssumption` that a request
of `randombytes` takes fewer blocks than the last three bytes of V count, 256 MiB, while the library never asks
for more than a few hundred bytes: with so many that V comes round, a block would be made twice;
`ZetasAssumption`, `InputsAssumption` and `FactorsAssumption` (what the tables hold, what the callers
of `ntt` give, and what they multiply with: reduced polynomials, unpacked keys of 12 bits, entries of
the matrix up to 4q - 1; TLC checks them for the table of `ntt.c` and the inputs of the run).

*The arithmetic.* `CheckXs` and the chain of left keys are recursive functions.
Induction theorems that take an operator cannot be used with the provers at
hand, so the proofs exhibit the function that satisfies the recursive equation (the
telescoped XOR) and show that two solutions agree, by looking at the
least argument where they differ (`UniqueChain`, from `WFMin`).

*The invariant.* `KeyAgreement` does not carry itself: that the key computed
from the arrays is the group key depends on every entry being genuine and on
the own left key being the ring's. `RingInvariant` says so of the arrays and of
every message on its way, and that an entry of a member exists only once the
member has both its keys (`HasJoined`), which is what makes the own left key available
when the last entry comes in. `MainInvariant` says that there is one ciphertext,
that it exists only when the leader has both its keys, and `MainKeyNotLost`.

*The steps.* The three handlers of the key exchange are first shown to be a
`RingStep`: they add ring keys and genuine entries, and finalize with the group
key or not at all (`FinalizeOutcome`, from the two arithmetic theorems). Each
part of the invariant and the refinement are then proved of a
`RingStep` once. `Start`, `onKey` and `onMainSessionKey` have lemmas of their own.

*Restarts.* An entry and a 2-AKE key name the runs of the programs that made them, so
`RestartInv` can say of every entry and message, old ones too, which run it is from
(`EntryInvariant`, `MessageInvariant`). An array may hold entries of several runs. `CheckXs` is a parity
check (`CheckXsIsXor`): in an array it accepts, the secret of an edge is in both its ends' entries
or in neither (`LoneSecret`). As each `AkeOne` is sent once and answered once
(`PendingUnused`, `OneRunPerAkeOne`), a secret in an entry tells the run of its other
end, so that an accepted array is one ring's, and the key computed from it holds only
secrets on which two ends agreed (`KeyedInvariant`). Two such keys may still be of
different rings, one older; `RunsInOrder` excludes it for two running members, as the ring
of a key with one present run has all present runs. With one member
X is zero, which counts as not received, or not accepted, and there never is a key. A main session key
goes out only under the key of the leader's present run (`MainKeyInvariant`).
Before it was proved TLC has checked `RestartInv` on three members with a leader that
restarts, on two that both do, and on a single member with three runs.

*The leaders.* That all get the same key needs the same facts about entries as
above (`ViewInvariant`). That a leader never waits to hand over a second key
needs more: each Xi is received once (`XiPending`: the recipient of a message
does not have it yet, nor does it lie twice in `net` and in a waiting handler),
and each neighbour key comes once, by whichever of the three ways
(`EdgeInvariant`: a message of a 2-AKE or with a key ID says how far its two
ends are). Both parts are proved apart: the five events that bring a neighbour
key are instances of `Joins`, for which `JoinStep` proves `ViewInvariant` once, and
each event then has a lemma for what it does to the edges. A dropped answer leaves the keys as they were
(`LeftKeyDropped`, `RightKeyDropped`).

*QKD.* `KeyInvariant` says that every cluster session key, set or being fetched, is the one
of the file or the server, that there is one ciphertext and it exists only once the
leader has both keys, and `MainKeyNotLost`. The three events that bring the key (`Start` with a file,
the leader's goroutine, a member's goroutine) are one step,
`EstablishClusterKey`, whose effect is proved once (`EstablishEffect`) and used
for the invariant and for the refinement.

*The leader process.* While `main` is in one of its two `Init` calls no handler
runs and no key has been handed over (`BeforeHandlers`), and the leader session
starts without Xs (`NoXsAtFirst`). The own Xi alone then fills all slots only
with one cluster, where it is zero and fills none, or is not and fails `checkXs`
(`OwnXiNeverWaits`). `NewestAnnounced` needs the same facts, since
`clusterSession.Init` sets its key without announcing it.

*Texts.* `KeyInv` says what the key looks like in the middle of a copy, that what
`SendText` has read beside no copy is of the key in place, and that every text is
under one key wherever it is. `OrderInv` is a statement about every pair of texts
of a user, in all the places the two may be (two goroutines, a goroutine and a
connection, one connection, a connection and what is printed, both printed): the
later one was typed beside the earlier, or comes after it.

*Lines and messages.* A connection holds whole lines, and half a line more exactly while
the goroutine that holds the mutex is in the middle of one: of its own message
(`LineEnds`). On the way back `ReceiveInv` relates what was forwarded to what was got: what was got is a
beginning of it, and the inbox holds all that follows, in order, with nothing but pongs
between (`Awaited`, with the places as witness). It has a lemma for each end at which
this changes: a line comes in, a pong or a text is taken out.

*Keys by their ID.* A getter asks only once its leader has announced (`AnsweredByID`), and
an announced ID is what the requester returned, for good (`AnnouncedIsKept`); answers that
were lost, keys made again and crashes change neither.

*Configurations.* While no file has been replaced, what was accepted is still valid, so
each accessor finds what `validate` found, by the same rule (`ValidEdge`, `ValidCluster`);
afterwards it may end the program, but the indices it uses depend on the numbers only
(`NumbersOk` and `Tidy`). `Allowed` is what a call may return in each case.

*The generator.* `WrittenFor` gives every file and every configuration of the clusters so
far. A directory belongs to one cluster (`DirectoriesApart`), so that the next leaves them
alone; the left neighbour of the right neighbour is the leader itself (`Neighbours`).

*Helpers of the group key.* While the array is filled every entry is a set of atoms. `Mod` is division with
rest with the sign put right (`ModOfAny`). The left keys are a
chain of XORs from the own index down around the ring, and each step down adds one index to the
path (`BetweenGrows`, `LeftKeysHold`); that `CheckXs` tells a zero XOR is `CheckXsIsXor` of `GakeKeysProofs`.

*The 2-AKE.* `KexInv` says of every message that it is one a session sends, possibly with a changed
ciphertext, and of every session that has ended that its key is what its own randomness and a message
that was sent make. The keys are terms: two that are equal have equal parts, and each part, also what an
implicit rejection makes, contains the ciphertext it was decapsulated from. So the messages of the
exchange can be read off the key (`KeyGivesTranscript`), and equal messages give equal keys
(`TranscriptGivesKey`).

*Rounds.* `GakeInv` follows the array of parties through the rounds. Neighbours always have the same
key. A changed value differs from what was sent by errors that are in no key, and an X and
the message inside its commitment never carry the same one (`ReceivedFrom`). A party accepts only if every
commitment opens to the X and the coins it has, so neither was changed (`CheckedCommitments`), and the chain of
left keys it computes is the ring's.

*Sources of bytes.* What a source has handed out is described byte by byte, and its state as
the place that comes next. For the seed expander (`SeedInv`) the counter names the next block
and the buffer the one before, counting with carries is adding one (`DigitsNext`), and a byte of the buffer
has the place `out` has reached (`FromBuffer`). In `randombytes` V only counts up within
a call (`DrbgCounted`: where it began, and the counter of each block); its last
three digits alone count modulo `LowLimit` (`LowNext`), so that the blocks of the call and the
three of the update after it differ (`FewBlocks`, `PlacesDiffer`), and those of other calls by
their key (`DrbgApart`). The blocks absorbed by the sponge, one after the other, are
the message, its suffix, zeros, and 128 more in the last byte (`BlocksAre`), so
that the message can be read back (`ReadBack`); a state permuted p times squeezes the stream from its
p-th block on (`SqueezedIs`, `PrefixGrows`).

*The transform.* A coefficient grows by at most q per layer, so that after seven
layers it is at most 8q, which fits 16 bits; `poly_reduce` brings it back. `LoopInv` gives,
for each place of the loops, the bound of the part that the present layer has done and of the rest.

## 5. Only model-checked

- Liveness under fairness, with `RunsEnd` and the second half of `EverybodyHasOneKey`.
- `StuckOnlyOnEtsi` and `StuckOnlyOnOwnLog`, which speak of enabled actions; with the latter
  `TypedIsKept`, which filters and joins sequences of any length.
- `KyberIsExact`: that the transform multiplies, that packing is inverted, that noise is small
  enough for a message. They quantify over sums of 256 products, powers and bit fields of
  integers, about which the provers know nothing; that needs induction over data. Of
  the arithmetic only the reductions and the bounds of the loops are proved. `KyberMatrix` filters
  sequences, by a recursive operator.
- `PrimitivesAreStandard`: code and standard are compared on fixed inputs, bit by bit.

## 6. Disagreements between the code and its texts

With a run that shows them:

- `leader_alone`: the configuration check says that `nClusters` "must be set and
  > 0" (`util/config.go:144`), and so accepts 1, while the generator refuses it
  ("you need atleast 2 clusters", `util/cmd/main.go:121`). With one cluster the
  leader's two neighbour keys are the same 2-AKE secret, its Xi is zero, zero
  counts as not received, and the main session key never comes.
- `chat_texts_torn`: `SendText` reads the key while a handler copies another into
  it, and a text may go out under a mixture of both, which nobody can open; the
  type of the message is documented as "Main Session Key encrypted text message."
  (`util/message.go:48`). `TextUnderOneKey` says that it happens only beside a copy.

Seen while modelling, without a run:

- `Configuration`: `crypto` is trimmed by the check and not by the accessors
  (`util/config.go:261`), so that a path after a blank is accepted and then not
  taken for one; `memberID` and `clusterID` are not compared with the numbers
  (`util/config.go:86`); `crypto` with only one of `publicKeys` and `secretKey`
  is accepted, although a message of the check refuses it.
- `Terminal`: the loop waits for itself when the log channel is full at the moment
  `SendText` logs (`util/tui.go:173`); the exception in `StuckOnlyOnOwnLog`.
- `KyberMatrix`: `rej_uniform` is documented to give integers mod q and gives
  up to 4q - 1, which the products take (`BelowFourQ`).
- `KyberUtils`: the tail of `verify` in avx2 marks equal bytes; no caller has a tail.
- `GakeRounds`: the session key of `gake.c` is the hash of 64 bytes, two left keys,
  of all that is put together for it.

## 7. Not modelled

- The strength of the cryptography, probabilities (of a wrong decryption, of
  colliding secrets) and timing. The protocol modules take the 2-AKE, the commitments and the
  hash as ideal; `KyberKex` and `KyberCommitment` check what they assume of
  them, over an ideal encryption.
- The assembly and intrinsics of `avx2`: other instructions for the functions of
  `ref/`, which is what the Go program is built with (`gake/wrapper.go:4`).
- The values of the SHA-2 constants (parameters of `Sha2`), OpenSSL.
- JSON, base64 and HTTP as encodings; terminal drawing; the library's speed tests and printing.
- The routing server, which is not in the repository. It is assumed to keep
  messages for clients that have not logged in yet, to pass on what it got from
  one client in that order, and to answer pings; in `Transport` it may refuse a program
  with an error and close a connection.
- Restarts of a QKD cluster: the key ID and the `KeyMsg` are sent once, and a member that is started again is
  not promised another. A leader that restarts there sends a second key ID.
- Leaders and all their clusters in one state space. The two protocols meet in
  the main session key only: `LeaderProtocol` hands one over to each cluster at
  most once and the same to all; `ClusterProtocol` and `ClusterQkd` take any
  main key at any time.
