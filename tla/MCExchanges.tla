------------------------------ MODULE MCExchanges ------------------------------
(***************************************************************************)
(* The operators of GakeKeys against reference definitions, and beside     *)
(* them, for one run of TLC, the key exchange of the library with what it  *)
(* calls, and its sources of random bytes: a behaviour is one of the part  *)
(* `component` names.  Variables have no value where they are not in use.  *)
(***************************************************************************)
EXTENDS GakeKeys, FiniteSets, Sequences

CONSTANTS
    Components,
    Atoms, MaxN,                                    \* GakeKeys: the random secrets, and the parties
    Modes, Sessions, MaxChangedMsgs,                \* KyberKex
    Owners, Texts, Coins,                           \* KyberCommitment
    MaxParties, MaxChanged,                         \* GakeRounds
    SHAKE128_RATE, SHAKE256_RATE, SHA3_256_RATE, SHA3_512_RATE,
    SpongeBytes, MaxMessage, MaxSqueezed,           \* KeccakSponge
    SeedBase, SeedBlockLen,                         \* SeedExpander
    DrbgBase, VLen, DrbgBlockLen, MaxDrbgCalls, MaxRequest, \* CtrDrbg
    MaxLen, MaxCalls,                               \* RandomBytes
    None

\* CASE in the steps of KyberKex names no other.
ASSUME ModesAssumption == Modes \subseteq {"uake", "ake", "qrom"}

\* A block has at least one byte.
ASSUME RatesAssumption == {SHAKE128_RATE, SHAKE256_RATE, SHA3_256_RATE, SHA3_512_RATE} \subseteq Nat \ {0}
ASSUME BytesAssumption == SpongeBytes \subseteq 0 .. 255 /\ MaxSqueezed \in Nat

ASSUME SeedAssumption == SeedBase \in Nat \ {0, 1} /\ SeedBlockLen \in Nat \ {0}

\* No request takes as many blocks as the last three digits of V count, 256 MiB in the code.
ASSUME DrbgAssumption ==
    /\ DrbgBase \in Nat \ {0, 1} /\ DrbgBlockLen \in Nat \ {0}
    /\ VLen \in Nat /\ VLen >= 3
    /\ MaxRequest \in Nat /\ (MaxRequest \div DrbgBlockLen) + 4 < DrbgBase * DrbgBase * DrbgBase

VARIABLES
    component,
    n, i, keyLeft, xs, filled,
    mode, initiator, responder, sent, answered, changedMsgs,
    qrom, committed, opening, presented, commitPc,
    num_parties, gakePc, party, parties, changed, broadcast,
    fn, m, sponge, squeezed,
    maxlen, length_remaining, ctr, buffer, buffer_pos, asked, xlen, out, rc,
    Key, V, reseed_counter, drbgXlen, drbgOut, requested, served, kept,
    getrandom, fd, calls, wanted, written, outlen, callPc

keyVars     == <<n, i, keyLeft, xs, filled>>
kexVars     == <<mode, initiator, responder, sent, answered, changedMsgs>>
commitVars  == <<qrom, committed, opening, presented, commitPc>>
gakeVars    == <<num_parties, gakePc, party, parties, changed, broadcast>>
spongeVars  == <<fn, m, sponge, squeezed>>
seedVars    == <<maxlen, length_remaining, ctr, buffer, buffer_pos, asked, xlen, out, rc>>
drbgVars    == <<Key, V, reseed_counter, drbgXlen, drbgOut, requested, served, kept>>
randomVars  == <<getrandom, fd, calls, wanted, written, outlen, callPc>>

Rates == [shake128 |-> SHAKE128_RATE, shake256 |-> SHAKE256_RATE,
          sha3_256 |-> SHA3_256_RATE, sha3_512 |-> SHA3_512_RATE]

Kex    == INSTANCE KyberKex WITH MaxChanged <- MaxChangedMsgs, changed <- changedMsgs
Commit == INSTANCE KyberCommitment WITH c <- presented, pc <- commitPc
Gake   == INSTANCE GakeRounds WITH pc <- gakePc, i <- party, sent <- broadcast
Sponge == INSTANCE KeccakSponge WITH Rate <- Rates, Bytes <- SpongeBytes, MaxLen <- MaxMessage,
                                     MaxBlocks <- MaxSqueezed, s <- sponge, out <- squeezed
Seed   == INSTANCE SeedExpander WITH Base <- SeedBase, BlockLen <- SeedBlockLen
Drbg   == INSTANCE CtrDrbg WITH Base <- DrbgBase, BlockLen <- DrbgBlockLen, MaxCalls <- MaxDrbgCalls,
                                MaxLen <- MaxRequest, xlen <- drbgXlen, out <- drbgOut, asked <- requested
Random == INSTANCE RandomBytes WITH asked <- wanted, out <- written, pc <- callPc
-----------------------------------------------------------------------------
\* Arrays xs of arbitrary keys, which need not come from a ring, one key after the other,
\* for party i of n.
KeysInit ==
    /\ n \in 1 .. MaxN
    /\ i \in 0 .. n-1
    /\ keyLeft \in SUBSET Atoms
    /\ xs = [j \in 0 .. n-1 |-> Zero]
    /\ filled = 0

Fill ==
    /\ filled < n
    /\ \E x \in SUBSET Atoms : xs' = [xs EXCEPT ![filled] = x]
    /\ filled' = filled + 1
    /\ UNCHANGED <<n, i, keyLeft>>

ExchangesInit ==
    /\ component \in Components
    /\ IF component = "keys" THEN KeysInit
       ELSE n = None /\ i = None /\ keyLeft = None /\ xs = None /\ filled = None
    /\ IF component = "kex" THEN Kex!Init
       ELSE /\ mode = None /\ initiator = None /\ responder = None
            /\ sent = None /\ answered = None /\ changedMsgs = None
    /\ IF component = "commitment" THEN Commit!Init
       ELSE qrom = None /\ committed = None /\ opening = None /\ presented = None /\ commitPc = None
    /\ IF component = "gake" THEN Gake!Init
       ELSE /\ num_parties = None /\ gakePc = "done" /\ party = None
            /\ parties = None /\ changed = 0 /\ broadcast = None
    /\ IF component = "sponge" THEN Sponge!Init
       ELSE fn = None /\ m = None /\ sponge = None /\ squeezed = None
    /\ IF component = "seedexpander" THEN Seed!Init
       ELSE /\ maxlen = None /\ length_remaining = None /\ ctr = None /\ buffer = None /\ buffer_pos = None
            /\ asked = None /\ xlen = None /\ out = None /\ rc = None
    /\ IF component = "drbg" THEN Drbg!Init
       ELSE /\ Key = None /\ V = None /\ reseed_counter = None /\ drbgXlen = None
            /\ drbgOut = None /\ requested = None /\ served = None /\ kept = None
    /\ IF component = "randombytes" THEN Random!Init
       ELSE /\ getrandom = None /\ fd = None /\ calls = None /\ wanted = None
            /\ written = None /\ outlen = None /\ callPc = "caller"

ExchangesNext ==
    /\ \/ /\ component = "keys" /\ Fill
          /\ UNCHANGED <<kexVars, commitVars, gakeVars, spongeVars, seedVars, drbgVars, randomVars>>
       \/ /\ component = "kex" /\ Kex!Next
          /\ UNCHANGED <<keyVars, commitVars, gakeVars, spongeVars, seedVars, drbgVars, randomVars>>
       \/ /\ component = "commitment" /\ Commit!Next
          /\ UNCHANGED <<keyVars, kexVars, gakeVars, spongeVars, seedVars, drbgVars, randomVars>>
       \/ /\ component = "gake" /\ Gake!Next
          /\ UNCHANGED <<keyVars, kexVars, commitVars, spongeVars, seedVars, drbgVars, randomVars>>
       \/ /\ component = "sponge" /\ Sponge!Next
          /\ UNCHANGED <<keyVars, kexVars, commitVars, gakeVars, seedVars, drbgVars, randomVars>>
       \/ /\ component = "seedexpander" /\ Seed!Next
          /\ UNCHANGED <<keyVars, kexVars, commitVars, gakeVars, spongeVars, drbgVars, randomVars>>
       \/ /\ component = "drbg" /\ Drbg!Next
          /\ UNCHANGED <<keyVars, kexVars, commitVars, gakeVars, spongeVars, seedVars, randomVars>>
       \/ /\ component = "randombytes" /\ Random!Next
          /\ UNCHANGED <<keyVars, kexVars, commitVars, gakeVars, spongeVars, seedVars, drbgVars>>
    /\ UNCHANGED component

ExchangesVars == <<component, keyVars, kexVars, commitVars, gakeVars, spongeVars, seedVars, drbgVars, randomVars>>

\* The callers of the exchange call round after round, and the kernel does not interrupt a
\* read for ever.
ExchangesSpec ==
    /\ ExchangesInit /\ [][ExchangesNext]_ExchangesVars
    /\ WF_gakeVars(component = "gake" /\ Gake!Next)
    /\ WF_randomVars(component = "randombytes" /\ Random!Open)
    /\ WF_randomVars(component = "randombytes" /\ Random!Read)
    /\ WF_randomVars(component = "randombytes" /\ Random!Return)
-----------------------------------------------------------------------------
Odd(S) == Cardinality(S) % 2 = 1

\* XOR of keyLeft and of the keys at the indices in S, bit by bit.
XorOver(S) == {a \in Atoms : Odd({j \in S : a \in xs[j]}) # (a \in keyLeft)}

\* The indices met on the way from i down to q around the ring, i left out.
Between(q) == IF q <= i THEN q .. i-1 ELSE (q .. n-1) \union (0 .. i-1)

\* util.CheckXs accepts exactly the arrays in which every secret occurs an
\* even number of times.
CheckXsIsParity ==
    component = "keys" => (CheckXs(xs, n) <=> \A a \in Atoms : ~Odd({j \in 0 .. n-1 : a \in xs[j]}))

\* util.ComputeAllLeftKeys puts at q the XOR of keyLeft and the Xs between q and
\* the party itself.
LeftKeysAreXorsBetween ==
    component = "keys" => \A q \in 0 .. n-1 : ComputeAllLeftKeys(n, i, keyLeft, xs)[q] = XorOver(Between(q))

\* mod of utils.c is the mathematical remainder, for negative numbers too.
ModIsRemainder == component = "keys" => \A x \in -2*MaxN .. 2*MaxN : Mod(x, n) = x % n

(***************************************************************************)
(* What the run checks: the properties of the modules, stated there one by *)
(* one, taken together where they are about one promise.                   *)
(***************************************************************************)
\* The helpers of the group key compute what their names say for every input: the XOR of Xs,
\* the chain of left keys, mod of a negative number.
HelpersAreExact == ModIsRemainder /\ CheckXsIsParity /\ LeftKeysAreXorsBetween

\* Whatever reaches whom, a key of an exchange (kex.c, kex_qrom.c) stands for the messages of
\* exactly one: who saw the same have the same key, who saw another message have another,
\* and it is unset only after a change.
KeyNamesTranscript ==
    component = "kex" =>
        /\ Kex!SameTranscriptSameKey /\ Kex!SameKeySameTranscript
        /\ Kex!KeysOfOneSideDiffer /\ Kex!UnsetOnlyWhenChanged

\* All parties of gake.c that accept have the same session key, made of the left keys each
\* neighbour has, and accept only what was sent: a commitment opens to nothing but what it
\* was made of.
AcceptedRoundsAgree ==
    /\ component = "commitment" => Commit!OpensOnlyToItsOwn /\ Commit!DecryptsOnlyUnchanged
    /\ component = "gake" => /\ Gake!NeighboursShareKeys /\ Gake!AcceptsOnlySent
                             /\ Gake!MasterKeysAreLeftKeys /\ Gake!AllKeysEqual

\* However the requests are cut into blocks, each source of bytes hands out one stream:
\* nothing twice, nothing left out, nothing its next state is made of, every byte asked for
\* written.  Two inputs of the sponge never give the same one.
StreamsAreWhole ==
    /\ component = "sponge" => Sponge!PaddingIsInjective /\ Sponge!OutputIsOneStream
    /\ component = "seedexpander" => Seed!OneStream /\ Seed!Accounted
    /\ component = "drbg" => Drbg!SecretsNotServed /\ Drbg!RequestFilled
    /\ component = "randombytes" => Random!ReturnsFilled

\* Rounds in which nothing is changed end with every party accepting, and a call for random
\* bytes comes back or ends the program, whatever the kernel returns and however often it
\* interrupts.
RunsEnd == Gake!HonestRunAccepts /\ Random!CallEnds
=============================================================================
