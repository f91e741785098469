------------------------------- MODULE KyberKex -------------------------------
(***************************************************************************)
(* The two-party exchanges of kex.c and kex_qrom.c.  A, the initiator, has *)
(* several exchanges with B under way: any first message may reach any of  *)
(* B's, any answer any of A's, and a ciphertext may arrive changed.        *)
(***************************************************************************)
EXTENDS KyberKem, Naturals, FiniteSets

CONSTANTS
    Modes,          \* of "uake", "ake" and "qrom"
    Sessions,       \* exchanges on each side
    MaxChanged      \* bound: messages that arrive changed

VARIABLES mode, initiator, responder, sent, answered, changed

vars == <<mode, initiator, responder, sent, answered, changed>>

Rand(who, s, what) == <<"rand", who, s, what>>

KeysOf(who) == IF mode = "qrom" THEN kem_qrom_keypair(Rand(who, 0, "seed"))
               ELSE crypto_kem_keypair(Rand(who, 0, "seed"), Rand(who, 0, "z"))
A == KeysOf("a")
B == KeysOf("b")

\* K is an output parameter; on a failed check kex_qrom.c leaves it as it was.
Unset(who, s) == <<"unset", who, s>>

Init ==
    /\ mode \in Modes
    /\ initiator = [s \in Sessions |-> [pc |-> "start"]]
    /\ responder = [s \in Sessions |-> [pc |-> "start"]]
    /\ sent = {} /\ answered = {} /\ changed = 0

\* kex_uake_initA and kex_ake_initA are the same.
kex_ake_initA(s) ==
    LET e == crypto_kem_keypair(Rand("a", s, "seed"), Rand("a", s, "z"))
        c == crypto_kem_enc(B.pk, Rand("a", s, "m"))
    IN  [send |-> [pk |-> e.pk, ct |-> c.ct], tk |-> c.ss, sk |-> e.sk]

\* kex_qrom.c
init(s) ==
    LET mj == Rand("a", s, "m")
        e  == indcpa_keypair(Rand("a", s, "seed"))
    IN  [send |-> [pk |-> e.pk, ct |-> indcpa_enc(mj, B.pk, hash_h(mj))], tk |-> mj, sk |-> e.sk]

InitA(s) ==
    LET st == IF mode = "qrom" THEN init(s) ELSE kex_ake_initA(s)
    IN  /\ initiator[s].pc = "start"
        /\ initiator' = [initiator EXCEPT ![s] =
                            [pc |-> "sent", send |-> st.send, tk |-> st.tk, sk |-> st.sk]]
        /\ sent' = sent \union {st.send}
        /\ UNCHANGED <<mode, responder, answered, changed>>

kex_uake_sharedB(s, recv) ==
    LET c == crypto_kem_enc(recv.pk, Rand("b", s, "m1"))
    IN  [send |-> <<c.ct>>, k |-> shake256(<<c.ss, crypto_kem_dec(recv.ct, B.sk)>>)]

kex_ake_sharedB(s, recv) ==
    LET c1 == crypto_kem_enc(recv.pk, Rand("b", s, "m1"))
        c2 == crypto_kem_enc(A.pk, Rand("b", s, "m2"))
    IN  [send |-> <<c1.ct, c2.ct>>,
         k    |-> shake256(<<c1.ss, c2.ss, crypto_kem_dec(recv.ct, B.sk)>>)]

\* The hash takes KEX_SSBYTES of the message that is put together: mi alone.
der_resp(s, recv) ==
    LET mi     == Rand("b", s, "m1")
        mtilde == Rand("b", s, "m2")
        mj     == indcpa_dec(recv.ct, B.sk)
    IN  [send |-> << indcpa_enc(mi, A.pk, hash_h(mi)), indcpa_enc(mtilde, recv.pk, hash_h(mtilde)) >>,
         k    |-> IF recv.ct = indcpa_enc(mj, B.pk, hash_h(mj)) THEN hash_h(mi) ELSE Unset("b", s)]

SharedB(s) ==
    \E recv \in sent :
        LET r == CASE mode = "uake" -> kex_uake_sharedB(s, recv)
                   [] mode = "ake"  -> kex_ake_sharedB(s, recv)
                   [] mode = "qrom" -> der_resp(s, recv)
        IN  /\ responder[s].pc = "start"
            /\ responder' = [responder EXCEPT ![s] =
                                [pc |-> "done", recv |-> recv, send |-> r.send, k |-> r.k]]
            /\ answered' = answered \union {r.send}
            /\ UNCHANGED <<mode, initiator, sent, changed>>

kex_uake_sharedA(st, recv) ==
    shake256(<<crypto_kem_dec(recv[1], st.sk), st.tk>>)

\* The two shared secrets of the answer change places.
kex_ake_sharedA_Swapped(st, recv) ==
    shake256(<<crypto_kem_dec(recv[2], A.sk), crypto_kem_dec(recv[1], st.sk), st.tk>>)

kex_ake_sharedA(st, recv) ==
    shake256(<<crypto_kem_dec(recv[1], st.sk), crypto_kem_dec(recv[2], A.sk), st.tk>>)

\* The second ciphertext is decrypted, but nothing of it reaches the hash.
der_init(s, recv) ==
    LET mi == indcpa_dec(recv[1], A.sk)
    IN  IF indcpa_enc(mi, A.pk, hash_h(mi)) = recv[1] THEN hash_h(mi) ELSE Unset("a", s)

SharedA(s) ==
    \E recv \in answered :
        LET st == initiator[s]
            k  == CASE mode = "uake" -> kex_uake_sharedA(st, recv)
                    [] mode = "ake"  -> kex_ake_sharedA(st, recv)
                    [] mode = "qrom" -> der_init(s, recv)
        IN  /\ st.pc = "sent"
            /\ initiator' = [initiator EXCEPT ![s] =
                                [pc |-> "done", send |-> st.send, recv |-> recv, k |-> k]]
            /\ UNCHANGED <<mode, responder, sent, answered, changed>>

\* What the network may do to a ciphertext of either message.
Change ==
    /\ changed < MaxChanged
    /\ changed' = changed + 1
    /\ \/ \E m \in sent : \E F \in {Near(m.ct), Far(m.ct)} :
              /\ m.ct[1] = "ct" /\ sent' = sent \union {[m EXCEPT !.ct = F]}
              /\ UNCHANGED answered
       \/ \E m \in answered : \E n \in DOMAIN m : \E F \in {Near(m[n]), Far(m[n])} :
              /\ m[n][1] = "ct" /\ answered' = answered \union {[m EXCEPT ![n] = F]}
              /\ UNCHANGED sent
    /\ UNCHANGED <<mode, initiator, responder>>

Next == \/ \E s \in Sessions : InitA(s) \/ SharedB(s) \/ SharedA(s)
        \/ Change

Spec == Init /\ [][Next]_vars
-----------------------------------------------------------------------------
Finished(s, t) == initiator[s].pc = "done" /\ responder[t].pc = "done"

SameTranscript(s, t) == /\ responder[t].recv = initiator[s].send
                        /\ initiator[s].recv = responder[t].send

\* Two sides that have seen the same two messages have the same key, whatever else
\* is under way between them.
SameTranscriptSameKey ==
    \A s, t \in Sessions : Finished(s, t) /\ SameTranscript(s, t) => initiator[s].k = responder[t].k

\* The exchanges of kex.c give the same key only for the same transcript: an answer
\* to another first message, or a changed ciphertext, gives a key nobody else has.
SameKeySameTranscript ==
    mode # "qrom" =>
        \A s, t \in Sessions :
            Finished(s, t) /\ initiator[s].k = responder[t].k => SameTranscript(s, t)

\* Two exchanges of one side never end with one key, except in kex_qrom.c when both
\* have got the same answer.
KeysOfOneSideDiffer ==
    \A s, t \in Sessions : s # t =>
        /\ responder[s].pc = "done" /\ responder[t].pc = "done" => responder[s].k # responder[t].k
        /\ initiator[s].pc = "done" /\ initiator[t].pc = "done" /\ initiator[s].k = initiator[t].k
              => mode = "qrom" /\ initiator[s].recv[1] = initiator[t].recv[1]

\* kex_qrom.c, which returns nothing, leaves the caller's key as it was only if the
\* ciphertext under the long-term key has arrived changed.
UnsetOnlyWhenChanged ==
    /\ \A t \in Sessions : responder[t].pc = "done" =>
          (responder[t].k = Unset("b", t) <=> mode = "qrom" /\ responder[t].recv.ct[1] # "ct")
    /\ \A s \in Sessions : initiator[s].pc = "done" =>
          (initiator[s].k = Unset("a", s) <=> mode = "qrom" /\ initiator[s].recv[1][1] # "ct")
=============================================================================
