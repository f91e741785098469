--------------------------- MODULE KyberCommitment ----------------------------
(***************************************************************************)
(* The commitments of commitment.c and commitment_qrom.c: an encryption    *)
(* with given coins (indcca.c, indcca_qrom.c) that whoever knows message   *)
(* and coins repeats.  AES-256-GCM comes from OpenSSL and is ideal here.   *)
(***************************************************************************)
EXTENDS KyberKem, Integers

gcm_encrypt(m, key, iv) == [dem |-> <<"gcm", key, iv, m>>, tag |-> <<"tag", key, iv, m>>]

\* -1 when EVP_DecryptFinal_ex finds another tag: the plaintext is written all the same.
gcm_decrypt(dem, tag, key, iv) ==
    LET opens == dem[1] = "gcm" /\ dem[2] = key /\ dem[3] = iv
        m     == IF opens THEN dem[4] ELSE <<"noise", dem>>
    IN  [m |-> m, ok |-> tag = <<"tag", key, iv, m>>]

pke_keypair(qrom, who) ==
    IF qrom THEN LET kp == kem_qrom_keypair(<<"seed", who>>) IN [pk |-> kp.pk, sk |-> [indcpa |-> kp.sk]]
    ELSE crypto_kem_keypair(<<"seed", who>>, <<"z", who>>)

\* coins is the IV and then the coins of the KEM.
pke_enc(qrom, m, pk, coins) ==
    LET kem == IF qrom THEN kem_qrom_encaps(pk, coins.kem) ELSE crypto_kem_det_enc(pk, coins.kem)
        enc == gcm_encrypt(m, kem.ss, coins.iv)
    IN  [kem |-> kem.ct, dem |-> enc.dem, tag |-> enc.tag]

pke_dec(qrom, keys, c, iv) ==
    gcm_decrypt(c.dem, c.tag,
                IF qrom THEN kem_qrom_decaps(keys.pk, keys.sk.indcpa, c.kem)
                ELSE crypto_kem_dec(c.kem, keys.sk),
                iv)

commit(qrom, pk, m, coins) == pke_enc(qrom, m, pk, coins)

check_commitment(qrom, pk, m, coins, c) ==
    LET again == commit(qrom, pk, m, coins)
    IN  IF again.kem # c.kem \/ again.dem # c.dem \/ again.tag # c.tag THEN 1 ELSE 0
-----------------------------------------------------------------------------
(***************************************************************************)
(* A commitment is made, parts of it or of its opening are replaced by     *)
(* those of another, or arrive changed, and it is checked and decrypted.   *)
(***************************************************************************)
CONSTANTS Owners, Texts, Coins

VARIABLES qrom, committed, opening, c, pc

vars == <<qrom, committed, opening, c, pc>>

Bytes(name, S) == {<<name, x>> : x \in S}

CoinPairs == [iv : Bytes("iv", Coins), kem : Bytes("coins", Coins)]

KeysOf(o) == pke_keypair(qrom, o)

Openings == [owner : Owners, m : Bytes("text", Texts), coins : CoinPairs]

Init == /\ qrom \in BOOLEAN
        /\ committed \in Openings
        /\ opening = committed /\ pc = "commit"
        /\ c = [kem |-> <<"none">>, dem |-> <<"none">>, tag |-> <<"none">>]

Of(o) == commit(qrom, KeysOf(o.owner).pk, o.m, o.coins)

Commit == /\ pc = "commit" /\ pc' = "sent"
          /\ c' = Of(committed)
          /\ UNCHANGED <<qrom, committed, opening>>

\* One part of the commitment is that of another, or the KEM ciphertext is changed,
\* or it is opened with other values.
Mix == /\ pc = "sent" /\ pc' = "mixed"
       /\ \/ \E o \in Openings, f \in DOMAIN c :
                 c' = [c EXCEPT ![f] = Of(o)[f]] /\ UNCHANGED opening
          \/ \E ct \in {Near(c.kem), Far(c.kem)} : c' = [c EXCEPT !.kem = ct] /\ UNCHANGED opening
          \/ opening' \in Openings /\ UNCHANGED c
       /\ UNCHANGED <<qrom, committed>>

Next == Commit \/ Mix

Spec == Init /\ [][Next]_vars
-----------------------------------------------------------------------------
\* A commitment opens to exactly what it was made of: owner, message, both halves of
\* the coins; and only if none of its three parts has been replaced.
OpensOnlyToItsOwn ==
    pc # "commit" =>
        (check_commitment(qrom, KeysOf(opening.owner).pk, opening.m, opening.coins, c) = 0
            <=> opening = committed /\ c = Of(committed))

\* Decryption by the owner gives the message back, and gives nothing else without
\* returning -1: a KEM ciphertext that was changed is rejected with a key under which
\* the tag does not verify.
DecryptsOnlyUnchanged ==
    pc # "commit" =>
        LET r == pke_dec(qrom, KeysOf(committed.owner), c, committed.coins.iv)
        IN  /\ c = Of(committed) => r.ok
            /\ r.ok => r.m = committed.m /\ c = Of(committed)
=============================================================================
