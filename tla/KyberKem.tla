------------------------------- MODULE KyberKem -------------------------------
(***************************************************************************)
(* The key encapsulations of kem.c, kem_det.c and kem_qrom.c over an ideal *)
(* public key encryption: KyberIndcpa checks the real one.  A byte string  *)
(* is a term, a tuple that begins with its constructor, and two terms are  *)
(* the same bytes only if they are the same term.                          *)
(***************************************************************************)

\* symmetric.h
hash_h(x)       == <<"H", x>>
hash_g(x, y)    == << <<"G1", x, y>>, <<"G2", x, y>> >>
kdf(x, y)       == <<"KDF", x, y>>
shake256(parts) == <<"SHAKE", parts>>

\* indcpa.c.  What has reached the receiver may differ from the ciphertext that was
\* sent by so little that it still decrypts to the message, or by more.
indcpa_keypair(seed)      == [pk |-> <<"pk", seed>>, sk |-> <<"sk", seed>>]
indcpa_enc(m, pk, coins)  == <<"ct", pk, m, coins>>
Near(ct)                  == <<"near", ct>>
Far(ct)                   == <<"far", ct>>

indcpa_dec(ct, sk) ==
    LET c == IF ct[1] = "near" THEN ct[2] ELSE ct
    IN  IF c[1] = "ct" /\ c[2] = <<"pk", sk[2]>> THEN c[3] ELSE <<"noise", ct, sk>>

crypto_kem_keypair(seed, z) ==
    LET kp == indcpa_keypair(seed)
    IN  [pk |-> kp.pk, sk |-> [indcpa |-> kp.sk, pk |-> kp.pk, hpk |-> hash_h(kp.pk), z |-> z]]

\* From the hashed random message on, crypto_kem_enc and crypto_kem_det_enc agree.
EncapsulateHashed(m, pk) ==
    LET kr == hash_g(m, hash_h(pk))
        ct == indcpa_enc(m, pk, kr[2])
    IN  [ct |-> ct, ss |-> kdf(kr[1], hash_h(ct))]

crypto_kem_enc(pk, random) == EncapsulateHashed(hash_h(random), pk)

\* Random bytes are drawn and overwritten with the coins.
crypto_kem_det_enc(pk, coins) == EncapsulateHashed(hash_h(coins), pk)

\* verify and cmov: on failure the pre-key is the secret z.
crypto_kem_dec(ct, sk) ==
    LET m    == indcpa_dec(ct, sk.indcpa)
        kr   == hash_g(m, sk.hpk)
        cmp  == indcpa_enc(m, sk.pk, kr[2])
    IN  kdf(IF ct = cmp THEN kr[1] ELSE sk.z, hash_h(ct))

kem_qrom_keypair(seed) == indcpa_keypair(seed)

kem_qrom_encaps(pk, coins) == [ct |-> indcpa_enc(coins, pk, hash_h(coins)), ss |-> hash_h(coins)]

kem_qrom_decaps(pk, sk, ct) ==
    LET m == indcpa_dec(ct, sk)
    IN  IF indcpa_enc(m, pk, hash_h(m)) = ct THEN hash_h(m) ELSE hash_h(ct)
=============================================================================
