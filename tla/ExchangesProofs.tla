--------------------------- MODULE ExchangesProofs ---------------------------
(***************************************************************************)
(* Theorems about the parts of the library that MCExchanges puts side by   *)
(* side, each from an invariant of that part alone: for any number of      *)
(* parties and any keys, the helpers of the group key compute what their   *)
(* names say; for any owners, texts and coins, a commitment opens to       *)
(* nothing else; for any number of parties and of values that arrive       *)
(* changed, who accepts the rounds has the same session key; for any       *)
(* number of exchanges, a key stands for the messages of one; and for any  *)
(* rate, block length and request, a source of bytes hands out one stream. *)
(***************************************************************************)
EXTENDS MCExchanges, GakeKeysProofs

\* A quotient and a rest below the divisor are the only ones.
LEMMA OneRest ==
    ASSUME NEW d \in Nat \ {0}, NEW a \in Int, NEW b \in Int,
           NEW r \in 0 .. d-1, NEW s \in 0 .. d-1, a*d + r = b*d + s
    PROVE  a = b /\ r = s
<1>1. ASSUME NEW x \in Int, NEW y \in Int, x > y PROVE x*d >= y*d + d
  <2>1. x - y - 1 \in Nat /\ (x - y - 1)*d >= 0
    BY <1>1
  <2>2. (x - y - 1)*d = x*d - y*d - d
    OBVIOUS
  <2>3. x*d \in Int /\ y*d \in Int
    OBVIOUS
  <2>4. QED
    BY <2>1, <2>2, <2>3
<1>2. a*d \in Int /\ b*d \in Int
  OBVIOUS
<1>3. ~(a > b)
  BY <1>1, <1>2
<1>4. ~(b > a)
  BY <1>1, <1>2
<1>5. QED
  BY <1>3, <1>4, <1>2

\* Division with rest, as the standard module defines it.
LEMMA DivisionWithRest ==
    ASSUME NEW x \in Int, NEW d \in Nat \ {0}
    PROVE  x \div d \in Int /\ x % d \in 0 .. d-1 /\ x = (x \div d)*d + (x % d)
  OBVIOUS

\* mod of utils.c is the mathematical remainder for every number and every divisor.
LEMMA ModOfAny ==
    ASSUME NEW x \in Int, NEW d \in Nat \ {0}
    PROVE  Mod(x, d) = x % d
<1> DEFINE e == TruncatedDiv(x, d)
           t == x - e*d
<1>1. e \in Int /\ (t \in 0 .. d-1 \/ t \in -(d-1) .. 0)
  <2>1. CASE x >= 0
    <3>1. e = x \div d
      BY <2>1 DEF TruncatedDiv
    <3>2. QED
      BY <3>1, DivisionWithRest
  <2>2. CASE x < 0
    <3> DEFINE q == (-x) \div d
               r == (-x) % d
    <3>1. e = -q
      BY <2>2 DEF TruncatedDiv
    <3>2. q \in Int /\ r \in 0 .. d-1 /\ -x = q*d + r
      <4>1. -x \in Int
        OBVIOUS
      <4>2. QED
        BY <4>1, DivisionWithRest
    <3> HIDE DEF q, r
    <3>3. t = x + q*d /\ q*d \in Int
      BY <3>1, <3>2
    <3> HIDE DEF e
    <3>4. QED
      BY <3>1, <3>2, <3>3
  <2>3. QED
    BY <2>1, <2>2
<1>2. Mod(x, d) = IF t < 0 THEN t + d ELSE t
  BY DEF Mod
<1> HIDE DEF e
<1>3. \E f \in Int : x = f*d + Mod(x, d) /\ Mod(x, d) \in 0 .. d-1
  <2>1. CASE t < 0
    <3>1. e - 1 \in Int /\ (e-1)*d = e*d - d /\ e*d \in Int
      BY <1>1
    <3>2. x = (e-1)*d + Mod(x, d) /\ Mod(x, d) \in 0 .. d-1
      BY <2>1, <1>1, <1>2, <3>1
    <3>3. QED
      BY <3>1, <3>2
  <2>2. CASE ~(t < 0)
    <3>1. e*d \in Int
      BY <1>1
    <3>2. x = e*d + Mod(x, d) /\ Mod(x, d) \in 0 .. d-1
      BY <2>2, <1>1, <1>2, <3>1
    <3>3. QED
      BY <1>1, <3>2
  <2>3. QED
    BY <2>1, <2>2
<1>4. PICK f \in Int : x = f*d + Mod(x, d) /\ Mod(x, d) \in 0 .. d-1
  BY <1>3
<1>5. x \div d \in Int /\ x % d \in 0 .. d-1 /\ x = (x \div d)*d + (x % d)
  BY DivisionWithRest
<1>6. f*d + Mod(x, d) = (x \div d)*d + (x % d)
  BY <1>4, <1>5
<1>7. QED
  BY <1>4, <1>5, <1>6, OneRest

LEMMA InXorOver ==
    ASSUME NEW a \in Atoms, NEW S
    PROVE  a \in XorOver(S) <=> (Odd({j \in S : a \in xs[j]}) <=> a \notin keyLeft)
<1> DEFINE p == Odd({j \in S : a \in xs[j]})
           q == a \in keyLeft
<1>1. a \in XorOver(S) <=> p # q
  BY DEF XorOver
<1>2. p \in BOOLEAN /\ q \in BOOLEAN
  BY DEF Odd
<1> HIDE DEF p, q
<1>3. p # q <=> (p <=> ~q)
  BY <1>2
<1>4. QED
  BY <1>1, <1>3 DEF p, q

\* One key more changes in XorOver the parity of just the secrets in it.
LEMMA XorOverOneMore ==
    ASSUME NEW S, IsFiniteSet(S), NEW q, q \notin S, xs[q] \subseteq Atoms
    PROVE  XorOver(S \union {q}) = XorKeys(XorOver(S), xs[q])
<1> DEFINE T == S \union {q}
<1>1. ASSUME NEW a \in Atoms
      PROVE  Odd({j \in T : a \in xs[j]}) <=> (Odd({j \in S : a \in xs[j]}) <=> a \notin xs[q])
  <2> DEFINE H == {j \in S : a \in xs[j]}
  <2>1. IsFiniteSet(H) /\ q \notin H
    BY FS_Subset
  <2>2. Cardinality(H) \in Nat /\ Cardinality(H \union {q}) = Cardinality(H) + 1
    BY <2>1, FS_CardinalityType, FS_AddElement
  <2>3. CASE a \in xs[q]
    <3>1. {j \in T : a \in xs[j]} = H \union {q}
      BY <2>3
    <3> HIDE DEF H
    <3>2. (Cardinality(H) + 1) % 2 = 1 <=> Cardinality(H) % 2 # 1
      BY <2>2
    <3>3. Odd(H \union {q}) <=> ~Odd(H)
      BY <2>2, <3>2 DEF Odd
    <3>4. QED
      BY <2>3, <3>1, <3>3 DEF H
  <2>4. CASE a \notin xs[q]
    <3>1. {j \in T : a \in xs[j]} = H
      BY <2>4
    <3>2. QED
      BY <2>4, <3>1
  <2>5. QED
    BY <2>3, <2>4
<1>2. ASSUME NEW a
      PROVE  a \in XorOver(T) <=> a \in XorKeys(XorOver(S), xs[q])
  <2> HIDE DEF T
  <2>1. CASE a \in Atoms
    <3>1. /\ a \in XorOver(T) <=> (Odd({j \in T : a \in xs[j]}) <=> a \notin keyLeft)
          /\ a \in XorOver(S) <=> (Odd({j \in S : a \in xs[j]}) <=> a \notin keyLeft)
      BY <2>1, InXorOver
    <3>2. a \in XorKeys(XorOver(S), xs[q]) <=> (a \in XorOver(S) <=> a \notin xs[q])
      BY DEF XorKeys
    <3>3. QED
      BY <1>1, <2>1, <3>1, <3>2
  <2>2. CASE a \notin Atoms
    BY <2>2 DEF XorOver, XorKeys
  <2>3. QED
    BY <2>1, <2>2
<1>3. QED
  BY <1>2

LEMMA XorOverNone ==
    ASSUME keyLeft \subseteq Atoms
    PROVE  XorOver({}) = keyLeft
<1>1. ~Odd({})
  BY FS_EmptySet DEF Odd
<1>2. ASSUME NEW a \in Atoms PROVE {j \in {} : a \in xs[j]} = {}
  OBVIOUS
<1>3. ASSUME NEW a \in Atoms PROVE a \in XorOver({}) <=> a \in keyLeft
  <2>1. ~Odd({j \in {} : a \in xs[j]})
    BY <1>1, <1>2
  <2>2. QED
    BY <2>1, InXorOver
<1>4. QED
  BY <1>3 DEF XorOver

\* Arrays of n keys, seen from party i.
KeysInv ==
    component = "keys" =>
        /\ n \in 1 .. MaxN /\ i \in 0 .. n-1
        /\ keyLeft \subseteq Atoms
        /\ xs \in [0 .. n-1 -> SUBSET Atoms]

\* The path from i to q is that from i to the party right of q, and q itself.
LEMMA BetweenGrows ==
    ASSUME n \in Nat \ {0}, i \in 0 .. n-1, NEW k \in 1 .. n-1
    PROVE  /\ Mod(i-k, n) \in 0 .. n-1 /\ Mod(i-k, n) \notin Between(Mod(i-(k-1), n))
           /\ Between(Mod(i-k, n)) = Between(Mod(i-(k-1), n)) \union {Mod(i-k, n)}
           /\ IsFiniteSet(Between(Mod(i-(k-1), n)))
<1>1. Mod(i-k, n) = IF i < k THEN i-k+n ELSE i-k
  BY ModRange
<1>2. Mod(i-(k-1), n) = IF i < k-1 THEN i-(k-1)+n ELSE i-(k-1)
  <2>1. i-(k-1) \in -(n-1) .. n-1
    OBVIOUS
  <2>2. QED
    BY <2>1, ModRange
<1>3. \A q \in 0 .. n-1 : IsFiniteSet(q .. i-1) /\ IsFiniteSet((q .. n-1) \union (0 .. i-1))
  <2>1. ASSUME NEW q \in 0 .. n-1
        PROVE  IsFiniteSet(q .. i-1) /\ IsFiniteSet(q .. n-1) /\ IsFiniteSet(0 .. i-1)
    BY FS_Interval
  <2>2. QED
    BY <2>1, FS_Union
<1>4. Mod(i-(k-1), n) \in 0 .. n-1
  BY <1>2
<1>5. IsFiniteSet(Between(Mod(i-(k-1), n)))
  BY <1>3, <1>4 DEF Between
<1>6. CASE k <= i
  BY <1>1, <1>2, <1>5, <1>6 DEF Between
<1>7. CASE k = i + 1
  BY <1>1, <1>2, <1>5, <1>7 DEF Between
<1>8. CASE k > i + 1
  BY <1>1, <1>2, <1>5, <1>8 DEF Between
<1>9. QED
  BY <1>6, <1>7, <1>8

LEMMA ParityHolds == ASSUME KeysInv PROVE CheckXsIsParity
<1>1. SUFFICES ASSUME component = "keys"
      PROVE  CheckXs(xs, n) <=> \A a \in Atoms : ~Odd({j \in 0 .. n-1 : a \in xs[j]})
  BY DEF CheckXsIsParity
<1>2. n \in Nat \ {0} /\ xs \in [0 .. n-1 -> SUBSET Atoms]
  BY <1>1 DEF KeysInv
<1>3. CheckXs(xs, n) <=> XorOf(xs, 0 .. n-1) = Zero
  BY <1>2, CheckXsIsXor
<1>4. ASSUME NEW a \in Atoms
      PROVE  Odd({j \in 0 .. n-1 : a \in xs[j]}) <=> a \in XorOf(xs, 0 .. n-1)
  <2> DEFINE H == {j \in 0 .. n-1 : a \in xs[j]}
  <2>1. Odd(H) => H # {}
    BY FS_EmptySet DEF Odd
  <2>2. a \in XorOf(xs, 0 .. n-1) <=> H # {} /\ Odd(H)
    BY DEF XorOf, Holders, Odd
  <2>3. QED
    BY <2>1, <2>2
<1>5. XorOf(xs, 0 .. n-1) \subseteq Atoms
  BY <1>2 DEF XorOf
<1>6. QED
  BY <1>3, <1>4, <1>5 DEF Zero

LEMMA LeftKeysHold == ASSUME KeysInv PROVE LeftKeysAreXorsBetween
<1>1. SUFFICES ASSUME component = "keys", NEW q \in 0 .. n-1
      PROVE  ComputeAllLeftKeys(n, i, keyLeft, xs)[q] = XorOver(Between(q))
  BY DEF LeftKeysAreXorsBetween
<1>2. n \in Nat \ {0} /\ i \in 0 .. n-1 /\ keyLeft \subseteq Atoms /\ xs \in [0 .. n-1 -> SUBSET Atoms]
  BY <1>1 DEF KeysInv
<1> DEFINE g == [k \in 0 .. n-1 |-> XorOver(Between(Mod(i-k, n)))]
<1>3. ASSUME NEW k \in 0 .. n-1
      PROVE  g[k] = IF k = 0 THEN keyLeft ELSE XorKeys(g[k-1], xs[Mod(i - (k-1) - 1, n)])
  <2>1. CASE k = 0
    <3>1. Mod(i - k, n) = i
      BY <1>2, <2>1, ModRange
    <3>2. Between(i) = {}
      BY <1>2 DEF Between
    <3>3. QED
      BY <1>2, <2>1, <3>1, <3>2, XorOverNone
  <2>2. CASE k # 0
    <3> DEFINE q1 == Mod(i-k, n)
    <3>1. k \in 1 .. n-1 /\ k-1 \in 0 .. n-1 /\ i - (k-1) - 1 = i - k
      BY <1>2, <2>2
    <3>2. /\ q1 \in 0 .. n-1 /\ q1 \notin Between(Mod(i-(k-1), n))
          /\ Between(q1) = Between(Mod(i-(k-1), n)) \union {q1}
          /\ IsFiniteSet(Between(Mod(i-(k-1), n)))
      BY <1>2, <3>1, BetweenGrows
    <3>3. xs[q1] \subseteq Atoms
      BY <1>2, <3>2
    <3> HIDE DEF q1
    <3>4. XorOver(Between(Mod(i-(k-1), n)) \union {q1})
            = XorKeys(XorOver(Between(Mod(i-(k-1), n))), xs[q1])
      BY <3>2, <3>3, XorOverOneMore, Zenon
    <3>5. g[k-1] = XorOver(Between(Mod(i-(k-1), n))) /\ g[k] = XorOver(Between(q1))
      BY <3>1, Zenon DEF q1
    <3>6. xs[Mod(i - (k-1) - 1, n)] = xs[q1]
      BY <3>1, Zenon DEF q1
    <3>7. g[k] = XorKeys(g[k-1], xs[q1])
      BY <3>2, <3>4, <3>5, Zenon
    <3> HIDE DEF g
    <3>8. QED
      BY <2>2, <3>6, <3>7, Zenon
  <2>3. QED
    BY <2>1, <2>2
<1>4. IsChain(g, n, i, keyLeft, xs)
  BY <1>3, Zenon DEF IsChain
<1>5. Mod(i - q, n) \in 0 .. n-1 /\ Mod(i - Mod(i - q, n), n) = q
  <2>1. Mod(i - q, n) = IF i < q THEN i - q + n ELSE i - q
    BY <1>2, ModRange
  <2>2. Mod(i - q, n) \in 0 .. n-1 /\ i - Mod(i - q, n) \in -(n-1) .. n-1
    BY <1>2, <2>1
  <2>3. Mod(i - Mod(i - q, n), n) =
            IF i - Mod(i - q, n) < 0 THEN i - Mod(i - q, n) + n ELSE i - Mod(i - q, n)
    BY <1>2, <2>2, ModRange, Zenon
  <2>4. QED
    BY <1>2, <2>1, <2>2, <2>3
<1>6. g[Mod(i - q, n)] = XorOver(Between(q))
  BY <1>5
<1> HIDE DEF g
<1>7. LeftKeyChain(n, i, keyLeft, xs)[Mod(i - q, n)] = g[Mod(i - q, n)]
  BY <1>2, <1>4, <1>5, LeftKeyChainValue
<1>8. QED
  BY <1>6, <1>7 DEF ComputeAllLeftKeys

LEMMA RemainderHolds == ASSUME KeysInv PROVE ModIsRemainder
<1>1. SUFFICES ASSUME component = "keys", NEW x \in -2*MaxN .. 2*MaxN
      PROVE  Mod(x, n) = x % n
  BY DEF ModIsRemainder
<1>2. n \in Nat \ {0} /\ x \in Int
  BY <1>1 DEF KeysInv
<1>3. QED
  BY <1>2, ModOfAny

LEMMA KeysStep == ASSUME KeysInv, component = "keys", Fill PROVE n' = n /\ i' = i /\ keyLeft' = keyLeft /\ xs' \in [0 .. n-1 -> SUBSET Atoms]
  BY DEF KeysInv, Fill

\* The helpers of the group key compute what they should from every array of keys, for
\* every number of parties: CheckXs accepts an array exactly if every secret is in an even
\* number of its keys, slot q of the left keys is the own one XORed with the Xs on the way
\* to q, and mod is the remainder that is not negative.
THEOREM HelpersAreExactHolds == ExchangesSpec => []HelpersAreExact
<1>1. ExchangesInit => KeysInv
  <2>1. ASSUME ExchangesInit, component = "keys" PROVE KeysInit
    BY <2>1 DEF ExchangesInit
  <2>2. QED
    BY <2>1 DEF KeysInit, KeysInv, Zero
<1>2. ASSUME KeysInv, [ExchangesNext]_ExchangesVars PROVE KeysInv'
  <2>1. CASE component = "keys" /\ Fill
    <3>1. component' = component
      BY <1>2, <2>1 DEF ExchangesNext, ExchangesVars
    <3>2. QED
      BY <1>2, <2>1, <3>1, KeysStep DEF KeysInv
  <2>2. CASE ~(component = "keys" /\ Fill)
    <3>1. component' = component /\ (component = "keys" => UNCHANGED keyVars)
      BY <1>2, <2>2 DEF ExchangesNext, ExchangesVars
    <3>2. QED
      BY <1>2, <3>1 DEF KeysInv, keyVars
  <2>3. QED
    BY <2>1, <2>2
<1>3. KeysInv => HelpersAreExact
  BY ParityHolds, LeftKeysHold, RemainderHolds DEF HelpersAreExact
<1>4. QED
  BY <1>1, <1>2, <1>3, PTL DEF ExchangesSpec
-----------------------------------------------------------------------------
\* Byte strings are tuples that begin with their constructor, equal only if their parts are.
LEMMA Terms ==
    /\ \A a, b, p, q : <<a, b>> = <<p, q>> => a = p /\ b = q
    /\ \A a, b, c, p, q, r : <<a, b, c>> = <<p, q, r>> => a = p /\ b = q /\ c = r
    /\ \A a, b, c, d, p, q, r, s : <<a, b, c, d>> = <<p, q, r, s>> => a = p /\ b = q /\ c = r /\ d = s
  OBVIOUS

\* What Commit!Of(o) is made of: the public key, what is encrypted under it, the
\* ciphertext, and the key of AES-256-GCM.
PkOf(o)      == <<"pk", <<"seed", o.owner>> >>
Drawn(o)     == IF qrom THEN o.coins.kem ELSE <<"H", o.coins.kem>>
PreKey(o)    == <<"G1", Drawn(o), <<"H", PkOf(o)>> >>
CtCoins(o)   == IF qrom THEN <<"H", o.coins.kem>> ELSE <<"G2", Drawn(o), <<"H", PkOf(o)>> >>
Cipher(o)    == <<"ct", PkOf(o), Drawn(o), CtCoins(o)>>
Shared(o)    == IF qrom THEN <<"H", o.coins.kem>> ELSE <<"KDF", PreKey(o), <<"H", Cipher(o)>> >>
GcmText(o)   == <<"gcm", Shared(o), o.coins.iv, o.m>>
GcmTag(o)    == <<"tag", Shared(o), o.coins.iv, o.m>>
Parts3(k, d, t) == [kem |-> k, dem |-> d, tag |-> t]

LEMMA OfShape ==
    ASSUME NEW o, qrom \in BOOLEAN
    PROVE  Commit!Of(o) = Parts3(Cipher(o), GcmText(o), GcmTag(o))
<1>1. Commit!KeysOf(o.owner).pk = PkOf(o)
  BY DEF Commit!KeysOf, Commit!pke_keypair, Commit!kem_qrom_keypair, Commit!crypto_kem_keypair,
         Commit!indcpa_keypair, PkOf
<1>2. CASE qrom
  BY <1>1, <1>2 DEF Commit!Of, Commit!commit, Commit!pke_enc, Commit!kem_qrom_encaps,
         Commit!gcm_encrypt, Commit!indcpa_enc, Commit!hash_h,
         Parts3, Cipher, GcmText, GcmTag, Shared, CtCoins, Drawn
<1>3. CASE ~qrom
  BY <1>1, <1>3 DEF Commit!Of, Commit!commit, Commit!pke_enc, Commit!crypto_kem_det_enc,
         Commit!EncapsulateHashed, Commit!hash_g, Commit!kdf,
         Commit!gcm_encrypt, Commit!indcpa_enc, Commit!hash_h,
         Parts3, Cipher, GcmText, GcmTag, Shared, CtCoins, Drawn, PreKey
<1>4. QED
  BY <1>2, <1>3

\* The key the owner of o gets from a ciphertext.
KeyFrom(o, ct) ==
    IF qrom THEN Commit!kem_qrom_decaps(Commit!KeysOf(o.owner).pk, Commit!KeysOf(o.owner).sk.indcpa, ct)
    ELSE Commit!crypto_kem_dec(ct, Commit!KeysOf(o.owner).sk)

LEMMA KeyFromOwn ==
    ASSUME NEW o, qrom \in BOOLEAN
    PROVE  KeyFrom(o, Cipher(o)) = Shared(o)
<1>1. CASE qrom
  <2>1. /\ Commit!KeysOf(o.owner).pk = PkOf(o)
        /\ Commit!KeysOf(o.owner).sk.indcpa = <<"sk", <<"seed", o.owner>> >>
    BY <1>1 DEF Commit!KeysOf, Commit!pke_keypair, Commit!kem_qrom_keypair, Commit!indcpa_keypair, PkOf
  <2>2. Commit!indcpa_dec(Cipher(o), <<"sk", <<"seed", o.owner>> >>) = Drawn(o)
    BY DEF Commit!indcpa_dec, Cipher, PkOf
  <2>3. QED
    BY <1>1, <2>1, <2>2 DEF KeyFrom, Commit!kem_qrom_decaps, Commit!indcpa_enc, Commit!hash_h,
           Cipher, Drawn, CtCoins, Shared
<1>2. CASE ~qrom
  <2> DEFINE sk == Commit!KeysOf(o.owner).sk
  <2>1. sk.pk = PkOf(o) /\ sk.hpk = <<"H", PkOf(o)>> /\ sk.indcpa = <<"sk", <<"seed", o.owner>> >>
    BY <1>2 DEF Commit!KeysOf, Commit!pke_keypair, Commit!crypto_kem_keypair, Commit!indcpa_keypair,
           Commit!hash_h, PkOf
  <2>2. Commit!indcpa_dec(Cipher(o), <<"sk", <<"seed", o.owner>> >>) = Drawn(o)
    BY DEF Commit!indcpa_dec, Cipher, PkOf
  <2> HIDE DEF sk
  <2>3. Commit!crypto_kem_dec(Cipher(o), sk) = Shared(o)
    BY <1>2, <2>1, <2>2 DEF Commit!crypto_kem_dec, Commit!indcpa_enc, Commit!hash_h, Commit!hash_g, Commit!kdf,
           Cipher, PreKey, CtCoins, Shared
  <2>4. QED
    BY <1>2, <2>3 DEF KeyFrom, sk
<1>3. QED
  BY <1>1, <1>2

\* No other ciphertext gives that key: it contains the hash of the ciphertext, or is the
\* hash of what the ciphertext encrypts.
LEMMA KeyFromOther ==
    ASSUME NEW o, NEW ct, qrom \in BOOLEAN, KeyFrom(o, ct) = Shared(o), ct # o.coins.kem
    PROVE  ct = Cipher(o)
<1>1. CASE qrom
  <2> DEFINE pk == Commit!KeysOf(o.owner).pk
             sk == Commit!KeysOf(o.owner).sk.indcpa
             mm == Commit!indcpa_dec(ct, sk)
  <2>1. pk = PkOf(o)
    BY <1>1 DEF Commit!KeysOf, Commit!pke_keypair, Commit!kem_qrom_keypair, Commit!indcpa_keypair, PkOf
  <2>2. KeyFrom(o, ct) = IF <<"ct", pk, mm, <<"H", mm>> >> = ct THEN <<"H", mm>> ELSE <<"H", ct>>
    BY <1>1 DEF KeyFrom, Commit!kem_qrom_decaps, Commit!indcpa_enc, Commit!hash_h
  <2>3. Shared(o) = <<"H", o.coins.kem>>
    BY <1>1 DEF Shared
  <2> HIDE DEF pk, sk, mm
  <2>4. <<"ct", pk, mm, <<"H", mm>> >> = ct /\ <<"H", mm>> = <<"H", o.coins.kem>>
    <3>1. CASE <<"ct", pk, mm, <<"H", mm>> >> = ct
      BY <2>2, <2>3, <3>1
    <3>2. CASE <<"ct", pk, mm, <<"H", mm>> >> # ct
      <4>1. <<"H", ct>> = <<"H", o.coins.kem>>
        BY <2>2, <2>3, <3>2
      <4>2. QED
        BY <4>1, Terms
    <3>3. QED
      BY <3>1, <3>2
  <2>5. mm = o.coins.kem
    BY <2>4, Terms
  <2>6. QED
    BY <1>1, <2>1, <2>4, <2>5 DEF Cipher, Drawn, CtCoins
<1>2. CASE ~qrom
  <2>1. PICK k : KeyFrom(o, ct) = <<"KDF", k, <<"H", ct>> >>
    BY <1>2 DEF KeyFrom, Commit!crypto_kem_dec, Commit!kdf, Commit!hash_h
  <2>2. Shared(o) = <<"KDF", PreKey(o), <<"H", Cipher(o)>> >>
    BY <1>2 DEF Shared
  <2>3. <<"H", ct>> = <<"H", Cipher(o)>>
    <3>1. <<"KDF", k, <<"H", ct>> >> = <<"KDF", PreKey(o), <<"H", Cipher(o)>> >>
      BY <2>1, <2>2
    <3>2. QED
      BY <3>1, Terms, Zenon
  <2>4. QED
    BY <2>3, Terms
<1>3. QED
  BY <1>1, <1>2

\* What is presented is the commitment, or differs from it in one part.
Presented(o, c) ==
    \/ \E k : k # o.coins.kem /\ c = Parts3(k, GcmText(o), GcmTag(o))
    \/ \E key, iv, text : c = Parts3(Cipher(o), <<"gcm", key, iv, text>>, GcmTag(o))
    \/ \E t : c = Parts3(Cipher(o), GcmText(o), t)

CommitInv ==
    component = "commitment" =>
        /\ qrom \in BOOLEAN /\ committed \in Commit!Openings
        /\ \/ commitPc = "commit" /\ opening = committed
           \/ commitPc = "sent" /\ opening = committed /\ presented = Commit!Of(committed)
           \/ commitPc = "mixed" /\ opening = committed /\ Presented(committed, presented)
           \/ commitPc = "mixed" /\ opening \in Commit!Openings /\ presented = Commit!Of(committed)

LEMMA CipherIsNotCoins ==
    ASSUME NEW o \in Commit!Openings, NEW p \in Commit!Openings
    PROVE  /\ Cipher(p) # o.coins.kem
           /\ Commit!Near(Cipher(p)) # o.coins.kem
           /\ Commit!Far(Cipher(p)) # o.coins.kem
<1>1. PICK x : o.coins.kem = <<"coins", x>>
  BY DEF Commit!Openings, Commit!CoinPairs, Commit!Bytes
<1>2. o.coins.kem[1] = "coins"
  BY <1>1
<1>3. Cipher(p)[1] = "ct"
  BY DEF Cipher
<1>4. Commit!Near(Cipher(p))[1] = "near" /\ Commit!Far(Cipher(p))[1] = "far"
  BY DEF Commit!Near, Commit!Far
<1>5. QED
  BY <1>2, <1>3, <1>4

LEMMA ReplacePart ==
    ASSUME NEW r, NEW k, NEW d, NEW t, NEW x, NEW s, r = Parts3(k, d, t)
    PROVE  /\ s = [r EXCEPT !["kem"] = x] => s = Parts3(x, d, t)
           /\ s = [r EXCEPT !["dem"] = x] => s = Parts3(k, x, t)
           /\ s = [r EXCEPT !["tag"] = x] => s = Parts3(k, d, x)
<1>1. ASSUME s = [r EXCEPT !["kem"] = x] PROVE s = Parts3(x, d, t)
  BY <1>1 DEF Parts3
<1>2. ASSUME s = [r EXCEPT !["dem"] = x] PROVE s = Parts3(k, x, t)
  BY <1>2 DEF Parts3
<1>3. ASSUME s = [r EXCEPT !["tag"] = x] PROVE s = Parts3(k, d, x)
  BY <1>3 DEF Parts3
<1>4. QED
  BY <1>1, <1>2, <1>3

LEMMA MixStep ==
    ASSUME CommitInv, component = "commitment", Commit!Mix
    PROVE  /\ commitPc' = "mixed" /\ qrom' = qrom /\ committed' = committed
           /\ \/ opening' = committed /\ Presented(committed, presented')
              \/ opening' \in Commit!Openings /\ presented' = Commit!Of(committed)
<1> DEFINE o == committed
<1>1. /\ qrom \in BOOLEAN /\ o \in Commit!Openings /\ opening = o
      /\ presented = Parts3(Cipher(o), GcmText(o), GcmTag(o)) /\ presented = Commit!Of(o)
  BY OfShape DEF CommitInv, Commit!Mix
<1>2. commitPc' = "mixed" /\ qrom' = qrom /\ committed' = committed
  BY DEF Commit!Mix
<1>3. CASE \E p \in Commit!Openings, f \in DOMAIN presented :
               presented' = [presented EXCEPT ![f] = Commit!Of(p)[f]] /\ UNCHANGED opening
  <2>1. PICK p \in Commit!Openings, f \in DOMAIN presented :
               presented' = [presented EXCEPT ![f] = Commit!Of(p)[f]] /\ UNCHANGED opening
    BY <1>3
  <2>2. Commit!Of(p) = Parts3(Cipher(p), GcmText(p), GcmTag(p))
    BY <1>1, OfShape
  <2>3. f \in {"kem", "dem", "tag"}
    BY <1>1, <2>1 DEF Parts3
  <2>4. CASE f = "kem"
    <3>1. presented' = Parts3(Cipher(p), GcmText(o), GcmTag(o))
      <4>1. Parts3(Cipher(p), GcmText(p), GcmTag(p))["kem"] = Cipher(p)
        BY DEF Parts3
      <4>2. presented' = [presented EXCEPT !["kem"] = Cipher(p)]
        BY <2>1, <2>2, <2>4, <4>1, Zenon
      <4>3. presented = Parts3(Cipher(o), GcmText(o), GcmTag(o))
        BY <1>1
      <4> HIDE DEF o
      <4>4. QED
        BY <4>2, <4>3, ReplacePart
    <3>2. Cipher(p) # o.coins.kem
      BY <1>1, <2>1, CipherIsNotCoins
    <3> HIDE DEF o
    <3>3. Presented(o, presented')
      BY <3>1, <3>2, Zenon DEF Presented
    <3>4. QED
      BY <1>1, <1>2, <2>1, <3>3 DEF o
  <2>5. CASE f = "dem"
    <3>1. presented' = Parts3(Cipher(o), GcmText(p), GcmTag(o))
      <4>1. Parts3(Cipher(p), GcmText(p), GcmTag(p))["dem"] = GcmText(p)
        BY DEF Parts3
      <4>2. presented' = [presented EXCEPT !["dem"] = GcmText(p)]
        BY <2>1, <2>2, <2>5, <4>1, Zenon
      <4>3. presented = Parts3(Cipher(o), GcmText(o), GcmTag(o))
        BY <1>1
      <4> HIDE DEF o
      <4>4. QED
        BY <4>2, <4>3, ReplacePart
    <3> HIDE DEF o
    <3>2. Presented(o, presented')
      BY <3>1, Zenon DEF Presented, GcmText
    <3>3. QED
      BY <1>1, <1>2, <2>1, <3>2 DEF o
  <2>6. CASE f = "tag"
    <3>1. presented' = Parts3(Cipher(o), GcmText(o), GcmTag(p))
      <4>1. Parts3(Cipher(p), GcmText(p), GcmTag(p))["tag"] = GcmTag(p)
        BY DEF Parts3
      <4>2. presented' = [presented EXCEPT !["tag"] = GcmTag(p)]
        BY <2>1, <2>2, <2>6, <4>1, Zenon
      <4>3. presented = Parts3(Cipher(o), GcmText(o), GcmTag(o))
        BY <1>1
      <4> HIDE DEF o
      <4>4. QED
        BY <4>2, <4>3, ReplacePart
    <3> HIDE DEF o
    <3>2. Presented(o, presented')
      BY <3>1, Zenon DEF Presented
    <3>3. QED
      BY <1>1, <1>2, <2>1, <3>2 DEF o
  <2>7. QED
    BY <2>3, <2>4, <2>5, <2>6
<1>4. CASE \E ct \in {Commit!Near(presented.kem), Commit!Far(presented.kem)} :
               presented' = [presented EXCEPT !.kem = ct] /\ UNCHANGED opening
  <2>1. PICK ct \in {Commit!Near(presented.kem), Commit!Far(presented.kem)} :
               presented' = [presented EXCEPT !.kem = ct] /\ UNCHANGED opening
    BY <1>4
  <2>2. presented' = Parts3(ct, GcmText(o), GcmTag(o)) /\ presented.kem = Cipher(o)
    BY <1>1, <2>1 DEF Parts3
  <2>3. ct # o.coins.kem
    BY <1>1, <2>1, <2>2, CipherIsNotCoins
  <2> HIDE DEF o
  <2>4. Presented(o, presented')
    BY <2>2, <2>3, Zenon DEF Presented
  <2>5. QED
    BY <1>1, <1>2, <2>1, <2>4 DEF o
<1>5. CASE opening' \in Commit!Openings /\ UNCHANGED presented
  BY <1>1, <1>2, <1>5
<1>6. QED
  BY <1>3, <1>4, <1>5 DEF Commit!Mix

\* A commitment opens to nothing but what it was made of.
LEMMA OpensHolds ==
    ASSUME CommitInv, component = "commitment"
    PROVE  Commit!OpensOnlyToItsOwn
<1> DEFINE o == committed
           p == opening
<1>1. SUFFICES ASSUME commitPc # "commit"
      PROVE  Commit!check_commitment(qrom, Commit!KeysOf(p.owner).pk, p.m, p.coins, presented) = 0
                <=> p = o /\ presented = Commit!Of(o)
  BY DEF Commit!OpensOnlyToItsOwn
<1>2. qrom \in BOOLEAN /\ o \in Commit!Openings /\ p \in Commit!Openings
  BY <1>1 DEF CommitInv
<1>3. /\ Commit!Of(p) = Parts3(Cipher(p), GcmText(p), GcmTag(p))
      /\ Commit!Of(o) = Parts3(Cipher(o), GcmText(o), GcmTag(o))
  BY <1>2, OfShape
<1>4. \E k, d, t : presented = Parts3(k, d, t)
  <2>1. CASE presented = Commit!Of(o)
    BY <1>3, <2>1, Zenon
  <2>2. CASE Presented(o, presented)
    BY <2>2, Zenon DEF Presented
  <2>3. QED
    BY <1>1, <2>1, <2>2 DEF CommitInv
<1>5. PICK k, d, t : presented = Parts3(k, d, t)
  BY <1>4
<1>6. Commit!check_commitment(qrom, Commit!KeysOf(p.owner).pk, p.m, p.coins, presented) = 0
         <=> Commit!Of(p) = presented
  <2>1. Commit!commit(qrom, Commit!KeysOf(p.owner).pk, p.m, p.coins) = Commit!Of(p)
    BY DEF Commit!Of
  <2>2. Commit!Of(p).kem = Cipher(p) /\ Commit!Of(p).dem = GcmText(p) /\ Commit!Of(p).tag = GcmTag(p)
    BY <1>3 DEF Parts3
  <2>3. presented.kem = k /\ presented.dem = d /\ presented.tag = t
    BY <1>5 DEF Parts3
  <2>4. Commit!Of(p) = presented <=> Cipher(p) = k /\ GcmText(p) = d /\ GcmTag(p) = t
    BY <1>3, <1>5, <2>2, <2>3
  <2> HIDE DEF p
  <2>5. QED
    BY <2>1, <2>2, <2>3, <2>4 DEF Commit!check_commitment
<1>7. ASSUME Commit!Of(p) = Commit!Of(o) PROVE p = o
  <2>1. Cipher(p) = Cipher(o) /\ GcmText(p) = GcmText(o)
    BY <1>3, <1>7 DEF Parts3
  <2>2. PkOf(p) = PkOf(o) /\ Drawn(p) = Drawn(o)
    BY <2>1, Terms DEF Cipher
  <2>3. p.owner = o.owner
    BY <2>2, Terms DEF PkOf
  <2>4. p.coins.iv = o.coins.iv /\ p.m = o.m
    BY <2>1, Terms DEF GcmText
  <2>5. p.coins.kem = o.coins.kem
    BY <2>2, Terms DEF Drawn
  <2>6. p.coins \in Commit!CoinPairs /\ o.coins \in Commit!CoinPairs
    BY <1>2 DEF Commit!Openings
  <2>7. p.coins = o.coins
    BY <2>4, <2>5, <2>6 DEF Commit!CoinPairs
  <2>8. QED
    BY <1>2, <2>3, <2>4, <2>7 DEF Commit!Openings
<1>8. p = o \/ presented = Commit!Of(o)
  BY <1>1 DEF CommitInv
<1> HIDE DEF o, p
<1>9. QED
  BY <1>6, <1>7, <1>8

\* The tag verifies only if the owner gets the key it was made with and the text is the one
\* it was made of.
LEMMA DecryptsHolds ==
    ASSUME CommitInv, component = "commitment"
    PROVE  Commit!DecryptsOnlyUnchanged
<1> DEFINE o == committed
           c == presented
           key == KeyFrom(o, c.kem)
           opens == c.dem[1] = "gcm" /\ c.dem[2] = key /\ c.dem[3] = o.coins.iv
           text == IF opens THEN c.dem[4] ELSE <<"noise", c.dem>>
           r == Commit!pke_dec(qrom, Commit!KeysOf(o.owner), c, o.coins.iv)
<1>1. SUFFICES ASSUME commitPc # "commit"
      PROVE  (c = Commit!Of(o) => r.ok) /\ (r.ok => r.m = o.m /\ c = Commit!Of(o))
  BY DEF Commit!DecryptsOnlyUnchanged
<1>2. qrom \in BOOLEAN /\ o \in Commit!Openings
  BY <1>1 DEF CommitInv
<1>3. Commit!Of(o) = Parts3(Cipher(o), GcmText(o), GcmTag(o))
  BY <1>2, OfShape
<1>4. r.m = text /\ (r.ok <=> c.tag = <<"tag", key, o.coins.iv, text>>)
  <2>1. r = [m |-> text, ok |-> c.tag = <<"tag", key, o.coins.iv, text>>]
    BY <1>2, Zenon DEF Commit!pke_dec, Commit!gcm_decrypt, KeyFrom
  <2> HIDE DEF r, text, key
  <2>2. QED
    BY <2>1
<1>5. key = Shared(o) => text = o.m \/ c.dem # GcmText(o)
  BY DEF GcmText
<1>6. ASSUME c = Commit!Of(o) PROVE r.ok /\ r.m = o.m
  <2>1. c.kem = Cipher(o) /\ c.dem = GcmText(o) /\ c.tag = GcmTag(o)
    BY <1>3, <1>6 DEF Parts3
  <2>2. key = Shared(o)
    BY <1>2, <2>1, KeyFromOwn
  <2>3. text = o.m
    BY <1>5, <2>1, <2>2, Zenon
  <2> HIDE DEF r, text, key
  <2>4. QED
    BY <1>4, <2>1, <2>2, <2>3 DEF GcmTag
<1>7. ASSUME r.ok, Presented(o, c) PROVE c = Commit!Of(o)
  <2>1. CASE \E k : k # o.coins.kem /\ c = Parts3(k, GcmText(o), GcmTag(o))
    <3>1. PICK k : k # o.coins.kem /\ c = Parts3(k, GcmText(o), GcmTag(o))
      BY <2>1
    <3>2. c.kem = k /\ c.tag = GcmTag(o)
      BY <3>1 DEF Parts3
    <3>3. key = Shared(o)
      <4> HIDE DEF r, text, key, c
      <4>1. <<"tag", key, o.coins.iv, text>> = <<"tag", Shared(o), o.coins.iv, o.m>>
        BY <1>4, <1>7, <3>2 DEF GcmTag
      <4>2. QED
        BY <4>1, Terms, Zenon
    <3>4. k = Cipher(o)
      BY <1>2, <3>1, <3>2, <3>3, KeyFromOther
    <3>5. QED
      BY <1>3, <3>1, <3>4, Zenon
  <2>2. CASE \E x, iv, t : c = Parts3(Cipher(o), <<"gcm", x, iv, t>>, GcmTag(o))
    <3>1. PICK x, iv, t : c = Parts3(Cipher(o), <<"gcm", x, iv, t>>, GcmTag(o))
      BY <2>2
    <3>2. c.kem = Cipher(o) /\ c.dem = <<"gcm", x, iv, t>> /\ c.tag = GcmTag(o)
      BY <3>1 DEF Parts3
    <3>3. key = Shared(o)
      BY <1>2, <3>2, KeyFromOwn
    <3>4. text = o.m
      <4> HIDE DEF r, text, key, c
      <4>1. <<"tag", key, o.coins.iv, text>> = <<"tag", Shared(o), o.coins.iv, o.m>>
        BY <1>4, <1>7, <3>2 DEF GcmTag
      <4>2. QED
        BY <4>1, Terms, Zenon
    <3>5. PICK y : o.m = <<"text", y>>
      BY <1>2 DEF Commit!Openings, Commit!Bytes
    <3>6. opens
      <4>1. <<"noise", c.dem>> # <<"text", y>>
        OBVIOUS
      <4>2. QED
        BY <3>4, <3>5, <4>1, Zenon
    <3>7. x = Shared(o) /\ iv = o.coins.iv /\ t = o.m
      <4>1. c.dem[2] = x /\ c.dem[3] = iv /\ c.dem[4] = t
        BY <3>2
      <4>2. QED
        BY <3>3, <3>4, <3>6, <4>1, Zenon
    <3>8. QED
      BY <1>3, <3>1, <3>7, Zenon DEF GcmText
  <2>3. CASE \E t : c = Parts3(Cipher(o), GcmText(o), t)
    <3>1. PICK t : c = Parts3(Cipher(o), GcmText(o), t)
      BY <2>3
    <3>2. c.kem = Cipher(o) /\ c.dem = GcmText(o) /\ c.tag = t
      BY <3>1 DEF Parts3
    <3>3. key = Shared(o)
      BY <1>2, <3>2, KeyFromOwn
    <3>4. text = o.m
      BY <1>5, <3>2, <3>3, Zenon
    <3>5. t = GcmTag(o)
      <4> HIDE DEF r, text, key, c
      <4>1. QED
        BY <1>4, <1>7, <3>2, <3>3, <3>4 DEF GcmTag
    <3>6. QED
      BY <1>3, <3>1, <3>5, Zenon
  <2>4. QED
    BY <1>7, <2>1, <2>2, <2>3, Zenon DEF Presented
<1>8. c = Commit!Of(o) \/ Presented(o, c)
  BY <1>1 DEF CommitInv
<1> HIDE DEF r, text, key, c, o
<1>9. QED
  BY <1>6, <1>7, <1>8

\* Commitments stay what they are made of, one part exchanged or changed at most.
LEMMA CommitInvariant == ExchangesSpec => []CommitInv
<1>1. ExchangesInit => CommitInv
  <2>1. ASSUME ExchangesInit, component = "commitment" PROVE Commit!Init
    BY <2>1 DEF ExchangesInit
  <2>2. QED
    BY <2>1 DEF Commit!Init, CommitInv
<1>2. ASSUME CommitInv, [ExchangesNext]_ExchangesVars PROVE CommitInv'
  <2>1. CASE component = "commitment" /\ Commit!Mix
    <3>1. component' = component
      BY <1>2, <2>1 DEF ExchangesNext, ExchangesVars
    <3>2. /\ commitPc' = "mixed" /\ qrom' = qrom /\ committed' = committed
          /\ \/ opening' = committed /\ Presented(committed, presented')
             \/ opening' \in Commit!Openings /\ presented' = Commit!Of(committed)
      BY <1>2, <2>1, MixStep
    <3>3. Commit!Openings' = Commit!Openings /\ Commit!Of(committed)' = Commit!Of(committed)
      BY <3>2 DEF Commit!Openings, Commit!CoinPairs, Commit!Bytes, Commit!Of, Commit!KeysOf
    <3>4. Presented(committed, presented)' <=> Presented(committed, presented')
      BY <3>2 DEF Presented, Cipher, GcmText, GcmTag, Shared, CtCoins, Drawn, PreKey, PkOf
    <3>5. QED
      BY <1>2, <2>1, <3>1, <3>2, <3>3, <3>4 DEF CommitInv
  <2>2. CASE component = "commitment" /\ Commit!Commit
    <3>1. component' = component
      BY <1>2, <2>2 DEF ExchangesNext, ExchangesVars
    <3>2. /\ commitPc' = "sent" /\ qrom' = qrom /\ committed' = committed
          /\ opening' = opening /\ opening = committed /\ presented' = Commit!Of(committed)
      BY <1>2, <2>2 DEF CommitInv, Commit!Commit
    <3>3. Commit!Of(committed)' = Commit!Of(committed)
      BY <3>2 DEF Commit!Of, Commit!KeysOf
    <3>4. QED
      BY <1>2, <2>2, <3>1, <3>2, <3>3 DEF CommitInv
  <2>3. CASE ~(component = "commitment" /\ Commit!Next)
    <3>1. component' = component /\ (component = "commitment" => UNCHANGED commitVars)
      BY <1>2, <2>3 DEF ExchangesNext, ExchangesVars
    <3>2. UNCHANGED commitVars => (Commit!Of(committed)' = Commit!Of(committed)
                                   /\ (Presented(committed, presented)' <=> Presented(committed, presented)))
      BY DEF commitVars, Commit!Of, Commit!KeysOf, Presented, Cipher, GcmText, GcmTag, Shared, CtCoins,
             Drawn, PreKey, PkOf
    <3>3. QED
      BY <1>2, <3>1, <3>2 DEF CommitInv, commitVars
  <2>4. QED
    BY <2>1, <2>2, <2>3 DEF Commit!Next
<1>3. QED
  BY <1>1, <1>2, PTL DEF ExchangesSpec
-----------------------------------------------------------------------------
(***************************************************************************)
(* The rounds of gake.c.  Each step of rounds 1 and 2 writes both ends of  *)
(* two edges of the ring, so that neighbours share their keys all the      *)
(* time.  What arrives differs from what was sent by errors that are in no *)
(* other value, and so do an X and its commitment.                         *)
(***************************************************************************)
Ring == 0 .. num_parties - 1

ErrorNames == {"error"} \X Nat
KeyNames   == {"right", "left", "coins", "error", "stack"} \X Nat
RoundKey   == SUBSET KeyNames

CommitmentType == [by : Int, m : RoundKey, index : Int, coins : RoundKey]

PartyType ==
    [key_left : RoundKey, key_right : RoundKey,
     xs : [Ring -> RoundKey], coins : [Ring -> RoundKey], commitments : [Ring -> CommitmentType],
     masterkey : [Ring -> RoundKey],
     sk : {<<>>} \union ({"sk"} \X (RoundKey \X RoundKey)),
     sid : {<<>>} \union ({"sid"} \X (RoundKey \X RoundKey)),
     acc : 0 .. 1, term : 0 .. 1]

GakeTypes ==
    /\ num_parties \in Nat \ {0} /\ party \in Ring /\ changed \in Nat
    /\ parties \in [Ring -> PartyType]
    /\ gakePc \in {"round12", "round3", "round4", "masterkey", "keys", "done", "refused"}

RingKeys == \A p \in Ring : parties[p].key_right = parties[Gake!mod(p + 1, num_parties)].key_left

\* Who has done the step of this round.
Broadcast(p) == gakePc # "round12" /\ (gakePc = "round3" => p < party)
Accepted(p)  == gakePc \in {"masterkey", "keys", "done"} \/ (gakePc = "round4" /\ p < party)
HasMaster(p) == gakePc \in {"keys", "done"} \/ (gakePc = "masterkey" /\ p < party)
HasKey(p)    == gakePc = "done" \/ (gakePc = "keys" /\ p < party)

\* What party k broadcasts.
XOf(k)     == Gake!Xor(parties[k].key_right, parties[k].key_left)
CoinsOf(k) == {<<"coins", k>>}

SentOnes ==
    /\ broadcast \in Seq([x : RoundKey, coins : RoundKey, commitment : CommitmentType])
    /\ Len(broadcast) = IF gakePc = "round12" THEN 0 ELSE IF gakePc = "round3" THEN party ELSE num_parties
    /\ \A k \in Ring : Broadcast(k) =>
          broadcast[k+1] = [x |-> XOf(k), coins |-> CoinsOf(k),
                            commitment |-> Gake!Commitment(k, XOf(k), k, CoinsOf(k))]

\* Value v arrives as w, with errors that have happened.
Arrives(v, w) == w \ ErrorNames = v /\ w \intersect ErrorNames \subseteq {"error"} \X (0 .. changed - 1)

ReceivedFrom(p, k) ==
    /\ Arrives(XOf(k), parties[p].xs[k])
    /\ Arrives(XOf(k), parties[p].commitments[k].m)
    /\ Arrives(CoinsOf(k), parties[p].coins[k])
    /\ parties[p].xs[k] \intersect parties[p].commitments[k].m \intersect ErrorNames = {}
    /\ parties[p].commitments[k].by = k /\ parties[p].commitments[k].index = k
    /\ parties[p].commitments[k].coins = CoinsOf(k)

ReceivedOnes == \A p, k \in Ring : Broadcast(k) => ReceivedFrom(p, k)

NoErrorNames == \A p \in Ring : parties[p].key_left \intersect ErrorNames = {}

AcceptedOnes ==
    \A p \in Ring : Accepted(p) =>
        \A k \in Ring : parties[p].xs[k] = XOf(k) /\ parties[p].coins[k] = CoinsOf(k)
                        /\ parties[p].commitments[k] = Gake!Commitment(k, XOf(k), k, CoinsOf(k))

MasterOnes == \A p \in Ring : HasMaster(p) => \A q \in Ring : parties[p].masterkey[q] = parties[q].key_left

\* The hash is over the first two left keys of the ring.
RingHash == Gake!Hashed([q \in Ring |-> parties[q].key_left])

KeyedOnes ==
    \A p \in Ring : HasKey(p) => parties[p].sk = <<"sk", RingHash>> /\ parties[p].sid = <<"sid", RingHash>>

GakeInv ==
    component = "gake" =>
        /\ GakeTypes /\ RingKeys /\ NoErrorNames /\ SentOnes /\ ReceivedOnes
        /\ AcceptedOnes /\ MasterOnes /\ KeyedOnes

LEMMA RingMod ==
    ASSUME NEW d \in Nat \ {0}, NEW x \in -d .. d
    PROVE  Gake!mod(x, d) = IF x < 0 THEN x + d ELSE IF x = d THEN 0 ELSE x
<1>1. Gake!mod(x, d) = Mod(x, d)
  <2>1. CASE x < 0
    <3>1. ~(x >= 0)
      BY <2>1
    <3>2. QED
      BY <2>1, <3>1, Zenon DEF Gake!mod, Mod, TruncatedDiv
  <2>2. CASE ~(x < 0)
    <3>1. x >= 0
      BY <2>2
    <3>2. QED
      BY <2>2, <3>1, Zenon DEF Gake!mod, Mod, TruncatedDiv
  <2>3. QED
    BY <2>1, <2>2
<1>2. CASE x \in -(d-1) .. d-1
  BY <1>1, <1>2, ModRange
<1>3. CASE x = d
  <2>1. d \div d = 1
    OBVIOUS
  <2>2. Mod(d, d) = 0
    BY <2>1 DEF Mod, TruncatedDiv
  <2>3. QED
    BY <1>1, <1>3, <2>2
<1>4. CASE x = -d
  <2>1. d \div d = 1 /\ -d < 0 /\ -(-d) = d
    OBVIOUS
  <2>2. TruncatedDiv(-d, d) = -1
    BY <2>1 DEF TruncatedDiv
  <2>3. Mod(-d, d) = 0
    BY <2>2 DEF Mod
  <2>4. QED
    BY <1>1, <1>4, <2>3
<1>5. QED
  BY <1>2, <1>3, <1>4

\* The neighbours on the ring.
LEMMA Neighbours ==
    ASSUME GakeTypes, NEW p \in Ring
    PROVE  /\ Gake!mod(p + 1, num_parties) = IF p = num_parties - 1 THEN 0 ELSE p + 1
           /\ Gake!mod(p - 1, num_parties) = IF p = 0 THEN num_parties - 1 ELSE p - 1
           /\ Gake!mod(p + 1, num_parties) \in Ring /\ Gake!mod(p - 1, num_parties) \in Ring
<1>1. /\ num_parties \in Nat \ {0} /\ p + 1 \in -num_parties .. num_parties
      /\ p - 1 \in -num_parties .. num_parties
  BY DEF GakeTypes, Ring
<1>2. QED
  BY <1>1, RingMod DEF Ring

WithLeftKey(qs, ps, p, v)  == qs = [ps EXCEPT ![p].key_left = v]
WithRightKey(qs, ps, p, v) == qs = [ps EXCEPT ![p].key_right = v]

\* What becomes of the parties when one key of one of them changes.
LEMMA OneLeftKey ==
    ASSUME NEW ps \in [Ring -> PartyType], NEW p \in Ring, NEW v \in RoundKey,
           NEW qs, WithLeftKey(qs, ps, p, v)
    PROVE  /\ qs \in [Ring -> PartyType]
           /\ \A q \in Ring : /\ qs[q].key_left = IF q = p THEN v ELSE ps[q].key_left
                              /\ qs[q].key_right = ps[q].key_right
<1>1. ASSUME NEW r \in PartyType
      PROVE  /\ [r EXCEPT !.key_left = v] \in PartyType /\ [r EXCEPT !.key_left = v].key_left = v
             /\ [r EXCEPT !.key_left = v].key_right = r.key_right
  BY DEF PartyType
<1> DEFINE r1 == [ps[p] EXCEPT !.key_left = v]
<1>2. r1 \in PartyType /\ r1.key_left = v /\ r1.key_right = ps[p].key_right
  BY <1>1
<1>3. qs = [ps EXCEPT ![p] = r1]
  BY DEF WithLeftKey
<1> HIDE DEF r1
<1>4. QED
  BY <1>2, <1>3

LEMMA OneRightKey ==
    ASSUME NEW ps \in [Ring -> PartyType], NEW p \in Ring, NEW v \in RoundKey,
           NEW qs, WithRightKey(qs, ps, p, v)
    PROVE  /\ qs \in [Ring -> PartyType]
           /\ \A q \in Ring : /\ qs[q].key_right = IF q = p THEN v ELSE ps[q].key_right
                              /\ qs[q].key_left = ps[q].key_left
<1>1. ASSUME NEW r \in PartyType
      PROVE  /\ [r EXCEPT !.key_right = v] \in PartyType /\ [r EXCEPT !.key_right = v].key_right = v
             /\ [r EXCEPT !.key_right = v].key_left = r.key_left
  BY DEF PartyType
<1> DEFINE r1 == [ps[p] EXCEPT !.key_right = v]
<1>2. r1 \in PartyType /\ r1.key_right = v /\ r1.key_left = ps[p].key_left
  BY <1>1
<1>3. qs = [ps EXCEPT ![p] = r1]
  BY DEF WithRightKey
<1> HIDE DEF r1
<1>4. QED
  BY <1>2, <1>3

LEMMA FreshNames ==
    ASSUME GakeTypes, NEW name \in {"right", "left", "coins"}
    PROVE  Gake!Fresh(name) = {<<name, party>>} /\ Gake!Fresh(name) \in RoundKey
           /\ Gake!Fresh(name) \intersect ErrorNames = {}
<1>1. party \in Nat
  BY DEF GakeTypes, Ring
<1>2. Gake!Fresh(name) = {<<name, party>>}
  BY DEF Gake!Fresh
<1>3. <<name, party>> \in KeyNames /\ <<name, party>> \notin ErrorNames
  BY <1>1 DEF KeyNames, ErrorNames
<1>4. QED
  BY <1>2, <1>3 DEF RoundKey

\* Where GoTo leads.
LEMMA GoToStep ==
    ASSUME GakeTypes, NEW next, Gake!GoTo(next), next # gakePc
    PROVE  \/ gakePc' = gakePc /\ party' = party + 1 /\ party + 1 \in Ring
           \/ gakePc' = next /\ party' = 0 /\ party = num_parties - 1 /\ 0 \in Ring
  BY DEF GakeTypes, Gake!GoTo, Ring

\* Rounds 1 and 2 of one party: its keys, and its neighbours' keys on their sides of it.
LEMMA KeysOfRing ==
    ASSUME GakeInv, component = "gake", Gake!compute_left_right_keys
    PROVE  /\ parties' \in [Ring -> PartyType] /\ num_parties' = num_parties
           /\ \A p \in Ring : parties'[p].key_right = parties'[Gake!mod(p + 1, num_parties)].key_left
           /\ \A p \in Ring : parties'[p].key_left \intersect ErrorNames = {}
<1> DEFINE a == party
           r == Gake!mod(a + 1, num_parties)
           l == Gake!mod(a - 1, num_parties)
           vr == Gake!Fresh("right")
           vl == Gake!Fresh("left")
           p0 == [parties EXCEPT ![a].key_right = vr]
           p1 == [p0 EXCEPT ![r].key_left = vr]
           p2 == [p1 EXCEPT ![a].key_left = vl]
           p3 == [p2 EXCEPT ![l].key_right = vl]
<1>1. GakeTypes /\ RingKeys /\ NoErrorNames
  BY DEF GakeInv
<1>2. a \in Ring /\ r \in Ring /\ l \in Ring
  BY <1>1, Neighbours DEF GakeTypes
<1>3. vr \in RoundKey /\ vl \in RoundKey /\ vr \intersect ErrorNames = {} /\ vl \intersect ErrorNames = {}
  BY <1>1, FreshNames
<1>4. parties' = p3 /\ num_parties' = num_parties
  BY DEF Gake!compute_left_right_keys
<1>5. parties \in [Ring -> PartyType]
  BY <1>1 DEF GakeTypes
<1> HIDE DEF a, r, l, vr, vl
<1>6. /\ p0 \in [Ring -> PartyType]
      /\ \A q \in Ring : p0[q].key_left = parties[q].key_left
                          /\ p0[q].key_right = IF q = a THEN vr ELSE parties[q].key_right
  <2>1. WithRightKey(p0, parties, a, vr)
    BY DEF WithRightKey
  <2> HIDE DEF p0
  <2>2. QED
    BY <1>2, <1>3, <1>5, <2>1, OneRightKey
<1> HIDE DEF p0
<1>7. /\ p1 \in [Ring -> PartyType]
      /\ \A q \in Ring : p1[q].key_right = p0[q].key_right
                          /\ p1[q].key_left = IF q = r THEN vr ELSE p0[q].key_left
  <2>1. WithLeftKey(p1, p0, r, vr)
    BY DEF WithLeftKey
  <2> HIDE DEF p1
  <2>2. QED
    BY <1>2, <1>3, <1>6, <2>1, OneLeftKey
<1> HIDE DEF p1
<1>8. /\ p2 \in [Ring -> PartyType]
      /\ \A q \in Ring : p2[q].key_right = p1[q].key_right
                          /\ p2[q].key_left = IF q = a THEN vl ELSE p1[q].key_left
  <2>1. WithLeftKey(p2, p1, a, vl)
    BY DEF WithLeftKey
  <2> HIDE DEF p2
  <2>2. QED
    BY <1>2, <1>3, <1>7, <2>1, OneLeftKey
<1> HIDE DEF p2
<1>9. /\ p3 \in [Ring -> PartyType]
      /\ \A q \in Ring : p3[q].key_left = p2[q].key_left
                          /\ p3[q].key_right = IF q = l THEN vl ELSE p2[q].key_right
  <2>1. WithRightKey(p3, p2, l, vl)
    BY DEF WithRightKey
  <2> HIDE DEF p3
  <2>2. QED
    BY <1>2, <1>3, <1>8, <2>1, OneRightKey
<1> HIDE DEF p3
<1>10. ASSUME NEW p \in Ring
       PROVE  /\ p3[p].key_left = IF p = a THEN vl ELSE IF p = r THEN vr ELSE parties[p].key_left
              /\ p3[p].key_right = IF p = l THEN vl ELSE IF p = a THEN vr ELSE parties[p].key_right
  BY <1>6, <1>7, <1>8, <1>9
<1>11. ASSUME NEW p \in Ring
       PROVE  p3[p].key_right = p3[Gake!mod(p + 1, num_parties)].key_left
  <2> DEFINE s == Gake!mod(p + 1, num_parties)
  <2>1. s \in Ring /\ parties[p].key_right = parties[s].key_left
    BY <1>1, Neighbours DEF RingKeys
  <2>2. p = l <=> s = a
    BY <1>1, <1>2, Neighbours DEF l, GakeTypes, Ring
  <2>3. p = a <=> s = r
    BY <1>1, <1>2, Neighbours DEF r, GakeTypes, Ring
  <2> HIDE DEF s
  <2>4. /\ p3[p].key_right = IF p = l THEN vl ELSE IF p = a THEN vr ELSE parties[p].key_right
        /\ p3[s].key_left = IF s = a THEN vl ELSE IF s = r THEN vr ELSE parties[s].key_left
    BY <1>10, <2>1
  <2>5. p3[p].key_right = p3[s].key_left
    BY <2>1, <2>2, <2>3, <2>4
  <2>6. QED
    BY <2>5 DEF s
<1>12. ASSUME NEW p \in Ring PROVE p3[p].key_left \intersect ErrorNames = {}
  BY <1>1, <1>3, <1>10 DEF NoErrorNames
<1>13. QED
  BY <1>4, <1>9, <1>11, <1>12

LEMMA SameRing ==
    ASSUME num_parties' = num_parties
    PROVE  Ring' = Ring /\ PartyType' = PartyType /\ CommitmentType' = CommitmentType /\ RoundKey' = RoundKey
  BY DEF Ring, PartyType, CommitmentType, RoundKey, KeyNames

LEMMA Round12Step ==
    ASSUME GakeInv, component = "gake", Gake!compute_left_right_keys
    PROVE  GakeInv'
<1>1. GakeTypes /\ SentOnes /\ gakePc = "round12"
  BY DEF GakeInv, Gake!compute_left_right_keys
<1>2. /\ parties' \in [Ring -> PartyType] /\ num_parties' = num_parties
      /\ \A p \in Ring : parties'[p].key_right = parties'[Gake!mod(p + 1, num_parties)].key_left
      /\ \A p \in Ring : parties'[p].key_left \intersect ErrorNames = {}
  BY KeysOfRing
<1>3. Ring' = Ring /\ PartyType' = PartyType /\ CommitmentType' = CommitmentType /\ RoundKey' = RoundKey
  BY <1>2, SameRing
<1>4. \/ gakePc' = "round12" /\ party' \in Ring
      \/ gakePc' = "round3" /\ party' = 0 /\ 0 \in Ring
  BY <1>1, GoToStep DEF Gake!compute_left_right_keys
<1>5. changed' = changed /\ broadcast' = broadcast
  BY DEF Gake!compute_left_right_keys
<1>6. GakeTypes'
  BY <1>1, <1>2, <1>3, <1>4, <1>5 DEF GakeTypes
<1>7. RingKeys' /\ NoErrorNames'
  BY <1>2, <1>3 DEF RingKeys, NoErrorNames
<1>8. ASSUME NEW p \in Ring PROVE ~Broadcast(p)' /\ ~Accepted(p)' /\ ~HasMaster(p)' /\ ~HasKey(p)'
  BY <1>4, <1>8 DEF Broadcast, Accepted, HasMaster, HasKey, Ring
<1>9. SentOnes'
  BY <1>1, <1>3, <1>4, <1>5, <1>8 DEF SentOnes
<1>10. ReceivedOnes' /\ AcceptedOnes' /\ MasterOnes' /\ KeyedOnes'
  BY <1>3, <1>8 DEF ReceivedOnes, AcceptedOnes, MasterOnes, KeyedOnes
<1>11. QED
  BY <1>6, <1>7, <1>9, <1>10 DEF GakeInv

LEMMA BroadcastKeys ==
    ASSUME GakeTypes, RingKeys, NoErrorNames, NEW k \in Ring
    PROVE  /\ XOf(k) \in RoundKey /\ XOf(k) \intersect ErrorNames = {}
           /\ CoinsOf(k) \in RoundKey /\ CoinsOf(k) \intersect ErrorNames = {}
           /\ Gake!Commitment(k, XOf(k), k, CoinsOf(k)) \in CommitmentType
<1>1. parties[k].key_left \in RoundKey /\ parties[k].key_right \in RoundKey /\ k \in Nat
  BY DEF GakeTypes, PartyType, Ring
<1>2. parties[k].key_left \intersect ErrorNames = {} /\ parties[k].key_right \intersect ErrorNames = {}
  <2>1. Gake!mod(k + 1, num_parties) \in Ring
    BY Neighbours
  <2>2. QED
    BY <2>1 DEF RingKeys, NoErrorNames
<1>3. XOf(k) \in RoundKey /\ XOf(k) \intersect ErrorNames = {}
  BY <1>1, <1>2 DEF XOf, Gake!Xor, RoundKey
<1>4. <<"coins", k>> \in KeyNames /\ <<"coins", k>> \notin ErrorNames
  BY <1>1 DEF KeyNames, ErrorNames
<1>5. CoinsOf(k) \in RoundKey /\ CoinsOf(k) \intersect ErrorNames = {}
  BY <1>4 DEF CoinsOf, RoundKey
<1>6. QED
  BY <1>1, <1>3, <1>5 DEF Gake!Commitment, CommitmentType

Stores(r, q, a, x, co, cm) == r = [q EXCEPT !.xs[a] = x, !.coins[a] = co, !.commitments[a] = cm]

\* What one party broadcasts is stored by all, at its index.
LEMMA StoredByAll ==
    ASSUME GakeTypes, NEW a \in Ring, NEW x \in RoundKey, NEW co \in RoundKey, NEW cm \in CommitmentType,
           NEW p \in Ring, NEW r,
           Stores(r, parties[p], a, x, co, cm)
    PROVE  /\ r \in PartyType
           /\ r.key_left = parties[p].key_left /\ r.key_right = parties[p].key_right
           /\ \A k \in Ring : /\ r.xs[k] = IF k = a THEN x ELSE parties[p].xs[k]
                              /\ r.coins[k] = IF k = a THEN co ELSE parties[p].coins[k]
                              /\ r.commitments[k] = IF k = a THEN cm ELSE parties[p].commitments[k]
<1>1. parties[p] \in PartyType
  BY DEF GakeTypes
<1> DEFINE q  == parties[p]
           vx == [q.xs EXCEPT ![a] = x]
           vc == [q.coins EXCEPT ![a] = co]
           vm == [q.commitments EXCEPT ![a] = cm]
<1>2. vx \in [Ring -> RoundKey] /\ vc \in [Ring -> RoundKey] /\ vm \in [Ring -> CommitmentType]
  BY <1>1 DEF PartyType
<1>3. \A k \in Ring : /\ vx[k] = IF k = a THEN x ELSE q.xs[k]
                      /\ vc[k] = IF k = a THEN co ELSE q.coins[k]
                      /\ vm[k] = IF k = a THEN cm ELSE q.commitments[k]
  BY <1>1 DEF PartyType
<1>4. r = [q EXCEPT !.xs = vx, !.coins = vc, !.commitments = vm]
  BY <1>1 DEF PartyType, Stores
<1> HIDE DEF vx, vc, vm
<1>5. /\ r \in PartyType /\ r.xs = vx /\ r.coins = vc /\ r.commitments = vm
      /\ r.key_left = q.key_left /\ r.key_right = q.key_right
  BY <1>1, <1>2, <1>4 DEF PartyType
<1>6. QED
  BY <1>3, <1>5

LEMMA Round3Step ==
    ASSUME GakeInv, component = "gake", Gake!compute_xs_commitments
    PROVE  GakeInv'
<1> DEFINE a  == party
           x  == XOf(a)
           co == CoinsOf(a)
           cm == Gake!Commitment(a, x, a, co)
<1>1. GakeTypes /\ RingKeys /\ NoErrorNames /\ SentOnes /\ ReceivedOnes /\ gakePc = "round3" /\ a \in Ring
  BY DEF GakeInv, Gake!compute_xs_commitments, GakeTypes
<1>2. x \in RoundKey /\ co \in RoundKey /\ cm \in CommitmentType
      /\ x \intersect ErrorNames = {} /\ co \intersect ErrorNames = {}
  BY SMTT(30), <1>1, BroadcastKeys
<1>3. /\ parties' = [p \in Ring |->
            [parties[p] EXCEPT !.xs[a] = x, !.coins[a] = co, !.commitments[a] = cm]]
      /\ broadcast' = Append(broadcast, [x |-> x, coins |-> co, commitment |-> cm])
      /\ num_parties' = num_parties /\ changed' = changed
  <2>1. Gake!Fresh("coins") = co
    BY <1>1, FreshNames DEF CoinsOf
  <2>2. QED
    BY <2>1 DEF Gake!compute_xs_commitments, XOf, Ring, Gake!Parties
<1>4. Ring' = Ring /\ PartyType' = PartyType /\ CommitmentType' = CommitmentType /\ RoundKey' = RoundKey
  BY <1>3, SameRing
<1>5. \/ gakePc' = "round3" /\ party' = a + 1 /\ a + 1 \in Ring
      \/ gakePc' = "round4" /\ party' = 0 /\ a = num_parties - 1 /\ 0 \in Ring
  BY <1>1, GoToStep DEF Gake!compute_xs_commitments
<1> HIDE DEF a, x, co, cm
<1>6. ASSUME NEW p \in Ring
      PROVE  /\ parties'[p] \in PartyType
             /\ parties'[p].key_left = parties[p].key_left /\ parties'[p].key_right = parties[p].key_right
             /\ \A k \in Ring : /\ parties'[p].xs[k] = IF k = a THEN x ELSE parties[p].xs[k]
                                /\ parties'[p].coins[k] = IF k = a THEN co ELSE parties[p].coins[k]
                                /\ parties'[p].commitments[k] = IF k = a THEN cm ELSE parties[p].commitments[k]
  <2>1. Stores(parties'[p], parties[p], a, x, co, cm)
    BY <1>3 DEF Stores
  <2>2. QED
    BY <1>1, <1>2, <2>1, StoredByAll
<1>7. parties' \in [Ring -> PartyType]
  <2>1. parties' = [p \in Ring |-> parties'[p]]
    BY <1>3
  <2>2. QED
    BY <1>6, <2>1
<1>8. GakeTypes'
  BY ZenonT(40), <1>1, <1>3, <1>4, <1>5, <1>7 DEF GakeTypes
<1>9. RingKeys' /\ NoErrorNames'
  <2>1. \A p \in Ring : Gake!mod(p + 1, num_parties) \in Ring
    BY <1>1, Neighbours
  <2>2. ASSUME NEW p \in Ring
        PROVE  parties'[p].key_right = parties'[Gake!mod(p + 1, num_parties)].key_left
    <3> DEFINE s == Gake!mod(p + 1, num_parties)
    <3>1. s \in Ring /\ parties[p].key_right = parties[s].key_left
      BY <1>1, <2>1 DEF RingKeys
    <3> HIDE DEF s
    <3>2. parties'[p].key_right = parties'[s].key_left
      BY <1>6, <3>1
    <3>3. QED
      BY <3>2 DEF s
  <2>3. QED
    BY ZenonT(40), <1>1, <1>3, <1>4, <1>6, <2>2 DEF RingKeys, NoErrorNames
<1>10. ASSUME NEW k \in Ring PROVE XOf(k)' = XOf(k) /\ CoinsOf(k)' = CoinsOf(k)
  BY <1>6 DEF XOf, CoinsOf
<1>11. ASSUME NEW k \in Ring
       PROVE  (Broadcast(k)' <=> Broadcast(k) \/ k = a) /\ (Broadcast(k) <=> k < a)
  BY <1>1, <1>5, <1>11 DEF Broadcast, Ring, a, GakeTypes
<1>12. SentOnes'
  <2> DEFINE e == [x |-> x, coins |-> co, commitment |-> cm]
             T == [x : RoundKey, coins : RoundKey, commitment : CommitmentType]
  <2>1. e \in T
    BY <1>2
  <2>2. broadcast \in Seq(T) /\ Len(broadcast) = a /\ a \in Nat
    BY <1>1 DEF SentOnes, a, Ring
  <2>3. broadcast' = Append(broadcast, e)
    BY <1>3
  <2> HIDE DEF e, T
  <2>4. /\ broadcast' \in Seq(T) /\ Len(broadcast') = a + 1 /\ broadcast'[a + 1] = e
        /\ \A k \in 1 .. a : broadcast'[k] = broadcast[k]
    BY <2>1, <2>2, <2>3
  <2>5. ASSUME NEW k \in Ring, Broadcast(k)'
        PROVE  broadcast'[k+1] = [x |-> XOf(k)', coins |-> CoinsOf(k)',
                                  commitment |-> Gake!Commitment(k, XOf(k)', k, CoinsOf(k)')]
    <3>1. CASE k = a
      BY <1>10, <2>4, <3>1 DEF e, x, co, cm
    <3>2. CASE k # a
      <4>1. Broadcast(k) /\ k + 1 \in 1 .. a
        BY <1>11, <2>2, <2>5, <3>2 DEF Ring
      <4>2. QED
        BY <1>1, <1>10, <2>4, <4>1 DEF SentOnes
    <3>3. QED
      BY <3>1, <3>2
  <2>6. Len(broadcast') = IF gakePc' = "round12" THEN 0 ELSE IF gakePc' = "round3" THEN party' ELSE num_parties'
    <3>1. CASE gakePc' = "round3"
      BY <1>5, <2>4, <3>1
    <3>2. CASE gakePc' = "round4" /\ a = num_parties - 1
      <4>1. a + 1 = num_parties
        BY <1>1, <3>2 DEF GakeTypes
      <4>2. QED
        BY <1>3, <2>4, <3>2, <4>1
    <3>3. QED
      BY <1>5, <3>1, <3>2
  <2>7. T' = T
    BY <1>4 DEF T
  <2>8. broadcast' \in Seq([x : RoundKey, coins : RoundKey, commitment : CommitmentType])'
    BY <2>4, <2>7 DEF T
  <2>9. QED
    BY <1>4, <2>5, <2>6, <2>8 DEF SentOnes, Gake!Commitment
<1>13. ReceivedOnes'
  <2>1. SUFFICES ASSUME NEW p \in Ring, NEW k \in Ring, Broadcast(k)' PROVE ReceivedFrom(p, k)'
    BY <1>4 DEF ReceivedOnes
  <2>2. CASE k = a
    <3>1. parties'[p].xs[k] = x /\ parties'[p].coins[k] = co /\ parties'[p].commitments[k] = cm
      BY <1>6, <2>2
    <3>2. cm.by = a /\ cm.index = a /\ cm.m = x /\ cm.coins = co
      BY DEF cm, Gake!Commitment
    <3>3. x \ ErrorNames = x /\ co \ ErrorNames = co
      BY <1>2
    <3>4. XOf(k)' = x /\ CoinsOf(k)' = co
      BY SMTT(30), <1>10, <2>2 DEF x, co
    <3>5. QED
      BY <1>2, <2>2, <3>1, <3>2, <3>3, <3>4 DEF ReceivedFrom, Arrives
  <2>3. CASE k # a
    <3>1. ReceivedFrom(p, k)
      BY <1>1, <1>11, <2>1, <2>3 DEF ReceivedOnes
    <3>2. /\ parties'[p].xs[k] = parties[p].xs[k] /\ parties'[p].coins[k] = parties[p].coins[k]
          /\ parties'[p].commitments[k] = parties[p].commitments[k]
      BY <1>6, <2>1, <2>3
    <3>3. XOf(k)' = XOf(k) /\ CoinsOf(k)' = CoinsOf(k)
      BY <1>10
    <3>4. QED
      BY <1>3, <3>1, <3>2, <3>3 DEF ReceivedFrom, Arrives
  <2>4. QED
    BY <2>2, <2>3
<1>14. ASSUME NEW p \in Ring PROVE ~Accepted(p)' /\ ~HasMaster(p)' /\ ~HasKey(p)'
  BY <1>5, <1>14 DEF Accepted, HasMaster, HasKey, Ring
<1>15. AcceptedOnes' /\ MasterOnes' /\ KeyedOnes'
  BY <1>4, <1>14 DEF AcceptedOnes, MasterOnes, KeyedOnes
<1>16. QED
  BY <1>8, <1>9, <1>12, <1>13, <1>15 DEF GakeInv

(***************************************************************************)
(* One value of one party is replaced.                                     *)
(***************************************************************************)
WithX(ps, p, k, v)          == [ps EXCEPT ![p].xs[k] = v]
WithCoins(ps, p, k, v)      == [ps EXCEPT ![p].coins[k] = v]
WithCommitment(ps, p, k, v) == [ps EXCEPT ![p].commitments[k].m = v]

\* The other values stay.
Replaced(ps, qs, p, k, x, co, cm) ==
    /\ qs \in [Ring -> PartyType]
    /\ \A q \in Ring :
         /\ qs[q].key_left = ps[q].key_left /\ qs[q].key_right = ps[q].key_right
         /\ \A j \in Ring :
              /\ qs[q].xs[j] = IF q = p /\ j = k THEN x ELSE ps[q].xs[j]
              /\ qs[q].coins[j] = IF q = p /\ j = k THEN co ELSE ps[q].coins[j]
              /\ qs[q].commitments[j] = IF q = p /\ j = k THEN cm ELSE ps[q].commitments[j]

LEMMA ReplacedX ==
    ASSUME NEW ps \in [Ring -> PartyType], NEW p \in Ring, NEW k \in Ring, NEW v \in RoundKey
    PROVE  Replaced(ps, WithX(ps, p, k, v), p, k, v, ps[p].coins[k], ps[p].commitments[k])
<1> DEFINE r  == ps[p]
           w  == v
           f  == [r.xs EXCEPT ![k] = w]
           r1 == [r EXCEPT !.xs = f]
<1>1. r \in PartyType /\ r.xs \in [Ring -> RoundKey]
  BY DEF PartyType
<1>2. w \in RoundKey
  BY <1>1 DEF CommitmentType
<1>3. WithX(ps, p, k, v) = [ps EXCEPT ![p] = r1]
  BY DEF WithX
<1> HIDE DEF w, r
<1>4. f \in [Ring -> RoundKey] /\ \A j \in Ring : f[j] = IF j = k THEN w ELSE r.xs[j]
  BY <1>1, <1>2
<1> HIDE DEF f
<1>5. /\ r1 \in PartyType /\ r1.xs = f /\ r1.coins = r.coins /\ r1.commitments = r.commitments
      /\ r1.key_left = r.key_left /\ r1.key_right = r.key_right
  BY <1>1, <1>4 DEF PartyType
<1> HIDE DEF r1
<1> DEFINE qs == WithX(ps, p, k, v)
<1>6. qs \in [Ring -> PartyType] /\ \A q \in Ring : qs[q] = IF q = p THEN r1 ELSE ps[q]
  BY <1>3, <1>5
<1> HIDE DEF qs
<1>7. Replaced(ps, qs, p, k, v, ps[p].coins[k], ps[p].commitments[k])
  BY <1>4, <1>5, <1>6 DEF Replaced, r, w
<1>8. QED
  BY <1>7 DEF qs

LEMMA ReplacedCoins ==
    ASSUME NEW ps \in [Ring -> PartyType], NEW p \in Ring, NEW k \in Ring, NEW v \in RoundKey
    PROVE  Replaced(ps, WithCoins(ps, p, k, v), p, k, ps[p].xs[k], v, ps[p].commitments[k])
<1> DEFINE r  == ps[p]
           w  == v
           f  == [r.coins EXCEPT ![k] = w]
           r1 == [r EXCEPT !.coins = f]
<1>1. r \in PartyType /\ r.coins \in [Ring -> RoundKey]
  BY DEF PartyType
<1>2. w \in RoundKey
  BY <1>1 DEF CommitmentType
<1>3. WithCoins(ps, p, k, v) = [ps EXCEPT ![p] = r1]
  BY DEF WithCoins
<1> HIDE DEF w, r
<1>4. f \in [Ring -> RoundKey] /\ \A j \in Ring : f[j] = IF j = k THEN w ELSE r.coins[j]
  BY <1>1, <1>2
<1> HIDE DEF f
<1>5. /\ r1 \in PartyType /\ r1.coins = f /\ r1.xs = r.xs /\ r1.commitments = r.commitments
      /\ r1.key_left = r.key_left /\ r1.key_right = r.key_right
  BY <1>1, <1>4 DEF PartyType
<1> HIDE DEF r1
<1> DEFINE qs == WithCoins(ps, p, k, v)
<1>6. qs \in [Ring -> PartyType] /\ \A q \in Ring : qs[q] = IF q = p THEN r1 ELSE ps[q]
  BY <1>3, <1>5
<1> HIDE DEF qs
<1>7. Replaced(ps, qs, p, k, ps[p].xs[k], v, ps[p].commitments[k])
  BY <1>4, <1>5, <1>6 DEF Replaced, r, w
<1>8. QED
  BY <1>7 DEF qs

LEMMA ReplacedCommitment ==
    ASSUME NEW ps \in [Ring -> PartyType], NEW p \in Ring, NEW k \in Ring, NEW v \in RoundKey
    PROVE  Replaced(ps, WithCommitment(ps, p, k, v), p, k, ps[p].xs[k], ps[p].coins[k], [ps[p].commitments[k] EXCEPT !.m = v])
<1> DEFINE r  == ps[p]
           w  == [ps[p].commitments[k] EXCEPT !.m = v]
           f  == [r.commitments EXCEPT ![k] = w]
           r1 == [r EXCEPT !.commitments = f]
<1>1. r \in PartyType /\ r.commitments \in [Ring -> CommitmentType]
  BY DEF PartyType
<1>2. w \in CommitmentType
  BY <1>1 DEF CommitmentType
<1>3. WithCommitment(ps, p, k, v) = [ps EXCEPT ![p] = r1]
  BY DEF WithCommitment
<1> HIDE DEF w, r
<1>4. f \in [Ring -> CommitmentType] /\ \A j \in Ring : f[j] = IF j = k THEN w ELSE r.commitments[j]
  BY <1>1, <1>2
<1> HIDE DEF f
<1>5. /\ r1 \in PartyType /\ r1.commitments = f /\ r1.xs = r.xs /\ r1.coins = r.coins
      /\ r1.key_left = r.key_left /\ r1.key_right = r.key_right
  BY <1>1, <1>4 DEF PartyType
<1> HIDE DEF r1
<1> DEFINE qs == WithCommitment(ps, p, k, v)
<1>6. qs \in [Ring -> PartyType] /\ \A q \in Ring : qs[q] = IF q = p THEN r1 ELSE ps[q]
  BY <1>3, <1>5
<1> HIDE DEF qs
<1>7. Replaced(ps, qs, p, k, ps[p].xs[k], ps[p].coins[k], [ps[p].commitments[k] EXCEPT !.m = v])
  BY <1>4, <1>5, <1>6 DEF Replaced, r, w
<1>8. QED
  BY <1>7 DEF qs

LEMMA ChangeStep ==
    ASSUME GakeInv, component = "gake", Gake!Change
    PROVE  GakeInv'
<1> DEFINE error == {<<"error", changed>>}
<1>1. /\ GakeTypes /\ RingKeys /\ NoErrorNames /\ SentOnes /\ ReceivedOnes
      /\ gakePc = "round4" /\ party = 0 /\ 0 \in Ring
  BY DEF GakeInv, Gake!Change, GakeTypes
<1>2. /\ num_parties' = num_parties /\ changed' = changed + 1 /\ changed \in Nat
      /\ gakePc' = gakePc /\ party' = party /\ broadcast' = broadcast
  BY <1>1 DEF Gake!Change, GakeTypes
<1>3. Ring' = Ring /\ PartyType' = PartyType /\ CommitmentType' = CommitmentType /\ RoundKey' = RoundKey
  BY <1>2, SameRing
<1>4. PICK p \in Ring, k \in Ring :
        \/ parties' = WithX(parties, p, k, Gake!Xor(parties[p].xs[k], error))
        \/ parties' = WithCoins(parties, p, k, Gake!Xor(parties[p].coins[k], error))
        \/ parties' = WithCommitment(parties, p, k, Gake!Xor(parties[p].commitments[k].m, error))
  BY Zenon DEF Gake!Change, Gake!Parties, Ring, WithX, WithCoins, WithCommitment
<1>5. /\ parties \in [Ring -> PartyType] /\ parties[p].xs[k] \in RoundKey /\ parties[p].coins[k] \in RoundKey
      /\ parties[p].commitments[k] \in CommitmentType /\ parties[p].commitments[k].m \in RoundKey
  <2>1. parties \in [Ring -> PartyType] /\ parties[p] \in PartyType
    BY <1>1 DEF GakeTypes
  <2>2. /\ parties[p].xs[k] \in RoundKey /\ parties[p].coins[k] \in RoundKey
        /\ parties[p].commitments[k] \in CommitmentType
    BY <2>1 DEF PartyType
  <2>3. QED
    BY <2>1, <2>2 DEF CommitmentType
<1>6. ReceivedFrom(p, k)
  BY <1>1 DEF ReceivedOnes, Broadcast
<1> DEFINE Changed3(x, co, cm) ==
             /\ Replaced(parties, parties', p, k, x, co, cm)
             /\ x \ ErrorNames = XOf(k) /\ co \ ErrorNames = CoinsOf(k) /\ cm.m \ ErrorNames = XOf(k)
             /\ (x \union co \union cm.m) \intersect ErrorNames \subseteq {"error"} \X (0 .. changed)
             /\ x \intersect cm.m \intersect ErrorNames = {}
             /\ cm.by = k /\ cm.index = k /\ cm.coins = CoinsOf(k)
<1>7. \A w \in RoundKey : \A v : Arrives(v, w) =>
        /\ Gake!Xor(w, error) \in RoundKey /\ Gake!Xor(w, error) \ ErrorNames = v
        /\ Gake!Xor(w, error) \intersect ErrorNames \subseteq {"error"} \X (0 .. changed)
        /\ w \intersect ErrorNames \subseteq {"error"} \X (0 .. changed)
        /\ <<"error", changed>> \notin w
  <2>1. <<"error", changed>> \in ErrorNames /\ <<"error", changed>> \in KeyNames
    BY <1>2 DEF ErrorNames, KeyNames
  <2>2. SUFFICES ASSUME NEW w \in RoundKey, NEW v, Arrives(v, w)
        PROVE  /\ Gake!Xor(w, error) \in RoundKey /\ Gake!Xor(w, error) \ ErrorNames = v
               /\ Gake!Xor(w, error) \intersect ErrorNames \subseteq {"error"} \X (0 .. changed)
               /\ w \intersect ErrorNames \subseteq {"error"} \X (0 .. changed)
               /\ <<"error", changed>> \notin w
    OBVIOUS
  <2>3. w \intersect ErrorNames \subseteq {"error"} \X (0 .. changed)
    BY <1>2, <2>2 DEF Arrives
  <2>4. <<"error", changed>> \notin w
    BY <1>2, <2>1, <2>2 DEF Arrives
  <2>5. Gake!Xor(w, error) = w \union error
    BY <2>4 DEF Gake!Xor
  <2>6. <<"error", changed>> \in {"error"} \X (0 .. changed)
    BY <1>2
  <2>7. (w \union error) \intersect ErrorNames \subseteq {"error"} \X (0 .. changed)
    BY <2>3, <2>6
  <2>8. (w \union error) \ ErrorNames = v
    BY <2>1, <2>2 DEF Arrives
  <2>9. w \union error \in RoundKey
    BY <2>1 DEF RoundKey
  <2>10. QED
    BY <2>3, <2>4, <2>5, <2>7, <2>8, <2>9
<1>8. \E x, co, cm : Changed3(x, co, cm)
  <2> DEFINE x0 == parties[p].xs[k]
             c0 == parties[p].coins[k]
             m0 == parties[p].commitments[k]
  <2>1. /\ Arrives(XOf(k), x0) /\ Arrives(XOf(k), m0.m) /\ Arrives(CoinsOf(k), c0)
        /\ x0 \intersect m0.m \intersect ErrorNames = {}
        /\ m0.by = k /\ m0.index = k /\ m0.coins = CoinsOf(k)
        /\ x0 \in RoundKey /\ c0 \in RoundKey /\ m0.m \in RoundKey /\ m0 \in CommitmentType
    BY <1>5, <1>6 DEF ReceivedFrom
  <2>2. x0 \ ErrorNames = XOf(k) /\ c0 \ ErrorNames = CoinsOf(k) /\ m0.m \ ErrorNames = XOf(k)
    BY <2>1 DEF Arrives
  <2>3. ASSUME NEW w \in RoundKey, <<"error", changed>> \notin w
        PROVE  Gake!Xor(w, error) = w \union error
    BY <2>3 DEF Gake!Xor
  <2>4. CASE parties' = WithX(parties, p, k, Gake!Xor(x0, error))
    <3> DEFINE x1 == Gake!Xor(x0, error)
    <3>1. Replaced(parties, parties', p, k, x1, c0, m0)
      BY <1>5, <1>7, <2>1, <2>4, ReplacedX
    <3>2. x1 \intersect m0.m \intersect ErrorNames = {}
      <4>1. x1 = x0 \union error /\ <<"error", changed>> \notin m0.m
        BY <1>7, <2>1, <2>3
      <4>2. (x0 \union error) \intersect m0.m \intersect ErrorNames = {}
        <5>1. <<"error", changed>> \notin m0.m
          BY <4>1
        <5>2. x0 \intersect m0.m \intersect ErrorNames = {}
          BY <2>1
        <5> HIDE DEF x0, m0
        <5>3. QED
          BY <5>1, <5>2
      <4> HIDE DEF x0, m0, x1, error
      <4>3. QED
        BY <4>1, <4>2
    <3>3. Changed3(x1, c0, m0)
      <4> HIDE DEF x0, c0, m0, error
      <4>1. QED
        BY <1>7, <2>1, <2>2, <3>1, <3>2
    <3>4. QED
      BY <3>3, Zenon
  <2>5. CASE parties' = WithCoins(parties, p, k, Gake!Xor(c0, error))
    <3> DEFINE c1 == Gake!Xor(c0, error)
    <3>1. Replaced(parties, parties', p, k, x0, c1, m0)
      BY <1>5, <1>7, <2>1, <2>5, ReplacedCoins
    <3>2. Changed3(x0, c1, m0)
      <4> HIDE DEF x0, c0, m0, error
      <4>1. QED
        BY <1>7, <2>1, <2>2, <3>1
    <3>3. QED
      BY <3>2, Zenon
  <2>6. CASE parties' = WithCommitment(parties, p, k, Gake!Xor(m0.m, error))
    <3> DEFINE e1 == Gake!Xor(m0.m, error)
               m1 == [m0 EXCEPT !.m = e1]
    <3>1. Replaced(parties, parties', p, k, x0, c0, m1)
      BY <1>5, <1>7, <2>1, <2>6, ReplacedCommitment
    <3>2. m1.m = e1 /\ m1.by = k /\ m1.index = k /\ m1.coins = CoinsOf(k)
      <4> HIDE DEF m0, e1
      <4>1. QED
        BY <2>1 DEF CommitmentType
    <3>3. x0 \intersect e1 \intersect ErrorNames = {}
      <4>1. e1 = m0.m \union error /\ <<"error", changed>> \notin x0
        BY <1>7, <2>1, <2>3
      <4>2. (m0.m \union error) \intersect x0 \intersect ErrorNames = {}
        <5>1. <<"error", changed>> \notin x0
          BY <4>1
        <5>2. x0 \intersect m0.m \intersect ErrorNames = {}
          BY <2>1
        <5> HIDE DEF x0, m0
        <5>3. QED
          BY <5>1, <5>2
      <4> HIDE DEF x0, m0, e1, error
      <4>3. QED
        BY <4>1, <4>2
    <3>4. Changed3(x0, c0, m1)
      <4> HIDE DEF x0, c0, m0, m1, error
      <4>1. QED
        BY <1>7, <2>1, <2>2, <3>1, <3>2, <3>3
    <3>5. QED
      BY <3>4, Zenon
  <2>7. QED
    BY <1>4, <2>4, <2>5, <2>6
<1>9. PICK x, co, cm : Changed3(x, co, cm)
  BY <1>8
<1>10. Replaced(parties, parties', p, k, x, co, cm)
  BY <1>9
<1>11. GakeTypes'
  BY <1>1, <1>2, <1>3, <1>10 DEF GakeTypes, Replaced
<1>12. RingKeys' /\ NoErrorNames'
  <2>1. \A q \in Ring : Gake!mod(q + 1, num_parties) \in Ring
    BY <1>1, Neighbours
  <2>2. ASSUME NEW q \in Ring
        PROVE  parties'[q].key_right = parties'[Gake!mod(q + 1, num_parties)].key_left
    <3> DEFINE s == Gake!mod(q + 1, num_parties)
    <3>1. s \in Ring /\ parties[q].key_right = parties[s].key_left
      BY <1>1, <2>1 DEF RingKeys
    <3> HIDE DEF s
    <3>2. parties'[q].key_right = parties'[s].key_left
      BY <1>10, <3>1 DEF Replaced
    <3>3. QED
      BY <3>2 DEF s
  <2>3. QED
    BY <1>1, <1>2, <1>3, <1>10, <2>2 DEF RingKeys, NoErrorNames, Replaced
<1>13. ASSUME NEW j \in Ring PROVE XOf(j)' = XOf(j) /\ CoinsOf(j)' = CoinsOf(j)
  BY <1>10 DEF XOf, CoinsOf, Replaced
<1>14. SentOnes'
  BY <1>1, <1>2, <1>3, <1>13 DEF SentOnes, Broadcast, Gake!Commitment
<1>15. ReceivedOnes'
  <2>1. SUFFICES ASSUME NEW q \in Ring, NEW j \in Ring PROVE ReceivedFrom(q, j)'
    BY <1>3 DEF ReceivedOnes
  <2>2. ReceivedFrom(q, j)
    BY <1>1 DEF ReceivedOnes, Broadcast
  <2>3. CASE q = p /\ j = k
    <3>1. parties'[q].xs[j] = x /\ parties'[q].coins[j] = co /\ parties'[q].commitments[j] = cm
      BY <1>10, <2>3 DEF Replaced
    <3>2. Arrives(XOf(k), x)' /\ Arrives(XOf(k), cm.m)' /\ Arrives(CoinsOf(k), co)'
      BY <1>2, <1>9, <1>13 DEF Arrives
    <3>3. QED
      BY <1>9, <1>13, <2>3, <3>1, <3>2 DEF ReceivedFrom, Arrives
  <2>4. CASE ~(q = p /\ j = k)
    <3>1. /\ parties'[q].xs[j] = parties[q].xs[j] /\ parties'[q].coins[j] = parties[q].coins[j]
          /\ parties'[q].commitments[j] = parties[q].commitments[j]
      BY <1>10, <2>4 DEF Replaced
    <3>2. \A v, w : Arrives(v, w) => w \ ErrorNames = v /\ w \intersect ErrorNames \subseteq {"error"} \X (0 .. changed')
      BY <1>2 DEF Arrives
    <3>3. QED
      BY <1>2, <1>13, <2>2, <3>1, <3>2 DEF ReceivedFrom, Arrives
  <2>5. QED
    BY <2>3, <2>4
<1>16. ASSUME NEW q \in Ring PROVE ~Accepted(q)' /\ ~HasMaster(q)' /\ ~HasKey(q)'
  BY <1>1, <1>2, <1>16 DEF Accepted, HasMaster, HasKey, Ring
<1>17. AcceptedOnes' /\ MasterOnes' /\ KeyedOnes'
  BY <1>3, <1>16 DEF AcceptedOnes, MasterOnes, KeyedOnes
<1>18. QED
  BY <1>11, <1>12, <1>14, <1>15, <1>17 DEF GakeInv

\* From round 4 on nothing is sent, and nothing of what has arrived is written.
RoundsOver ==
    /\ num_parties' = num_parties /\ changed' = changed /\ broadcast' = broadcast
    /\ gakePc \notin {"round12", "round3"} /\ gakePc' \notin {"round12", "round3"}
    /\ parties' \in [Ring -> PartyType]
    /\ \A q \in Ring : /\ parties'[q].key_left = parties[q].key_left
                       /\ parties'[q].key_right = parties[q].key_right
                       /\ parties'[q].xs = parties[q].xs /\ parties'[q].coins = parties[q].coins
                       /\ parties'[q].commitments = parties[q].commitments

LEMMA WhatArrivedStays ==
    ASSUME GakeInv, component = "gake", RoundsOver
    PROVE  /\ RingKeys' /\ NoErrorNames' /\ SentOnes' /\ ReceivedOnes' /\ Ring' = Ring
           /\ \A k \in Ring : XOf(k)' = XOf(k) /\ CoinsOf(k)' = CoinsOf(k)
<1>1. GakeTypes /\ RingKeys /\ NoErrorNames /\ SentOnes /\ ReceivedOnes
  BY DEF GakeInv
<1>2. Ring' = Ring /\ PartyType' = PartyType /\ CommitmentType' = CommitmentType /\ RoundKey' = RoundKey
  BY SameRing DEF RoundsOver
<1>3. RingKeys' /\ NoErrorNames'
  <2>1. \A q \in Ring : Gake!mod(q + 1, num_parties) \in Ring
    BY <1>1, Neighbours
  <2>2. ASSUME NEW q \in Ring
        PROVE  parties'[q].key_right = parties'[Gake!mod(q + 1, num_parties)].key_left
    <3> DEFINE s == Gake!mod(q + 1, num_parties)
    <3>1. s \in Ring /\ parties[q].key_right = parties[s].key_left
      BY <1>1, <2>1 DEF RingKeys
    <3> HIDE DEF s
    <3>2. parties'[q].key_right = parties'[s].key_left
      BY <3>1 DEF RoundsOver
    <3>3. QED
      BY <3>2 DEF s
  <2>3. QED
    BY <1>1, <1>2, <2>2 DEF RingKeys, NoErrorNames, RoundsOver
<1>4. ASSUME NEW k \in Ring PROVE XOf(k)' = XOf(k) /\ CoinsOf(k)' = CoinsOf(k)
  BY DEF XOf, CoinsOf, RoundsOver
<1>5. SentOnes'
  BY <1>1, <1>2, <1>4 DEF SentOnes, Broadcast, Gake!Commitment, RoundsOver
<1>6. ReceivedOnes'
  <2>1. SUFFICES ASSUME NEW q \in Ring, NEW j \in Ring PROVE ReceivedFrom(q, j)'
    BY <1>2 DEF ReceivedOnes
  <2>2. ReceivedFrom(q, j)
    BY <1>1 DEF ReceivedOnes, Broadcast, RoundsOver
  <2>3. /\ parties'[q].xs = parties[q].xs /\ parties'[q].coins = parties[q].coins
        /\ parties'[q].commitments = parties[q].commitments /\ changed' = changed
    BY DEF RoundsOver
  <2>4. QED
    BY <1>4, <2>2, <2>3 DEF ReceivedFrom, Arrives
<1>7. QED
  BY <1>2, <1>3, <1>4, <1>5, <1>6

\* The commitments of a party that check are those that were sent, and so are the Xs and
\* the coins they were checked with.
LEMMA CheckedCommitments ==
    ASSUME GakeInv, component = "gake", gakePc = "round4", NEW p \in Ring,
           Gake!check_commitments(parties[p]), NEW k \in Ring
    PROVE  parties[p].xs[k] = XOf(k) /\ parties[p].coins[k] = CoinsOf(k)
           /\ parties[p].commitments[k] = Gake!Commitment(k, XOf(k), k, CoinsOf(k))
<1> DEFINE x == parties[p].xs[k]
           co == parties[p].coins[k]
           cm == parties[p].commitments[k]
<1>1. ReceivedFrom(p, k)
  BY DEF GakeInv, ReceivedOnes, Broadcast
<1>2. cm = Gake!Commitment(k, x, k, co)
  BY DEF Gake!check_commitments, Gake!Parties, Ring
<1>3. cm.m = x /\ cm.coins = co
  BY <1>2 DEF Gake!Commitment
<1>4. co = CoinsOf(k)
  BY <1>1, <1>3 DEF ReceivedFrom
<1>5. x \ ErrorNames = XOf(k) /\ x \intersect cm.m \intersect ErrorNames = {}
  BY <1>1 DEF ReceivedFrom, Arrives
<1> HIDE DEF x, co, cm
<1>6. x = XOf(k)
  BY <1>3, <1>5
<1>7. QED
  BY <1>2, <1>4, <1>6 DEF x, co, cm

LEMMA Round4Step ==
    ASSUME GakeInv, component = "gake", Gake!Round4
    PROVE  GakeInv'
<1>1. GakeTypes /\ AcceptedOnes /\ gakePc = "round4" /\ party \in Ring
  BY DEF GakeInv, Gake!Round4, GakeTypes
<1>2. num_parties' = num_parties /\ changed' = changed /\ broadcast' = broadcast
  BY DEF Gake!Round4
<1>3. Ring' = Ring /\ PartyType' = PartyType
  BY <1>2, SameRing
<1>4. CASE Gake!check_commitments(parties[party]) /\ Gake!GoTo("masterkey") /\ parties' = parties
  <2>1. \/ gakePc' = "round4" /\ party' = party + 1 /\ party + 1 \in Ring
        \/ gakePc' = "masterkey" /\ party' = 0 /\ party = num_parties - 1 /\ 0 \in Ring
    BY <1>1, <1>4, GoToStep
  <2>2. GakeTypes'
    BY <1>1, <1>2, <1>3, <1>4, <2>1 DEF GakeTypes
  <2>3. RoundsOver
    BY <1>1, <1>2, <1>4, <2>1 DEF RoundsOver, GakeTypes
  <2>4. /\ RingKeys' /\ NoErrorNames' /\ SentOnes' /\ ReceivedOnes'
        /\ \A k \in Ring : XOf(k)' = XOf(k) /\ CoinsOf(k)' = CoinsOf(k)
    BY <2>3, WhatArrivedStays
  <2>5. ASSUME NEW q \in Ring PROVE (Accepted(q)' => Accepted(q) \/ q = party) /\ ~HasMaster(q)' /\ ~HasKey(q)'
    BY <1>1, <2>1, <2>5 DEF Accepted, HasMaster, HasKey, Ring, GakeTypes
  <2>6. ASSUME NEW q \in Ring, Accepted(q)', NEW k \in Ring
        PROVE  parties[q].xs[k] = XOf(k) /\ parties[q].coins[k] = CoinsOf(k)
               /\ parties[q].commitments[k] = Gake!Commitment(k, XOf(k), k, CoinsOf(k))
    <3>1. CASE Accepted(q)
      BY <1>1, <3>1 DEF AcceptedOnes
    <3>2. CASE q = party
      BY <1>1, <1>4, <3>2, CheckedCommitments
    <3>3. QED
      BY <2>5, <2>6, <3>1, <3>2
  <2>7. AcceptedOnes'
    BY <1>3, <1>4, <2>4, <2>6 DEF AcceptedOnes, Gake!Commitment
  <2>8. MasterOnes' /\ KeyedOnes'
    BY <1>3, <2>5 DEF MasterOnes, KeyedOnes
  <2>9. QED
    BY <2>2, <2>4, <2>7, <2>8 DEF GakeInv
<1>5. CASE gakePc' = "refused" /\ party' = party
           /\ parties' = [parties EXCEPT ![party].acc = 0, ![party].term = 1]
  <2>1. ASSUME NEW r \in PartyType
        PROVE  LET s == [[r EXCEPT !.acc = 0] EXCEPT !.term = 1] IN
               /\ s \in PartyType /\ s.key_left = r.key_left /\ s.key_right = r.key_right
               /\ s.xs = r.xs /\ s.coins = r.coins /\ s.commitments = r.commitments
    <3> DEFINE r1 == [r EXCEPT !.acc = 0]
               s == [r1 EXCEPT !.term = 1]
    <3>1. /\ r1 \in PartyType /\ r1.key_left = r.key_left /\ r1.key_right = r.key_right
          /\ r1.xs = r.xs /\ r1.coins = r.coins /\ r1.commitments = r.commitments
      BY DEF PartyType
    <3> HIDE DEF r1
    <3>2. /\ s \in PartyType /\ s.key_left = r1.key_left /\ s.key_right = r1.key_right
          /\ s.xs = r1.xs /\ s.coins = r1.coins /\ s.commitments = r1.commitments
      BY <3>1 DEF PartyType
    <3> HIDE DEF s
    <3>3. /\ s \in PartyType /\ s.key_left = r.key_left /\ s.key_right = r.key_right
          /\ s.xs = r.xs /\ s.coins = r.coins /\ s.commitments = r.commitments
      BY <3>1, <3>2
    <3>4. QED
      BY <3>3 DEF s, r1
  <2> DEFINE s == [[parties[party] EXCEPT !.acc = 0] EXCEPT !.term = 1]
  <2>2. parties \in [Ring -> PartyType] /\ parties[party] \in PartyType
    BY <1>1 DEF GakeTypes
  <2>3. /\ s \in PartyType /\ s.key_left = parties[party].key_left /\ s.key_right = parties[party].key_right
        /\ s.xs = parties[party].xs /\ s.coins = parties[party].coins
        /\ s.commitments = parties[party].commitments
    BY <2>1, <2>2
  <2>4. parties' = [parties EXCEPT ![party] = s]
    BY <1>1, <1>5, <2>2
  <2> HIDE DEF s
  <2>5. RoundsOver
    BY <1>1, <1>2, <1>5, <2>2, <2>3, <2>4 DEF RoundsOver
  <2>6. GakeTypes'
    BY <1>1, <1>2, <1>3, <1>5, <2>5 DEF GakeTypes, RoundsOver
  <2>7. RingKeys' /\ NoErrorNames' /\ SentOnes' /\ ReceivedOnes'
    BY <2>5, WhatArrivedStays
  <2>8. ASSUME NEW q \in Ring PROVE ~Accepted(q)' /\ ~HasMaster(q)' /\ ~HasKey(q)'
    BY <1>5 DEF Accepted, HasMaster, HasKey
  <2>9. AcceptedOnes' /\ MasterOnes' /\ KeyedOnes'
    BY <1>3, <2>8 DEF AcceptedOnes, MasterOnes, KeyedOnes
  <2>10. QED
    BY <2>6, <2>7, <2>9 DEF GakeInv
<1>6. QED
  BY <1>4, <1>5, Zenon DEF Gake!Round4

\* The equation of the loop of compute_masterkey.
IsMaster(f, me, p) ==
    f = [j \in 0 .. num_parties-1 |->
            IF j = 0 THEN p.key_left ELSE Gake!Xor(p.xs[Gake!mod(me - j, num_parties)], f[j-1])]

LEMMA MasterKeyValue ==
    ASSUME GakeTypes, NEW me \in Ring, NEW p, NEW g, IsMaster(g, me, p)
    PROVE  Gake!MasterKey(me, p) = [q \in Ring |-> g[Gake!mod(me - q, num_parties)]]
<1> DEFINE mk == CHOOSE f :
        f = [j \in 0 .. num_parties-1 |->
                IF j = 0 THEN p.key_left ELSE Gake!Xor(p.xs[Gake!mod(me - j, num_parties)], f[j-1])]
<1>1. IsMaster(mk, me, p)
  BY DEF IsMaster
<1>2. Gake!MasterKey(me, p) = [q \in Ring |-> mk[Gake!mod(me - q, num_parties)]]
  BY DEF Gake!MasterKey, Gake!Parties, Ring
<1> HIDE DEF mk
<1>3. num_parties \in Nat \ {0}
  BY DEF GakeTypes
<1>4. mk[0] = g[0]
  BY <1>1, <1>3 DEF IsMaster
<1>5. \A j \in 1 .. num_parties-1 : mk[j-1] = g[j-1] => mk[j] = g[j]
  BY <1>1, <1>3 DEF IsMaster
<1>6. \A j \in 0 .. num_parties-1 : mk[j] = g[j]
  BY <1>3, <1>4, <1>5, UniqueChain
<1>7. ASSUME NEW q \in Ring PROVE Gake!mod(me - q, num_parties) \in 0 .. num_parties-1
  <2>1. me - q \in -num_parties .. num_parties /\ me - q # num_parties /\ me - q # -num_parties
    BY <1>3 DEF Ring
  <2>2. QED
    BY <1>3, <2>1, RingMod
<1>8. QED
  BY <1>2, <1>6, <1>7

\* With the Xs of the ring, they are the left keys.
LEMMA MasterOfRing ==
    ASSUME GakeTypes, RingKeys, NEW me \in Ring, \A k \in Ring : parties[me].xs[k] = XOf(k)
    PROVE  Gake!MasterKey(me, parties[me]) = [q \in Ring |-> parties[q].key_left]
<1> DEFINE p == parties[me]
           At(j) == Gake!mod(me - j, num_parties)
           g == [j \in 0 .. num_parties-1 |-> parties[At(j)].key_left]
<1>1. num_parties \in Nat \ {0}
  BY DEF GakeTypes
<1>2. ASSUME NEW j \in Ring
      PROVE  At(j) \in Ring /\ At(j) = IF me < j THEN me - j + num_parties ELSE me - j
  <2>1. me - j \in -num_parties .. num_parties /\ me - j # num_parties /\ me - j # -num_parties
    BY <1>1 DEF Ring
  <2>2. Gake!mod(me - j, num_parties) = IF me - j < 0 THEN me - j + num_parties ELSE me - j
    BY <1>1, <2>1, RingMod
  <2>3. QED
    BY <1>1, <2>1, <2>2 DEF Ring
<1>3. ASSUME NEW j \in 0 .. num_parties-1
      PROVE  g[j] = IF j = 0 THEN p.key_left ELSE Gake!Xor(p.xs[At(j)], g[j-1])
  <2>1. CASE j = 0
    <3>1. At(0) = me /\ 0 \in 0 .. num_parties-1
      BY <1>1, <1>2 DEF Ring
    <3>2. QED
      BY <2>1, <3>1
  <2>2. CASE j # 0
    <3>1. j \in Ring /\ j-1 \in Ring /\ j-1 \in 0 .. num_parties-1
      BY <1>1, <2>2 DEF Ring
    <3>2. At(j) \in Ring /\ At(j-1) = Gake!mod(At(j) + 1, num_parties)
      <4>1. /\ At(j) \in Ring /\ At(j) = IF me < j THEN me - j + num_parties ELSE me - j
            /\ At(j-1) = IF me < j-1 THEN me - (j-1) + num_parties ELSE me - (j-1)
        BY <1>2, <3>1
      <4> HIDE DEF At
      <4>2. Gake!mod(At(j) + 1, num_parties) = IF At(j) = num_parties - 1 THEN 0 ELSE At(j) + 1
        BY <4>1, Neighbours
      <4>3. me \in Int /\ j \in Int /\ num_parties \in Int /\ j <= num_parties - 1 /\ me <= num_parties - 1 /\ j > 0 /\ me >= 0
        BY <1>1, <2>2 DEF Ring
      <4>4. CASE me < j-1
        <5>1. At(j) = me - j + num_parties /\ At(j-1) = me - j + 1 + num_parties
          BY <4>1, <4>3, <4>4
        <5>2. QED
          BY <4>1, <4>2, <4>3, <4>4, <5>1
      <4>5. CASE me = j-1
        <5>1. At(j) = num_parties - 1 /\ At(j-1) = 0
          BY <4>1, <4>3, <4>5
        <5>2. QED
          BY <4>1, <4>2, <4>3, <5>1
      <4>6. CASE me >= j
        <5>1. At(j) = me - j /\ At(j-1) = me - j + 1
          BY <4>1, <4>3, <4>6
        <5>2. QED
          BY <4>1, <4>2, <4>3, <4>6, <5>1
      <4>7. QED
        BY <4>3, <4>4, <4>5, <4>6
    <3> HIDE DEF At
    <3>3. p.xs[At(j)] = Gake!Xor(parties[At(j-1)].key_left, parties[At(j)].key_left)
      <4>1. p.xs[At(j)] = Gake!Xor(parties[At(j)].key_right, parties[At(j)].key_left)
        BY <3>2 DEF XOf
      <4>2. parties[At(j)].key_right = parties[At(j-1)].key_left
        BY <3>2 DEF RingKeys
      <4>3. QED
        BY <4>1, <4>2
    <3>4. g[j] = parties[At(j)].key_left /\ g[j-1] = parties[At(j-1)].key_left
      BY <3>1
    <3>5. \A x, y : Gake!Xor(Gake!Xor(x, y), x) = y
      BY DEF Gake!Xor
    <3> HIDE DEF g, p
    <3>6. QED
      BY <2>2, <3>3, <3>4, <3>5
  <2>3. QED
    BY <2>1, <2>2
<1>4. IsMaster(g, me, p)
  BY <1>3, Zenon DEF IsMaster
<1>5. ASSUME NEW q \in Ring PROVE At(q) \in 0 .. num_parties-1 /\ At(At(q)) = q
  <2>1. At(q) \in Ring /\ At(q) = IF me < q THEN me - q + num_parties ELSE me - q
    BY <1>2
  <2>2. At(At(q)) = IF me < At(q) THEN me - At(q) + num_parties ELSE me - At(q)
    BY <1>2, <2>1
  <2> HIDE DEF At
  <2>3. QED
    BY <1>1, <2>1, <2>2 DEF Ring
<1>6. ASSUME NEW q \in Ring PROVE g[At(q)] = parties[q].key_left
  BY <1>5
<1>7. Gake!MasterKey(me, p) = [q \in Ring |-> g[At(q)]]
  <2> HIDE DEF g, p
  <2>1. QED
    BY <1>4, MasterKeyValue
<1> HIDE DEF g, At
<1>8. QED
  BY <1>6, <1>7

LEMMA MasterStep ==
    ASSUME GakeInv, component = "gake", Gake!compute_masterkey
    PROVE  GakeInv'
<1> DEFINE a == party
           mk == [q \in Ring |-> parties[q].key_left]
<1>1. GakeTypes /\ RingKeys /\ AcceptedOnes /\ MasterOnes /\ gakePc = "masterkey" /\ a \in Ring
  BY DEF GakeInv, Gake!compute_masterkey, GakeTypes
<1>2. num_parties' = num_parties /\ changed' = changed /\ broadcast' = broadcast
  BY DEF Gake!compute_masterkey
<1>3. Ring' = Ring /\ PartyType' = PartyType
  BY <1>2, SameRing
<1>4. parties \in [Ring -> PartyType] /\ mk \in [Ring -> RoundKey]
  <2>1. parties \in [Ring -> PartyType]
    BY <1>1 DEF GakeTypes
  <2>2. \A q \in Ring : parties[q].key_left \in RoundKey
    BY <2>1 DEF PartyType
  <2>3. QED
    BY <2>1, <2>2
<1>5. parties' = [parties EXCEPT ![a].masterkey = mk]
  <2>1. Gake!MasterKey(a, parties[a]) = mk
    BY <1>1, MasterOfRing DEF AcceptedOnes, Accepted
  <2>2. QED
    BY <2>1 DEF Gake!compute_masterkey
<1> HIDE DEF mk
<1>6. \/ gakePc' = "masterkey" /\ party' = a + 1 /\ a + 1 \in Ring
      \/ gakePc' = "keys" /\ party' = 0 /\ a = num_parties - 1 /\ 0 \in Ring
  BY <1>1, GoToStep DEF Gake!compute_masterkey
<1>7. RoundsOver /\ \A q \in Ring : parties'[q].masterkey = IF q = a THEN mk ELSE parties[q].masterkey
  <2> DEFINE s == [parties[a] EXCEPT !.masterkey = mk]
  <2>1. /\ s \in PartyType /\ s.key_left = parties[a].key_left /\ s.key_right = parties[a].key_right
        /\ s.xs = parties[a].xs /\ s.coins = parties[a].coins
        /\ s.commitments = parties[a].commitments /\ s.masterkey = mk
    <3>1. parties[a] \in PartyType
      BY <1>1, <1>4
    <3>2. QED
      BY <1>4, <3>1 DEF PartyType
  <2>2. parties' = [parties EXCEPT ![a] = s]
    BY <1>5
  <2> HIDE DEF s
  <2>3. parties' \in [Ring -> PartyType] /\ \A q \in Ring : parties'[q] = IF q = a THEN s ELSE parties[q]
    BY <1>1, <1>4, <2>1, <2>2
  <2>4. QED
    BY <1>1, <1>2, <1>6, <2>1, <2>3 DEF RoundsOver
<1>8. GakeTypes'
  BY <1>1, <1>2, <1>3, <1>6, <1>7 DEF GakeTypes, RoundsOver
<1>9. /\ RingKeys' /\ NoErrorNames' /\ SentOnes' /\ ReceivedOnes'
      /\ \A k \in Ring : XOf(k)' = XOf(k) /\ CoinsOf(k)' = CoinsOf(k)
  BY <1>7, WhatArrivedStays
<1>10. ASSUME NEW q \in Ring PROVE (HasMaster(q)' => HasMaster(q) \/ q = a) /\ ~HasKey(q)' /\ Accepted(q)
  BY <1>1, <1>6, <1>10 DEF Accepted, HasMaster, HasKey, Ring, GakeTypes
<1>11. AcceptedOnes'
  BY <1>1, <1>3, <1>7, <1>9, <1>10 DEF AcceptedOnes, RoundsOver, Gake!Commitment
<1>12. ASSUME NEW p \in Ring, HasMaster(p)', NEW q \in Ring
       PROVE  parties'[p].masterkey[q] = parties'[q].key_left
  <2>1. parties'[q].key_left = parties[q].key_left
    BY <1>7 DEF RoundsOver
  <2>2. CASE p = a
    BY <1>7, <2>1, <2>2 DEF mk
  <2>3. CASE p # a
    BY <1>1, <1>7, <1>10, <1>12, <2>1, <2>3 DEF MasterOnes
  <2>4. QED
    BY <2>2, <2>3
<1>13. MasterOnes' /\ KeyedOnes'
  BY <1>3, <1>10, <1>12 DEF MasterOnes, KeyedOnes
<1>14. QED
  BY <1>8, <1>9, <1>11, <1>13 DEF GakeInv

LEMMA SessionKeyStep ==
    ASSUME GakeInv, component = "gake", Gake!compute_sk_sid
    PROVE  GakeInv'
<1> DEFINE a == party
           h == RingHash
<1>1. GakeTypes /\ AcceptedOnes /\ MasterOnes /\ KeyedOnes /\ gakePc = "keys" /\ a \in Ring
  BY DEF GakeInv, Gake!compute_sk_sid, GakeTypes
<1>2. num_parties' = num_parties /\ changed' = changed /\ broadcast' = broadcast
  BY DEF Gake!compute_sk_sid
<1>3. Ring' = Ring /\ PartyType' = PartyType
  BY <1>2, SameRing
<1>4. parties \in [Ring -> PartyType] /\ parties[a] \in PartyType
  BY <1>1 DEF GakeTypes
<1>5. Gake!Hashed(parties[a].masterkey) = h
  <2>1. parties[a].masterkey \in [Ring -> RoundKey]
    BY <1>4 DEF PartyType
  <2>2. \A q \in Ring : parties[a].masterkey[q] = parties[q].key_left
    BY <1>1 DEF MasterOnes, HasMaster
  <2>3. parties[a].masterkey = [q \in Ring |-> parties[q].key_left]
    BY <2>1, <2>2
  <2>4. QED
    BY <2>3 DEF RingHash
<1>6. h \in RoundKey \X RoundKey
  <2>1. <<"stack", 0>> \in KeyNames
    BY DEF KeyNames
  <2>2. {<<"stack", 0>>} \in RoundKey
    BY <2>1 DEF RoundKey
  <2>3. 0 \in Ring /\ (num_parties # 1 => 1 \in Ring)
    BY <1>1 DEF GakeTypes, Ring
  <2>4. \A q \in Ring : parties[q].key_left \in RoundKey
    BY <1>4 DEF PartyType
  <2>5. CASE num_parties = 1
    BY <2>2, <2>3, <2>4, <2>5 DEF RingHash, Gake!Hashed
  <2>6. CASE num_parties # 1
    BY <2>3, <2>4, <2>6 DEF RingHash, Gake!Hashed
  <2>7. QED
    BY <2>5, <2>6
<1>7. /\ parties' = [parties EXCEPT ![a].sk = <<"sk", h>>, ![a].sid = <<"sid", h>>,
                                    ![a].acc = 1, ![a].term = 1]
  BY <1>5 DEF Gake!compute_sk_sid
<1> HIDE DEF h
<1>8. \/ gakePc' = "keys" /\ party' = a + 1 /\ a + 1 \in Ring
      \/ gakePc' = "done" /\ party' = 0 /\ a = num_parties - 1 /\ 0 \in Ring
  BY <1>1, GoToStep DEF Gake!compute_sk_sid
<1> DEFINE Same(s, r) == /\ s.key_left = r.key_left /\ s.key_right = r.key_right /\ s.xs = r.xs
                         /\ s.coins = r.coins /\ s.commitments = r.commitments /\ s.masterkey = r.masterkey
<1>9. /\ RoundsOver
      /\ \A q \in Ring : /\ parties'[q].masterkey = parties[q].masterkey
                         /\ parties'[q].sk = IF q = a THEN <<"sk", h>> ELSE parties[q].sk
                         /\ parties'[q].sid = IF q = a THEN <<"sid", h>> ELSE parties[q].sid
  <2> DEFINE s1 == [parties[a] EXCEPT !.sk = <<"sk", h>>]
             s2 == [s1 EXCEPT !.sid = <<"sid", h>>]
             s3 == [s2 EXCEPT !.acc = 1]
             s4 == [s3 EXCEPT !.term = 1]
  <2>1. s1 \in PartyType /\ Same(s1, parties[a]) /\ s1.sk = <<"sk", h>>
    BY <1>4, <1>6 DEF PartyType
  <2>2. parties' = [parties EXCEPT ![a] = s4]
    BY <1>1, <1>4, <1>7
  <2> HIDE DEF s1
  <2>3. s2 \in PartyType /\ Same(s2, s1) /\ s2.sk = s1.sk /\ s2.sid = <<"sid", h>>
    BY <1>6, <2>1 DEF PartyType
  <2> HIDE DEF s2
  <2>4. s3 \in PartyType /\ Same(s3, s2) /\ s3.sk = s2.sk /\ s3.sid = s2.sid
    BY <2>3 DEF PartyType
  <2> HIDE DEF s3
  <2>5. s4 \in PartyType /\ Same(s4, s3) /\ s4.sk = s3.sk /\ s4.sid = s3.sid
    BY <2>4 DEF PartyType
  <2> HIDE DEF s4
  <2>6. parties' \in [Ring -> PartyType] /\ \A q \in Ring : parties'[q] = IF q = a THEN s4 ELSE parties[q]
    BY <1>1, <1>4, <2>2, <2>5
  <2>7. Same(s4, parties[a]) /\ s4.sk = <<"sk", h>> /\ s4.sid = <<"sid", h>>
    BY <2>1, <2>3, <2>4, <2>5
  <2>8. QED
    BY <1>1, <1>2, <1>8, <2>6, <2>7 DEF RoundsOver
<1> HIDE DEF Same
<1>10. GakeTypes'
  BY <1>1, <1>2, <1>3, <1>8, <1>9 DEF GakeTypes, RoundsOver
<1>11. /\ RingKeys' /\ NoErrorNames' /\ SentOnes' /\ ReceivedOnes'
       /\ \A k \in Ring : XOf(k)' = XOf(k) /\ CoinsOf(k)' = CoinsOf(k)
  BY <1>9, WhatArrivedStays
<1>12. ASSUME NEW q \in Ring PROVE HasMaster(q) /\ Accepted(q) /\ (HasKey(q)' => HasKey(q) \/ q = a)
  BY <1>1, <1>8, <1>12 DEF Accepted, HasMaster, HasKey, Ring, GakeTypes
<1>13. AcceptedOnes'
  BY <1>1, <1>3, <1>9, <1>11, <1>12 DEF AcceptedOnes, RoundsOver, Gake!Commitment
<1>14. MasterOnes'
  BY <1>1, <1>3, <1>9, <1>12 DEF MasterOnes, RoundsOver
<1>15. RingHash' = RingHash
  <2> DEFINE f == [q \in Ring |-> parties[q].key_left]
  <2>1. f' = f
    BY <1>3, <1>9 DEF RoundsOver
  <2>2. /\ RingHash = IF num_parties = 1 THEN <<f[0], {<<"stack", 0>>}>> ELSE <<f[0], f[1]>>
        /\ RingHash' = IF num_parties' = 1 THEN <<f'[0], {<<"stack", 0>>}>> ELSE <<f'[0], f'[1]>>
    BY Zenon DEF RingHash, Gake!Hashed
  <2> HIDE DEF f
  <2>3. QED
    BY <1>2, <2>1, <2>2
<1>16. KeyedOnes'
  BY <1>1, <1>3, <1>9, <1>12, <1>15 DEF KeyedOnes, h
<1>17. QED
  BY <1>10, <1>11, <1>13, <1>14, <1>16 DEF GakeInv

LEMMA GakeInit ==
    ASSUME component = "gake", Gake!Init
    PROVE  GakeInv
<1>1. /\ num_parties \in Nat \ {0} /\ gakePc = "round12" /\ party = 0 /\ changed = 0 /\ broadcast = <<>>
      /\ 0 \in Ring
  BY DEF Gake!Init, Ring
<1> DEFINE r == [key_left |-> Gake!Zero, key_right |-> Gake!Zero,
                 xs |-> Gake!PerParty(num_parties, Gake!Zero), coins |-> Gake!PerParty(num_parties, Gake!Zero),
                 commitments |-> Gake!PerParty(num_parties, Gake!NoCommitment),
                 masterkey |-> Gake!PerParty(num_parties, Gake!Zero),
                 sk |-> <<>>, sid |-> <<>>, acc |-> 0, term |-> 0]
<1>2. parties = [p \in Ring |-> r]
  BY Zenon DEF Gake!Init, Gake!Parties, Ring
<1>3. r \in PartyType /\ r.key_left = {} /\ r.key_right = {}
  <2>1. {} \in RoundKey /\ Gake!Zero = {}
    BY DEF RoundKey, Gake!Zero
  <2>2. Gake!NoCommitment \in CommitmentType
    BY <2>1 DEF Gake!NoCommitment, CommitmentType
  <2>3. /\ Gake!PerParty(num_parties, Gake!Zero) \in [Ring -> RoundKey]
        /\ Gake!PerParty(num_parties, Gake!NoCommitment) \in [Ring -> CommitmentType]
    BY <2>1, <2>2 DEF Gake!PerParty, Ring
  <2>4. QED
    BY <2>1, <2>3 DEF PartyType
<1> HIDE DEF r
<1>4. GakeTypes
  BY <1>1, <1>2, <1>3 DEF GakeTypes
<1>5. RingKeys /\ NoErrorNames
  <2>1. \A p \in Ring : Gake!mod(p + 1, num_parties) \in Ring
    BY <1>4, Neighbours
  <2>2. \A p \in Ring : parties[p].key_left = {} /\ parties[p].key_right = {}
    BY <1>2, <1>3
  <2>3. QED
    BY <2>1, <2>2 DEF RingKeys, NoErrorNames
<1>6. ASSUME NEW p \in Ring PROVE ~Broadcast(p) /\ ~Accepted(p) /\ ~HasMaster(p) /\ ~HasKey(p)
  BY <1>1 DEF Broadcast, Accepted, HasMaster, HasKey
<1>7. SentOnes
  <2>1. broadcast \in Seq([x : RoundKey, coins : RoundKey, commitment : CommitmentType]) /\ Len(broadcast) = 0
    BY <1>1
  <2>2. QED
    BY <1>1, <1>6, <2>1 DEF SentOnes
<1>8. ReceivedOnes /\ AcceptedOnes /\ MasterOnes /\ KeyedOnes
  BY <1>6 DEF ReceivedOnes, AcceptedOnes, MasterOnes, KeyedOnes
<1>9. QED
  BY <1>4, <1>5, <1>7, <1>8 DEF GakeInv

LEMMA GakeInvariant == ExchangesSpec => []GakeInv
<1>1. ExchangesInit => GakeInv
  <2>1. ASSUME ExchangesInit, component = "gake" PROVE Gake!Init
    BY <2>1 DEF ExchangesInit
  <2>2. QED
    BY <2>1, GakeInit DEF GakeInv
<1>2. ASSUME GakeInv, [ExchangesNext]_ExchangesVars PROVE GakeInv'
  <2>1. CASE component = "gake" /\ Gake!Next
    BY <1>2, <2>1, Round12Step, Round3Step, ChangeStep, Round4Step, MasterStep, SessionKeyStep, Zenon
       DEF Gake!Next
  <2>2. CASE ~(component = "gake" /\ Gake!Next)
    <3>1. component' = component /\ (component = "gake" => UNCHANGED gakeVars)
      BY <1>2, <2>2 DEF ExchangesNext, ExchangesVars
    <3>2. CASE component = "gake"
      <4>1. UNCHANGED <<num_parties, gakePc, party, parties, changed, broadcast>>
        BY <3>1, <3>2 DEF gakeVars
      <4>2. Ring' = Ring /\ PartyType' = PartyType /\ CommitmentType' = CommitmentType /\ RoundKey' = RoundKey
        BY <4>1, SameRing
      <4>3. ASSUME NEW k
            PROVE  /\ XOf(k)' = XOf(k) /\ CoinsOf(k)' = CoinsOf(k)
                   /\ Broadcast(k)' <=> Broadcast(k)
                   /\ Accepted(k)' <=> Accepted(k)
                   /\ HasMaster(k)' <=> HasMaster(k)
                   /\ HasKey(k)' <=> HasKey(k)
        BY <4>1 DEF XOf, CoinsOf, Broadcast, Accepted, HasMaster, HasKey
      <4>4. (GakeTypes' <=> GakeTypes) /\ (RingKeys' <=> RingKeys) /\ (NoErrorNames' <=> NoErrorNames)
        BY <4>1, <4>2 DEF GakeTypes, RingKeys, NoErrorNames
      <4>5. SentOnes => SentOnes'
        BY <4>1, <4>2, <4>3 DEF SentOnes, Gake!Commitment
      <4>6. ReceivedOnes => ReceivedOnes'
        <5>1. ASSUME NEW p, NEW k, ReceivedFrom(p, k) PROVE ReceivedFrom(p, k)'
          BY <4>1, <4>3, <5>1 DEF ReceivedFrom, Arrives
        <5>2. QED
          BY <4>2, <4>3, <5>1 DEF ReceivedOnes
      <4>7. AcceptedOnes => AcceptedOnes'
        BY <4>1, <4>2, <4>3 DEF AcceptedOnes, Gake!Commitment
      <4>8. (MasterOnes => MasterOnes') /\ (KeyedOnes => KeyedOnes')
        <5>1. RingHash' = RingHash
          <6> DEFINE f == [q \in Ring |-> parties[q].key_left]
          <6>1. f' = f
            BY <4>1, <4>2
          <6>2. /\ RingHash = IF num_parties = 1 THEN <<f[0], {<<"stack", 0>>}>> ELSE <<f[0], f[1]>>
                /\ RingHash' = IF num_parties' = 1 THEN <<f'[0], {<<"stack", 0>>}>> ELSE <<f'[0], f'[1]>>
            BY Zenon DEF RingHash, Gake!Hashed
          <6> HIDE DEF f
          <6>3. QED
            BY <4>1, <6>1, <6>2
        <5>2. QED
          BY <4>1, <4>2, <4>3, <5>1 DEF MasterOnes, KeyedOnes
      <4>9. QED
        BY <1>2, <3>2, <4>4, <4>5, <4>6, <4>7, <4>8 DEF GakeInv
    <3>3. CASE component # "gake"
      BY <3>1, <3>3 DEF GakeInv
    <3>4. QED
      BY <3>2, <3>3
  <2>3. QED
    BY <2>1, <2>2
<1>3. QED
  BY <1>1, <1>2, PTL DEF ExchangesSpec

\* What the rounds promise follows from what every party has stored.
LEMMA RoundsHold ==
    ASSUME GakeInv, component = "gake"
    PROVE  /\ Gake!NeighboursShareKeys /\ Gake!AcceptsOnlySent
           /\ Gake!MasterKeysAreLeftKeys /\ Gake!AllKeysEqual
<1>1. GakeTypes /\ RingKeys /\ SentOnes /\ AcceptedOnes /\ MasterOnes /\ KeyedOnes /\ Gake!Parties = Ring
  BY DEF GakeInv, Gake!Parties, Ring
<1>2. Gake!NeighboursShareKeys
  BY <1>1 DEF Gake!NeighboursShareKeys, RingKeys
<1>3. Gake!AcceptsOnlySent
  <2>1. SUFFICES ASSUME NEW p \in Ring, Accepted(p), NEW k \in Ring
        PROVE  /\ parties[p].xs[k] = broadcast[k+1].x /\ parties[p].coins[k] = broadcast[k+1].coins
               /\ parties[p].commitments[k] = broadcast[k+1].commitment
    BY ZenonT(40), <1>1 DEF Gake!AcceptsOnlySent, Accepted
  <2>2. Broadcast(k)
    BY <2>1 DEF Accepted, Broadcast
  <2>3. broadcast[k+1] = [x |-> XOf(k), coins |-> CoinsOf(k),
                          commitment |-> Gake!Commitment(k, XOf(k), k, CoinsOf(k))]
    BY <1>1, <2>2 DEF SentOnes
  <2>4. QED
    BY <1>1, <2>1, <2>3 DEF AcceptedOnes
<1>4. Gake!MasterKeysAreLeftKeys
  BY <1>1 DEF Gake!MasterKeysAreLeftKeys, MasterOnes, HasMaster
<1>5. Gake!AllKeysEqual
  <2>1. SUFFICES ASSUME gakePc = "done"
        PROVE  /\ Gake!check_all_keys = 0
               /\ \A p, q \in Ring : parties[p].sk = parties[q].sk /\ parties[p].sid = parties[q].sid
    BY <1>1, Zenon DEF Gake!AllKeysEqual
  <2>2. \A p \in Ring : parties[p].sk = <<"sk", RingHash>> /\ parties[p].sid = <<"sid", RingHash>>
    BY <1>1, <2>1 DEF KeyedOnes, HasKey
  <2>3. \A p \in 0 .. num_parties - 2 : p \in Ring /\ p + 1 \in Ring
    BY <1>1 DEF GakeTypes, Ring
  <2>4. Gake!check_all_keys = 0
    BY <2>2, <2>3 DEF Gake!check_all_keys
  <2>5. QED
    BY <2>2, <2>4
<1>6. QED
  BY <1>2, <1>3, <1>4, <1>5

\* All parties of gake.c that accept have one session key, for any number of parties and
\* of values that arrive changed: who accepts has just what was sent, since no X and
\* commitment of it match that are not, and the left keys of all are in the same order
\* with everyone.  A commitment opens to nothing but its owner, message and coins, and
\* decrypts only unchanged, for any owners, messages and coins.
THEOREM AcceptedRoundsAgreeHolds == ExchangesSpec => []AcceptedRoundsAgree
<1>1. CommitInv /\ GakeInv => AcceptedRoundsAgree
  BY OpensHolds, DecryptsHolds, RoundsHold, Zenon DEF AcceptedRoundsAgree
<1>2. QED
  BY <1>1, CommitInvariant, GakeInvariant, PTL
-----------------------------------------------------------------------------
(***************************************************************************)
(* The exchanges of kex.c and kex_qrom.c: every message is one of a        *)
(* session, or differs from it in ciphertexts that no longer look like     *)
(* one; and the key of either side is a term that contains what it has     *)
(* drawn and the ciphertexts it has seen.                                  *)
(***************************************************************************)
Rnd(who, s, what) == <<"rand", who, s, what>>
EphPk(s)          == <<"pk", Rnd("a", s, "seed")>>
LongPk(who)       == <<"pk", Rnd(who, 0, "seed")>>

\* The pair of crypto_kem_keypair, the results of crypto_kem_enc.
KemSk(seed, z)  == [indcpa |-> <<"sk", seed>>, pk |-> <<"pk", seed>>, hpk |-> <<"H", <<"pk", seed>> >>, z |-> z]
KemCt(pk, rnd)  == <<"ct", pk, <<"H", rnd>>, <<"G2", <<"H", rnd>>, <<"H", pk>> >> >>
KemPre(pk, rnd) == <<"G1", <<"H", rnd>>, <<"H", pk>> >>
KemSs(pk, rnd)  == <<"KDF", KemPre(pk, rnd), <<"H", KemCt(pk, rnd)>> >>

\* The ciphertext of kex_qrom.c: the coins are the hash of what is encrypted.
QromCt(pk, rnd) == <<"ct", pk, rnd, <<"H", rnd>> >>

LEMMA EncIsKem ==
    ASSUME NEW pk, NEW rnd
    PROVE  Kex!crypto_kem_enc(pk, rnd).ct = KemCt(pk, rnd) /\ Kex!crypto_kem_enc(pk, rnd).ss = KemSs(pk, rnd)
  BY DEF Kex!crypto_kem_enc, Kex!EncapsulateHashed, Kex!hash_g, Kex!hash_h, Kex!kdf, Kex!indcpa_enc,
         KemCt, KemSs, KemPre

LEMMA DecIsKdf ==
    ASSUME NEW ct, NEW sk
    PROVE  \E k : Kex!crypto_kem_dec(ct, sk) = <<"KDF", k, <<"H", ct>> >>
  BY DEF Kex!crypto_kem_dec, Kex!kdf, Kex!hash_h

LEMMA DecOfEnc ==
    ASSUME NEW seed, NEW z, NEW rnd
    PROVE  Kex!crypto_kem_dec(KemCt(<<"pk", seed>>, rnd), KemSk(seed, z)) = KemSs(<<"pk", seed>>, rnd)
<1> DEFINE pk == <<"pk", seed>>
           sk == KemSk(seed, z)
           ct == KemCt(pk, rnd)
<1>1. sk.indcpa = <<"sk", seed>> /\ sk.pk = pk /\ sk.hpk = <<"H", pk>>
  BY DEF KemSk
<1>2. Kex!indcpa_dec(ct, <<"sk", seed>>) = <<"H", rnd>>
  BY DEF Kex!indcpa_dec, KemCt
<1> HIDE DEF sk
<1>3. Kex!crypto_kem_dec(ct, sk) = KemSs(pk, rnd)
  BY <1>1, <1>2 DEF Kex!crypto_kem_dec, Kex!hash_g, Kex!hash_h, Kex!kdf, Kex!indcpa_enc, KemCt, KemSs, KemPre
<1>4. QED
  BY <1>3 DEF sk

LEMMA QromDecOfEnc ==
    ASSUME NEW seed, NEW rnd
    PROVE  Kex!indcpa_dec(QromCt(<<"pk", seed>>, rnd), <<"sk", seed>>) = rnd
  BY DEF Kex!indcpa_dec, QromCt

\* Ciphertexts and the keys they come with name what they were made of.
LEMMA KemTerms ==
    /\ \A p, q, r, s : KemCt(p, r) = KemCt(q, s) => p = q /\ r = s
    /\ \A p, q, r, s : QromCt(p, r) = QromCt(q, s) => p = q /\ r = s
    /\ \A p, r, k, ct : KemSs(p, r) = <<"KDF", k, <<"H", ct>> >> => ct = KemCt(p, r)
    /\ \A p, q, r, s : KemSs(p, r) = KemSs(q, s) => p = q /\ r = s
    /\ \A p, r : KemCt(p, r)[1] = "ct" /\ QromCt(p, r)[1] = "ct"
<1>1. ASSUME NEW p, NEW q, NEW r, NEW s, KemCt(p, r) = KemCt(q, s) PROVE p = q /\ r = s
  <2>1. p = q /\ <<"H", r>> = <<"H", s>>
    BY <1>1, Terms DEF KemCt
  <2>2. QED
    BY <2>1, Terms
<1>2. ASSUME NEW p, NEW q, NEW r, NEW s, QromCt(p, r) = QromCt(q, s) PROVE p = q /\ r = s
  BY <1>2, Terms DEF QromCt
<1>3. ASSUME NEW p, NEW r, NEW k, NEW ct, KemSs(p, r) = <<"KDF", k, <<"H", ct>> >>
      PROVE  ct = KemCt(p, r)
  <2>1. <<"H", KemCt(p, r)>> = <<"H", ct>>
    BY <1>3, Terms DEF KemSs
  <2>2. QED
    BY <2>1, Terms
<1>4. ASSUME NEW p, NEW q, NEW r, NEW s, KemSs(p, r) = KemSs(q, s) PROVE p = q /\ r = s
  <2>1. KemSs(q, s) = <<"KDF", KemPre(q, s), <<"H", KemCt(q, s)>> >>
    BY DEF KemSs
  <2>2. KemCt(q, s) = KemCt(p, r)
    BY <1>3, <1>4, <2>1, Zenon
  <2>3. QED
    BY <1>1, <2>2
<1>5. \A p, r : KemCt(p, r)[1] = "ct" /\ QromCt(p, r)[1] = "ct"
  BY DEF KemCt, QromCt
<1>6. QED
  BY <1>1, <1>2, <1>3, <1>4, <1>5, Zenon

LEMMA RndTerms ==
    \A w, v, s, t, x, y : Rnd(w, s, x) = Rnd(v, t, y) => w = v /\ s = t /\ x = y
  BY Terms DEF Rnd

\* What session s of A has sent and keeps, and what session t of B answers.
Started(s)     == IF mode = "qrom" THEN Kex!init(s) ELSE Kex!kex_ake_initA(s)
Answered(t, m1) == IF mode = "uake" THEN Kex!kex_uake_sharedB(t, m1)
                   ELSE IF mode = "ake" THEN Kex!kex_ake_sharedB(t, m1) ELSE Kex!der_resp(t, m1)
Concluded(s, m2) == IF mode = "uake" THEN Kex!kex_uake_sharedA(Started(s), m2)
                    ELSE IF mode = "ake" THEN Kex!kex_ake_sharedA(Started(s), m2) ELSE Kex!der_init(s, m2)

\* The ciphertext of a first message, and those of an answer to m.
FirstCt(s) == IF mode = "qrom" THEN QromCt(LongPk("b"), Rnd("a", s, "m")) ELSE KemCt(LongPk("b"), Rnd("a", s, "m"))
First(s)   == [pk |-> EphPk(s), ct |-> FirstCt(s)]

CtOne(t, pk) == IF mode = "qrom" THEN QromCt(LongPk("a"), Rnd("b", t, "m1")) ELSE KemCt(pk, Rnd("b", t, "m1"))
CtTwo(t, pk) == IF mode = "qrom" THEN QromCt(pk, Rnd("b", t, "m2")) ELSE KemCt(LongPk("a"), Rnd("b", t, "m2"))
Second(t, pk) == IF mode = "uake" THEN <<CtOne(t, pk)>> ELSE <<CtOne(t, pk), CtTwo(t, pk)>>

Garbled(ct) == {Kex!Near(ct), Kex!Far(ct)}
Variants(ct) == {ct} \union Garbled(ct)

FirstMessage(msg) == \E s \in Sessions : \E ct \in Variants(FirstCt(s)) : msg = [pk |-> EphPk(s), ct |-> ct]

Answer(ans) ==
    \E s, t \in Sessions : \E c1 \in Variants(CtOne(t, EphPk(s))) : \E c2 \in Variants(CtTwo(t, EphPk(s))) :
        ans = IF mode = "uake" THEN <<c1>> ELSE <<c1, c2>>

\* The states of a session, each in itself.
InitiatorOk(s) ==
    \/ initiator[s].pc = "start"
    \/ initiator[s] = [pc |-> "sent", send |-> First(s), tk |-> Started(s).tk, sk |-> Started(s).sk]
    \/ \E m2 \in answered : initiator[s] =
           [pc |-> "done", send |-> First(s), recv |-> m2, k |-> Concluded(s, m2)]

ResponderOk(t) ==
    \/ responder[t].pc = "start"
    \/ \E m1 \in sent : responder[t] =
           [pc |-> "done", recv |-> m1, send |-> Second(t, m1.pk), k |-> Answered(t, m1).k]

KexInv ==
    component = "kex" =>
        /\ mode \in {"uake", "ake", "qrom"}
        /\ initiator = [s \in Sessions |-> initiator[s]] /\ responder = [t \in Sessions |-> responder[t]]
        /\ \A msg \in sent : FirstMessage(msg)
        /\ \A ans \in answered : Answer(ans)
        /\ \A s \in Sessions : InitiatorOk(s) /\ ResponderOk(s)

LEMMA LongKeys ==
    /\ mode = "qrom" => /\ Kex!A.pk = LongPk("a") /\ Kex!A.sk = <<"sk", Rnd("a", 0, "seed")>>
                        /\ Kex!B.pk = LongPk("b") /\ Kex!B.sk = <<"sk", Rnd("b", 0, "seed")>>
    /\ mode # "qrom" => /\ Kex!A.pk = LongPk("a") /\ Kex!A.sk = KemSk(Rnd("a", 0, "seed"), Rnd("a", 0, "z"))
                        /\ Kex!B.pk = LongPk("b") /\ Kex!B.sk = KemSk(Rnd("b", 0, "seed"), Rnd("b", 0, "z"))
  BY DEF Kex!A, Kex!B, Kex!KeysOf, Kex!kem_qrom_keypair, Kex!crypto_kem_keypair, Kex!indcpa_keypair, Kex!Rand,
         Kex!hash_h, LongPk, KemSk, Rnd

LEMMA StartedShape ==
    ASSUME NEW s
    PROVE  /\ Started(s).send = First(s)
           /\ mode # "qrom" => /\ Started(s).tk = KemSs(LongPk("b"), Rnd("a", s, "m"))
                               /\ Started(s).sk = KemSk(Rnd("a", s, "seed"), Rnd("a", s, "z"))
<1>1. CASE mode = "qrom"
  <2>1. Started(s).send = [pk |-> EphPk(s), ct |-> QromCt(Kex!B.pk, Rnd("a", s, "m"))]
    BY <1>1 DEF Started, Kex!init, Kex!indcpa_keypair, Kex!indcpa_enc, Kex!hash_h, Kex!Rand, EphPk, QromCt, Rnd
  <2>2. QED
    BY <1>1, <2>1, LongKeys DEF First, FirstCt
<1>2. CASE mode # "qrom"
  <2> DEFINE enc == Kex!crypto_kem_enc(Kex!B.pk, Kex!Rand("a", s, "m"))
             kp  == Kex!crypto_kem_keypair(Kex!Rand("a", s, "seed"), Kex!Rand("a", s, "z"))
  <2>1. Started(s) = [send |-> [pk |-> kp.pk, ct |-> enc.ct], tk |-> enc.ss, sk |-> kp.sk]
    BY <1>2, Zenon DEF Started, Kex!kex_ake_initA
  <2>2. enc.ct = KemCt(LongPk("b"), Rnd("a", s, "m")) /\ enc.ss = KemSs(LongPk("b"), Rnd("a", s, "m"))
    <3>1. Kex!B.pk = LongPk("b") /\ Kex!Rand("a", s, "m") = Rnd("a", s, "m")
      BY <1>2, LongKeys DEF Kex!Rand, Rnd
    <3>2. QED
      BY <3>1, EncIsKem
  <2>3. kp.pk = EphPk(s) /\ kp.sk = KemSk(Rnd("a", s, "seed"), Rnd("a", s, "z"))
    BY DEF Kex!crypto_kem_keypair, Kex!indcpa_keypair, Kex!hash_h, Kex!Rand, EphPk, KemSk, Rnd
  <2> HIDE DEF enc, kp
  <2>4. QED
    BY <1>2, <2>1, <2>2, <2>3 DEF First, FirstCt
<1>3. QED
  BY <1>1, <1>2

\* B's part: the ciphertexts, and the key.
LEMMA AnsweredShape ==
    ASSUME mode \in {"uake", "ake", "qrom"}, NEW t, NEW m1
    PROVE  /\ Answered(t, m1).send = Second(t, m1.pk)
           /\ mode = "uake" => Answered(t, m1).k =
                <<"SHAKE", <<KemSs(m1.pk, Rnd("b", t, "m1")), Kex!crypto_kem_dec(m1.ct, Kex!B.sk)>> >>
           /\ mode = "ake" => Answered(t, m1).k =
                <<"SHAKE", <<KemSs(m1.pk, Rnd("b", t, "m1")), KemSs(LongPk("a"), Rnd("b", t, "m2")),
                             Kex!crypto_kem_dec(m1.ct, Kex!B.sk)>> >>
           /\ mode = "qrom" => Answered(t, m1).k =
                IF m1.ct = QromCt(LongPk("b"), Kex!indcpa_dec(m1.ct, Kex!B.sk))
                THEN <<"H", Rnd("b", t, "m1")>> ELSE <<"unset", "b", t>>
<1> DEFINE e1 == Kex!crypto_kem_enc(m1.pk, Kex!Rand("b", t, "m1"))
           e2 == Kex!crypto_kem_enc(Kex!A.pk, Kex!Rand("b", t, "m2"))
           d  == Kex!crypto_kem_dec(m1.ct, Kex!B.sk)
<1>1. /\ Kex!Rand("b", t, "m1") = Rnd("b", t, "m1") /\ Kex!Rand("b", t, "m2") = Rnd("b", t, "m2")
      /\ Kex!A.pk = LongPk("a") /\ Kex!B.pk = LongPk("b")
  BY LongKeys DEF Kex!Rand, Rnd
<1>2. /\ e1.ct = KemCt(m1.pk, Rnd("b", t, "m1")) /\ e1.ss = KemSs(m1.pk, Rnd("b", t, "m1"))
      /\ e2.ct = KemCt(LongPk("a"), Rnd("b", t, "m2")) /\ e2.ss = KemSs(LongPk("a"), Rnd("b", t, "m2"))
  BY <1>1, EncIsKem
<1>3. CASE mode = "uake"
  <2>1. Answered(t, m1) = [send |-> <<e1.ct>>, k |-> <<"SHAKE", <<e1.ss, d>> >>]
    BY <1>3, Zenon DEF Answered, Kex!kex_uake_sharedB, Kex!shake256
  <2> HIDE DEF e1, e2, d
  <2>2. QED
    BY <1>2, <1>3, <2>1 DEF Second, CtOne, d
<1>4. CASE mode = "ake"
  <2>1. Answered(t, m1) = [send |-> <<e1.ct, e2.ct>>, k |-> <<"SHAKE", <<e1.ss, e2.ss, d>> >>]
    BY <1>4, Zenon DEF Answered, Kex!kex_ake_sharedB, Kex!shake256
  <2> HIDE DEF e1, e2, d
  <2>2. QED
    BY <1>2, <1>4, <2>1 DEF Second, CtOne, CtTwo, d
<1>5. CASE mode = "qrom"
  <2>1. Answered(t, m1) = Kex!der_resp(t, m1)
    BY <1>5, Zenon DEF Answered
  <2>2. Kex!der_resp(t, m1).send = <<QromCt(LongPk("a"), Rnd("b", t, "m1")), QromCt(m1.pk, Rnd("b", t, "m2"))>>
    BY <1>1 DEF Kex!der_resp, Kex!indcpa_enc, Kex!hash_h, QromCt
  <2>3. Kex!der_resp(t, m1).k =
            IF m1.ct = QromCt(LongPk("b"), Kex!indcpa_dec(m1.ct, Kex!B.sk))
            THEN <<"H", Rnd("b", t, "m1")>> ELSE <<"unset", "b", t>>
    BY <1>1 DEF Kex!der_resp, Kex!indcpa_enc, Kex!hash_h, Kex!Unset, QromCt
  <2>4. QED
    BY <1>5, <2>1, <2>2, <2>3 DEF Second, CtOne, CtTwo
<1>6. QED
  BY <1>3, <1>4, <1>5

\* A's part: the key.
LEMMA ConcludedShape ==
    ASSUME mode \in {"uake", "ake", "qrom"}, NEW s, NEW m2
    PROVE  /\ mode = "uake" => Concluded(s, m2) =
                <<"SHAKE", <<Kex!crypto_kem_dec(m2[1], Started(s).sk), Started(s).tk>> >>
           /\ mode = "ake" => Concluded(s, m2) =
                <<"SHAKE", <<Kex!crypto_kem_dec(m2[1], Started(s).sk), Kex!crypto_kem_dec(m2[2], Kex!A.sk),
                             Started(s).tk>> >>
           /\ mode = "qrom" => Concluded(s, m2) =
                IF QromCt(LongPk("a"), Kex!indcpa_dec(m2[1], Kex!A.sk)) = m2[1]
                THEN <<"H", Kex!indcpa_dec(m2[1], Kex!A.sk)>> ELSE <<"unset", "a", s>>
<1>1. CASE mode = "uake"
  BY <1>1 DEF Concluded, Kex!kex_uake_sharedA, Kex!shake256
<1>2. CASE mode = "ake"
  BY <1>2 DEF Concluded, Kex!kex_ake_sharedA, Kex!shake256
<1>3. CASE mode = "qrom"
  BY <1>3, LongKeys DEF Concluded, Kex!der_init, Kex!indcpa_enc, Kex!hash_h, Kex!Unset, QromCt
<1>4. QED
  BY <1>1, <1>2, <1>3

LEMMA VariantTags ==
    ASSUME NEW ct, ct[1] = "ct", NEW x \in Variants(ct)
    PROVE  /\ x[1] = "ct" <=> x = ct
           /\ x[1] = "ct" => Kex!Near(x) \in Variants(ct) /\ Kex!Far(x) \in Variants(ct)
<1>1. Kex!Near(ct)[1] = "near" /\ Kex!Far(ct)[1] = "far"
  BY DEF Kex!Near, Kex!Far
<1>2. x = ct \/ x = Kex!Near(ct) \/ x = Kex!Far(ct)
  BY DEF Variants, Garbled
<1>3. x[1] = "ct" <=> x = ct
  BY <1>1, <1>2
<1>4. QED
  BY <1>3 DEF Variants, Garbled

LEMMA CtTags ==
    ASSUME NEW s, NEW pk
    PROVE  FirstCt(s)[1] = "ct" /\ CtOne(s, pk)[1] = "ct" /\ CtTwo(s, pk)[1] = "ct"
  BY KemTerms DEF FirstCt, CtOne, CtTwo

\* What of the invariant only the mode matters for.
LEMMA SameMode ==
    ASSUME mode' = mode
    PROVE  /\ \A s : First(s)' = First(s) /\ Started(s)' = Started(s) /\ FirstCt(s)' = FirstCt(s)
           /\ \A t, pk : Second(t, pk)' = Second(t, pk)
           /\ \A t, m1 : Answered(t, m1)' = Answered(t, m1)
           /\ \A s, m2 : Concluded(s, m2)' = Concluded(s, m2)
           /\ \A msg : FirstMessage(msg)' <=> FirstMessage(msg)
           /\ \A ans : Answer(ans)' <=> Answer(ans)
<1>1. Kex!A' = Kex!A /\ Kex!B' = Kex!B
  BY DEF Kex!A, Kex!B, Kex!KeysOf
<1>2. \A s : FirstCt(s)' = FirstCt(s)
  BY DEF FirstCt
<1>3. \A s : First(s)' = First(s)
  BY <1>2 DEF First
<1>4. \A s : Started(s)' = Started(s)
  BY <1>1 DEF Started, Kex!init, Kex!kex_ake_initA
<1>5. \A t, pk : CtOne(t, pk)' = CtOne(t, pk) /\ CtTwo(t, pk)' = CtTwo(t, pk)
  BY DEF CtOne, CtTwo
<1>6. \A t, pk : Second(t, pk)' = Second(t, pk)
  BY <1>5 DEF Second
<1>7. \A t, m1 : Answered(t, m1)' = Answered(t, m1)
  BY <1>1 DEF Answered, Kex!kex_uake_sharedB, Kex!kex_ake_sharedB, Kex!der_resp
<1>8. \A s, m2 : Concluded(s, m2)' = Concluded(s, m2)
  BY <1>1, <1>4 DEF Concluded, Kex!kex_uake_sharedA, Kex!kex_ake_sharedA, Kex!der_init
<1>9. \A msg : FirstMessage(msg)' <=> FirstMessage(msg)
  BY <1>2 DEF FirstMessage
<1>10. \A ans : Answer(ans)' <=> Answer(ans)
  BY <1>5 DEF Answer
<1>11. QED
  BY <1>3, <1>4, <1>2, <1>6, <1>7, <1>8, <1>9, <1>10

LEMMA SessionsStay ==
    ASSUME mode' = mode, sent \subseteq sent', answered \subseteq answered', NEW s
    PROVE  /\ initiator'[s] = initiator[s] /\ InitiatorOk(s) => InitiatorOk(s)'
           /\ responder'[s] = responder[s] /\ ResponderOk(s) => ResponderOk(s)'
<1>1. /\ First(s)' = First(s) /\ Started(s)' = Started(s)
      /\ \A m2 : Concluded(s, m2)' = Concluded(s, m2)
      /\ \A m1 : Answered(s, m1)' = Answered(s, m1)
      /\ \A pk : Second(s, pk)' = Second(s, pk)
  BY SameMode
<1>2. initiator'[s] = initiator[s] /\ InitiatorOk(s) => InitiatorOk(s)'
  BY <1>1 DEF InitiatorOk
<1>3. responder'[s] = responder[s] /\ ResponderOk(s) => ResponderOk(s)'
  BY <1>1 DEF ResponderOk
<1>4. QED
  BY <1>2, <1>3

LEMMA PutSession ==
    ASSUME NEW f, f = [u \in Sessions |-> f[u]], NEW s \in Sessions, NEW r, NEW g, g = [f EXCEPT ![s] = r]
    PROVE  g = [u \in Sessions |-> g[u]] /\ g[s] = r /\ \A u \in Sessions : u # s => g[u] = f[u]
  OBVIOUS

\* What every step leaves as it is of the sessions it does not touch.
LEMMA KexStep ==
    ASSUME KexInv, component = "kex", component' = component, mode' = mode,
           sent \subseteq sent', answered \subseteq answered',
           \A msg \in sent' \ sent : FirstMessage(msg), \A ans \in answered' \ answered : Answer(ans),
           initiator' = [u \in Sessions |-> initiator'[u]], responder' = [u \in Sessions |-> responder'[u]],
           \A u \in Sessions : initiator'[u] = initiator[u] \/ InitiatorOk(u)',
           \A u \in Sessions : responder'[u] = responder[u] \/ ResponderOk(u)'
    PROVE  KexInv'
<1>1. /\ mode \in {"uake", "ake", "qrom"}
      /\ \A msg \in sent : FirstMessage(msg)
      /\ \A ans \in answered : Answer(ans)
      /\ \A u \in Sessions : InitiatorOk(u) /\ ResponderOk(u)
  BY DEF KexInv
<1>2. \A msg \in sent' : FirstMessage(msg)'
  BY <1>1, SameMode
<1>3. \A ans \in answered' : Answer(ans)'
  BY <1>1, SameMode
<1>4. \A u \in Sessions : InitiatorOk(u)' /\ ResponderOk(u)'
  BY <1>1, SessionsStay, Zenon
<1>5. QED
  BY <1>1, <1>2, <1>3, <1>4 DEF KexInv

LEMMA KexInit ==
    ASSUME component = "kex", Kex!Init
    PROVE  KexInv
<1>1. /\ mode \in {"uake", "ake", "qrom"} /\ sent = {} /\ answered = {}
      /\ initiator = [s \in Sessions |-> [pc |-> "start"]]
      /\ responder = [s \in Sessions |-> [pc |-> "start"]]
  BY ModesAssumption DEF Kex!Init
<1>2. \A s \in Sessions : initiator[s].pc = "start" /\ responder[s].pc = "start"
  BY <1>1
<1>3. initiator = [s \in Sessions |-> initiator[s]] /\ responder = [s \in Sessions |-> responder[s]]
  BY <1>1
<1>4. QED
  BY <1>1, <1>2, <1>3 DEF KexInv, InitiatorOk, ResponderOk

LEMMA InitAStep ==
    ASSUME KexInv, component = "kex", component' = component, NEW s \in Sessions, Kex!InitA(s)
    PROVE  KexInv'
<1> DEFINE r == [pc |-> "sent", send |-> Started(s).send, tk |-> Started(s).tk, sk |-> Started(s).sk]
<1>1. /\ mode' = mode /\ responder' = responder /\ answered' = answered
      /\ initiator' = [initiator EXCEPT ![s] = r] /\ sent' = sent \union {Started(s).send}
  BY Zenon DEF Kex!InitA, Started
<1>2. Started(s).send = First(s) /\ First(s)' = First(s) /\ Started(s)' = Started(s)
  BY <1>1, StartedShape, SameMode
<1> HIDE DEF r
<1>3. initiator' = [u \in Sessions |-> initiator'[u]] /\ initiator'[s] = r
      /\ \A u \in Sessions : u # s => initiator'[u] = initiator[u]
  <2>1. initiator = [u \in Sessions |-> initiator[u]]
    BY DEF KexInv
  <2>2. QED
    BY <1>1, <2>1, PutSession
<1>4. InitiatorOk(s)'
  BY <1>2, <1>3 DEF InitiatorOk, r
<1>5. FirstMessage(First(s))
  BY DEF FirstMessage, First, Variants
<1>6. \A u \in Sessions : initiator'[u] = initiator[u] \/ InitiatorOk(u)'
  BY <1>3, <1>4
<1>7. responder' = [u \in Sessions |-> responder'[u]]
  BY <1>1 DEF KexInv
<1>8. QED
  BY <1>1, <1>2, <1>3, <1>5, <1>6, <1>7, KexStep

LEMMA SharedBStep ==
    ASSUME KexInv, component = "kex", component' = component, NEW t \in Sessions, Kex!SharedB(t)
    PROVE  KexInv'
<1>1. mode \in {"uake", "ake", "qrom"} /\ \A msg \in sent : FirstMessage(msg)
  BY DEF KexInv
<1>2. PICK m1 \in sent :
        /\ mode' = mode /\ initiator' = initiator /\ sent' = sent
        /\ answered' = answered \union {Answered(t, m1).send}
        /\ responder' = [responder EXCEPT ![t] =
               [pc |-> "done", recv |-> m1, send |-> Answered(t, m1).send, k |-> Answered(t, m1).k]]
  <2>1. CASE mode = "uake"
    BY <2>1 DEF Kex!SharedB, Answered
  <2>2. CASE mode = "ake"
    BY <2>2 DEF Kex!SharedB, Answered
  <2>3. CASE mode = "qrom"
    BY <2>3 DEF Kex!SharedB, Answered
  <2>4. QED
    BY <1>1, <2>1, <2>2, <2>3
<1> DEFINE r == [pc |-> "done", recv |-> m1, send |-> Answered(t, m1).send, k |-> Answered(t, m1).k]
<1>3. Answered(t, m1).send = Second(t, m1.pk) /\ Answered(t, m1)' = Answered(t, m1)
      /\ \A pk : Second(t, pk)' = Second(t, pk)
  BY <1>1, <1>2, AnsweredShape, SameMode
<1>4. responder' = [responder EXCEPT ![t] = r]
  BY <1>2
<1> HIDE DEF r
<1>5. responder' = [u \in Sessions |-> responder'[u]] /\ responder'[t] = r
      /\ \A u \in Sessions : u # t => responder'[u] = responder[u]
  <2>1. responder = [u \in Sessions |-> responder[u]]
    BY DEF KexInv
  <2>2. QED
    BY <1>4, <2>1, PutSession
<1>6. ResponderOk(t)'
  BY <1>2, <1>3, <1>5 DEF ResponderOk, r
<1>7. Answer(Second(t, m1.pk))
  <2>1. PICK s \in Sessions : m1.pk = EphPk(s)
    BY <1>1 DEF FirstMessage
  <2>2. QED
    BY <2>1 DEF Answer, Second, Variants
<1>8. \A u \in Sessions : responder'[u] = responder[u] \/ ResponderOk(u)'
  BY <1>5, <1>6
<1>9. initiator' = [u \in Sessions |-> initiator'[u]]
  BY <1>2 DEF KexInv
<1>10. QED
  BY <1>2, <1>3, <1>5, <1>7, <1>8, <1>9, KexStep

LEMMA SharedAStep ==
    ASSUME KexInv, component = "kex", component' = component, NEW s \in Sessions, Kex!SharedA(s)
    PROVE  KexInv'
<1>1. mode \in {"uake", "ake", "qrom"} /\ InitiatorOk(s)
  BY DEF KexInv
<1>2. initiator[s].pc = "sent"
  BY DEF Kex!SharedA
<1>3. /\ initiator[s].send = First(s) /\ initiator[s].tk = Started(s).tk /\ initiator[s].sk = Started(s).sk
  <2>1. ASSUME NEW m2, initiator[s] = [pc |-> "done", send |-> First(s), recv |-> m2, k |-> Concluded(s, m2)]
        PROVE  FALSE
    BY <1>2, <2>1
  <2>2. initiator[s] = [pc |-> "sent", send |-> First(s), tk |-> Started(s).tk, sk |-> Started(s).sk]
    <3>1. initiator[s].pc # "start"
      BY <1>2
    <3>2. QED
      BY <1>1, <2>1, <3>1, Zenon DEF InitiatorOk
  <2>3. QED
    BY <2>2
<1>4. PICK m2 \in answered :
        /\ mode' = mode /\ responder' = responder /\ sent' = sent /\ answered' = answered
        /\ initiator' = [initiator EXCEPT ![s] =
               [pc |-> "done", send |-> First(s), recv |-> m2, k |-> Concluded(s, m2)]]
  <2>1. CASE mode = "uake"
    BY <1>3, <2>1 DEF Kex!SharedA, Concluded, Kex!kex_uake_sharedA
  <2>2. CASE mode = "ake"
    BY <1>3, <2>2 DEF Kex!SharedA, Concluded, Kex!kex_ake_sharedA
  <2>3. CASE mode = "qrom"
    BY <1>3, <2>3 DEF Kex!SharedA, Concluded
  <2>4. QED
    BY <1>1, <2>1, <2>2, <2>3
<1> DEFINE r == [pc |-> "done", send |-> First(s), recv |-> m2, k |-> Concluded(s, m2)]
<1>5. First(s)' = First(s) /\ Concluded(s, m2)' = Concluded(s, m2)
  BY <1>4, SameMode
<1>6. initiator' = [initiator EXCEPT ![s] = r]
  BY <1>4
<1> HIDE DEF r
<1>7. initiator' = [u \in Sessions |-> initiator'[u]] /\ initiator'[s] = r
      /\ \A u \in Sessions : u # s => initiator'[u] = initiator[u]
  <2>1. initiator = [u \in Sessions |-> initiator[u]]
    BY DEF KexInv
  <2>2. QED
    BY <1>6, <2>1, PutSession
<1>8. InitiatorOk(s)'
  BY <1>4, <1>5, <1>7 DEF InitiatorOk, r
<1>9. \A u \in Sessions : initiator'[u] = initiator[u] \/ InitiatorOk(u)'
  BY <1>7, <1>8
<1>10. responder' = [u \in Sessions |-> responder'[u]]
  BY <1>4 DEF KexInv
<1>11. QED
  BY <1>4, <1>7, <1>9, <1>10, KexStep

\* A message with a ciphertext that has changed is still one of its session.
LEMMA KexChangeStep ==
    ASSUME KexInv, component = "kex", component' = component, Kex!Change
    PROVE  KexInv'
<1>1. /\ \A msg \in sent : FirstMessage(msg)
      /\ \A ans \in answered : Answer(ans)
      /\ initiator = [u \in Sessions |-> initiator[u]] /\ responder = [u \in Sessions |-> responder[u]]
  BY DEF KexInv
<1>2. mode' = mode /\ initiator' = initiator /\ responder' = responder
  BY DEF Kex!Change
<1>3. CASE \E msg \in sent : \E ct \in {Kex!Near(msg.ct), Kex!Far(msg.ct)} :
              msg.ct[1] = "ct" /\ sent' = sent \union {[msg EXCEPT !.ct = ct]} /\ answered' = answered
  <2>1. PICK msg \in sent : \E ct \in {Kex!Near(msg.ct), Kex!Far(msg.ct)} :
              msg.ct[1] = "ct" /\ sent' = sent \union {[msg EXCEPT !.ct = ct]} /\ answered' = answered
    BY <1>3
  <2>2. PICK ct \in {Kex!Near(msg.ct), Kex!Far(msg.ct)} :
              msg.ct[1] = "ct" /\ sent' = sent \union {[msg EXCEPT !.ct = ct]} /\ answered' = answered
    BY <2>1
  <2>3. PICK s \in Sessions : \E x \in Variants(FirstCt(s)) : msg = [pk |-> EphPk(s), ct |-> x]
    BY <1>1, <2>1 DEF FirstMessage
  <2>4. PICK x \in Variants(FirstCt(s)) : msg = [pk |-> EphPk(s), ct |-> x]
    BY <2>3
  <2>5. msg.ct = x /\ [msg EXCEPT !.ct = ct] = [pk |-> EphPk(s), ct |-> ct]
    BY <2>4
  <2>6. ct \in Variants(FirstCt(s))
    BY <2>2, <2>5, CtTags, VariantTags
  <2>7. FirstMessage([msg EXCEPT !.ct = ct])
    BY <2>5, <2>6 DEF FirstMessage
  <2>8. QED
    BY <1>1, <1>2, <2>2, <2>7, KexStep
<1>4. CASE \E ans \in answered : \E k \in DOMAIN ans : \E ct \in {Kex!Near(ans[k]), Kex!Far(ans[k])} :
              ans[k][1] = "ct" /\ answered' = answered \union {[ans EXCEPT ![k] = ct]} /\ sent' = sent
  <2>1. PICK ans \in answered : \E k \in DOMAIN ans : \E ct \in {Kex!Near(ans[k]), Kex!Far(ans[k])} :
              ans[k][1] = "ct" /\ answered' = answered \union {[ans EXCEPT ![k] = ct]} /\ sent' = sent
    BY <1>4
  <2>2. PICK k \in DOMAIN ans : \E ct \in {Kex!Near(ans[k]), Kex!Far(ans[k])} :
              ans[k][1] = "ct" /\ answered' = answered \union {[ans EXCEPT ![k] = ct]} /\ sent' = sent
    BY <2>1
  <2>3. PICK ct \in {Kex!Near(ans[k]), Kex!Far(ans[k])} :
              ans[k][1] = "ct" /\ answered' = answered \union {[ans EXCEPT ![k] = ct]} /\ sent' = sent
    BY <2>2
  <2>4. PICK s \in Sessions, t \in Sessions :
            \E c1 \in Variants(CtOne(t, EphPk(s))) : \E c2 \in Variants(CtTwo(t, EphPk(s))) :
                ans = IF mode = "uake" THEN <<c1>> ELSE <<c1, c2>>
    BY <1>1, <2>1 DEF Answer
  <2>5. PICK c1 \in Variants(CtOne(t, EphPk(s))) : \E c2 \in Variants(CtTwo(t, EphPk(s))) :
                ans = IF mode = "uake" THEN <<c1>> ELSE <<c1, c2>>
    BY <2>4
  <2>6. PICK c2 \in Variants(CtTwo(t, EphPk(s))) : ans = IF mode = "uake" THEN <<c1>> ELSE <<c1, c2>>
    BY <2>5
  <2>7. CASE k = 1
    <3>1. ans[k] = c1 /\ [ans EXCEPT ![k] = ct] = IF mode = "uake" THEN <<ct>> ELSE <<ct, c2>>
      BY <2>6, <2>7
    <3>2. ct \in Variants(CtOne(t, EphPk(s)))
      BY <2>3, <3>1, CtTags, VariantTags
    <3>3. Answer([ans EXCEPT ![k] = ct])
      BY <3>1, <3>2, Zenon DEF Answer
    <3>4. QED
      BY <1>1, <1>2, <2>3, <3>3, KexStep
  <2>8. CASE k = 2
    <3>1. mode # "uake"
      BY <2>2, <2>6, <2>8
    <3>2. ans[k] = c2 /\ [ans EXCEPT ![k] = ct] = IF mode = "uake" THEN <<c1>> ELSE <<c1, ct>>
      BY <2>6, <2>8, <3>1
    <3>3. ct \in Variants(CtTwo(t, EphPk(s)))
      BY <2>3, <3>2, CtTags, VariantTags
    <3>4. Answer([ans EXCEPT ![k] = ct])
      BY <3>2, <3>3, Zenon DEF Answer
    <3>5. QED
      BY <1>1, <1>2, <2>3, <3>4, KexStep
  <2>9. k = 1 \/ k = 2
    BY <2>2, <2>6
  <2>10. QED
    BY <2>7, <2>8, <2>9
<1>5. QED
  BY <1>3, <1>4, Zenon DEF Kex!Change

LEMMA KexInvariant == ExchangesSpec => []KexInv
<1>1. ExchangesInit => KexInv
  <2>1. ASSUME ExchangesInit, component = "kex" PROVE Kex!Init
    BY <2>1 DEF ExchangesInit
  <2>2. QED
    BY <2>1, KexInit DEF KexInv
<1>2. ASSUME KexInv, [ExchangesNext]_ExchangesVars PROVE KexInv'
  <2>1. CASE component = "kex" /\ Kex!Next
    <3>1. component' = component
      BY <1>2 DEF ExchangesNext, ExchangesVars
    <3>2. QED
      BY <1>2, <2>1, <3>1, InitAStep, SharedBStep, SharedAStep, KexChangeStep DEF Kex!Next
  <2>2. CASE ~(component = "kex" /\ Kex!Next)
    <3>1. component' = component /\ (component = "kex" => UNCHANGED kexVars)
      BY <1>2, <2>2 DEF ExchangesNext, ExchangesVars
    <3>2. CASE component = "kex"
      <4>1. UNCHANGED <<mode, initiator, responder, sent, answered>>
        BY <3>1, <3>2 DEF kexVars
      <4>2. initiator = [u \in Sessions |-> initiator[u]] /\ responder = [u \in Sessions |-> responder[u]]
        BY <1>2, <3>2 DEF KexInv
      <4>3. QED
        BY <1>2, <3>1, <3>2, <4>1, <4>2, KexStep
    <3>3. CASE component # "kex"
      BY <3>1, <3>3 DEF KexInv
    <3>4. QED
      BY <3>2, <3>3
  <2>3. QED
    BY <2>1, <2>2
<1>3. QED
  BY <1>1, <1>2, PTL DEF ExchangesSpec

\* What the keys of the two sides are made of.
LEMMA DoneSessions ==
    ASSUME KexInv, component = "kex", NEW s \in Sessions
    PROVE  /\ mode \in {"uake", "ake", "qrom"}
           /\ initiator[s].pc = "done" =>
                /\ initiator[s].send = First(s) /\ initiator[s].k = Concluded(s, initiator[s].recv)
                /\ Answer(initiator[s].recv)
           /\ responder[s].pc = "done" =>
                /\ responder[s].send = Second(s, responder[s].recv.pk)
                /\ responder[s].k = Answered(s, responder[s].recv).k
                /\ FirstMessage(responder[s].recv)
<1>1. /\ mode \in {"uake", "ake", "qrom"} /\ InitiatorOk(s) /\ ResponderOk(s)
      /\ \A msg \in sent : FirstMessage(msg)
      /\ \A ans \in answered : Answer(ans)
  BY DEF KexInv
<1>2. ASSUME initiator[s].pc = "done"
      PROVE  /\ initiator[s].send = First(s) /\ initiator[s].k = Concluded(s, initiator[s].recv)
             /\ Answer(initiator[s].recv)
  <2>1. /\ initiator[s].pc # "start"
        /\ initiator[s] # [pc |-> "sent", send |-> First(s), tk |-> Started(s).tk, sk |-> Started(s).sk]
    BY <1>2
  <2>2. \E m2 \in answered :
            initiator[s] = [pc |-> "done", send |-> First(s), recv |-> m2, k |-> Concluded(s, m2)]
    BY <1>1, <1>2, <2>1, Zenon DEF InitiatorOk
  <2>3. PICK m2 \in answered :
            initiator[s] = [pc |-> "done", send |-> First(s), recv |-> m2, k |-> Concluded(s, m2)]
    BY <2>2
  <2>4. initiator[s].recv = m2 /\ initiator[s].send = First(s) /\ initiator[s].k = Concluded(s, m2)
    BY <2>3
  <2>5. QED
    BY <1>1, <2>4
<1>3. ASSUME responder[s].pc = "done"
      PROVE  /\ responder[s].send = Second(s, responder[s].recv.pk)
             /\ responder[s].k = Answered(s, responder[s].recv).k
             /\ FirstMessage(responder[s].recv)
  <2>1. PICK m1 \in sent : responder[s] =
            [pc |-> "done", recv |-> m1, send |-> Second(s, m1.pk), k |-> Answered(s, m1).k]
    BY <1>1, <1>3 DEF ResponderOk
  <2>2. responder[s].recv = m1 /\ responder[s].send = Second(s, m1.pk) /\ responder[s].k = Answered(s, m1).k
    BY <2>1
  <2>3. QED
    BY <1>1, <2>2
<1>4. QED
  BY <1>1, <1>2, <1>3

\* Decryption gives back what has arrived unchanged.
LEMMA FirstDecrypts ==
    ASSUME NEW s
    PROVE  /\ mode # "qrom" => Kex!crypto_kem_dec(FirstCt(s), Kex!B.sk) = KemSs(LongPk("b"), Rnd("a", s, "m"))
           /\ mode = "qrom" => Kex!indcpa_dec(FirstCt(s), Kex!B.sk) = Rnd("a", s, "m")
  BY LongKeys, DecOfEnc, QromDecOfEnc DEF FirstCt, LongPk

LEMMA SecondDecrypts ==
    ASSUME NEW s, NEW t
    PROVE  /\ mode # "qrom" =>
                /\ Kex!crypto_kem_dec(CtOne(t, EphPk(s)), Started(s).sk) = KemSs(EphPk(s), Rnd("b", t, "m1"))
                /\ Kex!crypto_kem_dec(CtTwo(t, EphPk(s)), Kex!A.sk) = KemSs(LongPk("a"), Rnd("b", t, "m2"))
           /\ mode = "qrom" => Kex!indcpa_dec(CtOne(t, EphPk(s)), Kex!A.sk) = Rnd("b", t, "m1")
<1>1. ASSUME mode # "qrom"
      PROVE  /\ Kex!crypto_kem_dec(CtOne(t, EphPk(s)), Started(s).sk) = KemSs(EphPk(s), Rnd("b", t, "m1"))
             /\ Kex!crypto_kem_dec(CtTwo(t, EphPk(s)), Kex!A.sk) = KemSs(LongPk("a"), Rnd("b", t, "m2"))
  BY <1>1, LongKeys, StartedShape, DecOfEnc DEF CtOne, CtTwo, LongPk, EphPk
<1>2. ASSUME mode = "qrom"
      PROVE  Kex!indcpa_dec(CtOne(t, EphPk(s)), Kex!A.sk) = Rnd("b", t, "m1")
  BY <1>2, LongKeys, QromDecOfEnc DEF CtOne, LongPk
<1>3. QED
  BY <1>1, <1>2

LEMMA TranscriptGivesKey ==
    ASSUME KexInv, component = "kex"
    PROVE  Kex!SameTranscriptSameKey
<1>1. SUFFICES ASSUME NEW s \in Sessions, NEW t \in Sessions,
                      initiator[s].pc = "done", responder[t].pc = "done",
                      responder[t].recv = initiator[s].send, initiator[s].recv = responder[t].send
               PROVE  initiator[s].k = responder[t].k
  BY DEF Kex!SameTranscriptSameKey, Kex!Finished, Kex!SameTranscript
<1> DEFINE pk == EphPk(s)
           m1 == First(s)
           m2 == Second(t, pk)
<1>2. m1.pk = pk /\ m1.ct = FirstCt(s)
  BY DEF First
<1>3. /\ mode \in {"uake", "ake", "qrom"}
      /\ initiator[s].k = Concluded(s, m2) /\ responder[t].k = Answered(t, m1).k
  <2>1. responder[t].recv = m1 /\ mode \in {"uake", "ake", "qrom"}
    BY <1>1, DoneSessions
  <2>2. initiator[s].recv = m2
    BY <1>1, <1>2, <2>1, DoneSessions
  <2>3. QED
    BY <1>1, <2>1, <2>2, DoneSessions
<1>4. m2[1] = CtOne(t, pk) /\ (mode # "uake" => m2[2] = CtTwo(t, pk))
  BY DEF Second
<1> HIDE DEF m1, m2
<1>5. CASE mode = "uake"
  <2>1. Concluded(s, m2) = <<"SHAKE", <<KemSs(pk, Rnd("b", t, "m1")), KemSs(LongPk("b"), Rnd("a", s, "m"))>> >>
    BY <1>3, <1>4, <1>5, ConcludedShape, SecondDecrypts, StartedShape
  <2>2. Answered(t, m1).k = <<"SHAKE", <<KemSs(pk, Rnd("b", t, "m1")), KemSs(LongPk("b"), Rnd("a", s, "m"))>> >>
    BY <1>2, <1>3, <1>5, AnsweredShape, FirstDecrypts
  <2>3. QED
    BY <1>3, <2>1, <2>2
<1>6. CASE mode = "ake"
  <2>1. Concluded(s, m2) = <<"SHAKE", <<KemSs(pk, Rnd("b", t, "m1")), KemSs(LongPk("a"), Rnd("b", t, "m2")),
                                        KemSs(LongPk("b"), Rnd("a", s, "m"))>> >>
    BY <1>3, <1>4, <1>6, ConcludedShape, SecondDecrypts, StartedShape
  <2>2. Answered(t, m1).k = <<"SHAKE", <<KemSs(pk, Rnd("b", t, "m1")), KemSs(LongPk("a"), Rnd("b", t, "m2")),
                                         KemSs(LongPk("b"), Rnd("a", s, "m"))>> >>
    BY <1>2, <1>3, <1>6, AnsweredShape, FirstDecrypts
  <2>3. QED
    BY <1>3, <2>1, <2>2
<1>7. CASE mode = "qrom"
  <2>1. Kex!indcpa_dec(m2[1], Kex!A.sk) = Rnd("b", t, "m1") /\ m2[1] = QromCt(LongPk("a"), Rnd("b", t, "m1"))
    BY <1>4, <1>7, SecondDecrypts DEF CtOne
  <2>2. Concluded(s, m2) = <<"H", Rnd("b", t, "m1")>>
    BY <1>3, <1>7, <2>1, ConcludedShape
  <2>3. Kex!indcpa_dec(m1.ct, Kex!B.sk) = Rnd("a", s, "m") /\ m1.ct = QromCt(LongPk("b"), Rnd("a", s, "m"))
    BY <1>2, <1>7, FirstDecrypts DEF FirstCt
  <2>4. Answered(t, m1).k = <<"H", Rnd("b", t, "m1")>>
    BY <1>3, <1>7, <2>3, AnsweredShape
  <2>5. QED
    BY <1>3, <2>2, <2>4
<1>8. QED
  BY <1>3, <1>5, <1>6, <1>7

\* What B's and A's keys hold of what each side has put into it.
LEMMA DecHoldsCiphertext ==
    ASSUME NEW ct, NEW sk, NEW pk, NEW rnd, Kex!crypto_kem_dec(ct, sk) = KemSs(pk, rnd)
    PROVE  ct = KemCt(pk, rnd)
  BY DecIsKdf, KemTerms

LEMMA HashTerms ==
    ASSUME NEW x, NEW y, <<"SHAKE", x>> = <<"SHAKE", y>>
    PROVE  x = y
  BY Terms

LEMMA KeyGivesTranscript ==
    ASSUME KexInv, component = "kex"
    PROVE  Kex!SameKeySameTranscript
<1>1. SUFFICES ASSUME mode # "qrom", NEW s \in Sessions, NEW t \in Sessions,
                      initiator[s].pc = "done", responder[t].pc = "done", initiator[s].k = responder[t].k
               PROVE  responder[t].recv = initiator[s].send /\ initiator[s].recv = responder[t].send
  BY DEF Kex!SameKeySameTranscript, Kex!Finished, Kex!SameTranscript
<1> DEFINE m1 == responder[t].recv
           m2 == initiator[s].recv
<1>2. /\ mode \in {"uake", "ake"}
      /\ initiator[s].send = First(s) /\ responder[t].send = Second(t, m1.pk)
      /\ Concluded(s, m2) = Answered(t, m1).k
      /\ FirstMessage(m1) /\ Answer(m2)
  BY <1>1, DoneSessions
<1> HIDE DEF m1, m2
<1>3. /\ Kex!crypto_kem_dec(m2[1], Started(s).sk) = KemSs(m1.pk, Rnd("b", t, "m1"))
      /\ Kex!crypto_kem_dec(m1.ct, Kex!B.sk) = KemSs(LongPk("b"), Rnd("a", s, "m"))
      /\ mode = "ake" => Kex!crypto_kem_dec(m2[2], Kex!A.sk) = KemSs(LongPk("a"), Rnd("b", t, "m2"))
  <2>1. Started(s).tk = KemSs(LongPk("b"), Rnd("a", s, "m"))
    BY <1>1, StartedShape
  <2>2. CASE mode = "uake"
    <3>1. /\ Concluded(s, m2) = <<"SHAKE", <<Kex!crypto_kem_dec(m2[1], Started(s).sk), Started(s).tk>> >>
          /\ Answered(t, m1).k = <<"SHAKE", <<KemSs(m1.pk, Rnd("b", t, "m1")), Kex!crypto_kem_dec(m1.ct, Kex!B.sk)>> >>
      BY <2>2, ConcludedShape, AnsweredShape
    <3>2. <<Kex!crypto_kem_dec(m2[1], Started(s).sk), Started(s).tk>>
              = <<KemSs(m1.pk, Rnd("b", t, "m1")), Kex!crypto_kem_dec(m1.ct, Kex!B.sk)>>
      BY <1>2, <3>1, HashTerms
    <3>3. QED
      BY <2>1, <2>2, <3>2, Terms
  <2>3. CASE mode = "ake"
    <3>1. /\ Concluded(s, m2) = <<"SHAKE", <<Kex!crypto_kem_dec(m2[1], Started(s).sk),
                                             Kex!crypto_kem_dec(m2[2], Kex!A.sk), Started(s).tk>> >>
          /\ Answered(t, m1).k = <<"SHAKE", <<KemSs(m1.pk, Rnd("b", t, "m1")), KemSs(LongPk("a"), Rnd("b", t, "m2")),
                                              Kex!crypto_kem_dec(m1.ct, Kex!B.sk)>> >>
      BY <2>3, ConcludedShape, AnsweredShape
    <3>2. <<Kex!crypto_kem_dec(m2[1], Started(s).sk), Kex!crypto_kem_dec(m2[2], Kex!A.sk), Started(s).tk>>
              = <<KemSs(m1.pk, Rnd("b", t, "m1")), KemSs(LongPk("a"), Rnd("b", t, "m2")),
                  Kex!crypto_kem_dec(m1.ct, Kex!B.sk)>>
      BY <1>2, <3>1, HashTerms
    <3>3. QED
      BY <2>1, <3>2, Terms
  <2>4. QED
    BY <1>2, <2>2, <2>3
<1>4. m1.ct = FirstCt(s)
  BY <1>1, <1>3, DecHoldsCiphertext DEF FirstCt
<1>5. m1 = First(s)
  <2>1. PICK u \in Sessions : \E ct \in Variants(FirstCt(u)) : m1 = [pk |-> EphPk(u), ct |-> ct]
    BY <1>2 DEF FirstMessage
  <2>2. PICK ct \in Variants(FirstCt(u)) : m1 = [pk |-> EphPk(u), ct |-> ct]
    BY <2>1
  <2>3. m1.ct = ct
    BY <2>2
  <2>4. FirstCt(u) = FirstCt(s)
    <3>1. ct = FirstCt(s) /\ ct[1] = "ct" /\ FirstCt(u)[1] = "ct"
      BY <1>4, <2>3, CtTags
    <3>2. ct = FirstCt(u)
      BY <3>1, VariantTags
    <3>3. QED
      BY <3>1, <3>2
  <2>5. KemCt(LongPk("b"), Rnd("a", u, "m")) = KemCt(LongPk("b"), Rnd("a", s, "m"))
    BY <1>1, <2>4 DEF FirstCt
  <2>6. u = s
    BY <2>5, KemTerms, RndTerms
  <2>7. QED
    BY <1>4, <2>2, <2>3, <2>6 DEF First
<1>6. m2[1] = CtOne(t, m1.pk) /\ (mode = "ake" => m2[2] = CtTwo(t, m1.pk))
  BY <1>1, <1>3, DecHoldsCiphertext DEF CtOne, CtTwo
<1>7. m2 = Second(t, m1.pk)
  <2>1. \E c1, c2 : m2 = IF mode = "uake" THEN <<c1>> ELSE <<c1, c2>>
    BY <1>2, Zenon DEF Answer
  <2>2. PICK c1, c2 : m2 = IF mode = "uake" THEN <<c1>> ELSE <<c1, c2>>
    BY <2>1
  <2>3. CASE mode = "uake"
    BY <1>6, <2>2, <2>3 DEF Second
  <2>4. CASE mode = "ake"
    BY <1>6, <2>2, <2>4 DEF Second
  <2>5. QED
    BY <1>2, <2>3, <2>4
<1>8. QED
  BY <1>2, <1>5, <1>7 DEF m1, m2

\* Keys that kex_qrom.c has not set are no hash, and name their session.
LEMMA UnsetTerms ==
    /\ \A x, y, w, s : <<y, x>> # <<"unset", w, s>>
    /\ \A w, v, s, t : <<"unset", w, s>> = <<"unset", v, t>> => s = t
<1>1. ASSUME NEW x, NEW y, NEW w, NEW s PROVE <<y, x>> # <<"unset", w, s>>
  <2>1. Len(<<y, x>>) = 2 /\ Len(<<"unset", w, s>>) = 3
    OBVIOUS
  <2>2. QED
    BY <2>1
<1>2. QED
  BY <1>1, Terms

LEMMA ResponderKeysDiffer ==
    ASSUME KexInv, component = "kex", NEW s \in Sessions, NEW t \in Sessions,
           responder[s].pc = "done", responder[t].pc = "done", responder[s].k = responder[t].k
    PROVE  s = t
<1> DEFINE p == responder[s].recv
           q == responder[t].recv
<1>1. mode \in {"uake", "ake", "qrom"} /\ Answered(s, p).k = Answered(t, q).k
  BY DoneSessions
<1> HIDE DEF p, q
<1>2. CASE mode = "uake"
  <2>1. /\ Answered(s, p).k = <<"SHAKE", <<KemSs(p.pk, Rnd("b", s, "m1")), Kex!crypto_kem_dec(p.ct, Kex!B.sk)>> >>
        /\ Answered(t, q).k = <<"SHAKE", <<KemSs(q.pk, Rnd("b", t, "m1")), Kex!crypto_kem_dec(q.ct, Kex!B.sk)>> >>
    BY <1>2, AnsweredShape
  <2>2. <<KemSs(p.pk, Rnd("b", s, "m1")), Kex!crypto_kem_dec(p.ct, Kex!B.sk)>>
            = <<KemSs(q.pk, Rnd("b", t, "m1")), Kex!crypto_kem_dec(q.ct, Kex!B.sk)>>
    BY <1>1, <2>1, HashTerms
  <2>3. KemSs(p.pk, Rnd("b", s, "m1")) = KemSs(q.pk, Rnd("b", t, "m1"))
    BY <2>2, Terms
  <2>4. QED
    BY <2>3, KemTerms, RndTerms
<1>3. CASE mode = "ake"
  <2>1. /\ Answered(s, p).k = <<"SHAKE", <<KemSs(p.pk, Rnd("b", s, "m1")), KemSs(LongPk("a"), Rnd("b", s, "m2")),
                                           Kex!crypto_kem_dec(p.ct, Kex!B.sk)>> >>
        /\ Answered(t, q).k = <<"SHAKE", <<KemSs(q.pk, Rnd("b", t, "m1")), KemSs(LongPk("a"), Rnd("b", t, "m2")),
                                           Kex!crypto_kem_dec(q.ct, Kex!B.sk)>> >>
    BY <1>3, AnsweredShape
  <2>2. <<KemSs(p.pk, Rnd("b", s, "m1")), KemSs(LongPk("a"), Rnd("b", s, "m2")), Kex!crypto_kem_dec(p.ct, Kex!B.sk)>>
            = <<KemSs(q.pk, Rnd("b", t, "m1")), KemSs(LongPk("a"), Rnd("b", t, "m2")),
                Kex!crypto_kem_dec(q.ct, Kex!B.sk)>>
    BY <1>1, <2>1, HashTerms
  <2>3. KemSs(p.pk, Rnd("b", s, "m1")) = KemSs(q.pk, Rnd("b", t, "m1"))
    BY <2>2, Terms
  <2>4. QED
    BY <2>3, KemTerms, RndTerms
<1>4. CASE mode = "qrom"
  <2>1. /\ Answered(s, p).k = <<"H", Rnd("b", s, "m1")>> \/ Answered(s, p).k = <<"unset", "b", s>>
        /\ Answered(t, q).k = <<"H", Rnd("b", t, "m1")>> \/ Answered(t, q).k = <<"unset", "b", t>>
    BY <1>4, AnsweredShape, Zenon
  <2>2. CASE Answered(s, p).k = <<"H", Rnd("b", s, "m1")>> /\ Answered(t, q).k = <<"H", Rnd("b", t, "m1")>>
    <3>1. <<"H", Rnd("b", s, "m1")>> = <<"H", Rnd("b", t, "m1")>>
      BY <1>1, <2>2
    <3>2. QED
      BY <3>1, Terms, RndTerms
  <2>3. CASE Answered(s, p).k = <<"unset", "b", s>> /\ Answered(t, q).k = <<"unset", "b", t>>
    BY <1>1, <2>3, UnsetTerms
  <2>4. QED
    BY <1>1, <2>1, <2>2, <2>3, UnsetTerms
<1>5. QED
  BY <1>1, <1>2, <1>3, <1>4

LEMMA InitiatorKeysDiffer ==
    ASSUME KexInv, component = "kex", NEW s \in Sessions, NEW t \in Sessions, s # t,
           initiator[s].pc = "done", initiator[t].pc = "done", initiator[s].k = initiator[t].k
    PROVE  mode = "qrom" /\ initiator[s].recv[1] = initiator[t].recv[1]
<1> DEFINE p == initiator[s].recv
           q == initiator[t].recv
<1>1. mode \in {"uake", "ake", "qrom"} /\ Concluded(s, p) = Concluded(t, q)
  BY DoneSessions
<1> HIDE DEF p, q
<1>2. ASSUME mode # "qrom" PROVE Started(s).tk # Started(t).tk
  BY <1>2, StartedShape, KemTerms, RndTerms
<1>3. CASE mode = "uake"
  <2>1. /\ Concluded(s, p) = <<"SHAKE", <<Kex!crypto_kem_dec(p[1], Started(s).sk), Started(s).tk>> >>
        /\ Concluded(t, q) = <<"SHAKE", <<Kex!crypto_kem_dec(q[1], Started(t).sk), Started(t).tk>> >>
    BY <1>3, ConcludedShape
  <2>2. <<Kex!crypto_kem_dec(p[1], Started(s).sk), Started(s).tk>>
            = <<Kex!crypto_kem_dec(q[1], Started(t).sk), Started(t).tk>>
    BY <1>1, <2>1, HashTerms
  <2>3. QED
    BY <1>2, <1>3, <2>2, Terms
<1>4. CASE mode = "ake"
  <2>1. /\ Concluded(s, p) = <<"SHAKE", <<Kex!crypto_kem_dec(p[1], Started(s).sk),
                                          Kex!crypto_kem_dec(p[2], Kex!A.sk), Started(s).tk>> >>
        /\ Concluded(t, q) = <<"SHAKE", <<Kex!crypto_kem_dec(q[1], Started(t).sk),
                                          Kex!crypto_kem_dec(q[2], Kex!A.sk), Started(t).tk>> >>
    BY <1>4, ConcludedShape
  <2>2. <<Kex!crypto_kem_dec(p[1], Started(s).sk), Kex!crypto_kem_dec(p[2], Kex!A.sk), Started(s).tk>>
            = <<Kex!crypto_kem_dec(q[1], Started(t).sk), Kex!crypto_kem_dec(q[2], Kex!A.sk), Started(t).tk>>
    BY <1>1, <2>1, HashTerms
  <2>3. QED
    BY <1>2, <1>4, <2>2, Terms
<1>5. CASE mode = "qrom"
  <2> DEFINE x == Kex!indcpa_dec(p[1], Kex!A.sk)
             y == Kex!indcpa_dec(q[1], Kex!A.sk)
  <2>1. /\ Concluded(s, p) = IF QromCt(LongPk("a"), x) = p[1] THEN <<"H", x>> ELSE <<"unset", "a", s>>
        /\ Concluded(t, q) = IF QromCt(LongPk("a"), y) = q[1] THEN <<"H", y>> ELSE <<"unset", "a", t>>
    BY <1>5, ConcludedShape
  <2> HIDE DEF x, y
  <2>2. <<"unset", "a", s>> # <<"unset", "a", t>>
    BY UnsetTerms
  <2>3. <<"H", x>> # <<"unset", "a", t>> /\ <<"H", y>> # <<"unset", "a", s>>
    BY UnsetTerms
  <2>4. QromCt(LongPk("a"), x) = p[1] /\ QromCt(LongPk("a"), y) = q[1] /\ <<"H", x>> = <<"H", y>>
    BY <1>1, <2>1, <2>2, <2>3
  <2>5. x = y
    BY <2>4, Terms
  <2>6. QED
    BY <1>5, <2>4, <2>5 DEF p, q
<1>6. QED
  BY <1>1, <1>3, <1>4, <1>5

\* A first message under the long-term key, and an answer, decrypt exactly if unchanged.
LEMMA ResponderUnset ==
    ASSUME KexInv, component = "kex", NEW t \in Sessions, responder[t].pc = "done"
    PROVE  responder[t].k = <<"unset", "b", t>> <=> mode = "qrom" /\ responder[t].recv.ct[1] # "ct"
<1> DEFINE m1 == responder[t].recv
<1>1. /\ mode \in {"uake", "ake", "qrom"} /\ responder[t].k = Answered(t, m1).k /\ FirstMessage(m1)
  BY DoneSessions
<1> HIDE DEF m1
<1>2. CASE mode # "qrom"
  <2>1. \E x : Answered(t, m1).k = <<"SHAKE", x>>
    BY <1>1, <1>2, AnsweredShape
  <2>2. QED
    BY <1>1, <1>2, <2>1, UnsetTerms
<1>3. CASE mode = "qrom"
  <2>1. PICK u \in Sessions : \E ct \in Variants(FirstCt(u)) : m1 = [pk |-> EphPk(u), ct |-> ct]
    BY <1>1 DEF FirstMessage
  <2>2. PICK ct \in Variants(FirstCt(u)) : m1 = [pk |-> EphPk(u), ct |-> ct]
    BY <2>1
  <2>3. m1.ct = ct /\ (ct[1] = "ct" => ct = FirstCt(u))
    BY <2>2, CtTags, VariantTags
  <2>4. Answered(t, m1).k = IF ct = QromCt(LongPk("b"), Kex!indcpa_dec(ct, Kex!B.sk))
                            THEN <<"H", Rnd("b", t, "m1")>> ELSE <<"unset", "b", t>>
    BY <1>3, <2>3, AnsweredShape
  <2>5. CASE ct[1] = "ct"
    <3>1. ct = QromCt(LongPk("b"), Kex!indcpa_dec(ct, Kex!B.sk))
      BY <1>3, <2>3, <2>5, FirstDecrypts DEF FirstCt
    <3>2. Answered(t, m1).k = <<"H", Rnd("b", t, "m1")>>
      BY <2>4, <3>1
    <3>3. QED
      BY <1>1, <2>3, <2>5, <3>2, UnsetTerms DEF m1
  <2>6. CASE ct[1] # "ct"
    <3>1. ct # QromCt(LongPk("b"), Kex!indcpa_dec(ct, Kex!B.sk))
      BY <2>6, KemTerms
    <3>2. QED
      BY <1>1, <1>3, <2>3, <2>4, <2>6, <3>1 DEF m1
  <2>7. QED
    BY <2>5, <2>6
<1>4. QED
  BY <1>2, <1>3

LEMMA InitiatorUnset ==
    ASSUME KexInv, component = "kex", NEW s \in Sessions, initiator[s].pc = "done"
    PROVE  initiator[s].k = <<"unset", "a", s>> <=> mode = "qrom" /\ initiator[s].recv[1][1] # "ct"
<1> DEFINE m2 == initiator[s].recv
<1>1. /\ mode \in {"uake", "ake", "qrom"} /\ initiator[s].k = Concluded(s, m2) /\ Answer(m2)
  BY DoneSessions
<1> HIDE DEF m2
<1>2. CASE mode # "qrom"
  <2>1. \E x : Concluded(s, m2) = <<"SHAKE", x>>
    BY <1>1, <1>2, ConcludedShape
  <2>2. QED
    BY <1>1, <1>2, <2>1, UnsetTerms
<1>3. CASE mode = "qrom"
  <2>1. \E u, t \in Sessions : \E c1 \in Variants(CtOne(t, EphPk(u))) : \E c2 : m2 = <<c1, c2>>
    BY <1>1, <1>3, Zenon DEF Answer
  <2>2. PICK u \in Sessions, t \in Sessions : \E c1 \in Variants(CtOne(t, EphPk(u))) : \E c2 : m2 = <<c1, c2>>
    BY <2>1
  <2>3. PICK c1 \in Variants(CtOne(t, EphPk(u))) : \E c2 : m2 = <<c1, c2>>
    BY <2>2
  <2>4. m2[1] = c1 /\ (c1[1] = "ct" => c1 = CtOne(t, EphPk(u)))
    BY <2>3, CtTags, VariantTags
  <2>5. Concluded(s, m2) = IF QromCt(LongPk("a"), Kex!indcpa_dec(c1, Kex!A.sk)) = c1
                           THEN <<"H", Kex!indcpa_dec(c1, Kex!A.sk)>> ELSE <<"unset", "a", s>>
    BY <1>3, <2>4, ConcludedShape
  <2>6. CASE c1[1] = "ct"
    <3>1. QromCt(LongPk("a"), Kex!indcpa_dec(c1, Kex!A.sk)) = c1
      BY <1>3, <2>4, <2>6, SecondDecrypts DEF CtOne
    <3>2. Concluded(s, m2) = <<"H", Kex!indcpa_dec(c1, Kex!A.sk)>>
      BY <2>5, <3>1
    <3>3. QED
      BY <1>1, <2>4, <2>6, <3>2, UnsetTerms DEF m2
  <2>7. CASE c1[1] # "ct"
    <3>1. QromCt(LongPk("a"), Kex!indcpa_dec(c1, Kex!A.sk)) # c1
      BY <2>7, KemTerms
    <3>2. QED
      BY <1>1, <1>3, <2>4, <2>5, <2>7, <3>1 DEF m2
  <2>8. QED
    BY <2>6, <2>7
<1>4. QED
  BY <1>2, <1>3

\* Whatever first message reaches which session of B, whatever answer which of A, and
\* however many ciphertexts arrive changed: two sides of kex.c have one key exactly if they
\* have seen the same two messages, those of kex_qrom.c if they have; two sessions of one
\* side have one key only with kex_qrom.c and the same answer; and kex_qrom.c leaves the
\* key as it was exactly if the ciphertext under the long-term key has arrived changed.
THEOREM KeyNamesTranscriptHolds == ExchangesSpec => []KeyNamesTranscript
<1>1. ASSUME KexInv, component = "kex" PROVE Kex!KeysOfOneSideDiffer
  BY <1>1, ResponderKeysDiffer, InitiatorKeysDiffer DEF Kex!KeysOfOneSideDiffer
<1>2. ASSUME KexInv, component = "kex" PROVE Kex!UnsetOnlyWhenChanged
  BY <1>2, ResponderUnset, InitiatorUnset DEF Kex!UnsetOnlyWhenChanged, Kex!Unset
<1>3. KexInv => KeyNamesTranscript
  BY <1>1, <1>2, TranscriptGivesKey, KeyGivesTranscript DEF KeyNamesTranscript
<1>4. QED
  BY <1>3, KexInvariant, PTL
-----------------------------------------------------------------------------
(***************************************************************************)
(* The sources of bytes.  What each has handed out is described byte by    *)
(* byte, from where the stream began, and its state as the place in the    *)
(* stream that comes next.                                                 *)
(***************************************************************************)
LEMMA SeqIsFunction ==
    ASSUME NEW S, NEW q \in Seq(S), NEW f, \A k \in 1 .. Len(q) : q[k] = f[k]
    PROVE  q = [k \in 1 .. Len(q) |-> f[k]]
  OBVIOUS

LEMMA Joined ==
    ASSUME NEW S, NEW q \in Seq(S), NEW p \in Seq(S)
    PROVE  /\ q \o p \in Seq(S) /\ Len(q \o p) = Len(q) + Len(p)
           /\ \A k \in 1 .. Len(q) : (q \o p)[k] = q[k]
           /\ \A k \in Len(q)+1 .. Len(q) + Len(p) : (q \o p)[k] = p[k - Len(q)]
  OBVIOUS

LEMMA FunctionIsSeq ==
    ASSUME NEW S, NEW l \in Nat, NEW f, \A k \in 1 .. l : f[k] \in S
    PROVE  /\ [k \in 1 .. l |-> f[k]] \in Seq(S) /\ Len([k \in 1 .. l |-> f[k]]) = l
           /\ \A k \in 1 .. l : [j \in 1 .. l |-> f[j]][k] = f[k]
  OBVIOUS

\* randombytes.c: the bytes that are there end where the next piece begins.
RandomInv ==
    component = "randombytes" =>
        /\ wanted \in Nat /\ outlen \in Nat /\ written \in Seq(Nat)
        /\ Len(written) + outlen = wanted
        /\ \A k \in 1 .. Len(written) : written[k] = k
        /\ callPc = "caller" => outlen = 0

LEMMA RandomInvariant == ExchangesSpec => []RandomInv
<1>1. ExchangesInit => RandomInv
  BY DEF ExchangesInit, RandomInv, Random!Init
<1>2. ASSUME RandomInv, [ExchangesNext]_ExchangesVars PROVE RandomInv'
  <2>1. CASE component = "randombytes" /\ Random!Next
    <3>1. component' = component
      BY <1>2 DEF ExchangesNext, ExchangesVars
    <3>2. /\ wanted \in Nat /\ outlen \in Nat /\ written \in Seq(Nat)
          /\ Len(written) + outlen = wanted
          /\ \A k \in 1 .. Len(written) : written[k] = k
          /\ callPc = "caller" => outlen = 0
      BY <1>2, <2>1 DEF RandomInv
    <3>3. CASE \E l \in 0 .. MaxLen : Random!randombytes(l)
      BY <2>1, <3>1, <3>3 DEF RandomInv, Random!randombytes
    <3>4. CASE Random!Open \/ Random!Fail \/ Random!Interrupted \/ Random!Return
      BY <2>1, <3>1, <3>2, <3>4 DEF RandomInv, Random!Open, Random!Fail, Random!Interrupted, Random!Return, Random!vars
    <3>5. CASE Random!Read
      <4>1. PICK ret \in 1 .. outlen : written' = written \o [k \in 1 .. ret |-> Len(written) + k]
                                       /\ outlen' = outlen - ret
        BY <3>5 DEF Random!Read
      <4> DEFINE p == [k \in 1 .. ret |-> Len(written) + k]
      <4>2. p \in Seq(Nat) /\ Len(p) = ret /\ \A k \in 1 .. ret : p[k] = Len(written) + k
        BY <3>2, <4>1
      <4>3. written' = written \o p
        BY <4>1
      <4> HIDE DEF p
      <4>4. /\ written' \in Seq(Nat) /\ Len(written') = Len(written) + ret
            /\ \A k \in 1 .. Len(written) : written'[k] = k
            /\ \A k \in Len(written)+1 .. Len(written) + ret : written'[k] = k
        <5>1. /\ written' \in Seq(Nat) /\ Len(written') = Len(written) + Len(p)
              /\ \A k \in 1 .. Len(written) : written'[k] = written[k]
              /\ \A k \in Len(written)+1 .. Len(written) + Len(p) : written'[k] = p[k - Len(written)]
          BY <3>2, <4>2, <4>3, Joined
        <5>2. \A k \in Len(written)+1 .. Len(written) + ret :
                  k - Len(written) \in 1 .. ret /\ Len(written) + (k - Len(written)) = k
          BY <3>2, <4>1
        <5>3. QED
          BY <3>2, <4>2, <5>1, <5>2
      <4>5. wanted' = wanted /\ callPc' = "read"
        BY <3>5 DEF Random!Read
      <4>6. QED
        BY SMTT(30), <3>1, <3>2, <4>1, <4>4, <4>5 DEF RandomInv
    <3>6. QED
      BY <2>1, <3>3, <3>4, <3>5 DEF Random!Next
  <2>2. CASE ~(component = "randombytes" /\ Random!Next)
    <3>1. component' = component /\ (component = "randombytes" => UNCHANGED randomVars)
      BY <1>2, <2>2 DEF ExchangesNext, ExchangesVars
    <3>2. QED
      BY <1>2, <3>1 DEF RandomInv, randomVars
  <2>3. QED
    BY <2>1, <2>2
<1>3. QED
  BY <1>1, <1>2, PTL DEF ExchangesSpec

LEMMA RandomHolds ==
    ASSUME RandomInv, component = "randombytes"
    PROVE  Random!ReturnsFilled
<1> DEFINE f == [k \in Nat |-> k]
<1>1. /\ wanted \in Nat /\ outlen \in Nat /\ written \in Seq(Nat)
      /\ Len(written) + outlen = wanted
      /\ \A k \in 1 .. Len(written) : written[k] = f[k]
      /\ callPc = "caller" => outlen = 0
  BY DEF RandomInv
<1>2. written = [k \in 1 .. Len(written) |-> f[k]]
  <2> HIDE DEF f
  <2>1. QED
    BY <1>1, SeqIsFunction
<1>3. \A l \in Nat : [k \in 1 .. l |-> f[k]] = [k \in 1 .. l |-> k]
  OBVIOUS
<1>4. Len(written) \in Nat /\ (callPc = "caller" => Len(written) = wanted)
  BY <1>1
<1>5. callPc = "caller" => written = [k \in 1 .. wanted |-> k]
  <2> HIDE DEF f
  <2>1. QED
    BY <1>2, <1>3, <1>4
<1>6. Len(written) <= wanted
  BY <1>1
<1>7. QED
  BY <1>5, <1>6, Zenon DEF Random!ReturnsFilled

LEMMA SubSequence ==
    ASSUME NEW S, NEW q \in Seq(S), NEW a \in 1 .. Len(q) + 1, NEW b \in a-1 .. Len(q)
    PROVE  /\ SubSeq(q, a, b) \in Seq(S) /\ Len(SubSeq(q, a, b)) = b - a + 1
           /\ \A k \in 1 .. b - a + 1 : SubSeq(q, a, b)[k] = q[a + k - 1]
  OBVIOUS

LEMMA DivisionOf ==
    ASSUME NEW d \in Nat \ {0}, NEW a \in Int, NEW r \in 0 .. d-1
    PROVE  (a*d + r) \div d = a /\ (a*d + r) % d = r
<1> DEFINE x == a*d + r
<1>1. x \in Int
  OBVIOUS
<1> HIDE DEF x
<1>2. x \div d \in Int /\ x % d \in 0 .. d-1 /\ x = (x \div d)*d + (x % d)
  BY <1>1, DivisionWithRest
<1>3. a*d + r = (x \div d)*d + (x % d)
  BY <1>2 DEF x
<1>4. a = x \div d /\ r = x % d
  BY ZenonT(40), <1>2, <1>3, OneRest
<1>5. QED
  BY <1>4 DEF x

LEMMA DivisionOfNext ==
    ASSUME NEW k \in Nat, NEW d \in Nat \ {0, 1}
    PROVE  /\ k \div d \in Nat /\ k % d \in 0 .. d-1
           /\ k % d = d-1 => (k+1) \div d = (k \div d) + 1 /\ (k+1) % d = 0
           /\ k % d # d-1 => (k+1) \div d = k \div d /\ (k+1) % d = (k % d) + 1
<1> DEFINE a == k \div d
           r == k % d
<1>1. a \in Int /\ r \in 0 .. d-1 /\ k = a*d + r
  BY DivisionWithRest
<1>2. a \in Nat
  OBVIOUS
<1> HIDE DEF a, r
<1>3. ASSUME r = d-1 PROVE (k+1) \div d = a + 1 /\ (k+1) % d = 0
  <2>1. (a+1)*d + 0 = a*d + d
    BY <1>1
  <2>2. k + 1 = (a+1)*d + 0
    BY <1>1, <1>3, <2>1
  <2>3. a + 1 \in Int /\ 0 \in 0 .. d-1
    BY <1>1
  <2>4. QED
    BY <2>2, <2>3, DivisionOf
<1>4. ASSUME r # d-1 PROVE (k+1) \div d = a /\ (k+1) % d = r + 1
  <2>1. k + 1 = a*d + (r + 1) /\ r + 1 \in 0 .. d-1
    BY <1>1, <1>4
  <2>2. QED
    BY <1>1, <2>1, DivisionOf
<1>5. QED
  BY <1>1, <1>2, <1>3, <1>4 DEF a, r

\* seedexpander: the four bytes of the counter, with their carries.
LEMMA SeedIncrement ==
    ASSUME NEW a, NEW b, NEW c, NEW e
    PROVE  LET top == SeedBase - 1
           IN  Seed!Increment(<<a, b, c, e>>) =
                 << IF a = top /\ b = top /\ c = top /\ e = top THEN 0
                    ELSE IF b = top /\ c = top /\ e = top THEN a + 1 ELSE a,
                    IF b = top /\ c = top /\ e = top THEN 0 ELSE IF c = top /\ e = top THEN b + 1 ELSE b,
                    IF c = top /\ e = top THEN 0 ELSE IF e = top THEN c + 1 ELSE c,
                    IF e = top THEN 0 ELSE e + 1 >>
<1> DEFINE top == SeedBase - 1
           t == <<a, b, c, e>>
           H(i0) == \A k \in i0 .. 4 : t[k] = top
           f == [i0 \in 1 .. 4 |-> IF H(i0) THEN 0 ELSE IF i0 = 4 \/ H(i0+1) THEN t[i0] + 1 ELSE t[i0]]
<1>1. Seed!Increment(t) = f
  BY DEF Seed!Increment, Seed!CtrLen
<1>2. /\ H(1) <=> a = top /\ b = top /\ c = top /\ e = top
      /\ H(2) <=> b = top /\ c = top /\ e = top
      /\ H(3) <=> c = top /\ e = top
      /\ H(4) <=> e = top
  OBVIOUS
<1>3. f[1] = IF H(1) THEN 0 ELSE IF H(2) THEN a + 1 ELSE a
  OBVIOUS
<1>4. f[2] = IF H(2) THEN 0 ELSE IF H(3) THEN b + 1 ELSE b
  OBVIOUS
<1>5. f[3] = IF H(3) THEN 0 ELSE IF H(4) THEN c + 1 ELSE c
  OBVIOUS
<1>6. f[4] = IF H(4) THEN 0 ELSE e + 1
  OBVIOUS
<1>7. f = <<f[1], f[2], f[3], f[4]>>
  <2>1. f = [i0 \in 1 .. 4 |-> f[i0]]
    BY Zenon
  <2> HIDE DEF f
  <2>2. QED
    BY <2>1
<1> HIDE DEF f, H
<1>8. QED
  BY <1>1, <1>2, <1>3, <1>4, <1>5, <1>6, <1>7

LEMMA DigitsNext ==
    ASSUME NEW k \in Nat
    PROVE  Seed!Increment(Seed!Digits(k)) = Seed!Digits(k+1)
<1> DEFINE top == SeedBase - 1
           k1 == k \div SeedBase
           k2 == k1 \div SeedBase
           k3 == k2 \div SeedBase
           n1 == (k+1) \div SeedBase
           n2 == n1 \div SeedBase
           n3 == n2 \div SeedBase
<1>1. SeedBase \in Nat \ {0, 1}
  BY SeedAssumption
<1>2. /\ k1 \in Nat /\ k % SeedBase \in 0 .. top
      /\ k % SeedBase = top => n1 = k1 + 1 /\ (k+1) % SeedBase = 0
      /\ k % SeedBase # top => n1 = k1 /\ (k+1) % SeedBase = (k % SeedBase) + 1
  BY <1>1, DivisionOfNext
<1>3. /\ k2 \in Nat
      /\ k1 % SeedBase = top => (k1+1) \div SeedBase = k2 + 1 /\ (k1+1) % SeedBase = 0
      /\ k1 % SeedBase # top => (k1+1) \div SeedBase = k2 /\ (k1+1) % SeedBase = (k1 % SeedBase) + 1
  <2> HIDE DEF k1
  <2>1. QED
    BY <1>1, <1>2, DivisionOfNext
<1>4. /\ k3 \in Nat
      /\ k2 % SeedBase = top => (k2+1) \div SeedBase = k3 + 1 /\ (k2+1) % SeedBase = 0
      /\ k2 % SeedBase # top => (k2+1) \div SeedBase = k3 /\ (k2+1) % SeedBase = (k2 % SeedBase) + 1
  <2> HIDE DEF k2
  <2>1. QED
    BY <1>1, <1>3, DivisionOfNext
<1>5. /\ k3 % SeedBase = top => (k3+1) % SeedBase = 0
      /\ k3 % SeedBase # top => (k3+1) % SeedBase = (k3 % SeedBase) + 1
  <2> HIDE DEF k3
  <2>1. QED
    BY <1>1, <1>4, DivisionOfNext
<1>6. /\ Seed!Digits(k) = <<k3 % SeedBase, k2 % SeedBase, k1 % SeedBase, k % SeedBase>>
      /\ Seed!Digits(k+1) = <<n3 % SeedBase, n2 % SeedBase, n1 % SeedBase, (k+1) % SeedBase>>
  BY Zenon DEF Seed!Digits
<1> DEFINE a == k3 % SeedBase
           b == k2 % SeedBase
           c == k1 % SeedBase
           e == k % SeedBase
<1>7. Seed!Increment(Seed!Digits(k)) =
                 << IF a = top /\ b = top /\ c = top /\ e = top THEN 0
                    ELSE IF b = top /\ c = top /\ e = top THEN a + 1 ELSE a,
                    IF b = top /\ c = top /\ e = top THEN 0 ELSE IF c = top /\ e = top THEN b + 1 ELSE b,
                    IF c = top /\ e = top THEN 0 ELSE IF e = top THEN c + 1 ELSE c,
                    IF e = top THEN 0 ELSE e + 1 >>
  BY <1>6, SeedIncrement
<1>8. /\ n2 = n1 \div SeedBase /\ n3 = n2 \div SeedBase
      /\ k2 = k1 \div SeedBase /\ k3 = k2 \div SeedBase
  OBVIOUS
<1> HIDE DEF k1, k2, k3, n1, n2, n3, top
<1>9. CASE e # top
  <2>1. n1 = k1 /\ n2 = k2 /\ n3 = k3
    BY <1>2, <1>8, <1>9
  <2>2. QED
    BY <1>2, <1>6, <1>7, <1>9, <2>1
<1>10. CASE e = top /\ c # top
  <2>1. n1 = k1 + 1 /\ n2 = k2 /\ n3 = k3
    BY <1>2, <1>3, <1>8, <1>10
  <2>2. QED
    BY <1>2, <1>3, <1>6, <1>7, <1>10, <2>1
<1>11. CASE e = top /\ c = top /\ b # top
  <2>1. n1 = k1 + 1 /\ n2 = k2 + 1 /\ n3 = k3
    BY <1>2, <1>3, <1>4, <1>8, <1>11
  <2>2. QED
    BY <1>2, <1>3, <1>4, <1>6, <1>7, <1>11, <2>1
<1>12. CASE e = top /\ c = top /\ b = top
  <2>1. n1 = k1 + 1 /\ n2 = k2 + 1 /\ n3 = k3 + 1
    BY <1>2, <1>3, <1>4, <1>8, <1>12
  <2>2. QED
    BY <1>2, <1>3, <1>4, <1>5, <1>6, <1>7, <1>12, <2>1
<1>13. QED
  BY <1>9, <1>10, <1>11, <1>12

\* Byte k of the stream; the counter is at the next block, the buffer holds the one before.
SeedByte(k) == <<Seed!Digits(maxlen), Seed!Digits((k-1) \div SeedBlockLen), ((k-1) % SeedBlockLen) + 1>>
SeedBytes   == {SeedByte(k) : k \in Nat} \union {Seed!ZeroByte}

SeedBlock(b) == [k \in 1 .. SeedBlockLen |-> <<Seed!Digits(maxlen), Seed!Digits(b), k>>]

SeedAt(b) ==
    /\ ctr = Seed!Digits(b)
    /\ Len(out) + SeedBlockLen = b*SeedBlockLen + buffer_pos
    /\ b > 0 => buffer = SeedBlock(b-1)

SeedInv ==
    component = "seedexpander" =>
        /\ maxlen \in Nat /\ length_remaining \in Nat /\ xlen \in Nat /\ buffer_pos \in 0 .. SeedBlockLen
        /\ out \in Seq(SeedBytes) /\ buffer \in Seq(SeedBytes) /\ Len(buffer) = SeedBlockLen
        /\ Len(out) + xlen + length_remaining = maxlen
        /\ \A k \in 1 .. Len(out) : out[k] = SeedByte(k)
        /\ \E b \in Nat : SeedAt(b)
        /\ rc = "none" => out = <<>> /\ buffer = [k \in 1 .. SeedBlockLen |-> Seed!ZeroByte] /\ ctr = Seed!Digits(0)
                          /\ buffer_pos = SeedBlockLen /\ xlen = 0

LEMMA SeedByteOf ==
    ASSUME NEW b \in Nat, NEW k \in 1 .. SeedBlockLen
    PROVE  /\ SeedBlock(b)[k] = SeedByte(b*SeedBlockLen + k)
           /\ SeedBlock(b)[k] \in SeedBytes
<1>1. SeedBlockLen \in Nat \ {0}
  BY SeedAssumption
<1>2. (b*SeedBlockLen + (k-1)) \div SeedBlockLen = b /\ (b*SeedBlockLen + (k-1)) % SeedBlockLen = k-1
  BY <1>1, DivisionOf
<1>3. b*SeedBlockLen \in Nat
  BY <1>1
<1>4. (b*SeedBlockLen + k) - 1 = b*SeedBlockLen + (k-1) /\ b*SeedBlockLen + k \in Nat /\ (k-1) + 1 = k
  BY <1>1, <1>3
<1>5. SeedByte(b*SeedBlockLen + k) = <<Seed!Digits(maxlen), Seed!Digits(b), k>>
  BY <1>2, <1>4 DEF SeedByte
<1>6. SeedBlock(b)[k] = <<Seed!Digits(maxlen), Seed!Digits(b), k>>
  BY DEF SeedBlock
<1>7. QED
  BY <1>4, <1>5, <1>6 DEF SeedBytes

LEMMA SeedBlockIsSeq ==
    ASSUME NEW b \in Nat
    PROVE  SeedBlock(b) \in Seq(SeedBytes) /\ Len(SeedBlock(b)) = SeedBlockLen
<1>1. SeedBlockLen \in Nat
  BY SeedAssumption
<1>2. \A k \in 1 .. SeedBlockLen : SeedBlock(b)[k] \in SeedBytes
  BY SeedByteOf
<1>3. SeedBlock(b) = [k \in 1 .. SeedBlockLen |-> SeedBlock(b)[k]]
  BY DEF SeedBlock
<1>4. QED
  BY <1>1, <1>2, <1>3

LEMMA SeedInit ==
    ASSUME component = "seedexpander", Seed!Init
    PROVE  SeedInv
<1>1. SeedBlockLen \in Nat \ {0}
  BY SeedAssumption
<1>2. /\ maxlen = 0 /\ length_remaining = 0 /\ ctr = Seed!Digits(0) /\ buffer_pos = SeedBlockLen
      /\ buffer = [k \in 1 .. SeedBlockLen |-> Seed!ZeroByte] /\ xlen = 0 /\ out = <<>>
  BY DEF Seed!Init
<1>3. buffer \in Seq(SeedBytes) /\ Len(buffer) = SeedBlockLen
  BY <1>1, <1>2 DEF SeedBytes
<1>4. out \in Seq(SeedBytes) /\ Len(out) = 0
  BY <1>2
<1>5. SeedAt(0)
  BY <1>1, <1>2, <1>4 DEF SeedAt
<1>6. QED
  BY <1>1, <1>2, <1>3, <1>4, <1>5 DEF SeedInv

\* What of the stream only maxlen matters for.
LEMMA SameSeedBytes ==
    ASSUME maxlen' = maxlen
    PROVE  /\ SeedBytes' = SeedBytes /\ \A k : SeedByte(k)' = SeedByte(k)
           /\ \A b : SeedBlock(b)' = SeedBlock(b)
<1>1. \A k : SeedByte(k)' = SeedByte(k)
  BY DEF SeedByte
<1>2. \A b : SeedBlock(b)' = SeedBlock(b)
  BY DEF SeedBlock
<1>3. SeedBytes' = SeedBytes
  BY <1>1 DEF SeedBytes
<1>4. QED
  BY <1>1, <1>2, <1>3

\* Before anything has been handed out, maxlen may be set.
LEMMA SeedInitStep ==
    ASSUME SeedInv, component = "seedexpander", component' = component, NEW l \in 0 .. Seed!Limit,
           Seed!seedexpander_init(l)
    PROVE  SeedInv'
<1>1. /\ out = <<>> /\ buffer = [k \in 1 .. SeedBlockLen |-> Seed!ZeroByte] /\ ctr = Seed!Digits(0)
      /\ buffer_pos = SeedBlockLen /\ xlen = 0
      /\ maxlen \in Nat /\ length_remaining \in Nat /\ Len(out) + xlen + length_remaining = maxlen
  BY DEF SeedInv, Seed!seedexpander_init
<1>2. /\ ctr' = ctr /\ buffer' = buffer /\ buffer_pos' = buffer_pos /\ xlen' = xlen /\ out' = out
      /\ rc' # "none"
      /\ \/ maxlen' = maxlen /\ length_remaining' = length_remaining
         \/ maxlen' = l /\ length_remaining' = l
  BY DEF Seed!seedexpander_init
<1>3. SeedBlockLen \in Nat \ {0}
  BY SeedAssumption
<1>4. buffer' \in Seq(SeedBytes)' /\ Len(buffer') = SeedBlockLen
  BY <1>1, <1>2, <1>3 DEF SeedBytes
<1>5. out' \in Seq(SeedBytes)' /\ Len(out') = 0
  BY <1>1, <1>2
<1>6. SeedAt(0)'
  BY <1>1, <1>2, <1>3, <1>5 DEF SeedAt, Seed!Digits
<1>7. maxlen' \in Nat /\ length_remaining' \in Nat /\ Len(out') + xlen' + length_remaining' = maxlen'
  BY <1>1, <1>2, <1>5
<1>8. \E b \in Nat : SeedAt(b)'
  BY <1>6
<1>9. xlen' \in Nat /\ buffer_pos' \in 0 .. SeedBlockLen /\ \A k \in 1 .. Len(out') : out'[k] = SeedByte(k)'
  BY <1>1, <1>2, <1>3, <1>5
<1>10. QED
  BY <1>2, <1>4, <1>5, <1>7, <1>8, <1>9 DEF SeedInv

LEMMA SeedRequestStep ==
    ASSUME SeedInv, component = "seedexpander", component' = component, NEW l \in 0 .. Seed!Limit,
           Seed!seedexpander(l)
    PROVE  SeedInv'
<1>1. /\ maxlen \in Nat /\ length_remaining \in Nat /\ xlen \in Nat /\ buffer_pos \in 0 .. SeedBlockLen
      /\ out \in Seq(SeedBytes) /\ buffer \in Seq(SeedBytes) /\ Len(buffer) = SeedBlockLen
      /\ Len(out) + xlen + length_remaining = maxlen
      /\ \A k \in 1 .. Len(out) : out[k] = SeedByte(k)
      /\ \E b \in Nat : SeedAt(b)
  BY DEF SeedInv
<1>2. /\ ctr' = ctr /\ buffer' = buffer /\ buffer_pos' = buffer_pos /\ out' = out /\ maxlen' = maxlen
      /\ rc' # "none" /\ xlen = 0
      /\ \/ xlen' = xlen /\ length_remaining' = length_remaining
         \/ xlen' = l /\ length_remaining' = length_remaining - l /\ l < length_remaining
  BY DEF Seed!seedexpander
<1>3. SeedBytes' = SeedBytes /\ \A k : SeedByte(k)' = SeedByte(k)
  BY <1>2, SameSeedBytes
<1>4. \E b \in Nat : SeedAt(b)'
  <2>1. PICK b \in Nat : SeedAt(b)
    BY <1>1
  <2>2. SeedAt(b)'
    BY <1>2, <2>1, SameSeedBytes DEF SeedAt
  <2>3. QED
    BY <2>2
<1>5. /\ xlen' \in Nat /\ length_remaining' \in Nat
      /\ Len(out') + xlen' + length_remaining' = maxlen'
  <2>1. Len(out) \in Nat /\ Len(out') = Len(out) /\ l \in Nat
    BY <1>1, <1>2
  <2>2. /\ length_remaining \in Nat /\ xlen = 0 /\ maxlen' = maxlen
        /\ Len(out) + xlen + length_remaining = maxlen
    BY <1>1, <1>2
  <2>3. QED
    BY <1>2, <2>1, <2>2
<1>6. QED
  BY <1>1, <1>2, <1>3, <1>4, <1>5 DEF SeedInv

\* What both ways of taking bytes have in common: they are the next ones of the buffer.
LEMMA FromBuffer ==
    ASSUME SeedInv, component = "seedexpander", NEW l \in Nat, buffer_pos + l <= SeedBlockLen, NEW b \in Nat, SeedAt(b)
    PROVE  LET new == out \o SubSeq(buffer, buffer_pos + 1, buffer_pos + l)
           IN  /\ new \in Seq(SeedBytes) /\ Len(new) = Len(out) + l
               /\ \A k \in 1 .. Len(new) : new[k] = SeedByte(k)
<1> DEFINE p == SubSeq(buffer, buffer_pos + 1, buffer_pos + l)
           new == out \o p
<1>1. /\ buffer_pos \in 0 .. SeedBlockLen
      /\ out \in Seq(SeedBytes) /\ buffer \in Seq(SeedBytes) /\ Len(buffer) = SeedBlockLen
      /\ \A k \in 1 .. Len(out) : out[k] = SeedByte(k)
  BY DEF SeedInv
<1>2. SeedBlockLen \in Nat \ {0} /\ Len(out) \in Nat
  BY <1>1, SeedAssumption
<1>3. /\ p \in Seq(SeedBytes) /\ Len(p) = l
      /\ \A k \in 1 .. l : p[k] = buffer[buffer_pos + k]
  <2>1. buffer_pos + 1 \in 1 .. Len(buffer) + 1 /\ buffer_pos + l \in buffer_pos .. Len(buffer)
    BY <1>1, <1>2
  <2>2. /\ p \in Seq(SeedBytes) /\ Len(p) = buffer_pos + l - (buffer_pos + 1) + 1
        /\ \A k \in 1 .. buffer_pos + l - (buffer_pos + 1) + 1 : p[k] = buffer[buffer_pos + 1 + k - 1]
    BY <1>1, <2>1, SubSequence
  <2>3. buffer_pos + l - (buffer_pos + 1) + 1 = l /\ \A k \in Int : buffer_pos + 1 + k - 1 = buffer_pos + k
    BY <1>1
  <2> HIDE DEF p
  <2>4. \A k \in 1 .. l : p[k] = buffer[buffer_pos + k]
    <3>1. SUFFICES ASSUME NEW k \in 1 .. l PROVE p[k] = buffer[buffer_pos + k]
      OBVIOUS
    <3>2. k \in 1 .. buffer_pos + l - (buffer_pos + 1) + 1 /\ buffer_pos + 1 + k - 1 = buffer_pos + k
      BY <2>3
    <3>3. QED
      BY <2>2, <3>2
  <2>5. QED
    BY <2>2, <2>3, <2>4
<1> HIDE DEF p
<1>4. /\ new \in Seq(SeedBytes) /\ Len(new) = Len(out) + l
      /\ \A k \in 1 .. Len(out) : new[k] = out[k]
      /\ \A k \in Len(out)+1 .. Len(out) + l : new[k] = p[k - Len(out)]
  BY ZenonT(40), <1>1, <1>3, Joined
<1>5. ASSUME NEW k \in Len(out)+1 .. Len(out) + l PROVE new[k] = SeedByte(k)
  <2> DEFINE j0 == buffer_pos + (k - Len(out))
  <2>1. k - Len(out) \in 1 .. l /\ j0 \in 1 .. SeedBlockLen
    BY <1>1, <1>2
  <2>2. b > 0 /\ b-1 \in Nat
    <3>1. Len(out) + SeedBlockLen = b*SeedBlockLen + buffer_pos
      BY DEF SeedAt
    <3>2. b = 0 => buffer_pos >= SeedBlockLen
      BY <1>1, <1>2, <3>1
    <3>3. QED
      BY <1>1, <1>2, <2>1, <3>2
  <2>3. buffer = SeedBlock(b-1) /\ Len(out) + SeedBlockLen = b*SeedBlockLen + buffer_pos
    BY <2>2 DEF SeedAt
  <2>4. (b-1)*SeedBlockLen + j0 = k
    <3> DEFINE w == b*SeedBlockLen
    <3>1. (b-1)*SeedBlockLen = w - SeedBlockLen /\ w \in Int
      BY <1>2
    <3>2. Len(out) + SeedBlockLen = w + buffer_pos
      BY <2>3
    <3> HIDE DEF w
    <3>3. w - SeedBlockLen + (buffer_pos + (k - Len(out))) = k
      <4>1. w \in Int /\ buffer_pos \in Int /\ k \in Int /\ Len(out) \in Int /\ SeedBlockLen \in Int
        BY <1>1, <1>2, <3>1
      <4>2. QED
        BY <3>2, <4>1
    <3>4. QED
      BY <3>1, <3>3
  <2>5. new[k] = buffer[j0]
    BY <1>3, <1>4, <2>1
  <2> HIDE DEF j0
  <2>6. SeedBlock(b-1)[j0] = SeedByte((b-1)*SeedBlockLen + j0)
    BY <2>1, <2>2, SeedByteOf
  <2>7. QED
    BY <2>3, <2>4, <2>5, <2>6
<1>6. \A k \in 1 .. Len(new) : new[k] = SeedByte(k)
  BY <1>1, <1>2, <1>4, <1>5
<1>7. QED
  BY <1>4, <1>6 DEF p

LEMMA TakeStep ==
    ASSUME SeedInv, component = "seedexpander", component' = component, Seed!TakeFromBuffer
    PROVE  SeedInv'
<1>1. /\ maxlen \in Nat /\ length_remaining \in Nat /\ xlen \in Nat /\ buffer_pos \in 0 .. SeedBlockLen
      /\ out \in Seq(SeedBytes) /\ buffer \in Seq(SeedBytes) /\ Len(buffer) = SeedBlockLen
      /\ Len(out) + xlen + length_remaining = maxlen
      /\ \E b \in Nat : SeedAt(b)
      /\ rc = "none" => xlen = 0
  BY DEF SeedInv
<1>2. /\ ctr' = ctr /\ buffer' = buffer /\ maxlen' = maxlen /\ length_remaining' = length_remaining /\ rc' = rc
      /\ xlen > 0 /\ xlen <= SeedBlockLen - buffer_pos /\ xlen' = 0 /\ buffer_pos' = buffer_pos + xlen
      /\ out' = out \o SubSeq(buffer, buffer_pos + 1, buffer_pos + xlen)
  BY DEF Seed!TakeFromBuffer, Seed!Buffered
<1>3. PICK b \in Nat : SeedAt(b)
  BY <1>1
<1>4. SeedBlockLen \in Nat \ {0} /\ Len(out) \in Nat
  BY <1>1, SeedAssumption
<1>5. buffer_pos + xlen <= SeedBlockLen
  BY <1>1, <1>2, <1>4
<1>6. /\ out' \in Seq(SeedBytes) /\ Len(out') = Len(out) + xlen
      /\ \A k \in 1 .. Len(out') : out'[k] = SeedByte(k)
  BY <1>1, <1>2, <1>3, <1>5, FromBuffer
<1>7. SeedBytes' = SeedBytes /\ \A k : SeedByte(k)' = SeedByte(k)
  BY <1>2, SameSeedBytes
<1>8. SeedAt(b)'
  <2> DEFINE w == b*SeedBlockLen
  <2>1. w \in Int /\ Len(out) + SeedBlockLen = w + buffer_pos
    BY <1>3, <1>4 DEF SeedAt
  <2> HIDE DEF w
  <2>2. Len(out') + SeedBlockLen = w + buffer_pos'
    <3>1. buffer_pos \in Int /\ xlen \in Int /\ buffer_pos' = buffer_pos + xlen /\ Len(out') = Len(out) + xlen
      BY <1>1, <1>2, <1>6
    <3>2. QED
      BY <1>4, <2>1, <3>1
  <2> USE DEF w
  <2>3. QED
    BY <1>2, <1>3, <2>2, SameSeedBytes DEF SeedAt
<1>9. Len(out') + xlen' + length_remaining' = maxlen' /\ xlen' \in Nat /\ buffer_pos' \in 0 .. SeedBlockLen
  BY <1>1, <1>2, <1>4, <1>6
<1>10. /\ maxlen' \in Nat /\ length_remaining' \in Nat
       /\ out' \in Seq(SeedBytes)' /\ buffer' \in Seq(SeedBytes)' /\ Len(buffer') = SeedBlockLen
       /\ \A k \in 1 .. Len(out') : out'[k] = SeedByte(k)'
       /\ \E c \in Nat : SeedAt(c)'
  <2>1. Seq(SeedBytes)' = Seq(SeedBytes)
    BY <1>7
  <2>2. out' \in Seq(SeedBytes)' /\ buffer' \in Seq(SeedBytes)' /\ Len(buffer') = SeedBlockLen
    BY <1>1, <1>2, <1>6, <2>1
  <2>3. \A k \in 1 .. Len(out') : out'[k] = SeedByte(k)'
    BY <1>6, <1>7
  <2>4. QED
    BY <1>1, <1>2, <1>3, <1>8, <2>2, <2>3
<1>11. rc' # "none"
  BY <1>1, <1>2
<1>12. QED
  BY <1>9, <1>10, <1>11 DEF SeedInv

LEMMA RefillStep ==
    ASSUME SeedInv, component = "seedexpander", component' = component, Seed!Refill
    PROVE  SeedInv'
<1>1. /\ maxlen \in Nat /\ length_remaining \in Nat /\ xlen \in Nat /\ buffer_pos \in 0 .. SeedBlockLen
      /\ out \in Seq(SeedBytes)
      /\ Len(out) + xlen + length_remaining = maxlen
      /\ \E b \in Nat : SeedAt(b)
      /\ rc = "none" => xlen = 0
  BY DEF SeedInv
<1>2. /\ maxlen' = maxlen /\ length_remaining' = length_remaining /\ rc' = rc
      /\ xlen > SeedBlockLen - buffer_pos /\ xlen' = xlen - (SeedBlockLen - buffer_pos) /\ buffer_pos' = 0
      /\ out' = out \o SubSeq(buffer, buffer_pos + 1, SeedBlockLen)
      /\ ctr' = Seed!Increment(ctr)
      /\ buffer' = [k \in 1 .. SeedBlockLen |-> <<Seed!Digits(maxlen), ctr, k>>]
  BY DEF Seed!Refill, Seed!Buffered, Seed!AES256_ECB
<1>3. PICK b \in Nat : SeedAt(b)
  BY <1>1
<1>4. SeedBlockLen \in Nat \ {0} /\ Len(out) \in Nat /\ SeedBlockLen - buffer_pos \in Nat
  BY <1>1, SeedAssumption
<1>5. /\ out' \in Seq(SeedBytes) /\ Len(out') = Len(out) + (SeedBlockLen - buffer_pos)
      /\ \A k \in 1 .. Len(out') : out'[k] = SeedByte(k)
  <2>1. buffer_pos + (SeedBlockLen - buffer_pos) = SeedBlockLen
    BY <1>1, <1>4
  <2>2. out' = out \o SubSeq(buffer, buffer_pos + 1, buffer_pos + (SeedBlockLen - buffer_pos))
    BY <1>2, <2>1
  <2>3. buffer_pos + (SeedBlockLen - buffer_pos) <= SeedBlockLen
    BY <1>4, <2>1
  <2>4. QED
    BY <1>3, <1>4, <2>2, <2>3, FromBuffer
<1>6. SeedBytes' = SeedBytes /\ (\A k : SeedByte(k)' = SeedByte(k)) /\ \A c : SeedBlock(c)' = SeedBlock(c)
  BY <1>2, SameSeedBytes
<1>7. buffer' = SeedBlock(b)
  BY <1>2, <1>3 DEF SeedBlock, SeedAt
<1>8. SeedAt(b+1)'
  <2>1. ctr' = Seed!Digits(b+1)
    BY <1>2, <1>3, DigitsNext DEF SeedAt
  <2> DEFINE w == b*SeedBlockLen
  <2>2. (b+1)*SeedBlockLen = w + SeedBlockLen /\ w \in Int /\ Len(out) + SeedBlockLen = w + buffer_pos
    BY <1>3, <1>4 DEF SeedAt
  <2> HIDE DEF w
  <2>3. Len(out') + SeedBlockLen = (b+1)*SeedBlockLen + buffer_pos'
    <3>1. buffer_pos \in Int /\ buffer_pos' = 0 /\ Len(out') = Len(out) + (SeedBlockLen - buffer_pos)
      BY <1>1, <1>2, <1>5
    <3>2. Len(out') + SeedBlockLen = w + SeedBlockLen
      BY <1>4, <2>2, <3>1
    <3>3. QED
      BY <1>4, <2>2, <3>1, <3>2
  <2>4. b+1-1 = b
    OBVIOUS
  <2>5. buffer' = SeedBlock(b+1-1)'
    BY <1>6, <1>7, <2>4
  <2>6. Seed!Digits(b+1)' = Seed!Digits(b+1)
    BY DEF Seed!Digits
  <2>7. QED
    BY <2>1, <2>3, <2>5, <2>6 DEF SeedAt
<1>9. Len(out') + xlen' + length_remaining' = maxlen' /\ xlen' \in Nat /\ buffer_pos' \in 0 .. SeedBlockLen
  <2>1. /\ length_remaining' = length_remaining /\ length_remaining \in Nat /\ xlen \in Nat
        /\ Len(out) + xlen + length_remaining = maxlen /\ maxlen' = maxlen
        /\ buffer_pos \in Int /\ buffer_pos' = 0 /\ Len(out') = Len(out) + (SeedBlockLen - buffer_pos)
        /\ xlen > SeedBlockLen - buffer_pos /\ xlen' = xlen - (SeedBlockLen - buffer_pos)
    BY <1>1, <1>2, <1>5
  <2>2. QED
    BY <1>4, <2>1
<1>10. buffer' \in Seq(SeedBytes) /\ Len(buffer') = SeedBlockLen
  BY <1>7, SeedBlockIsSeq
<1>11. rc' # "none"
  BY <1>1, <1>2, <1>4
<1>12. out' \in Seq(SeedBytes') /\ buffer' \in Seq(SeedBytes') /\ \A k \in 1 .. Len(out') : out'[k] = SeedByte(k)'
  BY <1>5, <1>6, <1>10
<1>13. maxlen' \in Nat /\ length_remaining' \in Nat /\ \E c \in Nat : SeedAt(c)'
  <2>1. b+1 \in Nat
    OBVIOUS
  <2>2. QED
    BY <1>1, <1>2, <1>8, <2>1
<1>14. QED
  BY <1>9, <1>10, <1>11, <1>12, <1>13 DEF SeedInv

LEMMA SeedInvariant == ExchangesSpec => []SeedInv
<1>1. ExchangesInit => SeedInv
  <2>1. ASSUME ExchangesInit, component = "seedexpander" PROVE Seed!Init
    BY <2>1 DEF ExchangesInit
  <2>2. QED
    BY <2>1, SeedInit DEF SeedInv
<1>2. ASSUME SeedInv, [ExchangesNext]_ExchangesVars PROVE SeedInv'
  <2>1. CASE component = "seedexpander" /\ Seed!Next
    <3>1. component' = component
      BY <1>2 DEF ExchangesNext, ExchangesVars
    <3>2. QED
      BY <1>2, <2>1, <3>1, SeedInitStep, SeedRequestStep, TakeStep, RefillStep, Zenon DEF Seed!Next
  <2>2. CASE ~(component = "seedexpander" /\ Seed!Next)
    <3>1. component' = component /\ (component = "seedexpander" => UNCHANGED seedVars)
      BY <1>2, <2>2 DEF ExchangesNext, ExchangesVars
    <3>2. CASE component = "seedexpander"
      <4>1. /\ maxlen' = maxlen /\ length_remaining' = length_remaining /\ xlen' = xlen /\ ctr' = ctr
            /\ buffer_pos' = buffer_pos /\ out' = out /\ buffer' = buffer /\ rc' = rc
        BY <3>1, <3>2 DEF seedVars
      <4>2. SeedBytes' = SeedBytes /\ (\A k : SeedByte(k)' = SeedByte(k)) /\ \A c : SeedBlock(c)' = SeedBlock(c)
        BY <4>1, SameSeedBytes
      <4>3. \A b : SeedAt(b) => SeedAt(b)'
        BY <4>1, <4>2 DEF SeedAt
      <4>4. QED
        BY <1>2, <3>1, <3>2, <4>1, <4>2, <4>3 DEF SeedInv
    <3>3. CASE component # "seedexpander"
      BY <3>1, <3>3 DEF SeedInv
    <3>4. QED
      BY <3>2, <3>3
  <2>3. QED
    BY <2>1, <2>2
<1>3. QED
  BY <1>1, <1>2, PTL DEF ExchangesSpec

LEMMA SeedHolds ==
    ASSUME SeedInv, component = "seedexpander"
    PROVE  Seed!OneStream /\ Seed!Accounted
<1> DEFINE f == [k \in Nat |-> SeedByte(k)]
<1>1. /\ out \in Seq(SeedBytes) /\ Len(out) \in Nat
      /\ \A k \in 1 .. Len(out) : out[k] = f[k]
      /\ Len(out) + xlen + length_remaining = maxlen
  BY DEF SeedInv
<1>2. \A l \in Nat : [k \in 1 .. l |-> f[k]] = [k \in 1 .. l |-> SeedByte(k)]
  OBVIOUS
<1> HIDE DEF f
<1>3. out = [k \in 1 .. Len(out) |-> f[k]]
  BY <1>1, SeqIsFunction
<1>4. out = [k \in 1 .. Len(out) |-> SeedByte(k)]
  BY <1>1, <1>2, <1>3
<1>5. QED
  BY <1>1, <1>4, Zenon DEF Seed!OneStream, Seed!Accounted, SeedByte

(***************************************************************************)
(* rng.c: within a call, V only counts, so that its last three digits tell *)
(* the blocks of the call and those of the update after it apart.          *)
(***************************************************************************)
LowLimit == DrbgBase * DrbgBase * DrbgBase
Low(v)   == (v[VLen-2]*DrbgBase + v[VLen-1])*DrbgBase + v[VLen]

LEMMA TimesMonotonic ==
    ASSUME NEW a \in Int, NEW b \in Int, NEW d \in Nat, a <= b
    PROVE  a*d <= b*d /\ a*d \in Int /\ b*d \in Int
<1>1. (b - a)*d >= 0
  BY b - a \in Nat
<1>2. (b - a)*d = b*d - a*d /\ a*d \in Int /\ b*d \in Int
  OBVIOUS
<1>3. QED
  BY <1>1, <1>2

LEMMA LessByTimes ==
    ASSUME NEW a \in Int, NEW b \in Int, NEW d \in Nat, a*d < b*d
    PROVE  a < b
  BY TimesMonotonic

LEMMA LowDigits ==
    ASSUME NEW a \in 0 .. DrbgBase-1, NEW b \in 0 .. DrbgBase-1, NEW c \in 0 .. DrbgBase-1
    PROVE  (a*DrbgBase + b)*DrbgBase + c \in 0 .. LowLimit-1
<1>1. DrbgBase \in Nat \ {0, 1}
  BY DrbgAssumption
<1> DEFINE x == a*DrbgBase + b
           y == DrbgBase*DrbgBase
<1>2. x \in 0 .. y - 1
  <2>1. a*DrbgBase <= (DrbgBase-1)*DrbgBase /\ a*DrbgBase >= 0*DrbgBase /\ a*DrbgBase \in Int
    BY <1>1, TimesMonotonic
  <2>2. (DrbgBase-1)*DrbgBase = y - DrbgBase /\ y \in Int /\ 0*DrbgBase = 0
    BY <1>1
  <2> HIDE DEF y
  <2> DEFINE z == a*DrbgBase
  <2>3. z <= y - DrbgBase /\ z >= 0 /\ z \in Int
    BY <2>1, <2>2
  <2> HIDE DEF z
  <2>4. z + b \in 0 .. y - 1
    BY <1>1, <2>2, <2>3
  <2>5. QED
    BY <2>4 DEF z
<1>3. y \in Int /\ LowLimit = y*DrbgBase
  BY <1>1 DEF LowLimit
<1> HIDE DEF x, y
<1>4. x*DrbgBase + c \in 0 .. LowLimit-1
  <2>1. x*DrbgBase <= (y-1)*DrbgBase /\ x*DrbgBase >= 0*DrbgBase /\ x*DrbgBase \in Int
    BY <1>1, <1>2, <1>3, TimesMonotonic
  <2>2. (y-1)*DrbgBase = LowLimit - DrbgBase /\ 0*DrbgBase = 0 /\ LowLimit \in Int
    BY <1>1, <1>3
  <2> DEFINE z == x*DrbgBase
  <2>3. z <= LowLimit - DrbgBase /\ z >= 0 /\ z \in Int
    BY <2>1, <2>2
  <2> HIDE DEF z
  <2>4. z + c \in 0 .. LowLimit-1
    BY <1>1, <2>2, <2>3
  <2>5. QED
    BY <2>4 DEF z
<1>5. QED
  BY <1>4 DEF x

\* Counting up carries over the three digits as it does over all.
LEMMA LowNext ==
    ASSUME NEW v \in Drbg!Counters
    PROVE  /\ Drbg!Increment(v) \in Drbg!Counters
           /\ LowLimit \in Nat \ {0} /\ Low(v) \in 0 .. LowLimit-1
           /\ Low(Drbg!Increment(v)) = (Low(v) + 1) % LowLimit
<1> DEFINE top == DrbgBase - 1
           H(i0) == \A k \in i0 .. VLen : v[k] = top
           f == [i0 \in 1 .. VLen |-> IF H(i0) THEN 0 ELSE IF i0 = VLen \/ H(i0+1) THEN v[i0] + 1 ELSE v[i0]]
           a == v[VLen-2]
           b == v[VLen-1]
           c == v[VLen]
<1>1. DrbgBase \in Nat \ {0, 1} /\ VLen \in Nat /\ VLen >= 3
  BY DrbgAssumption
<1>2. Drbg!Increment(v) = f
  BY DEF Drbg!Increment
<1>3. \A k \in 1 .. VLen : v[k] \in 0 .. top
  BY <1>1 DEF Drbg!Counters
<1>4. ASSUME NEW k \in 1 .. VLen PROVE f[k] \in 0 .. top
  <2>1. CASE H(k)
    BY <1>1, <2>1
  <2>2. CASE ~H(k) /\ (k = VLen \/ H(k+1))
    <3>1. v[k] # top
      <4>1. ASSUME v[k] = top PROVE H(k)
        <5>1. ASSUME NEW l \in k .. VLen PROVE v[l] = top
          <6>1. l = k \/ l \in k+1 .. VLen
            BY <1>1
          <6>2. QED
            BY <2>2, <4>1, <6>1
        <5>2. QED
          BY <5>1
      <4>2. QED
        BY <2>2, <4>1
    <3>2. f[k] = v[k] + 1
      BY <2>2
    <3>3. QED
      BY <1>1, <1>3, <3>1, <3>2
  <2>3. CASE ~H(k) /\ ~(k = VLen \/ H(k+1))
    BY <1>3, <2>3
  <2>4. QED
    BY <2>1, <2>2, <2>3
<1>5. f \in Drbg!Counters
  BY <1>4 DEF Drbg!Counters
<1>6. a \in 0 .. top /\ b \in 0 .. top /\ c \in 0 .. top
  BY <1>1, <1>3
<1>7. /\ H(VLen) <=> c = top
      /\ H(VLen-1) <=> b = top /\ c = top
      /\ H(VLen-2) <=> a = top /\ b = top /\ c = top
  <2>1. H(VLen) <=> c = top
    BY <1>1
  <2>2. VLen-1 .. VLen = {VLen-1, VLen} /\ VLen-2 .. VLen = {VLen-2, VLen-1, VLen}
    BY <1>1
  <2>3. QED
    BY <2>1, <2>2
<1>8. /\ f[VLen]   = IF c = top THEN 0 ELSE c + 1
      /\ f[VLen-1] = IF b = top /\ c = top THEN 0 ELSE IF c = top THEN b + 1 ELSE b
      /\ f[VLen-2] = IF a = top /\ b = top /\ c = top THEN 0 ELSE IF b = top /\ c = top THEN a + 1 ELSE a
  <2>1. VLen \in 1 .. VLen /\ VLen-1 \in 1 .. VLen /\ VLen-2 \in 1 .. VLen
        /\ VLen-1 # VLen /\ VLen-2 # VLen /\ VLen-1+1 = VLen /\ VLen-2+1 = VLen-1
    BY <1>1
  <2>2. /\ f[VLen]   = IF H(VLen) THEN 0 ELSE v[VLen] + 1
        /\ f[VLen-1] = IF H(VLen-1) THEN 0 ELSE IF H(VLen-1+1) THEN v[VLen-1] + 1 ELSE v[VLen-1]
        /\ f[VLen-2] = IF H(VLen-2) THEN 0 ELSE IF H(VLen-2+1) THEN v[VLen-2] + 1 ELSE v[VLen-2]
    BY <2>1, Zenon
  <2>3. /\ f[VLen-1] = IF H(VLen-1) THEN 0 ELSE IF H(VLen) THEN b + 1 ELSE b
        /\ f[VLen-2] = IF H(VLen-2) THEN 0 ELSE IF H(VLen-1) THEN a + 1 ELSE a
    BY <2>1, <2>2, Zenon
  <2> HIDE DEF f, H
  <2>4. QED
    BY <1>7, <2>2, <2>3
<1>9. Low(v) = (a*DrbgBase + b)*DrbgBase + c /\ Low(f) = (f[VLen-2]*DrbgBase + f[VLen-1])*DrbgBase + f[VLen]
  BY DEF Low
<1>10. Low(v) \in 0 .. LowLimit-1 /\ Low(f) \in 0 .. LowLimit-1
  <2>1. VLen \in 1 .. VLen /\ VLen-1 \in 1 .. VLen /\ VLen-2 \in 1 .. VLen
    BY <1>1
  <2>2. f[VLen-2] \in 0 .. top /\ f[VLen-1] \in 0 .. top /\ f[VLen] \in 0 .. top
    BY <1>4, <2>1
  <2> HIDE DEF f
  <2>3. QED
    BY <1>6, <1>9, <2>2, LowDigits
<1>11. LowLimit \in Nat \ {0}
  <2>1. LowLimit \in Int
    BY <1>1 DEF LowLimit
  <2>2. QED
    BY <1>10, <2>1
<1> HIDE DEF f, H, a, b, c
<1>12. Low(f) = (Low(v) + 1) % LowLimit
  <2>1. ASSUME Low(f) = Low(v) + 1 PROVE Low(f) = (Low(v) + 1) % LowLimit
    BY <1>10, <1>11, <2>1
  <2>2. CASE c # top
    <3>1. Low(f) = (a*DrbgBase + b)*DrbgBase + (c + 1)
      BY <1>8, <1>9, <2>2
    <3> DEFINE z == (a*DrbgBase + b)*DrbgBase
    <3>2. z \in Int
      BY <1>1, <1>6
    <3> HIDE DEF z
    <3>3. Low(f) = z + (c + 1) /\ Low(v) = z + c
      BY <1>9, <3>1 DEF z
    <3>4. QED
      BY <1>6, <2>1, <3>2, <3>3
  <2>3. CASE c = top /\ b # top
    <3>1. Low(f) = (a*DrbgBase + (b + 1))*DrbgBase + 0 /\ Low(v) = (a*DrbgBase + b)*DrbgBase + (DrbgBase - 1)
      BY <1>8, <1>9, <2>3
    <3>2. (a*DrbgBase + (b + 1))*DrbgBase + 0 = (a*DrbgBase + b)*DrbgBase + (DrbgBase - 1) + 1
      BY <1>1, <1>6
    <3>3. QED
      BY <2>1, <3>1, <3>2
  <2>4. CASE c = top /\ b = top /\ a # top
    <3>1. Low(f) = ((a + 1)*DrbgBase + 0)*DrbgBase + 0 /\ Low(v) = (a*DrbgBase + (DrbgBase - 1))*DrbgBase + (DrbgBase - 1)
      BY <1>8, <1>9, <2>4
    <3>2. ((a + 1)*DrbgBase + 0)*DrbgBase + 0 = (a*DrbgBase + (DrbgBase - 1))*DrbgBase + (DrbgBase - 1) + 1
      BY <1>1, <1>6
    <3>3. QED
      BY <2>1, <3>1, <3>2
  <2>5. CASE c = top /\ b = top /\ a = top
    <3>1. Low(f) = (0*DrbgBase + 0)*DrbgBase + 0
          /\ Low(v) = ((DrbgBase - 1)*DrbgBase + (DrbgBase - 1))*DrbgBase + (DrbgBase - 1)
      BY <1>8, <1>9, <2>5
    <3>2. (0*DrbgBase + 0)*DrbgBase + 0 = 0
          /\ ((DrbgBase - 1)*DrbgBase + (DrbgBase - 1))*DrbgBase + (DrbgBase - 1) + 1 = LowLimit
      BY <1>1 DEF LowLimit
    <3>3. Low(f) = 0 /\ Low(v) + 1 = LowLimit
      BY <3>1, <3>2
    <3>4. LowLimit % LowLimit = 0
      BY <1>11
    <3>5. QED
      BY <3>3, <3>4
  <2>6. QED
    BY <2>2, <2>3, <2>4, <2>5
<1>13. QED
  BY <1>2, <1>5, <1>10, <1>11, <1>12

\* The places x + k modulo l, k = 0, 1, ..., come one after the other and are different.
LEMMA NextPlace ==
    ASSUME NEW l \in Nat \ {0}, NEW x \in Nat
    PROVE  ((x % l) + 1) % l = (x + 1) % l /\ x % l \in 0 .. l-1
<1>1. x \div l \in Int /\ x % l \in 0 .. l-1 /\ x = (x \div l)*l + (x % l)
  BY DivisionWithRest
<1> DEFINE q0 == x \div l
           r0 == x % l
<1> HIDE DEF q0, r0
<1>2. q0 \in Int /\ r0 \in 0 .. l-1 /\ x = q0*l + r0
  BY <1>1 DEF q0, r0
<1>3. CASE r0 + 1 < l
  <2>1. x + 1 = q0*l + (r0 + 1) /\ r0 + 1 \in 0 .. l-1
    BY <1>2, <1>3
  <2>2. (x + 1) % l = r0 + 1
    BY <1>2, <2>1, DivisionOf
  <2>3. (r0 + 1) % l = r0 + 1
    BY <1>2, <1>3
  <2>4. QED
    BY <1>2, <2>2, <2>3 DEF r0
<1>4. CASE r0 + 1 = l
  <2>1. x + 1 = (q0 + 1)*l + 0 /\ 0 \in 0 .. l-1 /\ q0 + 1 \in Int
    BY <1>2, <1>4
  <2>2. (x + 1) % l = 0
    BY <2>1, DivisionOf
  <2>3. (r0 + 1) % l = 0
    BY <1>2, <1>4
  <2>4. QED
    BY <1>2, <2>2, <2>3 DEF r0
<1>5. QED
  BY <1>2, <1>3, <1>4

LEMMA PlacesDiffer ==
    ASSUME NEW l \in Nat \ {0}, NEW x \in Nat, NEW j0 \in Nat, NEW k \in Nat, j0 < k, k - j0 < l
    PROVE  (x + j0) % l # (x + k) % l
<1> SUFFICES ASSUME (x + j0) % l = (x + k) % l PROVE FALSE
  OBVIOUS
<1> DEFINE y == x + j0
           z == x + k
           p == y \div l
           q0 == z \div l
           r0 == y % l
<1>1. y \in Int /\ z \in Int /\ z - y = k - j0
  OBVIOUS
<1>2. z % l = r0
  OBVIOUS
<1> HIDE DEF y, z
<1>3. p \in Int /\ r0 \in 0 .. l-1 /\ y = p*l + r0
  BY <1>1, DivisionWithRest
<1>4. q0 \in Int /\ z = q0*l + (z % l)
  BY <1>1, DivisionWithRest
<1>5. z = q0*l + r0
  BY <1>2, <1>4
<1> HIDE DEF p, q0, r0
<1>6. (q0 - p)*l = k - j0
  <2>1. (q0 - p)*l = q0*l - p*l /\ q0*l \in Int /\ p*l \in Int
    BY <1>3, <1>4
  <2>2. QED
    BY <1>1, <1>3, <1>5, <2>1
<1>7. 0*l < (q0 - p)*l /\ (q0 - p)*l < 1*l
  BY <1>6
<1>8. 0 < q0 - p /\ q0 - p < 1
  BY <1>3, <1>4, <1>7, LessByTimes
<1>9. QED
  BY <1>3, <1>4, <1>8

DrbgBlocks == [key : Nat, v : Drbg!Counters]

DrbgTypes ==
    /\ Key \in Nat /\ V \in Drbg!Counters /\ reseed_counter \in Nat
    /\ drbgXlen \in Nat /\ requested \in {-1} \union (0 .. MaxRequest)
    /\ drbgOut \in Seq(DrbgBlocks \X (1 .. DrbgBlockLen))
    /\ served \subseteq DrbgBlocks /\ kept \subseteq DrbgBlocks

\* The blocks of older keys are of one sort or the other for good; the key in use has made
\* none for an update yet.
DrbgApart ==
    /\ \A b \in served : b.key <= Key
    /\ \A b \in kept : b.key < Key
    /\ served \intersect kept = {}
    /\ reseed_counter = 0 => Key = 0 /\ served = {} /\ kept = {} /\ requested = -1

\* The call under way began at the place v0 and has made c blocks, turns[k] the k-th.
DrbgCounted(v0, c, turns) ==
    /\ Low(V) = (v0 + c) % LowLimit
    /\ \A k \in 1 .. c : Low(turns[k]) = (v0 + k) % LowLimit
    /\ \A b \in served : b.key = Key => \E k \in 1 .. c : b.v = turns[k]
    /\ requested = -1 => c = 0 /\ drbgXlen = 0
    /\ requested >= 0 =>
         /\ Len(drbgOut) + drbgXlen = requested
         /\ Len(drbgOut) <= c*DrbgBlockLen
         /\ c > 0 => Len(drbgOut) > (c-1)*DrbgBlockLen
         /\ drbgXlen > 0 => Len(drbgOut) = c*DrbgBlockLen
         /\ \A k \in 1 .. Len(drbgOut) :
               drbgOut[k] = <<Drbg!Block(Key, turns[((k-1) \div DrbgBlockLen) + 1]), ((k-1) % DrbgBlockLen) + 1>>

DrbgRest    == V \in Drbg!Counters /\ requested = -1 /\ drbgXlen = 0 /\ \A b \in served : b.key # Key
DrbgCounts  == \E v0 \in Nat, c \in Nat : \E turns \in [1 .. c -> Drbg!Counters] : DrbgCounted(v0, c, turns)

DrbgInv ==
    component = "drbg" =>
        /\ DrbgTypes /\ DrbgApart
        /\ DrbgCounts

LEMMA BetweenCalls == DrbgRest => DrbgCounts
<1> SUFFICES ASSUME DrbgRest PROVE DrbgCounts
  OBVIOUS
<1> USE DEF DrbgRest
<1>1. LowLimit \in Nat \ {0} /\ Low(V) \in 0 .. LowLimit-1
  BY LowNext
<1>2. Low(V) \in Nat /\ Low(V) = (Low(V) + 0) % LowLimit
  <2> DEFINE x == Low(V)
  <2> HIDE DEF x
  <2>1. x \in 0 .. LowLimit-1 => x \in Nat /\ x = (x + 0) % LowLimit
    BY <1>1
  <2>2. QED
    BY <1>1, <2>1 DEF x
<1> DEFINE t == [k \in 1 .. 0 |-> V]
<1>3. t \in [1 .. 0 -> Drbg!Counters]
  OBVIOUS
<1> HIDE DEF t
<1>4. \A k \in 1 .. 0 : FALSE
  OBVIOUS
<1>5. ~(requested >= 0)
  OBVIOUS
<1>6. DrbgCounted(Low(V), 0, t)
  BY <1>2, <1>4, <1>5 DEF DrbgCounted
<1>7. QED
  BY <1>2, <1>3, <1>6 DEF DrbgCounts

\* The blocks of a call and those of the update after it fit in what the three digits count.
LEMMA FewBlocks ==
    ASSUME DrbgTypes, NEW v0 \in Nat, NEW c \in Nat, NEW turns, DrbgCounted(v0, c, turns)
    PROVE  c + 3 < LowLimit
<1>1. /\ DrbgBlockLen \in Nat \ {0} /\ MaxRequest \in Nat
      /\ (MaxRequest \div DrbgBlockLen) + 4 < LowLimit
      /\ LowLimit \in Nat \ {0}
  BY DrbgAssumption, LowNext DEF DrbgTypes, LowLimit
<1> DEFINE q0 == MaxRequest \div DrbgBlockLen
<1>2. q0 \in Int /\ MaxRequest % DrbgBlockLen \in 0 .. DrbgBlockLen-1
      /\ MaxRequest = q0*DrbgBlockLen + (MaxRequest % DrbgBlockLen)
  BY <1>1, DivisionWithRest
<1>3. q0 >= 0
  BY <1>1
<1> HIDE DEF q0
<1>4. CASE c = 0
  BY <1>1, <1>2, <1>3, <1>4 DEF q0
<1>5. CASE c > 0
  <2>1. requested \in 0 .. MaxRequest /\ Len(drbgOut) > (c-1)*DrbgBlockLen /\ Len(drbgOut) + drbgXlen = requested
        /\ drbgXlen \in Nat /\ Len(drbgOut) \in Nat
    BY <1>5 DEF DrbgCounted, DrbgTypes
  <2> DEFINE w == (c-1)*DrbgBlockLen
             z == q0*DrbgBlockLen
  <2>2. w \in Int /\ z \in Int /\ (q0+1)*DrbgBlockLen = z + DrbgBlockLen
    BY <1>1, <1>2
  <2> HIDE DEF w, z
  <2>3. w < z + DrbgBlockLen
    BY SMTT(30), <1>1, <1>2, <2>1, <2>2 DEF w, z
  <2>4. (c-1)*DrbgBlockLen < (q0+1)*DrbgBlockLen
    BY <2>2, <2>3 DEF w
  <2>5. c - 1 < q0 + 1
    BY <1>1, <1>2, <2>4, LessByTimes
  <2>6. QED
    BY <1>1, <1>2, <2>5 DEF q0
<1>6. QED
  BY <1>4, <1>5

LEMMA DrbgInit ==
    ASSUME component = "drbg", Drbg!Init
    PROVE  DrbgInv
<1>1. /\ Key = 0 /\ reseed_counter = 0 /\ drbgXlen = 0 /\ drbgOut = <<>> /\ requested = -1
      /\ served = {} /\ kept = {} /\ V = Drbg!ZeroV
  BY DEF Drbg!Init
<1>2. V \in Drbg!Counters
  BY <1>1, DrbgAssumption DEF Drbg!ZeroV, Drbg!Counters
<1>3. DrbgTypes /\ DrbgApart
  BY <1>1, <1>2 DEF DrbgTypes, DrbgApart
<1>4. QED
  BY <1>1, <1>2, <1>3, BetweenCalls DEF DrbgInv, DrbgRest

\* The three blocks of an update are the places after V, and of its key.
LEMMA UpdateBlocks ==
    ASSUME NEW v \in Drbg!Counters, NEW key \in Nat, NEW x \in Nat, Low(v) = x % LowLimit
    PROVE  /\ Drbg!Update(key, v) \subseteq DrbgBlocks
           /\ \A b \in Drbg!Update(key, v) :
                 b.key = key /\ \E k \in 1 .. 3 : Low(b.v) = (x + k) % LowLimit
<1> DEFINE one == Drbg!Increment(v)
           two == Drbg!Increment(one)
           three == Drbg!Increment(two)
<1>1. one \in Drbg!Counters /\ Low(one) = (x + 1) % LowLimit
  BY LowNext, NextPlace
<1> HIDE DEF one
<1>2. two \in Drbg!Counters /\ Low(two) = (x + 2) % LowLimit
  <2>1. x + 1 \in Nat /\ LowLimit \in Nat \ {0} /\ (x + 1) + 1 = x + 2
    BY LowNext
  <2>2. two \in Drbg!Counters /\ Low(two) = (Low(one) + 1) % LowLimit
    BY <1>1, LowNext
  <2>3. (((x + 1) % LowLimit) + 1) % LowLimit = ((x + 1) + 1) % LowLimit
    BY <2>1, NextPlace
  <2>4. QED
    BY <1>1, <2>1, <2>2, <2>3, Zenon
<1> HIDE DEF two
<1>3. three \in Drbg!Counters /\ Low(three) = (x + 3) % LowLimit
  <2>1. x + 2 \in Nat /\ LowLimit \in Nat \ {0} /\ (x + 2) + 1 = x + 3
    BY LowNext
  <2>2. three \in Drbg!Counters /\ Low(three) = (Low(two) + 1) % LowLimit
    BY <1>2, LowNext
  <2>3. (((x + 2) % LowLimit) + 1) % LowLimit = ((x + 2) + 1) % LowLimit
    BY <2>1, NextPlace
  <2>4. QED
    BY <1>2, <2>1, <2>2, <2>3, Zenon
<1> HIDE DEF three
<1>4. Drbg!Update(key, v) = {Drbg!Block(key, one), Drbg!Block(key, two), Drbg!Block(key, three)}
  BY Zenon DEF Drbg!Update, one, two, three
<1>5. ASSUME NEW w \in Drbg!Counters
      PROVE  Drbg!Block(key, w) \in DrbgBlocks /\ Drbg!Block(key, w).key = key /\ Drbg!Block(key, w).v = w
  BY DEF Drbg!Block, DrbgBlocks
<1>6. 1 \in 1 .. 3 /\ 2 \in 1 .. 3 /\ 3 \in 1 .. 3
  OBVIOUS
<1>7. Drbg!Update(key, v) \subseteq DrbgBlocks
  BY <1>1, <1>2, <1>3, <1>4, <1>5, Zenon
<1>8. ASSUME NEW b \in Drbg!Update(key, v)
      PROVE  b.key = key /\ \E k \in 1 .. 3 : Low(b.v) = (x + k) % LowLimit
  <2>1. CASE b = Drbg!Block(key, one)
    BY <1>1, <1>5, <1>6, <2>1, Zenon
  <2>2. CASE b = Drbg!Block(key, two)
    BY <1>2, <1>5, <1>6, <2>2, Zenon
  <2>3. CASE b = Drbg!Block(key, three)
    BY <1>3, <1>5, <1>6, <2>3, Zenon
  <2>4. QED
    BY <1>4, <1>8, <2>1, <2>2, <2>3, Zenon
<1>9. QED
  BY <1>7, <1>8

\* An update ends a key: its blocks are not among those served with it.
LEMMA DrbgUpdateStep ==
    ASSUME DrbgTypes, DrbgApart, NEW v0 \in Nat, NEW c \in Nat, NEW turns, DrbgCounted(v0, c, turns),
           Drbg!AES256_CTR_DRBG_Update(Key, V, kept), served' = served
    PROVE  /\ Key' \in Nat /\ V' \in Drbg!Counters /\ kept' \subseteq DrbgBlocks
           /\ \A b \in served' : b.key <= Key' /\ b.key # Key'
           /\ \A b \in kept' : b.key < Key'
           /\ served' \intersect kept' = {}
<1> DEFINE up == Drbg!Update(Key, V)
<1>1. Key' = Key + 1 /\ V' \in Drbg!Counters /\ kept' = kept \union up
  BY DEF Drbg!AES256_CTR_DRBG_Update
<1>2. Key \in Nat /\ V \in Drbg!Counters /\ served \subseteq DrbgBlocks /\ kept \subseteq DrbgBlocks
  BY DEF DrbgTypes
<1>3. v0 + c \in Nat /\ Low(V) = (v0 + c) % LowLimit
  BY DEF DrbgCounted
<1>4. up \subseteq DrbgBlocks
  BY <1>2, <1>3, UpdateBlocks
<1>5. \A b \in up : b.key = Key /\ \E k \in 1 .. 3 : Low(b.v) = ((v0 + c) + k) % LowLimit
  BY <1>2, <1>3, UpdateBlocks
<1> HIDE DEF up
<1>6. \A b \in DrbgBlocks : b.key \in Nat
  BY DEF DrbgBlocks
<1>7. ASSUME NEW b \in served, b \in up PROVE FALSE
  <2>1. b.key = Key
    BY <1>5, <1>7
  <2>2. PICK k \in 1 .. c : b.v = turns[k]
    BY <2>1 DEF DrbgCounted
  <2>3. PICK j0 \in 1 .. 3 : Low(b.v) = ((v0 + c) + j0) % LowLimit
    BY <1>5, <1>7
  <2>4. Low(b.v) = (v0 + k) % LowLimit
    BY <2>2 DEF DrbgCounted
  <2>5. (v0 + c) + j0 = v0 + (c + j0)
    OBVIOUS
  <2>6. c + 3 < LowLimit /\ LowLimit \in Nat \ {0}
    BY <1>2, FewBlocks, LowNext
  <2>7. k \in Nat /\ c + j0 \in Nat /\ k < c + j0 /\ (c + j0) - k < LowLimit
    BY <2>6
  <2>8. (v0 + k) % LowLimit # (v0 + (c + j0)) % LowLimit
    BY <2>6, <2>7, PlacesDiffer
  <2>9. QED
    BY <2>3, <2>4, <2>5, <2>8, Zenon
<1>8. served' \intersect kept' = {}
  BY <1>1, <1>7 DEF DrbgApart
<1>9. ASSUME NEW b \in kept' PROVE b.key < Key'
  <2>1. CASE b \in kept
    BY <1>1, <1>2, <1>6, <2>1 DEF DrbgApart
  <2>2. CASE b \in up
    BY <1>1, <1>2, <1>5, <2>2
  <2>3. QED
    BY <1>1, <1>9, <2>1, <2>2
<1>10. ASSUME NEW b \in served' PROVE b.key <= Key' /\ b.key # Key'
  BY <1>1, <1>2, <1>6 DEF DrbgApart
<1>11. QED
  BY <1>1, <1>2, <1>4, <1>8, <1>9, <1>10

LEMMA DrbgInitStep ==
    ASSUME DrbgTypes, DrbgApart, component = "drbg", component' = component,
           NEW v0 \in Nat, NEW c \in Nat, NEW turns, DrbgCounted(v0, c, turns),
           Drbg!randombytes_init
    PROVE  DrbgInv'
<1>1. /\ reseed_counter = 0 /\ reseed_counter' = 1
      /\ Drbg!AES256_CTR_DRBG_Update(0, Drbg!ZeroV, kept)
      /\ UNCHANGED <<drbgXlen, drbgOut, requested, served>>
  BY DEF Drbg!randombytes_init
<1>2. Key = 0 /\ served = {} /\ kept = {} /\ requested = -1
  BY <1>1 DEF DrbgApart
<1>3. drbgXlen = 0
  BY <1>2 DEF DrbgCounted
<1>4. Drbg!ZeroV \in Drbg!Counters
  BY DrbgAssumption DEF Drbg!ZeroV, Drbg!Counters
<1> DEFINE up == Drbg!Update(0, Drbg!ZeroV)
<1>5. Key' = 1 /\ V' \in Drbg!Counters /\ kept' = up
  BY <1>1, <1>2 DEF Drbg!AES256_CTR_DRBG_Update
<1>6. up \subseteq DrbgBlocks /\ \A b \in up : b.key = 0
  <2> DEFINE x == Low(Drbg!ZeroV)
  <2>1. x \in 0 .. LowLimit-1 /\ LowLimit \in Nat \ {0}
    BY <1>4, LowNext
  <2> HIDE DEF x
  <2>2. x \in Nat /\ x = x % LowLimit
    BY <2>1
  <2>3. QED
    BY <1>4, <2>2, UpdateBlocks DEF x
<1> HIDE DEF up
<1>7. DrbgTypes' /\ DrbgApart'
  <2>1. DrbgTypes'
    BY <1>1, <1>5, <1>6 DEF DrbgTypes
  <2>2. DrbgApart'
    BY <1>1, <1>2, <1>5, <1>6 DEF DrbgApart
  <2>3. QED
    BY <2>1, <2>2
<1>8. V' \in Drbg!Counters /\ requested' = -1 /\ drbgXlen' = 0 /\ served' = {}
  BY <1>1, <1>2, <1>3, <1>5
<1>9. DrbgRest' => DrbgCounts'
  BY BetweenCalls, PTL
<1>10. QED
  BY <1>7, <1>8, <1>9 DEF DrbgInv, DrbgRest

LEMMA DrbgReturnStep ==
    ASSUME DrbgTypes, DrbgApart, component = "drbg", component' = component,
           NEW v0 \in Nat, NEW c \in Nat, NEW turns, DrbgCounted(v0, c, turns),
           Drbg!Return
    PROVE  DrbgInv'
<1>1. /\ requested >= 0 /\ drbgXlen = 0 /\ requested' = -1 /\ reseed_counter' = reseed_counter + 1
      /\ Drbg!AES256_CTR_DRBG_Update(Key, V, kept)
      /\ UNCHANGED <<drbgXlen, drbgOut, served>>
  BY DEF Drbg!Return
<1>2. /\ Key' \in Nat /\ V' \in Drbg!Counters /\ kept' \subseteq DrbgBlocks
      /\ \A b \in served' : b.key <= Key' /\ b.key # Key'
      /\ \A b \in kept' : b.key < Key'
      /\ served' \intersect kept' = {}
  BY <1>1, DrbgUpdateStep
<1>3. DrbgTypes'
  BY <1>1, <1>2 DEF DrbgTypes
<1>4. DrbgApart'
  <2>1. reseed_counter' # 0
    BY <1>1 DEF DrbgTypes
  <2>2. QED
    BY <1>2, <2>1 DEF DrbgApart
<1>5. DrbgRest'
  BY <1>1, <1>2 DEF DrbgRest
<1>6. DrbgRest' => DrbgCounts'
  BY BetweenCalls, PTL
<1>7. QED
  BY <1>3, <1>4, <1>5, <1>6 DEF DrbgInv

LEMMA DrbgRequestStep ==
    ASSUME DrbgTypes, DrbgApart, component = "drbg", component' = component,
           NEW v0 \in Nat, NEW c \in Nat, NEW turns \in [1 .. c -> Drbg!Counters], DrbgCounted(v0, c, turns),
           NEW l \in 0 .. MaxRequest, Drbg!randombytes(l)
    PROVE  DrbgInv'
<1>1. /\ requested = -1 /\ requested' = l /\ drbgXlen' = l /\ drbgOut' = <<>>
      /\ UNCHANGED <<Key, V, reseed_counter, served, kept>>
      /\ reseed_counter \in 1 .. MaxDrbgCalls
  BY DEF Drbg!randombytes
<1>2. DrbgTypes'
  BY <1>1, DrbgAssumption DEF DrbgTypes
<1>3. DrbgApart'
  <2>1. reseed_counter' # 0
    BY <1>1
  <2>2. QED
    BY <1>1, <2>1 DEF DrbgApart
<1>4. c = 0
  BY <1>1 DEF DrbgCounted
<1>5. DrbgBlockLen \in Nat
  BY DrbgAssumption
<1>6. /\ requested' # -1 /\ Len(drbgOut') = 0 /\ 0 + drbgXlen' = requested'
      /\ c*DrbgBlockLen = 0 /\ ~(c > 0)
      /\ \A k \in 1 .. 0 : FALSE
  BY <1>1, <1>4, <1>5
<1>7. DrbgCounted(v0, c, turns)'
  BY <1>1, <1>6 DEF DrbgCounted
<1>8. QED
  BY <1>2, <1>3, <1>7 DEF DrbgInv, DrbgCounts

\* One turn of the loop: the next counter value, and as many bytes of its block as are left.
LEMMA NextBlockStep ==
    ASSUME DrbgTypes, DrbgApart, component = "drbg", component' = component,
           NEW v0 \in Nat, NEW c \in Nat, NEW turns \in [1 .. c -> Drbg!Counters], DrbgCounted(v0, c, turns),
           Drbg!NextBlock
    PROVE  DrbgInv'
<1> DEFINE v == Drbg!Increment(V)
           blk == Drbg!Block(Key, v)
           l == IF drbgXlen > DrbgBlockLen - 1 THEN DrbgBlockLen ELSE drbgXlen
           piece == [k \in 1 .. l |-> <<blk, k>>]
           w == c*DrbgBlockLen
<1>1. /\ drbgXlen > 0 /\ V' = v /\ drbgOut' = drbgOut \o piece /\ served' = served \union {blk}
      /\ drbgXlen' = drbgXlen - l
      /\ UNCHANGED <<Key, reseed_counter, requested, kept>>
  BY DEF Drbg!NextBlock
<1>2. /\ DrbgBlockLen \in Nat \ {0} /\ LowLimit \in Nat \ {0}
      /\ Key \in Nat /\ V \in Drbg!Counters /\ drbgXlen \in Nat
      /\ drbgOut \in Seq(DrbgBlocks \X (1 .. DrbgBlockLen))
  BY DrbgAssumption, LowNext DEF DrbgTypes
<1>0. DrbgBlockLen \in Nat \ {0}
  BY <1>2
<1>3. /\ requested \in 0 .. MaxRequest /\ requested # -1
      /\ Len(drbgOut) + drbgXlen = requested /\ Len(drbgOut) = w
  <2>1. requested # -1
    BY <1>1 DEF DrbgCounted
  <2>2. requested \in 0 .. MaxRequest /\ MaxRequest \in Nat
    BY <2>1, DrbgAssumption DEF DrbgTypes
  <2>3. QED
    BY <1>1, <2>1, <2>2 DEF DrbgCounted
<1>4. l \in 1 .. DrbgBlockLen /\ l <= drbgXlen /\ (drbgXlen - l > 0 => l = DrbgBlockLen)
  BY <1>1, <1>2
<1>5. v \in Drbg!Counters /\ Low(v) = (v0 + (c+1)) % LowLimit
  <2>1. v \in Drbg!Counters /\ Low(v) = (Low(V) + 1) % LowLimit
    BY <1>2, LowNext
  <2>2. Low(V) = (v0 + c) % LowLimit
    BY DEF DrbgCounted
  <2>3. (((v0 + c) % LowLimit) + 1) % LowLimit = ((v0 + c) + 1) % LowLimit
    <3> DEFINE y == v0 + c
    <3>1. y \in Nat
      OBVIOUS
    <3> HIDE DEF y
    <3>2. ((y % LowLimit) + 1) % LowLimit = (y + 1) % LowLimit
      BY <1>2, <3>1, NextPlace
    <3>3. QED
      BY <3>2 DEF y
  <2>4. (v0 + c) + 1 = v0 + (c+1)
    OBVIOUS
  <2>5. QED
    BY <2>1, <2>2, <2>3, <2>4, Zenon
<1> HIDE DEF v
<1>6. blk \in DrbgBlocks /\ blk.key = Key /\ blk.v = v
  BY <1>2, <1>5 DEF DrbgBlocks, Drbg!Block
<1> HIDE DEF blk, l
<1>7. /\ piece \in Seq(DrbgBlocks \X (1 .. DrbgBlockLen)) /\ Len(piece) = l
      /\ \A k \in 1 .. l : piece[k] = <<blk, k>>
  BY <1>2, <1>4, <1>6
<1> HIDE DEF piece
<1>8. PICK t \in [1 .. c+1 -> Drbg!Counters] : t[c+1] = v /\ \A k \in 1 .. c : t[k] = turns[k]
  <2> DEFINE t0 == [k \in 1 .. c+1 |-> IF k <= c THEN turns[k] ELSE v]
  <2>1. t0 \in [1 .. c+1 -> Drbg!Counters] /\ t0[c+1] = v /\ \A k \in 1 .. c : t0[k] = turns[k]
    BY <1>5
  <2> HIDE DEF t0
  <2>2. QED
    BY <2>1
<1>9. w \in Nat /\ (c+1)*DrbgBlockLen = w + DrbgBlockLen /\ ((c+1)-1)*DrbgBlockLen = w
  <2>1. w \in Int /\ w >= 0
    BY <1>2, TimesMonotonic, 0*DrbgBlockLen = 0, 0 <= c
  <2>2. (c+1)*DrbgBlockLen = w + DrbgBlockLen
    BY <1>2
  <2>3. (c+1)-1 = c
    OBVIOUS
  <2>4. QED
    BY <2>1, <2>2, <2>3
<1> HIDE DEF w
<1>10. /\ drbgOut' \in Seq(DrbgBlocks \X (1 .. DrbgBlockLen)) /\ Len(drbgOut') = w + l
       /\ \A k \in 1 .. w : drbgOut'[k] = drbgOut[k]
       /\ \A k \in w+1 .. w + l : drbgOut'[k] = <<blk, k - w>>
  <2>1. /\ drbgOut' \in Seq(DrbgBlocks \X (1 .. DrbgBlockLen)) /\ Len(drbgOut') = w + l
        /\ \A k \in 1 .. w : drbgOut'[k] = drbgOut[k]
        /\ \A k \in w+1 .. w + l : drbgOut'[k] = piece[k - w]
    <3> DEFINE S == DrbgBlocks \X (1 .. DrbgBlockLen)
    <3>1. drbgOut \in Seq(S) /\ piece \in Seq(S) /\ Len(drbgOut) = w /\ Len(piece) = l /\ drbgOut' = drbgOut \o piece
      BY <1>1, <1>2, <1>3, <1>7
    <3> HIDE DEF S
    <3>2. QED
      BY ZenonT(40), <3>1, Joined DEF S
  <2>2. \A k \in w+1 .. w + l : k - w \in 1 .. l
    BY <1>4, <1>9
  <2>3. QED
    BY <1>7, <2>1, <2>2
<1>11. DrbgTypes'
  <2>1. drbgXlen' \in Nat
    BY <1>1, <1>2, <1>4
  <2>2. QED
    BY <1>1, <1>5, <1>6, <1>10, <2>1 DEF DrbgTypes
<1>12. DrbgApart'
  <2>1. blk \notin kept
    BY <1>2, <1>6 DEF DrbgApart
  <2>2. reseed_counter # 0
    BY <1>3 DEF DrbgApart
  <2>3. \A b \in served' : b.key <= Key
    BY <1>1, <1>2, <1>6 DEF DrbgApart
  <2>4. QED
    BY <1>1, <2>1, <2>2, <2>3 DEF DrbgApart
<1>13. \A k \in 1 .. c+1 : Low(t[k]) = (v0 + k) % LowLimit
  <2>1. \A k \in 1 .. c+1 : k \in 1 .. c \/ k = c+1
    OBVIOUS
  <2>2. \A k \in 1 .. c : Low(turns[k]) = (v0 + k) % LowLimit
    BY DEF DrbgCounted
  <2>3. QED
    BY <1>5, <1>8, <2>1, <2>2
<1>14. \A b \in served' : b.key = Key => \E k \in 1 .. c+1 : b.v = t[k]
  <2>1. c+1 \in 1 .. c+1 /\ \A k \in 1 .. c : k \in 1 .. c+1
    OBVIOUS
  <2>2. \A b \in served : b.key = Key => \E k \in 1 .. c : b.v = turns[k]
    BY DEF DrbgCounted
  <2>3. QED
    BY <1>1, <1>6, <1>8, <2>1, <2>2
<1>15. ASSUME NEW k \in 1 .. w + l
       PROVE  drbgOut'[k] = <<Drbg!Block(Key, t[((k-1) \div DrbgBlockLen) + 1]), ((k-1) % DrbgBlockLen) + 1>>
  <2> DEFINE p == (k-1) \div DrbgBlockLen
  <2>1. CASE k \in 1 .. w
    <3>1. drbgOut[k] = <<Drbg!Block(Key, turns[p + 1]), ((k-1) % DrbgBlockLen) + 1>>
      <4>1. \A k0 \in 1 .. Len(drbgOut) :
               drbgOut[k0] = <<Drbg!Block(Key, turns[((k0-1) \div DrbgBlockLen) + 1]), ((k0-1) % DrbgBlockLen) + 1>>
        BY <1>3 DEF DrbgCounted
      <4>2. k \in 1 .. Len(drbgOut)
        BY <1>3, <2>1
      <4>3. QED
        BY <4>1, <4>2
    <3>2. p + 1 \in 1 .. c
      <4> DEFINE y == k - 1
      <4>1. y \in Nat /\ y < w
        BY <1>9, <2>1
      <4> HIDE DEF y
      <4>2. y \div DrbgBlockLen \in Int /\ y % DrbgBlockLen \in 0 .. DrbgBlockLen-1
            /\ y = (y \div DrbgBlockLen)*DrbgBlockLen + (y % DrbgBlockLen)
        BY <1>0, <4>1, y \in Int, DivisionWithRest
      <4>3. y \div DrbgBlockLen >= 0
        BY <1>0, <4>1
      <4>7. p = y \div DrbgBlockLen
        BY DEF y
      <4> HIDE DEF p
      <4>4. p*DrbgBlockLen < w
        <5> DEFINE z == p*DrbgBlockLen
        <5>1. z \in Int
          BY <1>2, <4>2, <4>7
        <5>4. y = z + (y % DrbgBlockLen)
          BY <4>2, <4>7
        <5> HIDE DEF z
        <5>2. z < w
          BY <1>2, <1>9, <4>1, <4>2, <5>1, <5>4
        <5>3. QED
          BY <5>2 DEF z
      <4>5. p < c
        BY <1>2, <4>2, <4>4, <4>7, LessByTimes DEF w
      <4>6. QED
        BY <4>2, <4>3, <4>5, <4>7
    <3> HIDE DEF p
    <3>3. drbgOut'[k] = <<Drbg!Block(Key, t[p + 1]), ((k-1) % DrbgBlockLen) + 1>>
      BY <1>8, <1>10, <2>1, <3>1, <3>2, Zenon
    <3>4. QED
      BY <3>3 DEF p
  <2>2. CASE k \in w+1 .. w + l
    <3> DEFINE r0 == k - w - 1
    <3>1. r0 \in 0 .. DrbgBlockLen-1
      BY <1>2, <1>4, <1>9, <2>2
    <3>2. k - 1 = w + r0 /\ r0 + 1 = k - w
      BY <1>9, <2>2
    <3> HIDE DEF r0
    <3>3. (w + r0) \div DrbgBlockLen = c /\ (w + r0) % DrbgBlockLen = r0
      <4>1. c \in Int
        OBVIOUS
      <4>2. (c*DrbgBlockLen + r0) \div DrbgBlockLen = c /\ (c*DrbgBlockLen + r0) % DrbgBlockLen = r0
        BY <1>0, <3>1, <4>1, DivisionOf
      <4>3. QED
        BY <4>2 DEF w
    <3>4. p = c /\ (k-1) % DrbgBlockLen = r0
      BY <3>2, <3>3
    <3> HIDE DEF p
    <3>5. drbgOut'[k] = <<blk, k - w>>
      BY <1>10, <2>2
    <3>6. blk = Drbg!Block(Key, t[p + 1])
      BY <1>8, <3>4 DEF blk
    <3>7. QED
      BY <3>2, <3>4, <3>5, <3>6 DEF p
  <2>3. QED
    BY <1>4, <1>9, <2>1, <2>2
<1>16. DrbgCounted(v0, c+1, t)'
  <2>1. /\ requested' # -1
        /\ Len(drbgOut') + drbgXlen' = requested'
        /\ Len(drbgOut') <= (c+1)*DrbgBlockLen
        /\ Len(drbgOut') > ((c+1)-1)*DrbgBlockLen
        /\ drbgXlen' > 0 => Len(drbgOut') = (c+1)*DrbgBlockLen
    BY <1>1, <1>2, <1>3, <1>4, <1>9, <1>10
  <2>2. \A k \in 1 .. Len(drbgOut') :
            drbgOut'[k] = <<Drbg!Block(Key', t[((k-1) \div DrbgBlockLen) + 1]), ((k-1) % DrbgBlockLen) + 1>>
    BY <1>1, <1>10, <1>15
  <2>3. Low(V') = (v0 + (c+1)) % LowLimit
    BY <1>1, <1>5
  <2>4. \A b \in served' : b.key = Key' => \E k \in 1 .. c+1 : b.v = t[k]
    BY <1>1, <1>14
  <2>5. QED
    BY <1>13, <2>1, <2>2, <2>3, <2>4, Zenon DEF DrbgCounted, Low
<1>17. QED
  BY <1>8, <1>11, <1>12, <1>16, c+1 \in Nat DEF DrbgInv, DrbgCounts

LEMMA DrbgInvariant == ExchangesSpec => []DrbgInv
<1>1. ExchangesInit => DrbgInv
  <2> SUFFICES ASSUME ExchangesInit, component = "drbg" PROVE DrbgInv
    BY DEF DrbgInv
  <2>1. Drbg!Init
    BY DEF ExchangesInit
  <2>2. QED
    BY <2>1, DrbgInit
<1>2. ASSUME DrbgInv, [ExchangesNext]_ExchangesVars PROVE DrbgInv'
  <2>1. CASE component = "drbg" /\ Drbg!Next
    <3>1. component = "drbg" /\ component' = component
      BY <1>2, <2>1 DEF ExchangesNext, ExchangesVars
    <3>2. DrbgTypes /\ DrbgApart /\ DrbgCounts
      BY <1>2, <2>1 DEF DrbgInv
    <3>3. PICK v0 \in Nat, c \in Nat : \E turns \in [1 .. c -> Drbg!Counters] : DrbgCounted(v0, c, turns)
      BY <3>2 DEF DrbgCounts
    <3>4. PICK turns \in [1 .. c -> Drbg!Counters] : DrbgCounted(v0, c, turns)
      BY <3>3
    <3>5. CASE Drbg!randombytes_init
      BY <3>1, <3>2, <3>4, <3>5, DrbgInitStep
    <3>6. CASE \E l \in 0 .. MaxRequest : Drbg!randombytes(l)
      <4>1. PICK l \in 0 .. MaxRequest : Drbg!randombytes(l)
        BY <3>6
      <4>2. QED
        BY <3>1, <3>2, <3>4, <4>1, DrbgRequestStep
    <3>7. CASE Drbg!NextBlock
      BY <3>1, <3>2, <3>4, <3>7, NextBlockStep
    <3>8. CASE Drbg!Return
      BY <3>1, <3>2, <3>4, <3>8, DrbgReturnStep
    <3>9. QED
      BY <2>1, <3>5, <3>6, <3>7, <3>8 DEF Drbg!Next
  <2>2. CASE ~(component = "drbg" /\ Drbg!Next)
    <3>1. component' = component /\ (component = "drbg" => UNCHANGED drbgVars)
      BY <1>2, <2>2 DEF ExchangesNext, ExchangesVars
    <3>2. QED
      <4>1. CASE component = "drbg"
        <5>1. UNCHANGED <<Key, V, reseed_counter, drbgXlen, drbgOut, requested, served, kept>>
          BY <3>1, <4>1 DEF drbgVars
        <5>2. DrbgTypes /\ DrbgApart /\ DrbgCounts
          BY <1>2, <4>1 DEF DrbgInv
        <5>3. PICK v0 \in Nat, c \in Nat : \E turns \in [1 .. c -> Drbg!Counters] : DrbgCounted(v0, c, turns)
          BY <5>2 DEF DrbgCounts
        <5>4. PICK turns \in [1 .. c -> Drbg!Counters] : DrbgCounted(v0, c, turns)
          BY <5>3
        <5>5. DrbgTypes' /\ DrbgApart'
          BY <5>1, <5>2 DEF DrbgTypes, DrbgApart
        <5>6. DrbgCounted(v0, c, turns)'
          BY <5>1, <5>4, Zenon DEF DrbgCounted, Low
        <5>7. QED
          BY <5>4, <5>5, <5>6 DEF DrbgInv, DrbgCounts
      <4>2. CASE component # "drbg"
        BY <3>1, <4>2 DEF DrbgInv
      <4>3. QED
        BY <4>1, <4>2
  <2>3. QED
    BY <2>1, <2>2
<1>3. QED
  BY <1>1, <1>2, PTL DEF ExchangesSpec

\* The bytes of a request, in the blocks its counter values name.
LEMMA DrbgFilled ==
    ASSUME DrbgTypes, NEW v0 \in Nat, NEW c \in Nat, NEW turns \in [1 .. c -> Drbg!Counters],
           DrbgCounted(v0, c, turns), requested >= 0
    PROVE  /\ Len(drbgOut) + drbgXlen = requested
           /\ \A k \in 1 .. Len(drbgOut) \div DrbgBlockLen :
                 SubSeq(drbgOut, (k-1) * DrbgBlockLen + 1, k * DrbgBlockLen) = Drbg!Whole(k)
           /\ \A a, b \in 1 .. Len(drbgOut) : drbgOut[a] = drbgOut[b] => a = b
<1>1. /\ Len(drbgOut) + drbgXlen = requested
      /\ Len(drbgOut) <= c*DrbgBlockLen
      /\ \A k \in 1 .. Len(drbgOut) :
            drbgOut[k] = <<Drbg!Block(Key, turns[((k-1) \div DrbgBlockLen) + 1]), ((k-1) % DrbgBlockLen) + 1>>
  BY DEF DrbgCounted
<1>2. DrbgBlockLen \in Nat \ {0} /\ LowLimit \in Nat \ {0}
  BY DrbgAssumption, LowNext DEF DrbgTypes
<1>3. drbgOut \in Seq(DrbgBlocks \X (1 .. DrbgBlockLen)) /\ Len(drbgOut) \in Nat
  BY DEF DrbgTypes
<1> DEFINE BL == DrbgBlockLen
           size == Len(drbgOut)
           At(a, r0) == <<Drbg!Block(Key, turns[a + 1]), r0 + 1>>
<1>4. BL \in Nat \ {0} /\ size \in Nat
  BY <1>2, <1>3
<1> HIDE DEF BL, size
<1>5. ASSUME NEW a \in Int, NEW r0 \in 0 .. BL-1, a*BL + r0 + 1 \in 1 .. size
      PROVE  drbgOut[a*BL + r0 + 1] = At(a, r0)
  <2> DEFINE p == a*BL + r0 + 1
  <2>1. (a*BL + r0) \div BL = a /\ (a*BL + r0) % BL = r0
    BY <1>4, DivisionOf
  <2>2. a*BL \in Int
    BY <1>4
  <2>3. p - 1 = a*BL + r0
    BY <2>2
  <2>4. p \in 1 .. Len(drbgOut)
    BY <1>5 DEF size
  <2>5. drbgOut[p] = <<Drbg!Block(Key, turns[((p-1) \div DrbgBlockLen) + 1]), ((p-1) % DrbgBlockLen) + 1>>
    <3> HIDE DEF p
    <3>1. QED
      BY <1>1, <2>4
  <2>6. (p-1) \div DrbgBlockLen = a /\ (p-1) % DrbgBlockLen = r0
    BY <2>1, <2>3 DEF BL
  <2>7. QED
    BY <2>5, <2>6
<1> HIDE DEF At
<1>6. ASSUME NEW k \in 1 .. Len(drbgOut) \div DrbgBlockLen
      PROVE  SubSeq(drbgOut, (k-1) * DrbgBlockLen + 1, k * DrbgBlockLen) = Drbg!Whole(k)
  <2> DEFINE w == (k-1)*BL
             S == DrbgBlocks \X (1 .. DrbgBlockLen)
             q == SubSeq(drbgOut, w + 1, w + BL)
  <2>1. w \in Nat /\ w + BL <= size /\ k*BL = w + BL
    <3>1. size \div BL \in Int /\ size % BL \in 0 .. BL-1 /\ size = (size \div BL)*BL + (size % BL)
      BY <1>4, size \in Int, DivisionWithRest
    <3>2. k \in Int /\ k <= size \div BL /\ 1 <= k
      BY <3>1 DEF size, BL
    <3> DEFINE z == size \div BL
    <3>3. z \in Int /\ k <= z
      BY <3>1, <3>2
    <3> HIDE DEF z
    <3>4. k*BL <= z*BL /\ k*BL \in Int /\ z*BL \in Int
      BY <1>4, <3>2, <3>3, TimesMonotonic
    <3>5. 0*BL <= (k-1)*BL /\ 0*BL = 0 /\ (k-1)*BL = k*BL - BL
      BY <1>4, <3>2, TimesMonotonic, k-1 \in Int, 0 <= k-1
    <3> DEFINE kb == k*BL
               zb == z*BL
    <3>6. size = zb + (size % BL) /\ kb <= zb /\ kb \in Int /\ zb \in Int /\ w = kb - BL /\ 0 <= w
      BY <3>1, <3>4, <3>5 DEF z
    <3> HIDE DEF kb, zb, w
    <3>7. w \in Nat /\ w + BL <= size /\ kb = w + BL
      BY <1>4, <3>1, <3>6
    <3>8. QED
      BY <3>7 DEF kb
  <2> HIDE DEF w, S
  <2>2. \A l \in 1 .. BL : q[l] = drbgOut[w + l]
    <3>1. w + 1 \in 1 .. size + 1 /\ w + BL \in (w + 1)-1 .. size /\ (w + BL) - (w + 1) + 1 = BL
      BY <1>4, <2>1
    <3>2. drbgOut \in Seq(S)
      BY <1>3 DEF S
    <3>3. /\ q \in Seq(S) /\ Len(q) = BL
          /\ \A l \in 1 .. BL : q[l] = drbgOut[(w + 1) + l - 1]
      BY SMTT(30), <3>1, <3>2, SubSequence DEF size
    <3>4. \A l \in 1 .. BL : (w + 1) + l - 1 = w + l
      BY <2>1
    <3>5. QED
      BY <3>3, <3>4
  <2>3. q \in Seq(S) /\ Len(q) = BL
    <3>1. w + 1 \in 1 .. size + 1 /\ w + BL \in (w + 1)-1 .. size /\ (w + BL) - (w + 1) + 1 = BL
      BY <1>4, <2>1
    <3>2. drbgOut \in Seq(S)
      BY <1>3 DEF S
    <3>3. QED
      BY <3>1, <3>2, SubSequence DEF size
  <2>4. ASSUME NEW l \in 1 .. BL PROVE drbgOut[w + l] = At(k-1, l-1)
    <3>1. l-1 \in 0 .. BL-1 /\ k-1 \in Int /\ w + (l-1) + 1 = w + l /\ w + l \in 1 .. size
      BY <1>4, <2>1
    <3>2. (k-1)*BL + (l-1) + 1 \in 1 .. size
      BY <3>1 DEF w
    <3>3. drbgOut[(k-1)*BL + (l-1) + 1] = At(k-1, l-1)
      BY <1>5, <3>1, <3>2
    <3>4. QED
      BY <3>1, <3>3 DEF w
  <2> DEFINE f == [l \in 1 .. BL |-> <<drbgOut[w + 1][1], l>>]
  <2>5. \A l \in 1 .. Len(q) : q[l] = f[l]
    <3>1. 1 \in 1 .. BL
      BY <1>4
    <3>2. drbgOut[w + 1][1] = Drbg!Block(Key, turns[(k-1) + 1])
      BY <2>4, <3>1 DEF At
    <3>3. \A l \in 1 .. BL : drbgOut[w + l] = <<drbgOut[w + 1][1], l>>
      <4>1. ASSUME NEW l \in 1 .. BL PROVE drbgOut[w + l] = <<drbgOut[w + 1][1], l>>
        <5>1. (l-1) + 1 = l
          OBVIOUS
        <5>2. QED
          BY <2>4, <3>2, <5>1 DEF At
      <4>2. QED
        BY <4>1
    <3>4. QED
      BY <2>2, <2>3, <3>3
  <2>6. q = f
    <3> HIDE DEF f, q
    <3>1. q = [l \in 1 .. Len(q) |-> f[l]]
      BY <2>3, <2>5, SeqIsFunction
    <3>2. f = [l \in 1 .. BL |-> f[l]]
      BY Zenon DEF f
    <3>3. QED
      BY <2>3, <3>1, <3>2
  <2>7. Drbg!Whole(k) = f
    BY Zenon DEF Drbg!Whole, w, BL
  <2>8. QED
    BY <2>1, <2>6, <2>7 DEF BL, w
<1>7. ASSUME NEW a \in 1 .. Len(drbgOut), NEW b \in 1 .. Len(drbgOut), drbgOut[a] = drbgOut[b]
      PROVE  a = b
  <2> DEFINE pa == (a-1) \div BL
             pb == (b-1) \div BL
             ra == (a-1) % BL
             rb == (b-1) % BL
  <2>1. a-1 \in Int /\ b-1 \in Int
    BY <1>3
  <2>2. /\ pa \in Int /\ ra \in 0 .. BL-1 /\ a-1 = pa*BL + ra
    BY <1>4, <2>1, DivisionWithRest
  <2>3. /\ pb \in Int /\ rb \in 0 .. BL-1 /\ b-1 = pb*BL + rb
    BY <1>4, <2>1, DivisionWithRest
  <2>4. pa >= 0 /\ pb >= 0
    <3>1. \A y \in Nat : y \div BL >= 0
      BY <1>4
    <3>2. QED
      BY <1>3, <3>1, a-1 \in Nat, b-1 \in Nat
  <2> HIDE DEF pa, pb, ra, rb
  <2>5. ASSUME NEW p \in Int, NEW r0 \in 0 .. BL-1, p*BL + r0 < size PROVE p < c
    <3> DEFINE z == p*BL
               cb == c*BL
    <3>1. z \in Int /\ cb \in Int /\ size <= cb /\ z + r0 < size
      BY <1>1, <1>4, <2>5 DEF size, BL
    <3> HIDE DEF z, cb
    <3>2. z < cb
      BY <1>4, <3>1
    <3>3. QED
      BY <1>4, <3>2, LessByTimes DEF z, cb
  <2>6. pa < c /\ pb < c
    <3>1. pa*BL + ra < size /\ pb*BL + rb < size
      BY SMTT(30), <1>3, <2>2, <2>3 DEF size
    <3>2. QED
      BY <2>2, <2>3, <2>5, <3>1
  <2>7. drbgOut[a] = At(pa, ra) /\ drbgOut[b] = At(pb, rb)
    <3>1. pa*BL + ra + 1 = a /\ pb*BL + rb + 1 = b
      BY SMTT(30), <1>3, <2>2, <2>3
    <3>2. a \in 1 .. size /\ b \in 1 .. size
      BY DEF size
    <3>3. QED
      BY <1>5, <2>2, <2>3, <3>1, <3>2
  <2>8. Drbg!Block(Key, turns[pa + 1]) = Drbg!Block(Key, turns[pb + 1]) /\ ra + 1 = rb + 1
    <3> DEFINE y == Drbg!Block(Key, turns[pa + 1])
               z == Drbg!Block(Key, turns[pb + 1])
    <3>1. <<y, ra + 1>> = <<z, rb + 1>>
      BY <1>7, <2>7 DEF At
    <3> HIDE DEF y, z
    <3>2. y = z /\ ra + 1 = rb + 1
      BY <3>1
    <3>3. QED
      BY <3>2 DEF y, z
  <2>9. turns[pa + 1] = turns[pb + 1]
    BY <2>8 DEF Drbg!Block
  <2>10. ra = rb
    BY <2>2, <2>3, <2>8
  <2>11. c < LowLimit
    BY FewBlocks, <1>2, c + 3 < LowLimit
  <2>12. Low(turns[pa + 1]) = (v0 + (pa + 1)) % LowLimit /\ Low(turns[pb + 1]) = (v0 + (pb + 1)) % LowLimit
    <3>1. pa + 1 \in 1 .. c /\ pb + 1 \in 1 .. c
      BY <2>2, <2>3, <2>4, <2>6
    <3>2. \A k \in 1 .. c : Low(turns[k]) = (v0 + k) % LowLimit
      BY DEF DrbgCounted
    <3>3. QED
      BY <3>1, <3>2
  <2>13. (v0 + (pa + 1)) % LowLimit = (v0 + (pb + 1)) % LowLimit
    BY <2>9, <2>12
  <2>14. pa + 1 \in Nat /\ pb + 1 \in Nat /\ (pa + 1) - (pb + 1) < LowLimit /\ (pb + 1) - (pa + 1) < LowLimit
    BY <1>2, <2>2, <2>3, <2>4, <2>6, <2>11
  <2>15. ~(pa + 1 < pb + 1)
    BY <1>2, <2>13, <2>14, PlacesDiffer
  <2>16. ~(pb + 1 < pa + 1)
    BY <1>2, <2>13, <2>14, PlacesDiffer
  <2>17. pa = pb
    BY <2>2, <2>3, <2>15, <2>16
  <2>18. a - 1 = b - 1
    BY <2>2, <2>3, <2>10, <2>17
  <2>19. QED
    BY <1>3, <2>18
<1>8. QED
  BY <1>1, <1>6, <1>7

LEMMA DrbgHolds ==
    ASSUME DrbgInv, component = "drbg"
    PROVE  Drbg!SecretsNotServed /\ Drbg!RequestFilled
<1>1. DrbgTypes /\ DrbgApart /\ DrbgCounts
  BY DEF DrbgInv
<1>2. PICK v0 \in Nat, c \in Nat : \E turns \in [1 .. c -> Drbg!Counters] : DrbgCounted(v0, c, turns)
  BY <1>1 DEF DrbgCounts
<1>3. PICK turns \in [1 .. c -> Drbg!Counters] : DrbgCounted(v0, c, turns)
  BY <1>2
<1>4. Drbg!SecretsNotServed
  BY <1>1 DEF DrbgApart, Drbg!SecretsNotServed
<1>5. Drbg!RequestFilled
  BY <1>1, <1>3, DrbgFilled, Zenon DEF Drbg!RequestFilled
<1>6. QED
  BY <1>4, <1>5

(***************************************************************************)
(* fips202.c: the bytes that have been absorbed, and the byte at each      *)
(* place of the output.                                                    *)
(***************************************************************************)
SpongeRate == Rates[fn]

LEMMA RatesAre ==
    ASSUME fn \in DOMAIN Rates
    PROVE  SpongeRate \in Nat \ {0} /\ Sponge!Suffix(fn) \in {6, 31}
<1>1. fn \in {"shake128", "shake256", "sha3_256", "sha3_512"}
  BY DEF Rates
<1>2. SpongeRate \in {SHAKE128_RATE, SHAKE256_RATE, SHA3_256_RATE, SHA3_512_RATE}
  BY <1>1 DEF Rates, SpongeRate
<1>3. QED
  BY <1>2, RatesAssumption DEF Sponge!Suffix

\* A message followed by its suffix and zeros.
Padded(msg, p, k) == IF k <= Len(msg) THEN msg[k] ELSE IF k = Len(msg) + 1 THEN p ELSE 0

LEMMA SeqOfMore ==
    ASSUME NEW S, NEW T, S \subseteq T, NEW q \in Seq(S)
    PROVE  q \in Seq(T)
<1>1. \A k \in 1 .. Len(q) : q[k] \in T
  OBVIOUS
<1>2. Len(q) \in Nat /\ q = [k \in 1 .. Len(q) |-> q[k]]
  OBVIOUS
<1>3. [k \in 1 .. Len(q) |-> q[k]] \in Seq(T)
  BY <1>1, <1>2, FunctionIsSeq
<1>4. QED
  BY <1>2, <1>3

LEMMA BytesAreNumbers ==
    ASSUME NEW q \in Seq(0 .. 255)
    PROVE  q \in Seq(Int) /\ \A k \in 1 .. Len(q) : q[k] \in Int
<1> DEFINE S == 0 .. 255
<1>1. S \subseteq Int /\ q \in Seq(S)
  OBVIOUS
<1> HIDE DEF S
<1>2. q \in Seq(Int)
  BY <1>1, SeqOfMore
<1>3. QED
  BY <1>2

LEMMA LastBlockIs ==
    ASSUME NEW r \in Nat \ {0}, NEW rest \in Seq(0 .. 255), Len(rest) < r, NEW p \in {6, 31}
    PROVE  LET last == Sponge!LastBlock(r, rest, p)
           IN  /\ last \in Seq(Int) /\ Len(last) = r
               /\ \A k \in 1 .. r : last[k] = Padded(rest, p, k) + (IF k = r THEN 128 ELSE 0)
<1> DEFINE l == Len(rest)
           z == Sponge!Zeros(r - l - 1)
           a == rest \o <<p>>
           t == a \o z
           last == [t EXCEPT ![r] = IF @ < 128 THEN @ + 128 ELSE @]
<1>1. l \in Nat /\ r - l - 1 \in Nat /\ rest \in Seq(Int) /\ <<p>> \in Seq(Int) /\ Len(<<p>>) = 1 /\ <<p>>[1] = p
  <2>1. l \in Nat /\ r - l - 1 \in Nat
    OBVIOUS
  <2>2. rest \in Seq(Int)
    BY BytesAreNumbers
  <2>5. p \in Int
    OBVIOUS
  <2>6. <<p>> \in Seq(Int) /\ Len(<<p>>) = 1 /\ <<p>>[1] = p
    BY <2>5
  <2>7. QED
    BY <2>1, <2>2, <2>6
<1>2. z \in Seq(Int) /\ Len(z) = r - l - 1 /\ \A k \in 1 .. r - l - 1 : z[k] = 0
  BY <1>1 DEF Sponge!Zeros
<1> HIDE DEF z
<1>3. /\ a \in Seq(Int) /\ Len(a) = l + 1
      /\ \A k \in 1 .. l : a[k] = rest[k]
      /\ a[l+1] = p
  <2>1. /\ a \in Seq(Int) /\ Len(a) = l + 1
        /\ \A k \in 1 .. l : a[k] = rest[k]
        /\ \A k \in l+1 .. l+1 : a[k] = <<p>>[k - l]
    BY <1>1, Joined
  <2>2. l+1 \in l+1 .. l+1 /\ l+1 - l = 1
    BY <1>1
  <2>3. QED
    BY <1>1, <2>1, <2>2
<1> HIDE DEF a
<1>4. /\ t \in Seq(Int) /\ Len(t) = r
      /\ \A k \in 1 .. r : t[k] = Padded(rest, p, k)
  <2>1. /\ t \in Seq(Int) /\ Len(t) = (l + 1) + (r - l - 1)
        /\ \A k \in 1 .. l + 1 : t[k] = a[k]
        /\ \A k \in l + 2 .. (l + 1) + (r - l - 1) : t[k] = z[k - (l + 1)]
    <3> DEFINE la == l + 1
               lz == r - l - 1
    <3>1. la + 1 = l + 2
      BY <1>1
    <3>2. a \in Seq(Int) /\ z \in Seq(Int) /\ Len(a) = la /\ Len(z) = lz
      BY <1>2, <1>3
    <3> HIDE DEF la, lz
    <3>3. /\ t \in Seq(Int) /\ Len(t) = la + lz
          /\ \A k \in 1 .. la : t[k] = a[k]
          /\ \A k \in la + 1 .. la + lz : t[k] = z[k - la]
      <4> HIDE DEF t
      <4>1. t = a \o z
        BY DEF t
      <4>2. /\ t \in Seq(Int) /\ Len(t) = Len(a) + Len(z)
            /\ \A k \in 1 .. Len(a) : t[k] = a[k]
            /\ \A k \in Len(a) + 1 .. Len(a) + Len(z) : t[k] = z[k - Len(a)]
        <5> DEFINE S == Int
        <5>1. a \in Seq(S) /\ z \in Seq(S)
          BY <3>2
        <5> HIDE DEF S
        <5>2. /\ a \o z \in Seq(S) /\ Len(a \o z) = Len(a) + Len(z)
              /\ \A k \in 1 .. Len(a) : (a \o z)[k] = a[k]
              /\ \A k \in Len(a) + 1 .. Len(a) + Len(z) : (a \o z)[k] = z[k - Len(a)]
          BY <5>1, Joined
        <5>3. QED
          BY <4>1, <5>2 DEF S
      <4>3. QED
        BY <3>2, <4>2
    <3>4. QED
      BY <3>1, <3>3 DEF la, lz
  <2>2. (l + 1) + (r - l - 1) = r
    BY <1>1
  <2>3. ASSUME NEW k \in 1 .. r PROVE t[k] = Padded(rest, p, k)
    <3>1. CASE k <= l
      BY <1>1, <1>3, <2>1, <3>1 DEF Padded
    <3>2. CASE k = l + 1
      BY <1>1, <1>3, <2>1, <3>2 DEF Padded
    <3>3. CASE k > l + 1
      <4>1. k \in l + 2 .. r /\ k - (l + 1) \in 1 .. r - l - 1
        BY <1>1, <3>3
      <4>2. t[k] = 0
        BY <1>2, <2>1, <2>2, <4>1
      <4>3. QED
        BY <1>1, <3>3, <4>2 DEF Padded
    <3>4. l \in Nat /\ k \in Int
      BY <1>1
    <3>5. k <= l \/ k = l + 1 \/ k > l + 1
      BY <3>4
    <3>6. QED
      BY <3>1, <3>2, <3>3, <3>5
  <2>4. QED
    BY <2>1, <2>2, <2>3
<1> HIDE DEF t
<1>5. t[r] \in 0 .. 127
  <2>1. t[r] = Padded(rest, p, r)
    BY <1>4
  <2>2. QED
    BY <1>1, <2>1 DEF Padded
<1>6. /\ last \in Seq(Int) /\ Len(last) = r
      /\ last[r] = t[r] + 128
      /\ \A k \in 1 .. r : k # r => last[k] = t[k]
  <2> DEFINE y == t[r]
  <2>8. y \in 0 .. 127
    BY <1>5
  <2> HIDE DEF y
  <2>7. y < 128 /\ y + 128 \in Int
    BY <2>8
  <2>1. r \in 1 .. r /\ t[r] < 128 /\ t[r] + 128 \in Int
    BY <2>7 DEF y
  <2>2. last = [t EXCEPT ![r] = t[r] + 128]
    BY <2>1
  <2> DEFINE x == t[r] + 128
  <2>3. t \in Seq(Int) /\ Len(t) = r
    BY <1>4
  <2> HIDE DEF last, x
  <2>4. last = [t EXCEPT ![r] = x] /\ x \in Int
    BY <2>1, <2>2 DEF x
  <2>5. last \in Seq(Int) /\ Len(last) = r /\ last[r] = x /\ \A k \in 1 .. r : k # r => last[k] = t[k]
    BY <2>1, <2>3, <2>4
  <2>6. QED
    BY <2>5 DEF x
<1>7. Sponge!LastBlock(r, rest, p) = last
  BY DEF Sponge!LastBlock, t, a, z
<1> HIDE DEF last
<1>8. \A k \in 1 .. r : last[k] = Padded(rest, p, k) + (IF k = r THEN 128 ELSE 0)
  <2>1. ASSUME NEW k \in 1 .. r PROVE last[k] = Padded(rest, p, k) + (IF k = r THEN 128 ELSE 0)
    <3>1. CASE k = r
      BY <1>4, <1>6, <3>1
    <3>2. CASE k # r
      <4>1. t[k] \in Int
        BY <1>4
      <4>2. QED
        BY <1>4, <1>6, <3>2, <4>1
    <3>3. QED
      BY <3>1, <3>2
  <2>2. QED
    BY <2>1
<1>9. QED
  BY <1>6, <1>7, <1>8

FullBlocks(r, msg, p, blocks, whole) ==
    /\ whole \in Nat /\ Len(msg) < (whole + 1)*r
    /\ Len(blocks) = whole + 1
    /\ DOMAIN blocks = 1 .. whole + 1
    /\ \A k \in 1 .. whole + 1 :
          /\ Len(blocks[k]) = r
          /\ \A l \in 1 .. r :
                blocks[k][l] = Padded(msg, p, (k-1)*r + l) + (IF k = whole + 1 /\ l = r THEN 128 ELSE 0)

\* All blocks of a message are full, and one after the other they are the padded message
\* with the top bit of its last byte set.
LEMMA BlocksAre ==
    ASSUME NEW r \in Nat \ {0}, NEW msg \in Seq(0 .. 255), NEW p \in {6, 31}
    PROVE  FullBlocks(r, msg, p, Sponge!keccak_absorb(r, msg, p).blocks, Len(msg) \div r)
<1> DEFINE size  == Len(msg)
           whole == size \div r
           w     == whole*r
           rest  == SubSeq(msg, whole*r + 1, Len(msg))
           Block(k) == SubSeq(msg, (k-1)*r + 1, k*r)
           blocks == [k \in 1 .. whole + 1 |-> IF k <= whole THEN Block(k) ELSE Sponge!LastBlock(r, rest, p)]
<1>1. Sponge!keccak_absorb(r, msg, p).blocks = blocks
  BY DEF Sponge!keccak_absorb
<1>2. /\ size \in Nat /\ whole \in Nat /\ size % r \in 0 .. r-1 /\ size = w + (size % r)
      /\ w \in Int /\ (whole + 1)*r = w + r
  <2>1. size \in Nat
    OBVIOUS
  <2> HIDE DEF size
  <2>2. whole \in Int /\ size % r \in 0 .. r-1 /\ size = whole*r + (size % r)
    BY <2>1, size \in Int, DivisionWithRest
  <2>3. whole >= 0
    BY <2>1
  <2> HIDE DEF whole
  <2>4. w \in Int /\ (whole + 1)*r = w + r
    BY <2>2
  <2>5. QED
    BY <2>1, <2>2, <2>3, <2>4
<1>3. w >= 0
  BY <1>2, TimesMonotonic, 0*r = 0, 0 <= whole
<1> DEFINE e == size % r
<1> HIDE DEF size, whole, e
<1>4. /\ rest \in Seq(0 .. 255) /\ Len(rest) = e /\ e < r
      /\ \A k \in 1 .. e : rest[k] = msg[w + k]
  <2> HIDE DEF w
  <2>1. w + 1 \in 1 .. size + 1 /\ size \in (w+1) - 1 .. size /\ size - (w + 1) + 1 = e /\ e \in 0 .. r-1
    BY <1>2, <1>3 DEF e
  <2>2. \A k \in Int : (w + 1) + k - 1 = w + k
    BY <1>2
  <2> DEFINE q == SubSeq(msg, w + 1, size)
  <2>3. /\ q \in Seq(0 .. 255) /\ Len(q) = e
        /\ \A k \in 1 .. e : q[k] = msg[(w + 1) + k - 1]
    BY SMTT(30), <2>1, SubSequence DEF size
  <2>4. rest = q
    BY DEF w, size
  <2> HIDE DEF q
  <2>5. e < r
    BY <2>1
  <2>6. \A k \in 1 .. e : q[k] = msg[w + k]
    <3>1. ASSUME NEW k \in 1 .. e PROVE q[k] = msg[w + k]
      <4>1. (w + 1) + k - 1 = w + k
        BY <2>2
      <4>2. QED
        BY <2>3, <4>1
    <3>2. QED
      BY <3>1
  <2>7. QED
    BY <2>3, <2>4, <2>5, <2>6
<1> HIDE DEF rest, w
<1>5. w <= size /\ size < w + r
  BY <1>2
<1>6. ASSUME NEW k \in 1 .. whole + 1
      PROVE  /\ Len(blocks[k]) = r
             /\ \A l \in 1 .. r :
                   blocks[k][l] = Padded(msg, p, (k-1)*r + l)
                                  + (IF k = whole + 1 /\ l = r THEN 128 ELSE 0)
  <2>1. CASE k <= whole
    <3> DEFINE v == (k-1)*r
    <3>1. v \in Int /\ v >= 0 /\ k*r = v + r /\ v + r <= w
      <4>1. 0*r <= v /\ 0*r = 0 /\ v \in Int
        BY <1>2, TimesMonotonic, 0 <= k-1, k-1 \in Int
      <4>2. k*r <= whole*r
        BY <1>2, <2>1, TimesMonotonic
      <4>3. k*r = v + r
        BY <1>2
      <4>4. QED
        BY <4>1, <4>2, <4>3 DEF w
    <3> HIDE DEF v
    <3> DEFINE q == SubSeq(msg, v + 1, v + r)
    <3>2. blocks[k] = q
      <4>1. blocks[k] = Block(k)
        BY <2>1
      <4>2. Block(k) = q
        BY <3>1 DEF v
      <4>3. QED
        BY <4>1, <4>2
    <3>3. v + 1 \in 1 .. size + 1 /\ v + r \in (v + 1) - 1 .. size /\ (v + r) - (v + 1) + 1 = r
      BY <1>2, <1>5, <3>1
    <3>4. Len(q) = r /\ \A l \in 1 .. r : q[l] = msg[(v + 1) + l - 1]
      BY <3>3, SubSequence DEF size
    <3> HIDE DEF q, blocks
    <3>5. ASSUME NEW l \in 1 .. r PROVE q[l] = Padded(msg, p, v + l)
      <4>1. (v + 1) + l - 1 = v + l /\ v + l <= size
        BY <1>2, <1>5, <3>1
      <4>2. QED
        BY <3>4, <4>1 DEF Padded, size
    <3>6. k # whole + 1
      BY <1>2, <2>1
    <3>7. ASSUME NEW l \in 1 .. r PROVE q[l] + 0 = q[l]
      <4>1. v + l \in 1 .. size
        BY <1>2, <1>5, <3>1
      <4>2. q[l] = msg[v + l]
        BY <3>5, <4>1 DEF Padded, size
      <4>3. \A k0 \in 1 .. Len(msg) : msg[k0] \in Int
        BY BytesAreNumbers
      <4>4. q[l] \in Int
        BY <4>1, <4>2, <4>3 DEF size
      <4>5. QED
        BY <4>4
    <3>8. QED
      BY <3>2, <3>4, <3>5, <3>6, <3>7 DEF v
  <2>2. CASE k = whole + 1
    <3> DEFINE last == Sponge!LastBlock(r, rest, p)
    <3>1. blocks[k] = last
      BY <1>2, <2>2
    <3>2. /\ Len(last) = r
          /\ \A l \in 1 .. r : last[l] = Padded(rest, p, l) + (IF l = r THEN 128 ELSE 0)
      BY SMTT(30), <1>4, LastBlockIs
    <3>3. (k-1)*r = w
      BY <1>2, <2>2 DEF w
    <3>4. ASSUME NEW l \in 1 .. r PROVE Padded(rest, p, l) = Padded(msg, p, w + l)
      <4>1. l <= e <=> w + l <= size
        BY <1>2 DEF e
      <4>2. l = e + 1 <=> w + l = size + 1
        BY <1>2 DEF e
      <4>3. l <= e => rest[l] = msg[w + l]
        BY <1>4
      <4>4. QED
        BY <1>4, <4>1, <4>2, <4>3 DEF Padded, size
    <3> HIDE DEF last, blocks
    <3>5. QED
      BY SMTT(30), <2>2, <3>1, <3>2, <3>3, <3>4
  <2>3. k <= whole \/ k = whole + 1
    BY <1>2
  <2> HIDE DEF blocks
  <2>4. QED
    BY <2>1, <2>2, <2>3
<1>7. Len(blocks) = whole + 1 /\ DOMAIN blocks = 1 .. whole + 1
  BY <1>2
<1> HIDE DEF blocks
<1>8. QED
  BY <1>1, <1>2, <1>5, <1>6, <1>7 DEF FullBlocks, w, whole, size

\* Byte k of an output at rate r, and the beginning of a length.
StreamByte(r, k)    == [i |-> k % r, after |-> (k \div r) + 1]
StreamBytes         == [i : Int, after : Int]
StreamPrefix(r, l)  == [k \in 1 .. l |-> StreamByte(r, k-1)]

\* What is squeezed from a state that has been permuted p times.
Squeezed(r, p, l)   == [k \in 1 .. l |-> [i |-> (k-1) % r, after |-> p + 1 + ((k-1) \div r)]]

LEMMA SqueezedIs ==
    ASSUME NEW r \in Nat \ {0}, NEW p \in Nat, NEW l \in Nat
    PROVE  /\ Squeezed(r, p, l) \in Seq(StreamBytes) /\ Len(Squeezed(r, p, l)) = l
           /\ \A k \in 1 .. l : Squeezed(r, p, l)[k] = StreamByte(r, p*r + (k-1))
<1>1. ASSUME NEW k \in 1 .. l
      PROVE  /\ Squeezed(r, p, l)[k] = StreamByte(r, p*r + (k-1))
             /\ Squeezed(r, p, l)[k] \in StreamBytes
  <2> DEFINE y == k - 1
             a == y \div r
             b == y % r
  <2>1. y \in Int
    OBVIOUS
  <2> HIDE DEF y
  <2>2. a \in Int /\ b \in 0 .. r-1 /\ y = a*r + b
    BY <2>1, DivisionWithRest
  <2>3. Squeezed(r, p, l)[k] = [i |-> b, after |-> p + 1 + a]
    BY DEF Squeezed, y
  <2> HIDE DEF a, b
  <2>4. p*r + y = (p + a)*r + b
    <3>1. (p + a)*r = p*r + a*r /\ p*r \in Int /\ a*r \in Int
      BY <2>2
    <3>2. QED
      BY <2>2, <3>1
  <2>5. p + a \in Int /\ (p + a) + 1 = p + 1 + a
    BY SMTT(30), <2>2
  <2>6. ((p + a)*r + b) \div r = p + a /\ ((p + a)*r + b) % r = b
    BY <2>2, <2>5, DivisionOf
  <2>7. StreamByte(r, p*r + y) = [i |-> b, after |-> p + 1 + a]
    BY <2>4, <2>5, <2>6, Zenon DEF StreamByte
  <2>8. [i |-> b, after |-> p + 1 + a] \in StreamBytes
    BY <2>2, <2>5 DEF StreamBytes
  <2>9. QED
    BY <2>3, <2>7, <2>8 DEF y
<1>2. \A k \in 1 .. l : Squeezed(r, p, l)[k] \in StreamBytes
  BY <1>1
<1> DEFINE q == Squeezed(r, p, l)
<1>3. q = [k \in 1 .. l |-> q[k]]
  BY Zenon DEF Squeezed
<1>4. \A k \in 1 .. l : q[k] \in StreamBytes
  BY <1>2
<1> HIDE DEF q
<1>5. [k \in 1 .. l |-> q[k]] \in Seq(StreamBytes) /\ Len([k \in 1 .. l |-> q[k]]) = l
  BY <1>4, FunctionIsSeq
<1>6. q \in Seq(StreamBytes) /\ Len(q) = l
  BY <1>3, <1>5
<1>7. QED
  BY <1>1, <1>6 DEF q

\* A sequence whose bytes are those of the stream is its prefix.
LEMMA PrefixFrom ==
    ASSUME NEW r, NEW q \in Seq(StreamBytes), \A k \in 1 .. Len(q) : q[k] = StreamByte(r, k-1)
    PROVE  q = StreamPrefix(r, Len(q))
<1> DEFINE f == [k \in 1 .. Len(q) |-> StreamByte(r, k-1)]
<1>1. \A k \in 1 .. Len(q) : q[k] = f[k]
  OBVIOUS
<1>2. f = [k \in 1 .. Len(q) |-> f[k]]
  OBVIOUS
<1>3. StreamPrefix(r, Len(q)) = f
  BY DEF StreamPrefix
<1> HIDE DEF f
<1>4. q = [k \in 1 .. Len(q) |-> f[k]]
  BY <1>1, SeqIsFunction
<1>5. QED
  BY <1>2, <1>3, <1>4

LEMMA PrefixIs ==
    ASSUME NEW r \in Nat \ {0}, NEW l \in Nat
    PROVE  /\ StreamPrefix(r, l) \in Seq(StreamBytes) /\ Len(StreamPrefix(r, l)) = l
           /\ \A k \in 1 .. l : StreamPrefix(r, l)[k] = StreamByte(r, k-1)
<1> DEFINE f == [k \in 1 .. l |-> StreamByte(r, k-1)]
<1>1. ASSUME NEW k \in 1 .. l PROVE f[k] \in StreamBytes
  <2> DEFINE y == k - 1
  <2>1. y \in Int
    OBVIOUS
  <2> HIDE DEF y
  <2>2. y \div r \in Int /\ y % r \in 0 .. r-1
    BY <2>1, DivisionWithRest
  <2>3. StreamByte(r, y) \in StreamBytes
    BY <2>2 DEF StreamByte, StreamBytes
  <2>4. QED
    BY <2>3 DEF y
<1>2. \A k \in 1 .. l : f[k] = StreamByte(r, k-1)
  OBVIOUS
<1>3. f = [k \in 1 .. l |-> f[k]]
  OBVIOUS
<1>4. StreamPrefix(r, l) = f
  BY DEF StreamPrefix
<1> HIDE DEF f
<1>5. [k \in 1 .. l |-> f[k]] \in Seq(StreamBytes) /\ Len([k \in 1 .. l |-> f[k]]) = l
  BY <1>1, FunctionIsSeq
<1>6. QED
  BY <1>2, <1>3, <1>4, <1>5

\* p blocks, and what is squeezed after them, are a longer prefix.
LEMMA PrefixGrows ==
    ASSUME NEW r \in Nat \ {0}, NEW p \in Nat, NEW q \in Seq(StreamBytes), NEW l \in Nat,
           Len(q) = l, \A k \in 1 .. l : q[k] = StreamByte(r, p*r + (k-1))
    PROVE  StreamPrefix(r, p*r) \o q = StreamPrefix(r, p*r + l) /\ p*r \in Nat
<1> DEFINE w == p*r
           a == StreamPrefix(r, w)
           t == a \o q
<1>1. w \in Nat
  BY TimesMonotonic, 0*r = 0, 0 <= p
<1>2. \A k \in 1 .. l : q[k] = StreamByte(r, w + (k-1))
  OBVIOUS
<1> HIDE DEF w
<1>3. a \in Seq(StreamBytes) /\ Len(a) = w /\ \A k \in 1 .. w : a[k] = StreamByte(r, k-1)
  BY <1>1, PrefixIs
<1> HIDE DEF a
<1> DEFINE S == StreamBytes
<1>4. a \in Seq(S) /\ q \in Seq(S)
  BY <1>3
<1> HIDE DEF S
<1>5. /\ t \in Seq(S) /\ Len(t) = Len(a) + Len(q)
      /\ \A k \in 1 .. Len(a) : t[k] = a[k]
      /\ \A k \in Len(a)+1 .. Len(a) + Len(q) : t[k] = q[k - Len(a)]
  BY ZenonT(40), <1>4, Joined
<1> HIDE DEF t
<1>6. /\ t \in Seq(S) /\ Len(t) = w + l
      /\ \A k \in 1 .. w : t[k] = a[k]
      /\ \A k \in w + 1 .. w + l : t[k] = q[k - w]
  BY <1>3, <1>5
<1>7. ASSUME NEW k \in 1 .. w + l PROVE t[k] = StreamByte(r, k-1)
  <2>1. CASE k <= w
    BY <1>1, <1>3, <1>6, <2>1
  <2>2. CASE k > w
    <3>1. k \in w + 1 .. w + l /\ k - w \in 1 .. l /\ w + ((k - w) - 1) = k - 1
      BY <1>1, <2>2
    <3>2. t[k] = q[k - w]
      BY <1>6, <3>1
    <3>3. q[k - w] = StreamByte(r, w + ((k - w) - 1))
      BY <1>2, <3>1
    <3>4. QED
      BY <3>1, <3>2, <3>3
  <2>3. QED
    BY <1>1, <2>1, <2>2
<1>8. t \in Seq(StreamBytes) /\ \A k \in 1 .. Len(t) : t[k] = StreamByte(r, k-1)
  BY <1>6, <1>7 DEF S
<1>9. t = StreamPrefix(r, Len(t))
  BY <1>8, PrefixFrom
<1>10. QED
  BY <1>1, <1>6, <1>9 DEF t, a, w

\* A call for l bytes, in whole blocks and the beginning of one more.
LEMMA ShakeIsPrefix ==
    ASSUME NEW fn0 \in {"shake128", "shake256"}, NEW l \in Nat, NEW in
    PROVE  Sponge!shake(fn0, l, in) = StreamPrefix(Rates[fn0], l)
<1> DEFINE r == Rates[fn0]
           c == l \div r
           st == Sponge!Absorb(fn0, in)
           whole == Sponge!keccak_squeezeblocks(r, c, st)
           last  == Sponge!keccak_squeezeblocks(r, 1, whole.s)
           rest  == l - c*r
           q == SubSeq(last.out, 1, rest)
<1>1. r \in Nat \ {0}
  BY RatesAssumption DEF Rates
<1>2. Sponge!shake(fn0, l, in) = whole.out \o q
  BY DEF Sponge!shake
<1>3. st.permuted = 0
  BY DEF Sponge!Absorb, Sponge!keccak_absorb
<1>4. st = [blocks |-> st.blocks, permuted |-> 0]
  BY DEF Sponge!Absorb, Sponge!keccak_absorb
<1> HIDE DEF r, st
<1>5. c \in Nat /\ l % r \in 0 .. r-1 /\ l = c*r + (l % r) /\ rest = l % r
  <2>1. c \in Int /\ l % r \in 0 .. r-1 /\ l = c*r + (l % r)
    BY <1>1, l \in Int, DivisionWithRest
  <2>2. c >= 0
    BY <1>1
  <2> HIDE DEF c
  <2> DEFINE w == c*r
             e == l % r
  <2>3. w \in Int
    BY <1>1, <2>1
  <2> HIDE DEF w, e
  <2>4. l = w + e /\ e \in 0 .. r-1
    BY <2>1 DEF w, e
  <2>5. l - w = e
    BY <1>1, <2>3, <2>4
  <2>6. QED
    BY <2>1, <2>2, <2>5 DEF w, e
<1>6. rest \in 0 .. r-1 /\ l = c*r + rest
  BY <1>5
<1> HIDE DEF c, rest
<1>7. whole.out = Squeezed(r, 0, c*r) /\ whole.s.permuted = c
  <2>1. whole.out = [k \in 1 .. c*r |-> [i |-> (k-1) % r, after |-> 0 + 1 + ((k-1) \div r)]]
    BY <1>3 DEF Sponge!keccak_squeezeblocks
  <2>2. whole.s = [st EXCEPT !.permuted = @ + c]
    BY DEF Sponge!keccak_squeezeblocks
  <2>3. whole.s.permuted = 0 + c
    BY <1>3, <1>4, <2>2
  <2>4. QED
    BY <1>5, <2>1, <2>3, 0 + c = c DEF Squeezed
<1> HIDE DEF whole
<1>8. last.out = Squeezed(r, c, r)
  <2>1. last.out = [k \in 1 .. 1*r |-> [i |-> (k-1) % r, after |-> c + 1 + ((k-1) \div r)]]
    BY <1>7 DEF Sponge!keccak_squeezeblocks
  <2>2. 1*r = r
    BY <1>1
  <2>3. QED
    BY <2>1, <2>2 DEF Squeezed
<1> HIDE DEF last
<1>9. c*r \in Nat
  <2>1. 0*r <= c*r /\ 0*r = 0 /\ c*r \in Int
    BY <1>1, <1>5, TimesMonotonic, 0 <= c, c \in Int
  <2>2. QED
    BY <2>1
<1>10. whole.out = StreamPrefix(r, c*r)
  <2> DEFINE w == c*r
             x == Squeezed(r, 0, w)
  <2>1. w \in Nat
    BY <1>9
  <2> HIDE DEF w
  <2>2. /\ x \in Seq(StreamBytes) /\ Len(x) = w
        /\ \A k \in 1 .. w : x[k] = StreamByte(r, 0*r + (k-1))
    BY <1>1, <2>1, SqueezedIs
  <2>3. \A k \in 1 .. w : 0*r + (k-1) = k-1
    BY <1>1
  <2> HIDE DEF x
  <2>4. \A k \in 1 .. Len(x) : x[k] = StreamByte(r, k-1)
    BY <2>2, <2>3
  <2>5. x = StreamPrefix(r, Len(x))
    BY <2>2, <2>4, PrefixFrom
  <2>6. QED
    BY <1>7, <2>2, <2>5 DEF x, w
<1>11. /\ q \in Seq(StreamBytes) /\ Len(q) = rest
       /\ \A k \in 1 .. rest : q[k] = StreamByte(r, c*r + (k-1))
  <2>1. /\ last.out \in Seq(StreamBytes) /\ Len(last.out) = r
        /\ \A k \in 1 .. r : last.out[k] = StreamByte(r, c*r + (k-1))
    BY <1>1, <1>5, <1>8, SqueezedIs
  <2> DEFINE x == last.out
  <2>2. x \in Seq(StreamBytes) /\ 1 \in 1 .. Len(x) + 1 /\ rest \in 1-1 .. Len(x) /\ rest - 1 + 1 = rest
    BY <1>1, <1>6, <2>1
  <2>3. \A k \in 1 .. r : x[k] = StreamByte(r, c*r + (k-1))
    BY <2>1
  <2> HIDE DEF x
  <2> DEFINE y == SubSeq(x, 1, rest)
  <2>4. y \in Seq(StreamBytes) /\ Len(y) = rest - 1 + 1 /\ \A k \in 1 .. rest - 1 + 1 : y[k] = x[1 + k - 1]
    BY <2>2, SubSequence
  <2>5. \A k \in 1 .. rest : 1 + k - 1 = k /\ k \in 1 .. r
    BY <1>1, <1>6
  <2>6. q = y
    BY DEF x
  <2> HIDE DEF y
  <2>7. QED
    BY <2>2, <2>3, <2>4, <2>5, <2>6
<1> HIDE DEF q
<1>12. StreamPrefix(r, c*r) \o q = StreamPrefix(r, c*r + rest)
  <2>1. rest \in Nat /\ c \in Nat
    BY <1>1, <1>5, <1>6
  <2>2. q \in Seq(StreamBytes) /\ Len(q) = rest /\ \A k \in 1 .. rest : q[k] = StreamByte(r, c*r + (k-1))
    BY <1>11
  <2>3. QED
    BY <1>1, <2>1, <2>2, PrefixGrows, Zenon
<1>13. QED
  BY <1>2, <1>6, <1>10, <1>12 DEF r

\* A hash is the beginning of one block.
LEMMA Sha3IsPrefix ==
    ASSUME NEW fn0 \in DOMAIN Rates, NEW l \in 0 .. Rates[fn0], NEW in
    PROVE  Sponge!sha3(fn0, l, in) = StreamPrefix(Rates[fn0], l)
<1> DEFINE r == Rates[fn0]
           st == Sponge!Absorb(fn0, in)
           x == Sponge!keccak_squeezeblocks(r, 1, st).out
           q == SubSeq(x, 1, l)
<1>1. r \in Nat \ {0}
  <2>1. fn0 \in {"shake128", "shake256", "sha3_256", "sha3_512"}
    BY DEF Rates
  <2>2. r \in {SHAKE128_RATE, SHAKE256_RATE, SHA3_256_RATE, SHA3_512_RATE}
    BY <2>1 DEF Rates
  <2>3. QED
    BY <2>2, RatesAssumption
<1>2. Sponge!sha3(fn0, l, in) = q
  BY DEF Sponge!sha3
<1>3. st.permuted = 0
  BY DEF Sponge!Absorb, Sponge!keccak_absorb
<1>4. l \in 0 .. r
  OBVIOUS
<1> HIDE DEF r, st
<1>5. x = Squeezed(r, 0, r)
  <2>1. x = [k \in 1 .. 1*r |-> [i |-> (k-1) % r, after |-> 0 + 1 + ((k-1) \div r)]]
    BY <1>3 DEF Sponge!keccak_squeezeblocks
  <2>2. 1*r = r
    BY <1>1
  <2>3. QED
    BY <2>1, <2>2 DEF Squeezed
<1> HIDE DEF x
<1>6. /\ x \in Seq(StreamBytes) /\ Len(x) = r
      /\ \A k \in 1 .. r : x[k] = StreamByte(r, k-1)
  <2>1. /\ x \in Seq(StreamBytes) /\ Len(x) = r
        /\ \A k \in 1 .. r : x[k] = StreamByte(r, 0*r + (k-1))
    BY <1>1, <1>5, SqueezedIs
  <2>2. \A k \in 1 .. r : 0*r + (k-1) = k-1
    BY <1>1
  <2>3. QED
    BY <2>1, <2>2
<1>7. 1 \in 1 .. Len(x) + 1 /\ l \in 1-1 .. Len(x) /\ l - 1 + 1 = l
  BY <1>1, <1>4, <1>6
<1>8. q \in Seq(StreamBytes) /\ Len(q) = l - 1 + 1 /\ \A k \in 1 .. l - 1 + 1 : q[k] = x[1 + k - 1]
  BY <1>6, <1>7, SubSequence
<1>9. \A k \in 1 .. l : 1 + k - 1 = k /\ k \in 1 .. r
  BY <1>1, <1>4
<1> HIDE DEF q
<1>10. Len(q) = l /\ \A k \in 1 .. Len(q) : q[k] = StreamByte(r, k-1)
  BY <1>6, <1>7, <1>8, <1>9
<1>11. q = StreamPrefix(r, Len(q))
  BY <1>8, <1>10, PrefixFrom
<1>12. QED
  BY <1>2, <1>10, <1>11 DEF r

\* fips202.c: what has been absorbed is the message, and what has been squeezed the stream
\* up to the last permutation.
SpongeFilled(p) ==
    /\ sponge = [blocks |-> Sponge!Absorb(fn, m).blocks, permuted |-> p]
    /\ squeezed = StreamPrefix(SpongeRate, p*SpongeRate)

SpongeInv ==
    component = "sponge" =>
        /\ fn \in DOMAIN Rates /\ m \in Seq(SpongeBytes)
        /\ \/ sponge = Sponge!NoState /\ squeezed = <<>>
           \/ \E p \in Nat : SpongeFilled(p)

\* The bytes of a message are bytes.
LEMMA MessageOfBytes ==
    ASSUME m \in Seq(SpongeBytes)
    PROVE  m \in Seq(0 .. 255)
<1>1. SpongeBytes \subseteq 0 .. 255
  BY BytesAssumption
<1>2. QED
  BY ZenonT(40), <1>1, SeqOfMore

\* A state that has absorbed a message has a block.
LEMMA HasBlock ==
    ASSUME fn \in DOMAIN Rates, m \in Seq(SpongeBytes)
    PROVE  sponge = Sponge!NoState => ~ \E p \in Nat : SpongeFilled(p)
<1>1. DOMAIN Sponge!Absorb(fn, m).blocks # {}
  <2>1. SpongeRate \in Nat \ {0} /\ Sponge!Suffix(fn) \in {6, 31}
    BY RatesAre
  <2>2. m \in Seq(0 .. 255)
    BY MessageOfBytes
  <2> DEFINE r == SpongeRate
             s0 == Sponge!Suffix(fn)
  <2>3. r \in Nat \ {0} /\ s0 \in {6, 31} /\ Sponge!Absorb(fn, m) = Sponge!keccak_absorb(r, m, s0)
    BY <2>1 DEF Sponge!Absorb, SpongeRate
  <2> HIDE DEF r, s0
  <2> DEFINE c == Len(m) \div r
  <2>4. c \in Nat /\ DOMAIN Sponge!keccak_absorb(r, m, s0).blocks = 1 .. c + 1
    BY ZenonT(40), <2>2, <2>3, BlocksAre DEF FullBlocks
  <2> HIDE DEF c
  <2>5. 1 \in 1 .. c + 1
    BY <2>4
  <2>6. QED
    BY <2>3, <2>4, <2>5
<1>2. sponge = Sponge!NoState => DOMAIN sponge.blocks = {}
  BY DEF Sponge!NoState
<1>3. \A p \in Nat : SpongeFilled(p) => sponge.blocks = Sponge!Absorb(fn, m).blocks
  BY DEF SpongeFilled
<1>4. QED
  BY <1>1, <1>2, <1>3

LEMMA SpongeAbsorbed ==
    ASSUME fn \in DOMAIN Rates, m \in Seq(SpongeBytes), squeezed = <<>>,
           fn' = fn, m' = m, squeezed' = squeezed, sponge' = Sponge!Absorb(fn, m)
    PROVE  SpongeFilled(0)'
<1>1. sponge' = [blocks |-> Sponge!Absorb(fn, m).blocks, permuted |-> 0]
  BY DEF Sponge!Absorb, Sponge!keccak_absorb
<1>2. SpongeRate \in Nat \ {0}
  BY RatesAre
<1> DEFINE r == SpongeRate
           x == StreamPrefix(r, 0)
<1> HIDE DEF r
<1>3. x \in Seq(StreamBytes) /\ Len(x) = 0
  BY <1>2, PrefixIs DEF r
<1>4. x = <<>>
  <2> HIDE DEF x
  <2>1. QED
    BY <1>3
<1>5. 0*r = 0
  BY <1>2 DEF r
<1>6. squeezed' = StreamPrefix(SpongeRate, 0*SpongeRate)
  BY <1>4, <1>5 DEF r
<1>7. SpongeRate' = SpongeRate /\ Sponge!Absorb(fn', m') = Sponge!Absorb(fn, m)
  BY DEF SpongeRate
<1>8. QED
  BY <1>1, <1>6, <1>7 DEF SpongeFilled

LEMMA AbsorbSeedStep ==
    ASSUME fn \in DOMAIN Rates, m \in Seq(SpongeBytes), squeezed = <<>>, Sponge!AbsorbSeed
    PROVE  SpongeFilled(0)'
<1>1. /\ fn = "shake128" /\ Len(m) >= 2
      /\ sponge' = Sponge!kyber_shake128_absorb(SubSeq(m, 1, Len(m) - 2), m[Len(m) - 1], m[Len(m)])
      /\ fn' = fn /\ m' = m /\ squeezed' = squeezed
  BY DEF Sponge!AbsorbSeed
<1> DEFINE l == Len(m)
           a == SubSeq(m, 1, l - 2)
           b == <<m[l - 1], m[l]>>
           t == a \o b
           S == SpongeBytes
<1>2. m \in Seq(S) /\ l \in Nat /\ l >= 2
  BY <1>1
<1> HIDE DEF S
<1>3. a \in Seq(S) /\ Len(a) = l - 2 /\ \A k \in 1 .. l - 2 : a[k] = m[k]
  <2>1. 1 \in 1 .. l + 1 /\ l - 2 \in 1-1 .. l /\ (l - 2) - 1 + 1 = l - 2
    BY <1>2
  <2>2. a \in Seq(S) /\ Len(a) = (l - 2) - 1 + 1 /\ \A k \in 1 .. (l - 2) - 1 + 1 : a[k] = m[1 + k - 1]
    BY <1>2, <2>1, SubSequence
  <2>3. \A k \in 1 .. l - 2 : 1 + k - 1 = k
    OBVIOUS
  <2> HIDE DEF a
  <2>4. QED
    BY <2>1, <2>2, <2>3
<1>4. b \in Seq(S) /\ Len(b) = 2 /\ b[1] = m[l - 1] /\ b[2] = m[l]
  <2>1. m[l - 1] \in S /\ m[l] \in S
    BY <1>2
  <2>2. QED
    BY <2>1
<1>5. sponge' = Sponge!Absorb(fn, t)
  BY <1>1 DEF Sponge!kyber_shake128_absorb
<1> HIDE DEF a, b
<1>6. /\ t \in Seq(S) /\ Len(t) = Len(a) + Len(b)
      /\ \A k \in 1 .. Len(a) : t[k] = a[k]
      /\ \A k \in Len(a)+1 .. Len(a) + Len(b) : t[k] = b[k - Len(a)]
  BY ZenonT(40), <1>3, <1>4, Joined
<1> HIDE DEF t
<1>7. Len(t) = l
  BY <1>2, <1>3, <1>4, <1>6
<1>8. ASSUME NEW k \in 1 .. l PROVE t[k] = m[k]
  <2>1. CASE k <= l - 2
    BY <1>2, <1>3, <1>6, <2>1
  <2>2. CASE k = l - 1
    <3>1. k \in (l-2) + 1 .. (l-2) + 2 /\ k - (l-2) = 1
      BY <1>2, <2>2
    <3>2. t[k] = b[1]
      BY <1>3, <1>4, <1>6, <3>1
    <3>3. QED
      BY <1>4, <2>2, <3>2
  <2>3. CASE k = l
    <3>1. k \in (l-2) + 1 .. (l-2) + 2 /\ k - (l-2) = 2
      BY <1>2, <2>3
    <3>2. t[k] = b[2]
      BY <1>3, <1>4, <1>6, <3>1
    <3>3. QED
      BY <1>4, <2>3, <3>2
  <2>4. k <= l - 2 \/ k = l - 1 \/ k = l
    BY <1>2
  <2>5. QED
    BY <2>1, <2>2, <2>3, <2>4
<1>9. t = m
  BY <1>2, <1>6, <1>7, <1>8
<1>10. QED
  BY <1>1, <1>5, <1>9, SpongeAbsorbed

LEMMA SqueezeStep ==
    ASSUME fn \in DOMAIN Rates, NEW p \in Nat, SpongeFilled(p), Sponge!SqueezeBlocks
    PROVE  \E p0 \in Nat : SpongeFilled(p0)'
<1> DEFINE r == SpongeRate
<1>1. r \in Nat \ {0}
  BY RatesAre
<1>2. /\ sponge = [blocks |-> Sponge!Absorb(fn, m).blocks, permuted |-> p]
      /\ squeezed = StreamPrefix(r, p*r)
  BY DEF SpongeFilled
<1>3. PICK c \in 1 .. MaxSqueezed - sponge.permuted :
          /\ squeezed' = squeezed \o Sponge!keccak_squeezeblocks(r, c, sponge).out
          /\ sponge' = Sponge!keccak_squeezeblocks(r, c, sponge).s
          /\ fn' = fn /\ m' = m
  BY DEF Sponge!SqueezeBlocks, SpongeRate
<1> HIDE DEF r
<1>4. sponge.permuted = p /\ sponge.blocks = Sponge!Absorb(fn, m).blocks
  BY <1>2
<1>5. c \in Nat
  BY <1>4, BytesAssumption
<1> DEFINE q == Squeezed(r, p, c*r)
<1>6. squeezed' = StreamPrefix(r, p*r) \o q
  <2>1. Sponge!keccak_squeezeblocks(r, c, sponge).out
            = [k \in 1 .. c*r |-> [i |-> (k-1) % r, after |-> p + 1 + ((k-1) \div r)]]
    BY <1>4 DEF Sponge!keccak_squeezeblocks
  <2>2. QED
    BY <1>2, <1>3, <2>1 DEF Squeezed
<1>7. sponge' = [blocks |-> Sponge!Absorb(fn, m).blocks, permuted |-> p + c]
  <2>1. sponge' = [sponge EXCEPT !.permuted = @ + c]
    BY <1>3 DEF Sponge!keccak_squeezeblocks
  <2>2. QED
    BY <1>2, <2>1
<1> DEFINE w == c*r
<1>8. w \in Nat /\ p*r + w = (p + c)*r /\ p + c \in Nat
  <2>1. 0*r <= w /\ 0*r = 0 /\ w \in Int
    BY <1>1, <1>5, TimesMonotonic, 0 <= c, c \in Int
  <2>2. p*r + w = (p + c)*r
    BY <1>1, <1>5
  <2>3. QED
    BY <1>5, <2>1, <2>2
<1>9. /\ q \in Seq(StreamBytes) /\ Len(q) = w
      /\ \A k \in 1 .. w : q[k] = StreamByte(r, p*r + (k-1))
  <2> HIDE DEF w
  <2> DEFINE x == Squeezed(r, p, w)
  <2>1. x \in Seq(StreamBytes) /\ Len(x) = w /\ \A k \in 1 .. w : x[k] = StreamByte(r, p*r + (k-1))
    BY <1>1, <1>8, SqueezedIs
  <2>2. q = x
    BY DEF w
  <2> HIDE DEF x, q
  <2>3. QED
    BY <2>1, <2>2
<1> HIDE DEF q, w
<1>10. squeezed' = StreamPrefix(r, (p + c)*r)
  <2>1. StreamPrefix(r, p*r) \o q = StreamPrefix(r, p*r + w)
    BY ZenonT(40), <1>1, <1>8, <1>9, PrefixGrows
  <2>2. QED
    BY <1>6, <1>8, <2>1, Zenon
<1>11. SpongeRate' = r /\ Sponge!Absorb(fn', m').blocks = Sponge!Absorb(fn, m).blocks
  BY <1>3 DEF SpongeRate, r
<1>12. SpongeFilled(p + c)'
  BY <1>7, <1>10, <1>11 DEF SpongeFilled
<1>13. QED
  BY <1>8, <1>12

LEMMA SpongeInvariant == ExchangesSpec => []SpongeInv
<1>1. ExchangesInit => SpongeInv
  <2> SUFFICES ASSUME ExchangesInit, component = "sponge" PROVE SpongeInv
    BY DEF SpongeInv
  <2>1. Sponge!Init
    BY DEF ExchangesInit
  <2>2. QED
    BY <2>1 DEF Sponge!Init, SpongeInv
<1>2. ASSUME SpongeInv, [ExchangesNext]_ExchangesVars PROVE SpongeInv'
  <2>1. CASE component = "sponge" /\ Sponge!Next
    <3>1. component = "sponge" /\ component' = component
      BY <1>2, <2>1 DEF ExchangesNext, ExchangesVars
    <3>2. fn \in DOMAIN Rates /\ m \in Seq(SpongeBytes)
      BY <1>2, <3>1 DEF SpongeInv
    <3>3. CASE Sponge!Grow
      <4>1. /\ sponge = Sponge!NoState /\ UNCHANGED <<fn, sponge, squeezed>>
            /\ \E b \in SpongeBytes : m' = Append(m, b)
        BY <3>3 DEF Sponge!Grow
      <4>2. m' \in Seq(SpongeBytes)
        BY <3>2, <4>1
      <4>3. ~ \E p \in Nat : SpongeFilled(p)
        BY <3>2, <4>1, HasBlock
      <4>4. sponge = Sponge!NoState /\ squeezed = <<>>
        BY <1>2, <3>1, <4>3 DEF SpongeInv
      <4>5. sponge' = Sponge!NoState /\ squeezed' = <<>> /\ fn' \in DOMAIN Rates
        BY <3>2, <4>1, <4>4
      <4>6. QED
        BY <4>2, <4>5 DEF SpongeInv, Sponge!NoState
    <3>4. CASE Sponge!AbsorbAll \/ Sponge!AbsorbSeed
      <4>1. sponge = Sponge!NoState /\ fn' = fn /\ m' = m /\ squeezed' = squeezed
        BY <3>4 DEF Sponge!AbsorbAll, Sponge!AbsorbSeed
      <4>2. squeezed = <<>>
        BY <1>2, <3>1, <3>2, <4>1, HasBlock DEF SpongeInv
      <4>3. SpongeFilled(0)'
        <5>1. CASE Sponge!AbsorbAll
          <6>1. sponge' = Sponge!Absorb(fn, m)
            BY <5>1 DEF Sponge!AbsorbAll
          <6>2. QED
            BY <3>2, <4>1, <4>2, <6>1, SpongeAbsorbed
        <5>2. CASE Sponge!AbsorbSeed
          BY <3>2, <4>2, <5>2, AbsorbSeedStep
        <5>3. QED
          BY <3>4, <5>1, <5>2
      <4>4. QED
        BY <3>2, <4>1, <4>3 DEF SpongeInv
    <3>5. CASE Sponge!SqueezeBlocks
      <4>1. sponge # Sponge!NoState /\ fn' = fn /\ m' = m
        BY <3>5 DEF Sponge!SqueezeBlocks
      <4>2. PICK p \in Nat : SpongeFilled(p)
        BY <1>2, <3>1, <4>1 DEF SpongeInv
      <4>3. \E p0 \in Nat : SpongeFilled(p0)'
        BY <3>2, <3>5, <4>2, SqueezeStep
      <4>4. QED
        BY <3>2, <4>1, <4>3 DEF SpongeInv
    <3>6. QED
      BY <2>1, <3>3, <3>4, <3>5 DEF Sponge!Next
  <2>2. CASE ~(component = "sponge" /\ Sponge!Next)
    <3>1. component' = component /\ (component = "sponge" => UNCHANGED spongeVars)
      BY <1>2, <2>2 DEF ExchangesNext, ExchangesVars
    <3>2. QED
      BY <1>2, <3>1 DEF SpongeInv, SpongeFilled, SpongeRate, spongeVars
  <2>3. QED
    BY <2>1, <2>2
<1>3. QED
  BY <1>1, <1>2, PTL DEF ExchangesSpec

\* Read back from the blocks of a message: the message and its suffix, and nothing else.
LEMMA ReadBack ==
    ASSUME fn \in DOMAIN Rates, m \in Seq(SpongeBytes), NEW p \in Nat, SpongeFilled(p)
    PROVE  Sponge!PaddingIsInjective
<1> DEFINE r  == SpongeRate
           s0 == Sponge!Suffix(fn)
           size == Len(m)
           whole == size \div r
           B == sponge.blocks
           N == (whole + 1)*r
           all == [k \in 1 .. Len(B)*r |-> B[((k-1) \div r) + 1][((k-1) % r) + 1]]
           plain == [all EXCEPT ![Len(all)] = @ - 128]
           IsLast(k) == plain[k] # 0 /\ \A l \in k+1 .. Len(all) : plain[l] = 0
<1>1. r \in Nat \ {0} /\ s0 \in {6, 31}
  BY RatesAre
<1>2. m \in Seq(0 .. 255)
  BY MessageOfBytes
<1>3. B = Sponge!keccak_absorb(r, m, s0).blocks
  BY DEF SpongeFilled, Sponge!Absorb, SpongeRate
<1> HIDE DEF r, s0, B
<1>4. /\ whole \in Nat /\ size < (whole + 1)*r
      /\ Len(B) = whole + 1
      /\ DOMAIN B = 1 .. whole + 1
      /\ \A k \in 1 .. whole + 1 :
            /\ Len(B[k]) = r
            /\ \A l \in 1 .. r :
                  B[k][l] = Padded(m, s0, (k-1)*r + l) + (IF k = whole + 1 /\ l = r THEN 128 ELSE 0)
  <2>1. FullBlocks(r, m, s0, B, whole)
    BY <1>1, <1>2, <1>3, BlocksAre, Zenon
  <2> HIDE DEF whole
  <2>2. QED
    BY <2>1 DEF FullBlocks
<1>5. size \in Nat
  BY <1>2
<1> HIDE DEF whole
<1>6. N \in Nat /\ N = whole*r + r /\ size < N /\ Len(B)*r = N
  <2>1. N = whole*r + r /\ N \in Int
    BY <1>1, <1>4
  <2>2. QED
    BY <1>4, <1>5, <2>1
<1>7. ASSUME NEW k \in 1 .. N
      PROVE  all[k] = Padded(m, s0, k) + (IF k = N THEN 128 ELSE 0)
  <2> DEFINE y == k - 1
             a == y \div r
             b == y % r
  <2>1. y \in Nat /\ y < N
    BY <1>6
  <2>2. all[k] = B[a + 1][b + 1]
    BY <1>6
  <2> HIDE DEF y, all
  <2>3. a \in Int /\ b \in 0 .. r-1 /\ y = a*r + b
    BY <1>1, <2>1, y \in Int, DivisionWithRest
  <2>4. a >= 0
    BY <1>1, <2>1
  <2> HIDE DEF a, b
  <2>5. a < whole + 1
    <3> DEFINE w == a*r
    <3>1. w \in Int
      BY <1>1, <2>3
    <3> HIDE DEF w
    <3>2. y = w + b /\ w < N
      <4>1. y = w + b
        BY <2>3 DEF w
      <4> HIDE DEF N
      <4>2. N \in Nat
        BY <1>6
      <4>3. QED
        BY <1>1, <2>1, <2>3, <3>1, <4>1, <4>2
    <3>3. a*r < (whole + 1)*r
      BY <3>2 DEF w
    <3>4. QED
      BY <1>1, <1>4, <2>3, <3>3, LessByTimes
  <2>6. a + 1 \in 1 .. whole + 1 /\ b + 1 \in 1 .. r /\ (a + 1) - 1 = a
    BY <1>1, <1>4, <2>3, <2>4, <2>5
  <2>7. a*r + (b + 1) = k
    <3> DEFINE w == a*r
    <3>1. w \in Int
      BY <1>1, <2>3
    <3>2. y = w + b
      BY <2>3
    <3> HIDE DEF w
    <3>3. w + (b + 1) = y + 1
      BY <2>3, <3>1, <3>2
    <3>4. y + 1 = k
      BY DEF y
    <3>5. QED
      BY <3>3, <3>4 DEF w
  <2>8. B[a + 1][b + 1] = Padded(m, s0, k) + (IF a + 1 = whole + 1 /\ b + 1 = r THEN 128 ELSE 0)
    <3>1. \A l \in 1 .. r :
             B[a + 1][l] = Padded(m, s0, ((a + 1)-1)*r + l) + (IF a + 1 = whole + 1 /\ l = r THEN 128 ELSE 0)
      BY <1>4, <2>6
    <3>2. B[a + 1][b + 1] = Padded(m, s0, ((a + 1)-1)*r + (b + 1)) + (IF a + 1 = whole + 1 /\ b + 1 = r THEN 128 ELSE 0)
      BY <2>6, <3>1
    <3>3. QED
      BY <2>6, <2>7, <3>2
  <2>9. k = N <=> a + 1 = whole + 1 /\ b + 1 = r
    <3>1. k = N <=> a*r + (b + 1) = whole*r + r
      BY <1>6, <2>7
    <3>2. (a + 1 = whole + 1 /\ b + 1 = r) => a*r + (b + 1) = whole*r + r
      BY <1>4, <2>3
    <3>3. ASSUME a*r + (b + 1) = whole*r + r PROVE a = whole /\ b = r-1
      <4> DEFINE w == a*r
                 z == whole*r
      <4>1. w \in Int /\ z \in Int
        BY SMTT(30), <1>1, <1>4, <2>3
      <4> HIDE DEF w, z
      <4>2. w + (b + 1) = z + r
        BY <3>3 DEF w, z
      <4>3. w + b = z + (r-1)
        BY <1>1, <2>3, <4>1, <4>2
      <4>4. a*r + b = whole*r + (r-1)
        BY <4>3 DEF w, z
      <4>5. r-1 \in 0 .. r-1 /\ whole \in Int
        BY <1>1, <1>4
      <4>6. QED
        BY <1>1, <2>3, <4>4, <4>5, OneRest
    <3>4. QED
      BY <1>1, <3>1, <3>2, <3>3
  <2>10. QED
    BY <2>2, <2>8, <2>9
<1>8. DOMAIN all = 1 .. N
  BY <1>6
<1>9. \A k \in 1 .. N : Padded(m, s0, k) \in Int
  <2>1. \A k \in 1 .. size : m[k] \in Int
    BY <1>2, BytesAreNumbers
  <2>2. QED
    BY <1>1, <1>5, <2>1 DEF Padded
<1>10. ASSUME NEW k \in 1 .. N PROVE all[k] \in Int
  <2>1. Padded(m, s0, k) \in Int
    BY <1>9
  <2> HIDE DEF all
  <2>2. QED
    BY <1>7, <2>1
<1>11. all = [k \in 1 .. N |-> all[k]]
  BY <1>6, <1>8
<1> HIDE DEF all
<1>12. all \in Seq(Int) /\ Len(all) = N
  <2> DEFINE q == [k \in 1 .. N |-> all[k]]
  <2>1. q \in Seq(Int) /\ Len(q) = N
    BY <1>6, <1>10, FunctionIsSeq
  <2>2. QED
    BY <1>11, <2>1
<1> HIDE DEF N
<1>13. ASSUME NEW k \in 1 .. N PROVE plain[k] = Padded(m, s0, k)
  <2>1. all[k] = Padded(m, s0, k) + (IF k = N THEN 128 ELSE 0) /\ Padded(m, s0, k) \in Int
    BY <1>7, <1>9
  <2>2. plain[k] = IF k = N THEN all[k] - 128 ELSE all[k]
    BY <1>8, <1>12
  <2> HIDE DEF plain
  <2>3. QED
    BY <2>1, <2>2
<1>14. DOMAIN plain = 1 .. N
  BY <1>8
<1> HIDE DEF plain
<1>15. IsLast(size + 1)
  <2>1. size + 1 \in 1 .. N
    BY <1>5, <1>6
  <2>2. plain[size + 1] = s0
    BY <1>5, <1>13, <2>1 DEF Padded
  <2>3. ASSUME NEW l \in (size + 1)+1 .. N PROVE plain[l] = 0
    <3>1. l \in 1 .. N /\ ~(l <= size) /\ l # size + 1
      BY <1>5, <1>6
    <3>2. QED
      BY <1>13, <3>1 DEF Padded
  <2>4. s0 # 0
    BY <1>1
  <2>5. QED
    BY <1>12, <2>2, <2>3, <2>4
<1>16. ASSUME NEW k \in 1 .. N, IsLast(k) PROVE k = size + 1
  <2>1. CASE k <= size
    <3>1. size + 1 \in k+1 .. N
      BY <1>5, <1>6, <2>1
    <3>2. plain[size + 1] = 0
      BY <1>12, <1>16, <3>1
    <3>3. plain[size + 1] = s0
      BY <1>5, <1>6, <1>13, <3>1, size + 1 \in 1 .. N DEF Padded
    <3>4. QED
      BY <1>1, <3>2, <3>3
  <2>2. CASE k > size + 1
    <3>1. plain[k] = 0
      BY <1>5, <1>13, <2>2 DEF Padded
    <3>2. QED
      BY <1>16, <3>1
  <2>3. QED
    BY <1>5, <1>6, <2>1, <2>2
<1>17. plain[size + 1] = s0 /\ size + 1 \in 1 .. N
  <2>1. size + 1 \in 1 .. N
    BY <1>5, <1>6
  <2>2. QED
    BY <1>5, <1>13, <2>1 DEF Padded
<1>18. SubSeq(all, 1, (size + 1) - 1) = m
  <2> DEFINE q == SubSeq(all, 1, size)
  <2>1. 1 \in 1 .. Len(all) + 1 /\ size \in 1-1 .. Len(all) /\ size - 1 + 1 = size
    BY <1>5, <1>6, <1>12
  <2>2. q \in Seq(Int) /\ Len(q) = size - 1 + 1 /\ \A k \in 1 .. size - 1 + 1 : q[k] = all[1 + k - 1]
    BY <1>12, <2>1, SubSequence
  <2>3. (size + 1) - 1 = size
    BY <1>5
  <2> HIDE DEF q
  <2>4. ASSUME NEW k \in 1 .. size PROVE q[k] = m[k]
    <3>1. 1 + k - 1 = k /\ k \in 1 .. N /\ k # N /\ k <= size
      BY <1>5, <1>6
    <3>2. q[k] = all[k]
      BY <2>1, <2>2, <3>1
    <3>3. all[k] = m[k] + 0
      BY <1>7, <3>1 DEF Padded
    <3>4. m[k] \in Int
      BY <1>2, BytesAreNumbers
    <3>5. QED
      BY <3>2, <3>3, <3>4
  <2>5. m \in Seq(Int) /\ Len(m) = size
    BY <1>2, BytesAreNumbers
  <2>6. q = m
    BY <2>1, <2>2, <2>4, <2>5
  <2>7. QED
    BY <2>3, <2>6 DEF q
<1>19. {<<SubSeq(all, 1, k - 1), plain[k]>> : k \in {k0 \in DOMAIN all : IsLast(k0)}} = {<<m, s0>>}
  <2>1. {k0 \in DOMAIN all : IsLast(k0)} = {size + 1}
    <3> HIDE DEF IsLast, size
    <3>1. QED
      BY <1>8, <1>15, <1>16, <1>17
  <2>2. QED
    BY <1>17, <1>18, <2>1
<1>20. Sponge!Absorbed = {<<m, s0>>}
  <2>1. Sponge!Absorbed = {<<SubSeq(all, 1, k - 1), plain[k]>> : k \in {k0 \in DOMAIN all : IsLast(k0)}}
    BY DEF Sponge!Absorbed, all, plain, B, r, SpongeRate
  <2>2. QED
    BY <1>19, <2>1
<1>21. \A k \in DOMAIN B : Len(B[k]) = r
  BY <1>4
<1>22. QED
  BY <1>20, <1>21, Zenon DEF Sponge!PaddingIsInjective, B, r, s0, SpongeRate

LEMMA OneStreamOut ==
    ASSUME fn \in DOMAIN Rates, m \in Seq(SpongeBytes), NEW p \in Nat, SpongeFilled(p)
    PROVE  Sponge!OutputIsOneStream
<1>1. \A l : StreamPrefix(Rates[fn], l) = [k \in 1 .. l |-> Sponge!Stream(k - 1)]
  BY DEF StreamPrefix, StreamByte, Sponge!Stream
<1>2. \A q, l : Sponge!IsStream(q, l) <=> q = StreamPrefix(Rates[fn], l)
  BY <1>1, Zenon DEF Sponge!IsStream
<1>3. SpongeRate \in Nat /\ MaxSqueezed \in Nat
  BY RatesAre, BytesAssumption
<1>4. \A l \in 0 .. MaxSqueezed * Rates[fn] : l \in Nat
  <2> DEFINE w == MaxSqueezed * Rates[fn]
  <2>1. w \in Int
    BY <1>3 DEF SpongeRate
  <2> HIDE DEF w
  <2>2. \A l \in 0 .. w : l \in Nat
    BY <2>1
  <2>3. QED
    BY <2>2 DEF w
<1>5. Sponge!IsStream(squeezed, sponge.permuted * Rates[fn])
  BY <1>2, Zenon DEF SpongeFilled, SpongeRate
<1>6. ASSUME fn \in Sponge!Shake, NEW l \in 0 .. MaxSqueezed * Rates[fn]
      PROVE  Sponge!IsStream(Sponge!shake(fn, l, m), l)
  BY <1>2, <1>4, <1>6, ShakeIsPrefix DEF Sponge!Shake
<1>7. ASSUME fn = "shake256", NEW l \in 0 .. MaxSqueezed * Rates[fn]
      PROVE  Sponge!IsStream(Sponge!kyber_shake256_prf(l, Sponge!Front(m), Sponge!Last(m)), l)
  <2>1. Sponge!shake("shake256", l, Sponge!Front(m) \o <<Sponge!Last(m)>>) = StreamPrefix(Rates["shake256"], l)
    BY <1>4, ShakeIsPrefix
  <2>2. Sponge!kyber_shake256_prf(l, Sponge!Front(m), Sponge!Last(m)) = Sponge!shake("shake256", l, Sponge!Front(m) \o <<Sponge!Last(m)>>)
    BY Zenon DEF Sponge!kyber_shake256_prf
  <2>3. QED
    BY <1>2, <1>7, <2>1, <2>2
<1>8. ASSUME NEW l \in 0 .. Rates[fn]
      PROVE  Sponge!IsStream(Sponge!sha3(fn, l, m), l)
  BY <1>2, Sha3IsPrefix
<1>9. QED
  BY <1>5, <1>6, <1>7, <1>8, Zenon DEF Sponge!OutputIsOneStream

\* However requests are cut, each source hands out one stream: the functions of fips202.c
\* absorb no two messages alike and give prefixes of one output; seedexpander and
\* randombytes of rng.c give every byte of their blocks once, and none that the next key
\* is made of; randombytes.c writes as many bytes as were asked for.
THEOREM StreamsAreWholeHolds == ExchangesSpec => []StreamsAreWhole
<1>1. ASSUME SpongeInv, component = "sponge" PROVE Sponge!PaddingIsInjective /\ Sponge!OutputIsOneStream
  <2>1. fn \in DOMAIN Rates /\ m \in Seq(SpongeBytes)
    BY <1>1 DEF SpongeInv
  <2>2. CASE sponge = Sponge!NoState
    BY <2>2 DEF Sponge!PaddingIsInjective, Sponge!OutputIsOneStream
  <2>3. CASE \E p \in Nat : SpongeFilled(p)
    <3>1. PICK p \in Nat : SpongeFilled(p)
      BY <2>3
    <3>2. QED
      BY <2>1, <3>1, ReadBack, OneStreamOut
  <2>4. QED
    BY <1>1, <2>2, <2>3 DEF SpongeInv
<1>2. SpongeInv /\ SeedInv /\ DrbgInv /\ RandomInv => StreamsAreWhole
  BY <1>1, SeedHolds, DrbgHolds, RandomHolds DEF StreamsAreWhole
<1>3. QED
  BY <1>2, SpongeInvariant, SeedInvariant, DrbgInvariant, RandomInvariant, PTL
=============================================================================
