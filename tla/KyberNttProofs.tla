---------------------------- MODULE KyberNttProofs ----------------------------
(***************************************************************************)
(* montgomery_reduce and barrett_reduce return what their comments say for *)
(* every argument in the range they ask for, and the loops of ntt and      *)
(* invntt never leave that range, whatever the tables of zetas are.        *)
(***************************************************************************)
EXTENDS KyberNtt, TLAPS

LEMMA Int16Congruent ==
    ASSUME NEW x \in Int
    PROVE  /\ Int16(x) \in Int /\ FitsInt16(Int16(x))
           /\ \E m \in Int : Int16(x) = x + m * 65536
<1>1. Int16(x) \in Int /\ FitsInt16(Int16(x))
  BY DEF Int16, FitsInt16
<1>2. Int16(x) = x + (-((x + 32768) \div 65536)) * 65536
  BY DEF Int16
<1> QED BY <1>1, <1>2

LEMMA Int16Fits ==
    ASSUME NEW x \in Int, FitsInt16(x)
    PROVE  Int16(x) = x
  BY DEF Int16, FitsInt16

\* montgomery_reduce: "integer in {-q+1,...,q-1} congruent to a * R^-1 modulo q".
THEOREM MontgomeryReduce ==
    ASSUME NEW a \in Int, Reducible(a)
    PROVE  /\ Within(montgomery_reduce(a), KYBER_Q - 1)
           /\ \E m \in Int : R * montgomery_reduce(a) = a + KYBER_Q * m
<1> DEFINE l == Int16(a)
           u == Int16(l * QINV)
           d == (a - u * KYBER_Q) \div R
<1>1. montgomery_reduce(a) = Int16(d)
  BY DEF montgomery_reduce
<1>2. l \in Int /\ \E m \in Int : l = a + m * 65536
  BY Int16Congruent
<1>3. l * QINV \in Int
  BY <1>2 DEF QINV
<1>4. /\ u \in Int /\ FitsInt16(u)
      /\ \E m \in Int : u = l * QINV + m * 65536
  BY <1>3, Int16Congruent
<1> HIDE DEF l, u
<1>5. PICK x \in Int : a - u * KYBER_Q = x * R
  <2>1. PICK m1 \in Int : l = a + m1 * 65536
    BY <1>2
  <2>2. PICK m2 \in Int : u = l * QINV + m2 * 65536
    BY <1>4
  <2>3. a - u * KYBER_Q = (-3160 * l - m2 * KYBER_Q - m1) * R
    BY <2>1, <2>2, <1>2, <1>4 DEF QINV, KYBER_Q, R
  <2>4. -3160 * l - m2 * KYBER_Q - m1 \in Int
    BY <1>2 DEF KYBER_Q
  <2>5. QED BY <2>3, <2>4
<1>6. d = x
  <2>1. (x * 65536) \div 65536 = x
    OBVIOUS
  <2>2. QED BY <2>1, <1>5 DEF R
<1> HIDE DEF d
<1>7. Within(d, KYBER_Q - 1)
  BY <1>4, <1>5, <1>6 DEF KYBER_Q, R, Within, FitsInt16, Reducible
<1>8. Int16(d) = d
  BY <1>7, Int16Fits DEF Within, FitsInt16, KYBER_Q
<1>9. -u \in Int /\ R * d = a + KYBER_Q * (-u)
  BY <1>4, <1>5, <1>6 DEF R, KYBER_Q
<1> QED BY <1>1, <1>7, <1>8, <1>9

\* barrett_reduce: "integer in {0,...,q} congruent to a modulo q".  For a = -32768
\* the product t * KYBER_Q does not fit an int16_t; the difference does again.
THEOREM BarrettReduce ==
    ASSUME NEW a \in Int, FitsInt16(a)
    PROVE  /\ barrett_reduce(a) \in Int /\ 0 <= barrett_reduce(a) /\ barrett_reduce(a) <= KYBER_Q
           /\ \E m \in Int : barrett_reduce(a) = a + KYBER_Q * m
<1> DEFINE t == (barrett_v * a) \div 67108864
<1>1. t \in Int /\ t * 67108864 <= 20159 * a /\ 20159 * a < t * 67108864 + 67108864
  BY DEF barrett_v, KYBER_Q
<1>2. barrett_reduce(a) = Int16(a - Int16(Int16(t) * KYBER_Q))
  BY DEF barrett_reduce
<1> HIDE DEF t
<1>3. 0 <= a - t * 3329 /\ a - t * 3329 <= 3329
  BY <1>1 DEF FitsInt16
<1>4. FitsInt16(t) /\ t * KYBER_Q \in Int
  BY <1>1 DEF FitsInt16, KYBER_Q
<1>5. PICK m \in Int : Int16(t * KYBER_Q) = t * KYBER_Q + m * 65536
  BY <1>4, Int16Congruent
<1>6. barrett_reduce(a) = Int16(a - (t * KYBER_Q + m * 65536))
  BY <1>1, <1>2, <1>4, <1>5, Int16Fits
<1>7. a - (t * KYBER_Q + m * 65536) \in Int
  BY <1>4
<1>8. PICK n \in Int : barrett_reduce(a) = a - (t * KYBER_Q + m * 65536) + n * 65536
  BY <1>6, <1>7, Int16Congruent
<1>9. barrett_reduce(a) \in Int /\ FitsInt16(barrett_reduce(a))
  BY <1>6, <1>7, Int16Congruent
<1>10. n = m
  BY <1>1, <1>3, <1>8, <1>9 DEF FitsInt16, KYBER_Q
<1>11. barrett_reduce(a) = a - t * 3329
  BY <1>1, <1>8, <1>10 DEF KYBER_Q
<1>12. -t \in Int /\ a - t * 3329 = a + 3329 * (-t)
  BY <1>1
<1> QED BY <1>1, <1>3, <1>11, <1>12 DEF KYBER_Q
-----------------------------------------------------------------------------
USE DEF KYBER_Q, KYBER_N

LEMMA ZetaRange ==
    ASSUME NEW i \in Nat, i < 128
    PROVE  /\ zetas[i] \in Int /\ 0 <= zetas[i] /\ zetas[i] <= 3328
           /\ zetas_inv[i] \in Int /\ 0 <= zetas_inv[i] /\ zetas_inv[i] <= 3328
<1>1. i \in 0 .. 127
  OBVIOUS
<1> QED BY <1>1, ZetasAssumption

\* A product with a factor of less than q in absolute value is in the range that
\* montgomery_reduce asks for, whatever int16_t the other one is.
LEMMA FqmulRange ==
    ASSUME NEW a \in Int, -3328 <= a, a <= 3328, NEW b \in Int, FitsInt16(b)
    PROVE  /\ Reducible(a * b) /\ Within(fqmul(a, b), 3328)
           /\ Reducible(b * a) /\ Within(fqmul(b, a), 3328)
<1>1. a * b \in Int /\ b * a = a * b
  OBVIOUS
<1>2. Reducible(a * b)
  <2>1. CASE a >= 0
    <3>1. a * (-32768) <= a * b /\ a * b <= a * 32768
      BY <2>1 DEF FitsInt16
    <3>2. QED BY <2>1, <3>1 DEF Reducible
  <2>2. CASE a < 0
    <3>1. (-a) * (-32768) <= (-a) * b /\ (-a) * b <= (-a) * 32768
      BY <2>2 DEF FitsInt16
    <3>2. (-a) * b = -(a * b)
      OBVIOUS
    <3>3. QED BY <2>2, <3>1, <3>2 DEF Reducible
  <2>3. QED BY <2>1, <2>2
<1>3. Within(montgomery_reduce(a * b), 3328)
  BY <1>1, <1>2, MontgomeryReduce
<1> QED BY <1>1, <1>2, <1>3 DEF fqmul

\* A layer has at most six before it in ntt; the last one is that of len = 2.
LEMMA LayersRange ==
    ASSUME len \in {2, 4, 8, 16, 32, 64, 128}
    PROVE  Layers \in Nat /\ Layers <= 6 /\ (len = 2 => Layers = 6)
  BY DEF Layers

\* The loop variables after a butterfly.
LEMMA NextLoopVars ==
    ASSUME LoopVars, pc \in {"ntt", "invntt"},
           \/ NextJ
           \/ NextBlock
           \/ pc = "ntt" /\ NextLayer(len \div 2, len = 2, "poly_reduce")
           \/ pc = "invntt" /\ NextLayer(2 * len, len = 128, "scale")
    PROVE  LoopVars'
<1>1. /\ len \in {2, 4, 8, 16, 32, 64, 128}
      /\ start \in Nat /\ start + 2 * len <= 256 /\ start % (2 * len) = 0
      /\ j \in Nat /\ start <= j /\ j < start + len /\ k \in Nat
      /\ pc = "ntt" => k * (2 * len) = 256 + start
      /\ pc = "invntt" => (128 - k) * (2 * len) = 512 - start
  BY DEF LoopVars
<1>2. CASE NextJ
  BY <1>1, <1>2 DEF NextJ, LoopVars
<1>3. CASE NextBlock
  <2>1. /\ start' = start + 2 * len /\ j' = start' /\ k' = k + 1
        /\ len' = len /\ pc' = pc /\ start + 2 * len < 256
    BY <1>1, <1>3 DEF NextBlock
  <2>2. start' % (2 * len) = 0 /\ start' + 2 * len <= 256
    BY <1>1, <2>1
  <2>3. (k + 1) * (2 * len) = k * (2 * len) + 2 * len
        /\ (128 - (k + 1)) * (2 * len) = (128 - k) * (2 * len) - 2 * len
    BY <1>1
  <2>4. QED BY <1>1, <2>1, <2>2, <2>3 DEF LoopVars
<1>4. CASE pc = "ntt" /\ NextLayer(len \div 2, len = 2, "poly_reduce")
  <2>1. start = 256 - 2 * len /\ start' = 0 /\ j' = 0 /\ k' = k + 1 /\ len' = len \div 2
    BY <1>1, <1>4 DEF NextLayer
  <2>2. pc' = IF len = 2 THEN "poly_reduce" ELSE "ntt"
    BY <1>4 DEF NextLayer
  <2>3. (k + 1) * (2 * len) = 512
    BY <1>1, <1>4, <2>1
  <2>4. len # 2 => len' \in {2, 4, 8, 16, 32, 64} /\ (k + 1) * (2 * len') = 256
    BY <1>1, <2>1, <2>3
  <2>5. QED BY <1>1, <2>1, <2>2, <2>4 DEF LoopVars
<1>5. CASE pc = "invntt" /\ NextLayer(2 * len, len = 128, "scale")
  <2>1. start = 256 - 2 * len /\ start' = 0 /\ j' = 0 /\ k' = k + 1 /\ len' = 2 * len
    BY <1>1, <1>5 DEF NextLayer
  <2>2. pc' = IF len = 128 THEN "scale" ELSE "invntt"
    BY <1>5 DEF NextLayer
  <2>3. (128 - (k + 1)) * (2 * len) = 256
    BY <1>1, <1>5, <2>1
  <2>4. len # 128 => len' \in {4, 8, 16, 32, 64, 128} /\ (128 - (k + 1)) * (2 * len') = 512
    BY <1>1, <2>1, <2>3
  <2>5. QED BY <1>1, <2>1, <2>2, <2>4 DEF LoopVars, Index
<1> QED BY <1>2, <1>3, <1>4, <1>5
-----------------------------------------------------------------------------
LEMMA SmallFits ==
    ASSUME NEW f, Small(f), NEW i \in Index
    PROVE  f[i] \in Int /\ -3329 <= f[i] /\ f[i] <= 3329 /\ FitsInt16(f[i])
  BY DEF Small, FitsInt16

\* The two sums of a butterfly of ntt, before they are stored.
LEMMA NttSums ==
    ASSUME LoopInv, pc = "ntt"
    PROVE  /\ j \in Index /\ j + len \in Index /\ j # j + len
           /\ Layers \in Nat /\ Layers <= 6 /\ (len = 2 => Layers = 6)
           /\ LET t == fqmul(zetas[k], r[j + len])
              IN  /\ Reducible(zetas[k] * r[j + len])
                  /\ r[j] - t \in Int /\ FitsInt16(r[j] - t) /\ Within(r[j] - t, (Layers + 2) * 3329)
                  /\ r[j] + t \in Int /\ FitsInt16(r[j] + t) /\ Within(r[j] + t, (Layers + 2) * 3329)
<1> DEFINE t == fqmul(zetas[k], r[j + len])
<1>1. /\ len \in {2, 4, 8, 16, 32, 64, 128}
      /\ start \in Nat /\ start + 2 * len <= 256
      /\ j \in Nat /\ start <= j /\ j < start + len
      /\ k \in Nat /\ k * (2 * len) = 256 + start
  BY DEF LoopInv, LoopVars
<1>2. j \in Index /\ j + len \in Index /\ j # j + len
  BY <1>1 DEF Index
<1>3. Layers \in Nat /\ Layers <= 6 /\ (len = 2 => Layers = 6)
  BY <1>1, LayersRange
<1>4. k < 128
  BY <1>1
<1>5. ~ Done(j) /\ ~ Done(j + len)
  BY <1>1 DEF Done
<1>6. Within(r[j], (Layers + 1) * 3329) /\ Within(r[j + len], (Layers + 1) * 3329)
  BY <1>2, <1>5 DEF LoopInv, Ranges
<1>7. FitsInt16(r[j + len]) /\ r[j + len] \in Int
  BY <1>3, <1>6 DEF Within, FitsInt16
<1>8. Within(t, 3328) /\ Reducible(zetas[k] * r[j + len])
  <2>1. zetas[k] \in Int /\ -3328 <= zetas[k] /\ zetas[k] <= 3328
    BY <1>1, <1>4, ZetaRange
  <2>2. QED BY <2>1, <1>7, FqmulRange
<1> HIDE DEF t
<1>9. /\ r[j] - t \in Int /\ FitsInt16(r[j] - t) /\ Within(r[j] - t, (Layers + 2) * 3329)
      /\ r[j] + t \in Int /\ FitsInt16(r[j] + t) /\ Within(r[j] + t, (Layers + 2) * 3329)
  BY <1>3, <1>6, <1>8 DEF Within, FitsInt16
<1> QED BY <1>2, <1>3, <1>8, <1>9 DEF t

LEMMA NttButterflyInv == LoopInv /\ NttButterfly => LoopInv'
<1> SUFFICES ASSUME LoopInv, NttButterfly PROVE LoopInv'
  OBVIOUS
<1> DEFINE t == fqmul(zetas[k], r[j + len])
           B == (Layers + 2) * 3329
<1>1. /\ pc = "ntt" /\ s' = s
      /\ r' = [r EXCEPT ![j + len] = Int16(r[j] - t), ![j] = Int16(r[j] + t)]
      /\ NextJ \/ NextBlock \/ NextLayer(len \div 2, len = 2, "poly_reduce")
  BY DEF NttButterfly
<1>2. /\ j \in Index /\ j + len \in Index /\ j # j + len
      /\ Layers \in Nat /\ Layers <= 6 /\ (len = 2 => Layers = 6)
      /\ r[j] - t \in Int /\ FitsInt16(r[j] - t) /\ Within(r[j] - t, B)
      /\ r[j] + t \in Int /\ FitsInt16(r[j] + t) /\ Within(r[j] + t, B)
  BY <1>1, NttSums
<1>3. Int16(r[j] - t) = r[j] - t /\ Int16(r[j] + t) = r[j] + t
  BY <1>2, Int16Fits
<1>4. r' = [i \in Index |-> r'[i]]
  BY <1>1 DEF LoopInv
<1>5. /\ r'[j] = r[j] + t /\ r'[j + len] = r[j] - t
      /\ \A i \in Index : i # j /\ i # j + len => r'[i] = r[i]
  BY <1>1, <1>2, <1>3 DEF LoopInv
<1> HIDE DEF t
<1>6. LoopVars'
  BY <1>1, NextLoopVars DEF LoopInv
<1>7. /\ len \in {2, 4, 8, 16, 32, 64, 128}
      /\ start \in Nat /\ start + 2 * len <= 256 /\ start % (2 * len) = 0
      /\ j \in Nat /\ start <= j /\ j < start + len
  BY <1>1 DEF LoopInv, LoopVars
<1>8. \A i \in Index : Within(r[i], (Layers + (IF Done(i) THEN 2 ELSE 1)) * 3329)
  BY <1>1 DEF LoopInv, Ranges
<1>9. \A i \in Index : Within(r'[i], B)
  <2>1. TAKE i \in Index
  <2>2. CASE i = j \/ i = j + len
    BY <2>2, <1>2, <1>5
  <2>3. CASE i # j /\ i # j + len
    BY <2>3, <1>2, <1>5, <1>8 DEF Within
  <2>4. QED BY <2>2, <2>3
<1>10. Ranges'
  <2>1. CASE NextJ
    <3>1. pc' = pc /\ len' = len /\ start' = start /\ j' = j + 1 /\ Layers' = Layers
      BY <2>1 DEF NextJ, Layers
    <3>2. ASSUME NEW i \in Index
          PROVE  Within(r'[i], (Layers' + (IF Done(i)' THEN 2 ELSE 1)) * 3329)
      <4>1. CASE i = j \/ i = j + len
        <5>1. Done(i)'
          BY <4>1, <3>1, <1>7 DEF Done
        <5>2. QED BY <5>1, <3>1, <1>9
      <4>2. CASE i # j /\ i # j + len
        <5>1. Done(i)' <=> Done(i)
          BY <4>2, <3>1, <1>7 DEF Done, Index
        <5>2. QED BY <4>2, <5>1, <3>1, <1>5, <1>8
      <4>3. QED BY <4>1, <4>2
    <3>3. QED BY <1>1, <3>1, <3>2 DEF Ranges
  <2>2. CASE NextBlock
    <3>1. /\ pc' = pc /\ len' = len /\ start' = j + 1 + len /\ j' = j + 1 + len
          /\ j + 1 = start + len /\ Layers' = Layers
      BY <2>2 DEF NextBlock, Layers
    <3>2. ASSUME NEW i \in Index
          PROVE  Within(r'[i], (Layers' + (IF Done(i)' THEN 2 ELSE 1)) * 3329)
      <4>1. CASE Done(i)'
        BY <4>1, <3>1, <1>9
      <4>2. CASE ~ Done(i)'
        <5>1. ~ Done(i) /\ i # j /\ i # j + len
          BY <4>2, <3>1, <1>7 DEF Done, Index
        <5>2. QED BY <4>2, <5>1, <3>1, <1>5, <1>8
      <4>3. QED BY <4>1, <4>2
    <3>3. QED BY <1>1, <3>1, <3>2 DEF Ranges
  <2>3. CASE NextLayer(len \div 2, len = 2, "poly_reduce")
    <3>1. CASE len = 2
      <4>1. pc' = "poly_reduce" /\ B = 8 * 3329
        BY <2>3, <3>1, <1>2 DEF NextLayer
      <4>2. QED BY <4>1, <1>9 DEF Ranges
    <3>2. CASE len # 2
      <4>1. pc' = "ntt" /\ len' = len \div 2 /\ start' = 0 /\ j' = 0
        BY <1>1, <2>3, <3>2 DEF NextLayer
      <4>2. Layers' = Layers + 1
        BY <4>1, <3>2, <1>7 DEF Layers
      <4>3. \A i \in Index : ~ Done(i)'
        BY <4>1, <1>7 DEF Done, Index
      <4>4. (Layers' + 1) * 3329 = B
        BY <4>2, <1>2
      <4>5. QED BY <4>1, <4>3, <4>4, <1>9 DEF Ranges
    <3>3. QED BY <3>1, <3>2
  <2>4. QED BY <1>1, <2>1, <2>2, <2>3
<1>11. pc' \in {"ntt", "poly_reduce"}
  BY <1>1 DEF NextJ, NextBlock, NextLayer
<1> QED BY <1>1, <1>4, <1>6, <1>10, <1>11 DEF LoopInv, Small, BelowFourQ

\* poly_reduce brings every int16_t into 0 .. q.
LEMMA PolyReduceSmall ==
    ASSUME NEW f, \A i \in Index : f[i] \in Int /\ FitsInt16(f[i])
    PROVE  /\ poly_reduce(f) = [i \in Index |-> poly_reduce(f)[i]]
           /\ Small(poly_reduce(f))
<1>1. \A i \in Index : poly_reduce(f)[i] = barrett_reduce(f[i])
  BY DEF poly_reduce
<1>2. QED BY <1>1, BarrettReduce DEF poly_reduce, Small

LEMMA PolyNttReducesInv == LoopInv /\ PolyNttReduces => LoopInv'
<1> SUFFICES ASSUME LoopInv, PolyNttReduces PROVE LoopInv'
  OBVIOUS
<1>1. pc = "poly_reduce" /\ pc' = "basemul" /\ r' = poly_reduce(r) /\ s' = s
  BY DEF PolyNttReduces
<1>2. \A i \in Index : r[i] \in Int /\ FitsInt16(r[i])
  BY <1>1 DEF LoopInv, Ranges, Within, FitsInt16
<1>3. r' = [i \in Index |-> r'[i]] /\ Small(r')
  BY <1>1, <1>2, PolyReduceSmall
<1> QED BY <1>1, <1>3 DEF LoopInv, LoopVars, Ranges, Small

\* The products of basemul: one factor is reduced, the other one below 4q.
LEMMA FqmulFactor ==
    ASSUME NEW x, NEW y \in Int, Within(x, 3329), 0 <= y, y < 4 * 3329
    PROVE  Reducible(x * y) /\ Within(fqmul(x, y), 3328)
<1>1. x * y \in Int /\ Reducible(x * y)
  <2>1. CASE x >= 0
    <3>1. 0 <= x * y /\ x * y <= x * (4 * 3329)
      BY <2>1 DEF Within
    <3>2. QED BY <2>1, <3>1 DEF Within, Reducible
  <2>2. CASE x < 0
    <3>1. 0 <= (-x) * y /\ (-x) * y <= (-x) * (4 * 3329) /\ (-x) * y = -(x * y)
      BY <2>2 DEF Within
    <3>2. QED BY <2>2, <3>1 DEF Within, Reducible
  <2>3. QED BY <2>1, <2>2 DEF Within
<1> QED BY <1>1, MontgomeryReduce DEF fqmul

LEMMA BasemulRange ==
    ASSUME NEW a0, NEW a1, NEW b0 \in Int, NEW b1 \in Int, NEW zeta \in Int,
           -3328 <= zeta, zeta <= 3328,
           Within(a0, 3329), Within(a1, 3329),
           0 <= b0, b0 < 4 * 3329, 0 <= b1, b1 < 4 * 3329
    PROVE  /\ BasemulStays(a0, a1, b0, b1, zeta)
           /\ Within(basemul(a0, a1, b0, b1, zeta)[1], 2 * 3328)
           /\ Within(basemul(a0, a1, b0, b1, zeta)[2], 2 * 3328)
<1>1. /\ Reducible(a1 * b1) /\ Reducible(a0 * b0) /\ Reducible(a0 * b1) /\ Reducible(a1 * b0)
      /\ Within(fqmul(a1, b1), 3328) /\ Within(fqmul(a0, b0), 3328)
      /\ Within(fqmul(a0, b1), 3328) /\ Within(fqmul(a1, b0), 3328)
  BY FqmulFactor
<1>2. fqmul(a1, b1) \in Int /\ FitsInt16(fqmul(a1, b1))
  BY <1>1 DEF Within, FitsInt16
<1>3. Within(fqmul(fqmul(a1, b1), zeta), 3328) /\ Reducible(fqmul(a1, b1) * zeta)
  BY <1>2, FqmulRange
<1> DEFINE x0 == fqmul(fqmul(a1, b1), zeta) + fqmul(a0, b0)
           x1 == fqmul(a0, b1) + fqmul(a1, b0)
<1>4. Within(x0, 2 * 3328) /\ Within(x1, 2 * 3328) /\ FitsInt16(x0) /\ FitsInt16(x1)
  BY <1>1, <1>3 DEF Within, FitsInt16
<1>5. Int16(x0) = x0 /\ Int16(x1) = x1
  BY <1>4, Int16Fits DEF Within
<1>6. basemul(a0, a1, b0, b1, zeta)[1] = Int16(x0) /\ basemul(a0, a1, b0, b1, zeta)[2] = Int16(x1)
  BY DEF basemul
<1>7. BasemulStays(a0, a1, b0, b1, zeta)
  BY <1>1, <1>3, <1>4 DEF BasemulStays
<1> QED BY <1>4, <1>5, <1>6, <1>7

LEMMA PointwiseRange ==
    ASSUME Small(r), BelowFourQ(s), NEW i \in Index
    PROVE  /\ poly_basemul_montgomery(r, s)[i] \in Int
           /\ FitsInt16(poly_basemul_montgomery(r, s)[i])
<1> DEFINE e == 2 * (i \div 2)
           z == IF i % 4 < 2 THEN zetas[64 + i \div 4] ELSE -zetas[64 + i \div 4]
<1>1. e \in Index /\ e + 1 \in Index /\ 64 + i \div 4 \in Nat /\ 64 + i \div 4 < 128
  BY DEF Index
<1>2. z \in Int /\ -3328 <= z /\ z <= 3328
  BY <1>1, ZetaRange
<1>3. /\ Within(r[e], 3329) /\ Within(r[e+1], 3329)
      /\ s[e] \in Int /\ 0 <= s[e] /\ s[e] < 4 * 3329
      /\ s[e+1] \in Int /\ 0 <= s[e+1] /\ s[e+1] < 4 * 3329
  BY <1>1 DEF Small, Within, BelowFourQ
<1> DEFINE v == basemul(r[e], r[e+1], s[e], s[e+1], z)
<1>4. poly_basemul_montgomery(r, s)[i] = v[1 + (i % 2)]
  BY DEF poly_basemul_montgomery
<1> HIDE DEF e, z
<1>5. Within(v[1], 2 * 3328) /\ Within(v[2], 2 * 3328)
  BY <1>2, <1>3, BasemulRange
<1> HIDE DEF v
<1>6. i % 2 = 0 \/ i % 2 = 1
  BY DEF Index
<1> QED BY <1>4, <1>5, <1>6 DEF Within, FitsInt16

LEMMA PointwiseMultiplyInv == LoopInv /\ PointwiseMultiply => LoopInv'
<1> SUFFICES ASSUME LoopInv, PointwiseMultiply PROVE LoopInv'
  OBVIOUS
<1>1. /\ pc = "basemul" /\ pc' = "invntt" /\ s' = s
      /\ r' = poly_reduce(poly_basemul_montgomery(r, s))
      /\ len' = 2 /\ start' = 0 /\ j' = 0 /\ k' = 0
  BY DEF PointwiseMultiply
<1>2. Small(r) /\ BelowFourQ(s)
  BY <1>1 DEF LoopInv, Ranges
<1>3. r' = [i \in Index |-> r'[i]] /\ Small(r')
  BY <1>1, <1>2, PointwiseRange, PolyReduceSmall
<1>4. LoopVars'
  BY <1>1 DEF LoopVars
<1> QED BY <1>1, <1>3, <1>4 DEF LoopInv, Ranges, Small, BelowFourQ

LEMMA InvnttButterflyInv == LoopInv /\ InvnttButterfly => LoopInv'
<1> SUFFICES ASSUME LoopInv, InvnttButterfly PROVE LoopInv'
  OBVIOUS
<1>1. /\ pc = "invntt" /\ s' = s
      /\ r' = [r EXCEPT ![j] = barrett_reduce(Int16(r[j] + r[j + len])),
                        ![j + len] = fqmul(zetas_inv[k], Int16(r[j] - r[j + len]))]
      /\ NextJ \/ NextBlock \/ NextLayer(2 * len, len = 128, "scale")
  BY DEF InvnttButterfly
<1>2. /\ len \in {2, 4, 8, 16, 32, 64, 128}
      /\ start \in Nat /\ start + 2 * len <= 256
      /\ j \in Nat /\ start <= j /\ j < start + len
      /\ k \in Nat /\ (128 - k) * (2 * len) = 512 - start
  BY <1>1 DEF LoopInv, LoopVars
<1>3. j \in Index /\ j + len \in Index /\ j # j + len
  BY <1>2 DEF Index
<1>4. k < 128
  BY <1>2
<1>5. Small(r)
  BY <1>1 DEF LoopInv, Ranges
<1>6. Within(r[j], 3329) /\ Within(r[j + len], 3329)
  BY <1>3, <1>5 DEF Small, Within
<1>7. /\ r[j] + r[j + len] \in Int /\ FitsInt16(r[j] + r[j + len])
      /\ r[j] - r[j + len] \in Int /\ FitsInt16(r[j] - r[j + len])
  BY <1>6 DEF Within, FitsInt16
<1>8. Within(barrett_reduce(Int16(r[j] + r[j + len])), 3329)
  BY <1>7, Int16Fits, BarrettReduce DEF Within
<1>9. Within(fqmul(zetas_inv[k], Int16(r[j] - r[j + len])), 3329)
  <2>1. Int16(r[j] - r[j + len]) = r[j] - r[j + len]
    BY <1>7, Int16Fits
  <2>2. zetas_inv[k] \in Int /\ -3328 <= zetas_inv[k] /\ zetas_inv[k] <= 3328
    BY <1>2, <1>4, ZetaRange
  <2>3. Within(fqmul(zetas_inv[k], r[j] - r[j + len]), 3328)
    BY <1>7, <2>2, FqmulRange
  <2>4. QED BY <2>1, <2>3 DEF Within
<1>10. r' = [i \in Index |-> r'[i]] /\ Small(r')
  <2>1. r' = [i \in Index |-> r'[i]]
    BY <1>1 DEF LoopInv
  <2>2. ASSUME NEW i \in Index PROVE Within(r'[i], 3329)
    <3>1. CASE i = j
      BY <3>1, <1>1, <1>3, <1>8 DEF LoopInv
    <3>2. CASE i = j + len
      BY <3>2, <1>1, <1>3, <1>9 DEF LoopInv
    <3>3. CASE i # j /\ i # j + len
      <4>1. r'[i] = r[i]
        BY <3>3, <1>1, <1>3 DEF LoopInv
      <4>2. QED BY <4>1, <1>5 DEF Small, Within
    <3>4. QED BY <3>1, <3>2, <3>3
  <2>3. QED BY <2>1, <2>2 DEF Small, Within
<1>11. LoopVars'
  BY <1>1, NextLoopVars DEF LoopInv
<1>12. pc' \in {"invntt", "scale"}
  BY <1>1 DEF NextJ, NextBlock, NextLayer
<1> QED BY <1>1, <1>10, <1>11, <1>12 DEF LoopInv, Ranges, Small, BelowFourQ

LEMMA ScaleInv == LoopInv /\ Scale => LoopInv'
<1> SUFFICES ASSUME LoopInv, Scale PROVE LoopInv'
  OBVIOUS
<1>1. /\ pc = "scale" /\ s' = s /\ j' = j + 1
      /\ r' = [r EXCEPT ![j] = fqmul(r[j], zetas_inv[127])]
      /\ pc' = IF j + 1 < 256 THEN pc ELSE "done"
  BY DEF Scale
<1>2. j \in Index /\ Small(r)
  BY <1>1 DEF LoopInv, LoopVars, Ranges
<1>3. Within(fqmul(r[j], zetas_inv[127]), 3328)
  BY <1>2, SmallFits, ZetaRange, FqmulRange
<1>4. r' = [i \in Index |-> r'[i]] /\ Small(r')
  BY <1>1, <1>2, <1>3 DEF LoopInv, Small, Within
<1>5. LoopVars'
  BY <1>1, <1>2 DEF LoopVars, Index
<1> QED BY <1>1, <1>4, <1>5 DEF LoopInv, Ranges, Small, BelowFourQ

\* The loops keep their invariant: the loop variables stay in step, and each layer
\* of ntt lets a coefficient grow by less than q.
THEOREM LoopInvariant == Spec => []LoopInv
<1>1. Init => LoopInv
  <2> SUFFICES ASSUME Init PROVE LoopInv
    OBVIOUS
  <2>1. p = [i \in Index |-> p[i]] /\ Small(p) /\ BelowFourQ(s)
    BY InputsAssumption, FactorsAssumption DEF Init
  <2>2. Layers = 0 /\ \A i \in Index : ~ Done(i)
    BY DEF Init, Layers, Done, Index
  <2>3. Ranges
    BY <2>1, <2>2 DEF Init, Ranges, Small, Within
  <2>4. QED BY <2>1, <2>3 DEF Init, LoopInv, LoopVars
<1>2. LoopInv /\ [Next]_vars => LoopInv'
  <2>1. CASE UNCHANGED vars
    BY <2>1 DEF vars, LoopInv, LoopVars, Ranges, Small, BelowFourQ, Layers, Done
  <2>2. QED
    BY <2>1, NttButterflyInv, PolyNttReducesInv, PointwiseMultiplyInv,
       InvnttButterflyInv, ScaleInv DEF Next
<1> QED BY <1>1, <1>2, PTL DEF Spec

\* In ntt, basemul and invntt no int16_t overflows and no product leaves the range of
\* montgomery_reduce, for every input with coefficients in -q .. q, every factor with
\* coefficients in 0 .. 4q-1 and all tables of zetas in 0 .. q-1.
THEOREM LoopsDoNotOverflow == Spec => []NoOverflow
<1>1. LoopInv => NoOverflow
  <2> SUFFICES ASSUME LoopInv PROVE NoOverflow
    OBVIOUS
  <2>1. CASE pc = "ntt"
    BY <2>1, NttSums DEF NoOverflow
  <2>2. CASE pc = "basemul"
    <3>1. Small(r) /\ BelowFourQ(s)
      BY <2>2 DEF LoopInv, Ranges
    <3>2. ASSUME NEW i \in 0 .. 127
          PROVE  LET zeta == zetas[64 + i \div 2]
                 IN  BasemulStays(r[2*i], r[2*i+1], s[2*i], s[2*i+1],
                                  IF i % 2 = 0 THEN zeta ELSE -zeta)
      <4> DEFINE z == IF i % 2 = 0 THEN zetas[64 + i \div 2] ELSE -zetas[64 + i \div 2]
      <4>1. 2*i \in Index /\ 2*i+1 \in Index /\ 64 + i \div 2 \in Nat /\ 64 + i \div 2 < 128
        BY DEF Index
      <4>2. z \in Int /\ -3328 <= z /\ z <= 3328
        BY <4>1, ZetaRange
      <4>3. /\ Within(r[2*i], 3329) /\ Within(r[2*i+1], 3329)
            /\ s[2*i] \in Int /\ 0 <= s[2*i] /\ s[2*i] < 4 * 3329
            /\ s[2*i+1] \in Int /\ 0 <= s[2*i+1] /\ s[2*i+1] < 4 * 3329
        BY <3>1, <4>1 DEF Small, Within, BelowFourQ
      <4> HIDE DEF z
      <4>4. BasemulStays(r[2*i], r[2*i+1], s[2*i], s[2*i+1], z)
        BY <4>2, <4>3, BasemulRange
      <4> QED BY <4>4 DEF z
    <3>3. QED BY <2>2, <3>2 DEF NoOverflow
  <2>3. CASE pc = "invntt"
    <3>1. /\ j \in Index /\ j + len \in Index
          /\ k \in Nat /\ k < 128
      <4>1. /\ len \in {2, 4, 8, 16, 32, 64, 128}
            /\ start \in Nat /\ start + 2 * len <= 256
            /\ j \in Nat /\ start <= j /\ j < start + len
            /\ k \in Nat /\ (128 - k) * (2 * len) = 512 - start
        BY <2>3 DEF LoopInv, LoopVars
      <4>2. QED BY <4>1 DEF Index
    <3>2. Small(r)
      BY <2>3 DEF LoopInv, Ranges
    <3>3. /\ FitsInt16(r[j] + r[j + len]) /\ FitsInt16(r[j] - r[j + len])
          /\ r[j] - r[j + len] \in Int
      BY <3>1, <3>2 DEF Small, FitsInt16
    <3>4. zetas_inv[k] \in Int /\ -3328 <= zetas_inv[k] /\ zetas_inv[k] <= 3328
      BY <3>1, ZetaRange
    <3>5. Reducible(zetas_inv[k] * (r[j] - r[j + len]))
      BY <3>3, <3>4, FqmulRange
    <3>6. QED BY <2>3, <3>3, <3>5 DEF NoOverflow
  <2>4. CASE pc = "scale"
    <3>1. r[j] \in Int /\ FitsInt16(r[j])
      BY <2>4, SmallFits DEF LoopInv, LoopVars, Ranges
    <3>2. zetas_inv[127] \in Int /\ -3328 <= zetas_inv[127] /\ zetas_inv[127] <= 3328
      BY ZetaRange
    <3>3. Reducible(r[j] * zetas_inv[127])
      BY <3>1, <3>2, FqmulRange
    <3>4. QED BY <2>4, <3>3 DEF NoOverflow
  <2>5. QED BY <2>1, <2>2, <2>3, <2>4 DEF NoOverflow
<1> QED BY <1>1, LoopInvariant, PTL
=============================================================================
