--------------------------- MODULE GakeKeysProofs ---------------------------
(***************************************************************************)
(* What CheckXs and ComputeAllLeftKeys compute for the Xs of a ring of any *)
(* size.  Both contain a recursive function.  That it has a value at all   *)
(* is shown by giving one that satisfies its equation; that it is the only *)
(* one, by looking at the least argument where two of them differ.         *)
(***************************************************************************)
EXTENDS GakeKeys, FiniteSetTheorems, WellFoundedInduction, TLAPS

\* XOR: the laws that the telescoping of the Xs needs.
LEMMA XorLaws ==
    ASSUME NEW x, NEW y, NEW z
    PROVE  /\ XorKeys(x, x) = Zero
           /\ XorKeys(x, y) = XorKeys(y, x)
           /\ XorKeys(XorKeys(x, y), XorKeys(y, z)) = XorKeys(x, z)
           /\ XorKeys(x, XorKeys(x, y)) = y
           /\ XorKeys(x, y) = Zero => x = y
  BY DEF XorKeys, Zero

\* Mod of an index that is less than one turn away from the ring.
LEMMA ModRange ==
    ASSUME NEW n \in Nat \ {0}, NEW x \in -(n-1) .. n-1
    PROVE  Mod(x, n) = IF x < 0 THEN x + n ELSE x
<1>1. CASE x >= 0
  <2>1. x \div n = 0
    BY <1>1
  <2>2. TruncatedDiv(x, n) = 0
    BY <1>1, <2>1 DEF TruncatedDiv
  <2>3. QED
    BY <1>1, <2>2 DEF Mod
<1>2. CASE x < 0
  <2>1. (-x) \div n = 0
    BY <1>2
  <2>2. TruncatedDiv(x, n) = 0
    BY <1>2, <2>1 DEF TruncatedDiv
  <2>3. QED
    BY <1>2, <2>2 DEF Mod
<1>3. QED
  BY <1>1, <1>2

\* The index to the right wraps around at the end of the ring.
LEMMA NextIndex ==
    ASSUME NEW n \in Nat \ {0}, NEW i \in 0 .. n-1
    PROVE  (i + 1) % n = IF i = n-1 THEN 0 ELSE i + 1
  OBVIOUS

\* One to the left and one to the right again, away from the start of the ring.
LEMMA SameIndex ==
    ASSUME NEW n \in Nat \ {0}, NEW i \in 1 .. n-1
    PROVE  i - 1 \in 0 .. n-1 /\ (i - 1 + 1) % n = i
<1>1. i - 1 + 1 = i
  OBVIOUS
<1>2. i % n = i
  OBVIOUS
<1>3. QED
  BY <1>1, <1>2

\* A nonempty set of naturals has a least element.
LEMMA NatLeast ==
    ASSUME NEW T, T \subseteq Nat, T # {}
    PROVE  \E x \in T : \A y \in T : ~(y < x)
<1> DEFINE R == {ss \in Nat \X Nat : ss[1] < ss[2]}
<1>1. IsWellFoundedOn(R, Nat)
  BY NatLessThanWellFounded, Zenon DEF OpToRel
<1>2. PICK x \in T : \A y \in T : ~(<<y, x>> \in R)
  <2> HIDE DEF R
  <2>1. QED
    BY <1>1, WFMin
<1>3. QED
  BY <1>2

\* Two functions on 0..n-1 with the same start, each value determined by the one
\* before it, are equal.
LEMMA UniqueChain ==
    ASSUME NEW n \in Nat \ {0}, NEW f, NEW g,
           f[0] = g[0],
           \A j \in 1 .. n-1 : f[j-1] = g[j-1] => f[j] = g[j]
    PROVE  \A j \in 0 .. n-1 : f[j] = g[j]
<1> DEFINE T == {j \in 0 .. n-1 : f[j] # g[j]}
<1>1. SUFFICES ASSUME T # {} PROVE FALSE
  OBVIOUS
<1>2. PICK m \in T : \A y \in T : ~(y < m)
  <2>1. T \subseteq Nat
    OBVIOUS
  <2> HIDE DEF T
  <2>2. QED
    BY <1>1, <2>1, NatLeast
<1>3. m # 0
  BY <1>2
<1>4. f[m-1] = g[m-1]
  BY <1>2, <1>3
<1>5. QED
  BY <1>2, <1>3, <1>4

\* The equations of the two loop variables.
IsCheck(check, n, xs) ==
    check = [i \in 0 .. n-1 |-> IF i = 0 THEN xs[0] ELSE XorKeys(xs[i], check[i-1])]

IsChain(chain, n, i, left, xs) ==
    chain = [j \in 0 .. n-1 |->
                IF j = 0 THEN left ELSE XorKeys(chain[j-1], xs[Mod(i - (j-1) - 1, n)])]

\* The loop variable of CheckXs is the one function that satisfies its equation.
LEMMA CheckXsValue ==
    ASSUME NEW n \in Nat \ {0}, NEW xs, NEW g, IsCheck(g, n, xs)
    PROVE  CheckXs(xs, n) <=> g[n-1] = Zero
<1> DEFINE check == CHOOSE f :
        f = [i \in 0 .. n-1 |-> IF i = 0 THEN xs[0] ELSE XorKeys(xs[i], f[i-1])]
<1>1. IsCheck(check, n, xs)
  BY DEF IsCheck
<1>2. CheckXs(xs, n) <=> check[n-1] = Zero
  BY DEF CheckXs
<1> HIDE DEF check
<1>3. check[0] = g[0]
  BY <1>1 DEF IsCheck
<1>4. \A j \in 1 .. n-1 : check[j-1] = g[j-1] => check[j] = g[j]
  BY <1>1 DEF IsCheck
<1>5. \A j \in 0 .. n-1 : check[j] = g[j]
  BY <1>3, <1>4, UniqueChain
<1>6. QED
  BY <1>2, <1>5

\* So is the loop variable of ComputeAllLeftKeys.
LEMMA LeftKeyChainValue ==
    ASSUME NEW n \in Nat \ {0}, NEW i \in 0 .. n-1, NEW left, NEW xs, NEW g,
           IsChain(g, n, i, left, xs), NEW k \in 0 .. n-1
    PROVE  LeftKeyChain(n, i, left, xs)[k] = g[k]
<1> DEFINE chain == CHOOSE f :
        f = [j \in 0 .. n-1 |->
                IF j = 0 THEN left ELSE XorKeys(f[j-1], xs[Mod(i - (j-1) - 1, n)])]
<1>1. IsChain(chain, n, i, left, xs)
  BY DEF IsChain
<1>2. LeftKeyChain(n, i, left, xs) = chain
  BY DEF LeftKeyChain
<1> HIDE DEF chain
<1>3. chain[0] = g[0]
  BY <1>1 DEF IsChain
<1>4. \A j \in 1 .. n-1 : chain[j-1] = g[j-1] => chain[j] = g[j]
  BY <1>1 DEF IsChain
<1>5. \A j \in 0 .. n-1 : chain[j] = g[j]
  BY <1>3, <1>4, UniqueChain
<1>6. QED
  BY <1>2, <1>5

\* Party i of a ring has the left key L[i], its right key is the left key of its
\* right neighbour, and its Xi is their XOR.
RingXs(L, n) == [i \in 0 .. n-1 |-> XorKeys(L[(i + 1) % n], L[i])]

\* util.CheckXs accepts the Xs of every ring: each left key occurs twice.
THEOREM CheckXsOfRing ==
    ASSUME NEW n \in Nat \ {0}, NEW L
    PROVE  CheckXs(RingXs(L, n), n)
<1> DEFINE xs == RingXs(L, n)
           g == [i \in 0 .. n-1 |-> XorKeys(L[(i + 1) % n], L[0])]
<1>1. ASSUME NEW i \in 0 .. n-1
      PROVE  g[i] = IF i = 0 THEN xs[0] ELSE XorKeys(xs[i], g[i-1])
  <2>1. xs[i] = XorKeys(L[(i + 1) % n], L[i]) /\ g[i] = XorKeys(L[(i + 1) % n], L[0])
    BY DEF RingXs
  <2>2. CASE i = 0
    BY <2>1, <2>2
  <2>3. CASE i # 0
    <3>1. i \in 1 .. n-1
      BY <2>3
    <3>2. i - 1 \in 0 .. n-1 /\ (i - 1 + 1) % n = i
      BY <3>1, SameIndex, Zenon
    <3>3. g[i-1] = XorKeys(L[i], L[0])
      BY <3>2
    <3>4. XorKeys(XorKeys(L[(i + 1) % n], L[i]), XorKeys(L[i], L[0]))
            = XorKeys(L[(i + 1) % n], L[0])
      BY XorLaws
    <3> HIDE DEF xs, g
    <3>5. QED
      BY <2>1, <2>3, <3>3, <3>4
  <2>4. QED
    BY <2>2, <2>3
<1>2. IsCheck(g, n, xs)
  BY <1>1, Zenon DEF IsCheck
<1>3. g[n-1] = Zero
  <2>1. n - 1 \in 0 .. n-1 /\ (n - 1 + 1) % n = 0
    BY NextIndex
  <2>2. QED
    BY <2>1, XorLaws, Zenon
<1> HIDE DEF xs, g
<1>4. CheckXs(xs, n)
  BY <1>2, <1>3, CheckXsValue
<1>5. QED
  BY <1>4 DEF xs

\* util.ComputeAllLeftKeys gives every party of a ring the left keys of all,
\* each at the index of its owner.
THEOREM LeftKeysOfRing ==
    ASSUME NEW n \in Nat \ {0}, NEW L, NEW i \in 0 .. n-1, NEW q \in 0 .. n-1
    PROVE  ComputeAllLeftKeys(n, i, L[i], RingXs(L, n))[q] = L[q]
<1> DEFINE xs == RingXs(L, n)
           g == [j \in 0 .. n-1 |-> L[Mod(i - j, n)]]
           Step(j) == xs[Mod(i - (j-1) - 1, n)]
<1>1. ASSUME NEW j \in 0 .. n-1
      PROVE  g[j] = IF j = 0 THEN L[i] ELSE XorKeys(g[j-1], Step(j))
  <2>1. CASE j = 0
    <3>1. Mod(i - j, n) = i
      BY <2>1, ModRange
    <3>2. QED
      BY <2>1, <3>1
  <2>2. CASE j # 0
    <3> DEFINE here == Mod(i - j, n)
    <3>1. here \in 0 .. n-1 /\ here = IF i < j THEN i - j + n ELSE i - j
      BY ModRange
    <3>2. j - 1 \in 0 .. n-1 /\ i - (j-1) - 1 = i - j
      BY <2>2
    <3>3. Mod(i - (j-1), n) = (here + 1) % n
      <4>1. Mod(i - (j-1), n) = IF i < j-1 THEN i - (j-1) + n ELSE i - (j-1)
        BY <3>2, ModRange
      <4>2. (here + 1) % n = IF here = n-1 THEN 0 ELSE here + 1
        BY <3>1, NextIndex
      <4> HIDE DEF here
      <4>3. QED
        BY <2>2, <3>1, <4>1, <4>2
    <3> HIDE DEF here
    <3>4. Step(j) = XorKeys(L[(here + 1) % n], L[here])
      BY <3>1, <3>2 DEF RingXs, here
    <3>5. g[j-1] = L[(here + 1) % n]
      BY <3>2, <3>3
    <3>6. g[j] = L[here]
      BY DEF here
    <3>7. XorKeys(L[(here + 1) % n], XorKeys(L[(here + 1) % n], L[here])) = L[here]
      BY XorLaws
    <3> HIDE DEF xs, g, Step
    <3>8. QED
      BY <2>2, <3>4, <3>5, <3>6, <3>7
  <2>3. QED
    BY <2>1, <2>2
<1>2. IsChain(g, n, i, L[i], xs)
  BY <1>1, Zenon DEF IsChain
<1>3. Mod(i - q, n) \in 0 .. n-1 /\ Mod(i - Mod(i - q, n), n) = q
  <2>1. Mod(i - q, n) = IF i < q THEN i - q + n ELSE i - q
    BY ModRange
  <2>2. Mod(i - q, n) \in 0 .. n-1
    BY <2>1
  <2>3. i - Mod(i - q, n) \in -(n-1) .. n-1
    BY <2>2
  <2>4. Mod(i - Mod(i - q, n), n) =
            IF i - Mod(i - q, n) < 0 THEN i - Mod(i - q, n) + n ELSE i - Mod(i - q, n)
    BY <2>3, ModRange, Zenon
  <2>5. QED
    BY <2>1, <2>2, <2>4
<1>4. g[Mod(i - q, n)] = L[q]
  BY <1>3
<1> HIDE DEF xs, g, Step
<1>5. LeftKeyChain(n, i, L[i], xs)[Mod(i - q, n)] = g[Mod(i - q, n)]
  BY <1>2, <1>3, LeftKeyChainValue
<1>6. QED
  BY <1>4, <1>5 DEF ComputeAllLeftKeys, xs
-----------------------------------------------------------------------------
(***************************************************************************)
(* The same for arrays that need not come from a ring.                     *)
(***************************************************************************)
\* The XOR of the keys at the indices in S, secret by secret.
Holders(s, xs, S) == {j \in S : s \in xs[j]}

XorOf(xs, S) == {s \in UNION {xs[j] : j \in S} : Cardinality(Holders(s, xs, S)) % 2 = 1}

\* One more key changes the parity of just the secrets in it.
LEMMA XorOfOneMore ==
    ASSUME NEW xs, NEW S, IsFiniteSet(S), NEW i, i \notin S
    PROVE  XorOf(xs, S \union {i}) = XorKeys(xs[i], XorOf(xs, S))
<1> DEFINE T == S \union {i}
<1>1. ASSUME NEW s
      PROVE  /\ Cardinality(Holders(s, xs, S)) \in Nat
             /\ s \in xs[i] => Cardinality(Holders(s, xs, T)) = Cardinality(Holders(s, xs, S)) + 1
             /\ s \notin xs[i] => Holders(s, xs, T) = Holders(s, xs, S)
  <2>1. IsFiniteSet(Holders(s, xs, S)) /\ i \notin Holders(s, xs, S)
    BY FS_Subset DEF Holders
  <2>2. s \in xs[i] => Holders(s, xs, T) = Holders(s, xs, S) \union {i}
    BY DEF Holders
  <2>3. s \notin xs[i] => Holders(s, xs, T) = Holders(s, xs, S)
    BY DEF Holders
  <2>4. Cardinality(Holders(s, xs, S)) \in Nat
    BY <2>1, FS_CardinalityType
  <2>5. Cardinality(Holders(s, xs, S) \union {i}) = Cardinality(Holders(s, xs, S)) + 1
    BY <2>1, FS_AddElement
  <2>6. QED
    BY <2>2, <2>3, <2>4, <2>5
<1>2. ASSUME NEW s, NEW R, Cardinality(Holders(s, xs, R)) % 2 = 1,
             R = S \/ R = T
      PROVE  s \in XorOf(xs, R)
  <2>1. Holders(s, xs, R) # {}
    <3>1. ASSUME Holders(s, xs, R) = {} PROVE FALSE
      <4>1. Cardinality(Holders(s, xs, R)) = 0
        BY <3>1, FS_EmptySet
      <4>2. 0 % 2 # 1
        OBVIOUS
      <4>3. QED
        BY <1>2, <4>1, <4>2
    <3>2. QED
      BY <3>1
  <2>2. QED
    BY <1>2, <2>1 DEF Holders, XorOf
<1>3. ASSUME NEW s
      PROVE  s \in XorOf(xs, T) <=> s \in XorKeys(xs[i], XorOf(xs, S))
  <2> DEFINE c == Cardinality(Holders(s, xs, S))
             d == Cardinality(Holders(s, xs, T))
  <2>1. s \in XorOf(xs, S) <=> c % 2 = 1
    BY <1>2 DEF XorOf
  <2>2. s \in XorOf(xs, T) <=> d % 2 = 1
    BY <1>2 DEF XorOf
  <2>3. c \in Nat /\ (s \in xs[i] => d = c + 1) /\ (s \notin xs[i] => d = c)
    BY <1>1
  <2>4. /\ s \in xs[i] => (s \in XorKeys(xs[i], XorOf(xs, S)) <=> s \notin XorOf(xs, S))
        /\ s \notin xs[i] => (s \in XorKeys(xs[i], XorOf(xs, S)) <=> s \in XorOf(xs, S))
    BY DEF XorKeys
  <2> HIDE DEF c, d, T
  <2>5. (c + 1) % 2 = 1 <=> c % 2 # 1
    BY <2>3
  <2>6. CASE s \in xs[i]
    BY <2>1, <2>2, <2>3, <2>4, <2>5, <2>6
  <2>7. CASE s \notin xs[i]
    BY <2>1, <2>2, <2>3, <2>4, <2>7
  <2>8. QED
    BY <2>6, <2>7
<1>4. QED
  BY <1>3

LEMMA XorOfOne ==
    ASSUME NEW xs, NEW i
    PROVE  XorOf(xs, {i}) = xs[i] /\ XorOf(xs, {}) = Zero
<1>1. XorOf(xs, {}) = Zero
  BY DEF XorOf, Zero
<1>2. XorOf(xs, {} \union {i}) = XorKeys(xs[i], XorOf(xs, {}))
  BY FS_EmptySet, XorOfOneMore
<1>3. XorKeys(xs[i], Zero) = xs[i] /\ {} \union {i} = {i}
  BY DEF XorKeys, Zero
<1>4. QED
  BY <1>1, <1>2, <1>3, Zenon

\* util.CheckXs accepts an array of keys exactly if their XOR is zero, which is if
\* every secret is in an even number of them.
THEOREM CheckXsIsXor ==
    ASSUME NEW n \in Nat \ {0}, NEW xs
    PROVE  CheckXs(xs, n) <=> XorOf(xs, 0 .. n-1) = Zero
<1> DEFINE g == [i \in 0 .. n-1 |-> XorOf(xs, 0 .. i)]
<1>1. ASSUME NEW i \in 0 .. n-1
      PROVE  g[i] = IF i = 0 THEN xs[0] ELSE XorKeys(xs[i], g[i-1])
  <2>1. CASE i = 0
    <3>1. 0 .. 0 = {0}
      OBVIOUS
    <3>2. QED
      BY <2>1, <3>1, XorOfOne
  <2>2. CASE i # 0
    <3>1. 0 .. i = (0 .. i-1) \union {i} /\ i \notin 0 .. i-1 /\ i-1 \in 0 .. n-1
      BY <2>2
    <3>2. IsFiniteSet(0 .. i-1)
      BY FS_Interval
    <3>3. XorOf(xs, (0 .. i-1) \union {i}) = XorKeys(xs[i], XorOf(xs, 0 .. i-1))
      BY <3>1, <3>2, XorOfOneMore
    <3>4. QED
      BY <2>2, <3>1, <3>3, Zenon
  <2>3. QED
    BY <2>1, <2>2
<1>2. IsCheck(g, n, xs)
  BY <1>1, Zenon DEF IsCheck
<1>3. g[n-1] = XorOf(xs, 0 .. n-1)
  OBVIOUS
<1> HIDE DEF g
<1>4. QED
  BY <1>2, <1>3, CheckXsValue

\* A secret that is in one of the Xs only is noticed.
LEMMA LoneSecret ==
    ASSUME NEW n \in Nat \ {0}, NEW xs, NEW i \in 0 .. n-1, NEW s, s \in xs[i],
           \A j \in 0 .. n-1 : j # i => s \notin xs[j]
    PROVE  ~CheckXs(xs, n)
<1>1. Holders(s, xs, 0 .. n-1) = {i}
  BY DEF Holders
<1>2. Cardinality({i}) % 2 = 1
  <2>1. Cardinality({i}) = 1
    BY FS_Singleton
  <2>2. QED
    BY <2>1
<1>3. s \in UNION {xs[j] : j \in 0 .. n-1}
  OBVIOUS
<1>4. s \in XorOf(xs, 0 .. n-1)
  BY <1>1, <1>2, <1>3, Zenon DEF XorOf
<1>5. QED
  BY <1>4, CheckXsIsXor DEF Zero
=============================================================================
