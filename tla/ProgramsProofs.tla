--------------------------- MODULE ProgramsProofs ---------------------------
(***************************************************************************)
(* Theorems about the parts of the programs that MCPrograms puts side by   *)
(* side, each from an invariant of that part alone: for any number of      *)
(* users, keys, lines and parts, a text is encrypted under one whole key   *)
(* unless SendText ran beside a copy, and lines of one user overtake each  *)
(* other only from goroutines that were there together; for any clients    *)
(* and goroutines, lines are whole where they arrive and are handled in    *)
(* order; for any programs, those who get a key by its ID get that key;    *)
(* for any configurations and files, what follows the README is accepted   *)
(* and what is accepted and tidy does not end the program; and for any     *)
(* numbers of clusters and members, the files that are generated match.    *)
(***************************************************************************)
EXTENDS MCPrograms, SequenceTheorems, FunctionTheorems, FiniteSetTheorems, TLAPS

ChatText == [from : Users, line : Nat, under : Seq(0 .. NKeys), raced : BOOLEAN, beside : SUBSET Nat]

UnderOneKey(t) == t.raced \/ \E k \in 1 .. NKeys : t.under = Whole(k)

\* The parts of the key before the one to be copied next are of the newest key.
KeyShape ==
    /\ mainSessionKey \in [Users -> [1 .. Parts -> 0 .. NKeys]]
    /\ copying \in [Users -> [key : 0 .. NKeys, done : 0 .. Parts]]
    /\ \A u \in Users : \A p \in 1 .. copying[u].done : mainSessionKey[u][p] = copying[u].key

\* What SendText has read, beside no copy, are parts of the key that is in place.
ReadFromKey(u) ==
    reading[u] # NotSending /\ ~raced[u] =>
        /\ ~Copying(u) /\ copying[u].key > 0 /\ Len(reading[u]) <= Parts
        /\ \A i \in 1 .. Len(reading[u]) : reading[u][i] = copying[u].key

ReadInvariant ==
    /\ typed \in [Users -> Nat]
    /\ reading \in [Users -> Seq(0 .. NKeys)]
    /\ raced \in [Users -> BOOLEAN]
    /\ \A u \in Users : ReadFromKey(u)

TextTypes ==
    /\ goroutines \in [Users -> SUBSET ChatText]
    /\ wire \in [Users -> [Users -> Seq(ChatText)]]
    /\ printed \in [Users -> Seq(ChatText)]

\* Wherever a text is, it was encrypted under one key.
TextsUnderOneKey ==
    /\ \A u \in Users : \A t \in goroutines[u] : UnderOneKey(t)
    /\ \A u, v \in Users : \A n \in DOMAIN wire[u][v] : UnderOneKey(wire[u][v][n])
    /\ \A v \in Users : \A n \in DOMAIN printed[v] : UnderOneKey(printed[v][n])

KeyInv == KeyShape /\ ReadInvariant /\ TextTypes /\ TextsUnderOneKey
-----------------------------------------------------------------------------
\* a may be ahead of b.
Ahead(a, b) == a.line < b.line \/ b.line \in a.beside

\* A text was typed before what SendText is at work on.
Past(u, t) == t.from = u => t.line <= typed[u] /\ (reading[u] # NotSending => t.line < typed[u])

PastInvariant ==
    /\ \A u \in Users : \A t \in goroutines[u] : t.from = u /\ Past(u, t)
    /\ \A u, v \in Users : \A n \in DOMAIN wire[u][v] : wire[u][v][n].from = u /\ Past(u, wire[u][v][n])
    /\ \A u, v \in Users : \A n \in DOMAIN printed[v] : Past(u, printed[v][n])

OrderOf(u) ==
    /\ \A a, b \in goroutines[u] : a # b => Ahead(a, b)
    /\ \A v \in Users : \A b \in goroutines[u] :
         /\ \A n \in DOMAIN wire[u][v] : Ahead(wire[u][v][n], b)
         /\ \A n \in DOMAIN printed[v] : printed[v][n].from = u => Ahead(printed[v][n], b)
    /\ \A v \in Users : \A n \in DOMAIN wire[u][v] :
         /\ \A m \in DOMAIN wire[u][v] : m < n => Ahead(wire[u][v][m], wire[u][v][n])
         /\ \A m \in DOMAIN printed[v] : printed[v][m].from = u => Ahead(printed[v][m], wire[u][v][n])

OrderInv == PastInvariant /\ (\A u \in Users : OrderOf(u)) /\ OvertakenOnlyBeside

\* What the two properties rest on.
IndInv == KeyInv /\ OrderInv
-----------------------------------------------------------------------------
LEMMA InitKeys == ASSUME Init PROVE KeyInv
<1>1. KeyShape
  BY ChatAssumption DEF Init, KeyShape, NoKey
<1>2. ReadInvariant
  BY ChatAssumption DEF Init, ReadInvariant, ReadFromKey, NotSending
<1>3. TextTypes /\ TextsUnderOneKey
  BY DEF Init, TextTypes, TextsUnderOneKey
<1>. QED
  BY <1>1, <1>2, <1>3 DEF KeyInv

LEMMA TextsStay ==
  ASSUME TextTypes, TextsUnderOneKey, UNCHANGED <<goroutines, wire, printed>>
  PROVE  TextTypes' /\ TextsUnderOneKey'
BY DEF TextTypes, TextsUnderOneKey

\* A key that is not being copied is whole.
LEMMA CopiedKey ==
  ASSUME KeyShape, NEW u \in Users, ~Copying(u)
  PROVE  copying[u].key \in 0 .. NKeys /\ \A p \in 1 .. Parts : mainSessionKey[u][p] = copying[u].key
<1>1. copying[u] \in [key : 0 .. NKeys, done : 0 .. Parts]
  BY DEF KeyShape
<1>2. copying[u].done = Parts
  BY <1>1, ChatAssumption DEF Copying
<1>. QED
  BY <1>1, <1>2 DEF KeyShape

\* The steps of the handler that copies a key.
LEMMA NewKeyKeys == ASSUME KeyInv, NEW u \in Users, NewKey(u) PROVE KeyInv'
<1>. USE ChatAssumption DEF KeyInv, NewKey, Copying
<1>1. KeyShape'
  BY DEF KeyShape
<1>2. ReadInvariant'
  <2>1. raced' \in [Users -> BOOLEAN]
    BY DEF ReadInvariant
  <2>2. ASSUME NEW v \in Users PROVE ReadFromKey(v)'
    <3>1. CASE v = u
      BY <3>1 DEF ReadInvariant, ReadFromKey
    <3>2. CASE v # u
      BY <3>2 DEF ReadInvariant, ReadFromKey, KeyShape
    <3>. QED BY <3>1, <3>2
  <2>. QED
    BY <2>1, <2>2 DEF ReadInvariant
<1>3. (TextTypes /\ TextsUnderOneKey)'
  BY TextsStay
<1>. QED
  BY <1>1, <1>2, <1>3

LEMMA CopyPartSteps ==
  ASSUME KeyShape, NEW u \in Users, CopyPart(u)
  PROVE  /\ copying[u].done + 1 \in 1 .. Parts /\ copying[u].key \in 0 .. NKeys
         /\ copying' = [copying EXCEPT ![u] = [key |-> copying[u].key, done |-> copying[u].done + 1]]
         /\ mainSessionKey' = [mainSessionKey EXCEPT ![u] =
                                 [@ EXCEPT ![copying[u].done + 1] = copying[u].key]]
<1>1. copying[u] \in [key : 0 .. NKeys, done : 0 .. Parts]
  BY DEF KeyShape
<1>2. [copying[u] EXCEPT !.done = copying[u].done + 1]
        = [key |-> copying[u].key, done |-> copying[u].done + 1]
  BY <1>1
<1>3. copying' = [copying EXCEPT ![u] = [@ EXCEPT !.done = copying[u].done + 1]]
  BY DEF CopyPart
<1>4. copying[u].done < Parts
  BY DEF CopyPart, Copying
<1>5. copying[u].done + 1 \in 1 .. Parts /\ copying[u].key \in 0 .. NKeys
  BY <1>1, <1>4, ChatAssumption
<1>6. mainSessionKey' = [mainSessionKey EXCEPT ![u] = [@ EXCEPT ![copying[u].done + 1] = copying[u].key]]
  BY DEF CopyPart
<1>. QED
  BY <1>2, <1>3, <1>5, <1>6

LEMMA CopyPartKeys == ASSUME KeyInv, NEW u \in Users, CopyPart(u) PROVE KeyInv'
<1>. USE ChatAssumption DEF KeyInv
<1>1. KeyShape'
  <2>. DEFINE d == copying[u].done + 1
              k == copying[u].key
  <2>1. d \in 1 .. Parts /\ k \in 0 .. NKeys
    BY CopyPartSteps
  <2>2. copying' = [copying EXCEPT ![u] = [key |-> k, done |-> d]]
    BY CopyPartSteps
  <2>3. mainSessionKey' = [mainSessionKey EXCEPT ![u] = [@ EXCEPT ![d] = k]]
    BY CopyPartSteps
  <2>4. \A p \in 1 .. d : p # d => p \in 1 .. copying[u].done
    <3>1. copying[u].done \in Nat
      BY DEF KeyShape
    <3>. QED
      BY <2>1, <3>1
  <2>5. \A p \in 1 .. copying[u].done : mainSessionKey[u][p] = k
    BY DEF KeyShape
  <2>6. \A p \in 1 .. d : [mainSessionKey[u] EXCEPT ![d] = k][p] = k
    BY <2>1, <2>4, <2>5 DEF KeyShape
  <2>. HIDE DEF d, k
  <2>7. mainSessionKey' \in [Users -> [1 .. Parts -> 0 .. NKeys]]
    BY <2>1, <2>3 DEF KeyShape
  <2>8. copying' \in [Users -> [key : 0 .. NKeys, done : 0 .. Parts]]
    BY <2>1, <2>2 DEF KeyShape
  <2>9. ASSUME NEW v \in Users, NEW p \in 1 .. copying'[v].done PROVE mainSessionKey'[v][p] = copying'[v].key
    <3>1. CASE v = u
      BY <2>2, <2>3, <2>6, <2>9, <3>1 DEF KeyShape
    <3>2. CASE v # u
      BY <2>2, <2>3, <2>9, <3>2 DEF KeyShape
    <3>. QED BY <3>1, <3>2
  <2>. QED
    BY <2>7, <2>8, <2>9 DEF KeyShape
<1>2. ReadInvariant'
  <2>1. ASSUME NEW v \in Users PROVE ReadFromKey(v)'
    <3>1. CASE v = u
      BY <3>1 DEF ReadInvariant, ReadFromKey, CopyPart, Copying
    <3>2. CASE v # u
      BY <3>2 DEF ReadInvariant, ReadFromKey, KeyShape, CopyPart, Copying
    <3>. QED BY <3>1, <3>2
  <2>. QED
    BY <2>1 DEF ReadInvariant, CopyPart
<1>3. (TextTypes /\ TextsUnderOneKey)'
  BY TextsStay DEF CopyPart
<1>. QED
  BY <1>1, <1>2, <1>3

LEMMA CopyingBoolean == ASSUME NEW u PROVE Copying(u) \in BOOLEAN
BY DEF Copying

LEMMA SetBoolean ==
  ASSUME NEW f \in [Users -> BOOLEAN], NEW u, NEW b \in BOOLEAN
  PROVE  [f EXCEPT ![u] = b] \in [Users -> BOOLEAN]
OBVIOUS

\* The steps of SendText.
LEMMA SendTextKeys == ASSUME KeyInv, NEW u \in Users, SendText(u) PROVE KeyInv'
<1>. USE ChatAssumption DEF KeyInv
<1>1. KeyShape'
  BY DEF KeyShape, SendText
<1>2. ReadInvariant'
  <2>1. (typed \in [Users -> Nat] /\ reading \in [Users -> Seq(0 .. NKeys)] /\ raced \in [Users -> BOOLEAN])'
    <3>1. typed' \in [Users -> Nat]
      BY DEF ReadInvariant, SendText
    <3>2. reading' \in [Users -> Seq(0 .. NKeys)]
      <4>. <<>> \in Seq(0 .. NKeys)
        OBVIOUS
      <4>. QED
        BY DEF ReadInvariant, SendText
    <3>3. raced' = raced \/ raced' = [raced EXCEPT ![u] = Copying(u)]
      BY DEF SendText
    <3>4. raced' \in [Users -> BOOLEAN]
      BY <3>3, SetBoolean, CopyingBoolean DEF ReadInvariant
    <3>. QED
      BY <3>1, <3>2, <3>4
  <2>2. ASSUME NEW v \in Users PROVE ReadFromKey(v)'
    <3>1. CASE v = u /\ mainSessionKey[u] # NoKey
      <4>1. ASSUME ~Copying(u) PROVE copying[u].key > 0
        <5>1. PICK p \in 1 .. Parts : mainSessionKey[u][p] # 0
          BY <3>1 DEF KeyShape, NoKey
        <5>2. copying[u].key \in 0 .. NKeys /\ copying[u].key # 0
          BY <4>1, <5>1, CopiedKey
        <5>. QED
          BY <5>2
      <4>2. reading'[u] = <<>> /\ raced'[u] = Copying(u)
        <5>1. reading' = [reading EXCEPT ![u] = <<>>] /\ raced' = [raced EXCEPT ![u] = Copying(u)]
          BY <3>1 DEF SendText
        <5>. QED
          BY <5>1 DEF ReadInvariant
      <4>3. Len(reading'[u]) = 0
        BY <4>2
      <4>. QED
        <5>1. Copying(u)' = Copying(u) /\ copying' = copying
          BY DEF Copying, SendText
        <5>. SUFFICES ASSUME ~raced'[u] PROVE ReadFromKey(u)'
          BY <3>1 DEF ReadFromKey
        <5>2. ~Copying(u)
          BY <4>2
        <5>. QED
          BY <4>1, <4>2, <4>3, <5>1, <5>2, ChatAssumption DEF ReadFromKey
    <3>2. CASE v # u \/ mainSessionKey[u] = NoKey
      BY <3>2 DEF ReadInvariant, ReadFromKey, SendText, Copying
    <3>. QED BY <3>1, <3>2
  <2>. QED
    BY <2>1, <2>2 DEF ReadInvariant
<1>3. (TextTypes /\ TextsUnderOneKey)'
  BY TextsStay DEF SendText
<1>. QED
  BY <1>1, <1>2, <1>3

LEMMA ReadPartKeys == ASSUME KeyInv, NEW u \in Users, ReadPart(u) PROVE KeyInv'
<1>. USE ChatAssumption DEF KeyInv, ReadPart, Copying
<1>1. KeyShape'
  BY DEF KeyShape
<1>2. ReadInvariant'
  <2>. DEFINE i == Len(reading[u]) + 1
              x == mainSessionKey[u][i]
  <2>1. i \in 1 .. Parts /\ x \in 0 .. NKeys /\ reading[u] \in Seq(0 .. NKeys)
    BY DEF ReadInvariant, KeyShape
  <2>2. /\ Append(reading[u], x) \in Seq(0 .. NKeys)
        /\ Len(Append(reading[u], x)) = i
        /\ \A j \in 1 .. i : Append(reading[u], x)[j] = IF j = i THEN x ELSE reading[u][j]
    BY <2>1
  <2>3. reading' \in [Users -> Seq(0 .. NKeys)] /\ reading'[u] = Append(reading[u], x)
    BY <2>2 DEF ReadInvariant
  <2>4. ASSUME NEW v \in Users PROVE ReadFromKey(v)'
    <3>1. CASE v = u
      <4>. SUFFICES ASSUME ~raced[u] PROVE ReadFromKey(u)'
        BY <3>1 DEF ReadFromKey
      <4>1. /\ ~Copying(u) /\ copying[u].key > 0
            /\ \A j \in 1 .. Len(reading[u]) : reading[u][j] = copying[u].key
        BY DEF ReadInvariant, ReadFromKey
      <4>2. x = copying[u].key
        BY <2>1, <4>1, CopiedKey
      <4>. QED
        BY <2>1, <2>2, <2>3, <4>1, <4>2 DEF ReadFromKey
    <3>2. CASE v # u
      BY <3>2 DEF ReadInvariant, ReadFromKey
    <3>. QED BY <3>1, <3>2
  <2>. QED
    BY <2>3, <2>4 DEF ReadInvariant
<1>3. (TextTypes /\ TextsUnderOneKey)'
  BY TextsStay
<1>. QED
  BY <1>1, <1>2, <1>3

\* The text whose goroutine GoSend starts.
NewText(u) == [from |-> u, line |-> typed[u], under |-> reading[u], raced |-> raced[u],
               beside |-> {t.line : t \in goroutines[u]}]

LEMMA GoSendKeys == ASSUME KeyInv, NEW u \in Users, GoSend(u) PROVE KeyInv'
<1>. USE ChatAssumption DEF KeyInv
<1>1. KeyShape'
  BY DEF KeyShape, GoSend
<1>2. ReadInvariant'
  <2>1. NotSending \in Seq(0 .. NKeys)
    BY DEF NotSending
  <2>2. reading' \in [Users -> Seq(0 .. NKeys)]
    BY <2>1 DEF ReadInvariant, GoSend
  <2>3. ASSUME NEW v \in Users PROVE ReadFromKey(v)'
    BY DEF ReadInvariant, ReadFromKey, GoSend, Copying
  <2>. QED
    BY <2>2, <2>3 DEF ReadInvariant, GoSend
<1>3. NewText(u) \in ChatText
  BY DEF NewText, ChatText, ReadInvariant, TextTypes
<1>4. UnderOneKey(NewText(u))
  <2>. SUFFICES ASSUME ~raced[u] PROVE \E k \in 1 .. NKeys : reading[u] = Whole(k)
    BY DEF UnderOneKey, NewText
  <2>1. /\ copying[u].key > 0 /\ Len(reading[u]) = Parts
        /\ \A i \in 1 .. Parts : reading[u][i] = copying[u].key
    BY DEF ReadInvariant, ReadFromKey, GoSend
  <2>2. copying[u].key \in 1 .. NKeys
    BY <2>1 DEF KeyShape
  <2>3. reading[u] = [i \in 1 .. Parts |-> reading[u][i]]
    BY <2>1 DEF ReadInvariant
  <2>. QED
    BY <2>1, <2>2, <2>3 DEF Whole
<1>5. goroutines' = [goroutines EXCEPT ![u] = @ \union {NewText(u)}]
  BY DEF GoSend, NewText, TextTypes
<1>6. TextTypes'
  BY ZenonT(40), <1>3, <1>5 DEF TextTypes, GoSend
<1>7. TextsUnderOneKey'
  <2>1. ASSUME NEW v \in Users, NEW t \in goroutines'[v] PROVE UnderOneKey(t)
    BY <1>4, <1>5 DEF TextsUnderOneKey, TextTypes
  <2>. QED
    BY <2>1 DEF TextsUnderOneKey, UnderOneKey, GoSend
<1>. QED
  BY <1>1, <1>2, <1>6, <1>7
\* The steps that move a text.
LEMMA SendKeys == ASSUME KeyInv, NEW u \in Users, Send(u) PROVE KeyInv'
<1>. USE DEF KeyInv
<1>1. PICK t \in goroutines[u] :
        /\ goroutines' = [goroutines EXCEPT ![u] = @ \ {t}]
        /\ wire' = [wire EXCEPT ![u] = [v \in Users |-> IF v = u THEN @[v] ELSE Append(@[v], t)]]
  BY DEF Send
<1>2. t \in ChatText /\ UnderOneKey(t)
  BY DEF TextTypes, TextsUnderOneKey
<1>3. KeyShape' /\ ReadInvariant'
  BY DEF Send, KeyShape, ReadInvariant, ReadFromKey, Copying
<1>4. \A v \in Users : /\ wire[u][v] \in Seq(ChatText) /\ Append(wire[u][v], t) \in Seq(ChatText)
                        /\ \A n \in DOMAIN Append(wire[u][v], t) : UnderOneKey(Append(wire[u][v], t)[n])
  BY <1>2 DEF TextTypes, TextsUnderOneKey
<1>5. \A v \in Users : wire'[u][v] = wire[u][v] \/ wire'[u][v] = Append(wire[u][v], t)
  BY <1>1 DEF TextTypes
<1>6. \A w \in Users : w # u => wire'[w] = wire[w]
  BY <1>1 DEF TextTypes
<1>7. TextTypes'
  <2>1. goroutines' \in [Users -> SUBSET ChatText] /\ printed' \in [Users -> Seq(ChatText)]
    BY <1>1 DEF TextTypes, Send
  <2>2. wire' \in [Users -> [Users -> Seq(ChatText)]]
    BY <1>1, <1>4 DEF TextTypes
  <2>. QED
    BY <2>1, <2>2 DEF TextTypes
<1>8. TextsUnderOneKey'
  <2>1. \A w \in Users : \A x \in goroutines'[w] : UnderOneKey(x)
    BY <1>1 DEF TextTypes, TextsUnderOneKey
  <2>2. \A w, v \in Users : \A n \in DOMAIN wire'[w][v] : UnderOneKey(wire'[w][v][n])
    BY <1>4, <1>5, <1>6 DEF TextsUnderOneKey
  <2>. QED
    BY <2>1, <2>2 DEF TextsUnderOneKey, Send, UnderOneKey
<1>. QED
  BY <1>3, <1>7, <1>8

\* A recipient drops the first text on the wire or prints it.
LEMMA OnTextMoves ==
  ASSUME TextTypes, NEW v \in Users, NEW u \in Users, OnText(v, u)
  PROVE  /\ wire[u][v] \in Seq(ChatText) /\ 1 \in DOMAIN wire[u][v]
         /\ wire' \in [Users -> [Users -> Seq(ChatText)]] /\ printed' \in [Users -> Seq(ChatText)]
         /\ \A n \in DOMAIN wire'[u][v] : n + 1 \in DOMAIN wire[u][v] /\ wire'[u][v][n] = wire[u][v][n + 1]
         /\ \A w, x \in Users : ~(w = u /\ x = v) => wire'[w][x] = wire[w][x]
         /\ \/ printed'[v] = printed[v]
            \/ printed'[v] = Append(printed[v], wire[u][v][1])
         /\ \A w \in Users : w # v => printed'[w] = printed[w]
         /\ UNCHANGED <<mainSessionKey, copying, typed, reading, raced, goroutines>>
<1>. DEFINE s == wire[u][v]
<1>1. s \in Seq(ChatText) /\ s # <<>>
  BY DEF OnText, TextTypes
<1>2. /\ 1 \in DOMAIN s /\ s[1] \in ChatText /\ Head(s) = s[1] /\ Tail(s) \in Seq(ChatText)
      /\ \A n \in DOMAIN Tail(s) : n + 1 \in DOMAIN s /\ Tail(s)[n] = s[n + 1]
  BY <1>1
<1>3. wire' = [wire EXCEPT ![u] = [@ EXCEPT ![v] = Tail(s)]]
  BY DEF OnText
<1>4. [wire[u] EXCEPT ![v] = Tail(s)] \in [Users -> Seq(ChatText)]
  BY <1>2 DEF TextTypes
<1>5. wire' \in [Users -> [Users -> Seq(ChatText)]]
  BY <1>3, <1>4 DEF TextTypes
<1>6. wire'[u] = [wire[u] EXCEPT ![v] = Tail(s)] /\ \A w \in Users : w # u => wire'[w] = wire[w]
  BY <1>3 DEF TextTypes
<1>7. wire'[u][v] = Tail(s) /\ \A w, x \in Users : ~(w = u /\ x = v) => wire'[w][x] = wire[w][x]
  BY <1>6 DEF TextTypes
<1>8. printed' = printed \/ printed' = [printed EXCEPT ![v] = Append(@, s[1])]
  BY <1>2 DEF OnText
<1>9. Append(printed[v], s[1]) \in Seq(ChatText)
  BY <1>2 DEF TextTypes
<1>10. /\ printed' \in [Users -> Seq(ChatText)]
       /\ \/ printed'[v] = printed[v]
          \/ printed'[v] = Append(printed[v], s[1])
       /\ \A w \in Users : w # v => printed'[w] = printed[w]
  BY <1>8, <1>9 DEF TextTypes
<1>11. UNCHANGED <<mainSessionKey, copying, typed, reading, raced, goroutines>>
  BY DEF OnText
<1>. QED
  BY <1>1, <1>2, <1>5, <1>7, <1>10, <1>11

LEMMA OnTextKeys == ASSUME KeyInv, NEW v \in Users, NEW u \in Users, OnText(v, u) PROVE KeyInv'
<1>1. TextTypes /\ TextsUnderOneKey
  BY DEF KeyInv
<1>2. KeyShape' /\ ReadInvariant'
  BY DEF KeyInv, OnText, KeyShape, ReadInvariant, ReadFromKey, Copying
<1>3. TextTypes'
  BY <1>1, OnTextMoves DEF TextTypes
<1>4. ASSUME NEW w \in Users, NEW x \in Users, NEW n \in DOMAIN wire'[w][x] PROVE UnderOneKey(wire'[w][x][n])
  <2>1. CASE w = u /\ x = v
    <3>1. n + 1 \in DOMAIN wire[u][v] /\ wire'[u][v][n] = wire[u][v][n + 1]
      BY <1>1, <1>4, <2>1, OnTextMoves
    <3>. QED
      BY <1>1, <2>1, <3>1 DEF TextsUnderOneKey
  <2>2. CASE ~(w = u /\ x = v)
    <3>1. wire'[w][x] = wire[w][x]
      BY <1>1, <2>2, OnTextMoves
    <3>. QED
      BY <1>1, <1>4, <3>1 DEF TextsUnderOneKey
  <2>. QED BY <2>1, <2>2
<1>5. ASSUME NEW w \in Users, NEW n \in DOMAIN printed'[w] PROVE UnderOneKey(printed'[w][n])
  <2>1. 1 \in DOMAIN wire[u][v]
    BY <1>1, OnTextMoves
  <2>2. UnderOneKey(wire[u][v][1])
    BY <1>1, <2>1 DEF TextsUnderOneKey
  <2>3. printed'[w] = printed[w] \/ printed'[w] = Append(printed[w], wire[u][v][1])
    BY <1>1, OnTextMoves
  <2>4. printed[w] \in Seq(ChatText)
    BY <1>1 DEF TextTypes
  <2>5. CASE printed'[w] = printed[w]
    BY <1>1, <1>5, <2>5 DEF TextsUnderOneKey
  <2>6. CASE printed'[w] = Append(printed[w], wire[u][v][1])
    <3>1. (n \in DOMAIN printed[w] /\ printed'[w][n] = printed[w][n]) \/ printed'[w][n] = wire[u][v][1]
      BY <1>5, <2>4, <2>6
    <3>. QED
      BY <1>1, <2>2, <3>1 DEF TextsUnderOneKey
  <2>. QED BY <2>3, <2>5, <2>6
<1>6. \A w \in Users : \A t \in goroutines'[w] : UnderOneKey(t)
  BY <1>1 DEF OnText, TextsUnderOneKey
<1>7. TextsUnderOneKey'
  BY <1>4, <1>5, <1>6 DEF TextsUnderOneKey, UnderOneKey
<1>. QED
  BY <1>2, <1>3, <1>7 DEF KeyInv

\* All steps together.
LEMMA StepKeys == ASSUME KeyInv, [Next]_vars PROVE KeyInv'
<1>1. CASE UNCHANGED vars
  BY <1>1 DEF vars, KeyInv, KeyShape, ReadInvariant, ReadFromKey, Copying, TextTypes, TextsUnderOneKey, UnderOneKey
<1>2. CASE Next
  BY <1>2, NewKeyKeys, CopyPartKeys, SendTextKeys, ReadPartKeys, GoSendKeys, SendKeys, OnTextKeys DEF Next
<1>. QED
  BY <1>1, <1>2

\* No text is encrypted under anything but one whole key, unless SendText ran beside a copy:
\* for every number of users, keys, lines and parts.
THEOREM TextUnderOneKeyHolds == Spec => []TextUnderOneKey
<1>1. KeyInv => TextUnderOneKey
  <2>. SUFFICES ASSUME KeyInv, NEW t \in Sent PROVE UnderOneKey(t)
    BY DEF TextUnderOneKey, UnderOneKey
  <2>1. CASE \E u \in Users : t \in goroutines[u]
    BY <2>1 DEF KeyInv, TextsUnderOneKey
  <2>2. CASE \E u, v \in Users : t \in ToSet(wire[u][v])
    BY <2>2 DEF KeyInv, TextsUnderOneKey, ToSet
  <2>3. CASE \E u \in Users : t \in ToSet(printed[u])
    BY <2>3 DEF KeyInv, TextsUnderOneKey, ToSet
  <2>4. \/ \E u \in Users : t \in goroutines[u]
        \/ \E u, v \in Users : t \in ToSet(wire[u][v])
        \/ \E u \in Users : t \in ToSet(printed[u])
    <3>1. t \in UNION {goroutines[u] : u \in Users} => \E u \in Users : t \in goroutines[u]
      OBVIOUS
    <3>2. t \in UNION {ToSet(wire[u][v]) : u \in Users, v \in Users} => \E u, v \in Users : t \in ToSet(wire[u][v])
      OBVIOUS
    <3>3. t \in UNION {ToSet(printed[u]) : u \in Users} => \E u \in Users : t \in ToSet(printed[u])
      OBVIOUS
    <3>. QED
      BY <3>1, <3>2, <3>3 DEF Sent
  <2>. QED
    BY <2>1, <2>2, <2>3, <2>4
<1>. QED
  BY <1>1, InitKeys, StepKeys, PTL DEF Spec-----------------------------------------------------------------------------
LEMMA InitOrder == ASSUME Init PROVE OrderInv
<1>1. /\ \A u \in Users : goroutines[u] = {} /\ printed[u] = <<>>
      /\ \A u, v \in Users : wire[u][v] = <<>>
  BY DEF Init
<1>2. PastInvariant
  BY <1>1 DEF PastInvariant
<1>3. ASSUME NEW u \in Users PROVE OrderOf(u)
  BY <1>1 DEF OrderOf
<1>4. OvertakenOnlyBeside
  BY <1>1 DEF OvertakenOnlyBeside
<1>. QED
  BY <1>2, <1>3, <1>4 DEF OrderInv

\* Steps that move no text.
LEMMA QuietOrder ==
  ASSUME KeyInv, OrderInv, UNCHANGED <<goroutines, wire, printed>>,
         \A u \in Users : \A t \in ChatText : Past(u, t) => Past(u, t)'
  PROVE  OrderInv'
<1>1. PastInvariant'
  <2>1. ASSUME NEW u \in Users, NEW t \in goroutines[u] PROVE t.from = u /\ Past(u, t)'
    BY DEF KeyInv, TextTypes, OrderInv, PastInvariant
  <2>2. ASSUME NEW u \in Users, NEW v \in Users, NEW n \in DOMAIN wire[u][v]
        PROVE  wire[u][v][n].from = u /\ Past(u, wire[u][v][n])'
    <3>1. wire[u][v] \in Seq(ChatText)
      BY DEF KeyInv, TextTypes
    <3>2. wire[u][v][n] \in ChatText
      BY <3>1, <2>2
    <3>. QED
      BY <3>2, <2>2 DEF OrderInv, PastInvariant
  <2>3. ASSUME NEW u \in Users, NEW v \in Users, NEW n \in DOMAIN printed[v] PROVE Past(u, printed[v][n])'
    <3>1. printed[v] \in Seq(ChatText)
      BY DEF KeyInv, TextTypes
    <3>2. printed[v][n] \in ChatText
      BY <3>1, <2>3
    <3>. QED
      BY <3>2, <2>3 DEF OrderInv, PastInvariant
  <2>. QED
    BY <2>1, <2>2, <2>3 DEF PastInvariant, Past
<1>2. ASSUME NEW u \in Users PROVE OrderOf(u)'
  BY DEF OrderInv, OrderOf, Ahead
<1>3. OvertakenOnlyBeside'
  BY DEF OrderInv, OvertakenOnlyBeside
<1>. QED
  BY <1>1, <1>2, <1>3 DEF OrderInv

LEMMA SendTextOrder == ASSUME KeyInv, OrderInv, NEW u \in Users, SendText(u) PROVE OrderInv'
<1>1. ASSUME NEW w \in Users, NEW t \in ChatText, Past(w, t) PROVE Past(w, t)'
  <2>1. typed[w] \in Nat /\ t.line \in Nat /\ typed'[w] = IF w = u THEN typed[w] + 1 ELSE typed[w]
    BY DEF KeyInv, ReadInvariant, ChatText, SendText
  <2>2. w # u => reading'[w] = reading[w]
    BY DEF KeyInv, ReadInvariant, SendText
  <2>. QED
    BY <1>1, <2>1, <2>2 DEF Past
<1>. QED
  BY <1>1, QuietOrder DEF SendText

LEMMA ReadPartOrder == ASSUME KeyInv, OrderInv, NEW u \in Users, ReadPart(u) PROVE OrderInv'
<1>1. ASSUME NEW w \in Users, NEW t \in ChatText, Past(w, t) PROVE Past(w, t)'
  <2>1. reading[u] # NotSending /\ typed' = typed /\ (w # u => reading'[w] = reading[w])
    BY DEF KeyInv, ReadInvariant, ReadPart
  <2>. QED
    BY <1>1, <2>1 DEF Past
<1>. QED
  BY <1>1, QuietOrder DEF ReadPart

\* The new text is ahead of none but those it is beside of.
LEMMA GoSendOrder == ASSUME KeyInv, OrderInv, NEW u \in Users, GoSend(u) PROVE OrderInv'
<1>. DEFINE Then(w, t) == t.from = w => t.line <= typed'[w] /\ (reading'[w] # NotSending => t.line < typed'[w])
<1>. PICK new : new = NewText(u)
  OBVIOUS
<1>1. /\ goroutines' = [goroutines EXCEPT ![u] = @ \union {new}]
      /\ goroutines \in [Users -> SUBSET ChatText]
  BY DEF GoSend, NewText, KeyInv, TextTypes
<1>2. /\ goroutines'[u] = goroutines[u] \union {new}
      /\ \A w \in Users : w # u => goroutines'[w] = goroutines[w]
  BY <1>1
<1>3. new.from = u /\ new.line = typed[u] /\ typed[u] \in Nat /\ \A b \in goroutines[u] : b.line \in new.beside
  BY DEF NewText, KeyInv, ReadInvariant
<1>4. reading[u] # NotSending /\ UNCHANGED <<typed, wire, printed>>
  BY DEF GoSend
<1>5. reading'[u] = NotSending /\ \A w \in Users : w # u => reading'[w] = reading[w]
  BY DEF GoSend, KeyInv, ReadInvariant
<1>6. \A w \in Users : \A t : Past(w, t) => Then(w, t)
  BY <1>4, <1>5 DEF Past
<1>7. Then(u, new)
  BY <1>3, <1>4, <1>5 DEF Past
<1>8. PastInvariant'
  <2>. HIDE DEF Then
  <2>1. \A w \in Users : \A t \in goroutines'[w] : t.from = w /\ Then(w, t)
    BY <1>2, <1>3, <1>6, <1>7 DEF OrderInv, PastInvariant
  <2>2. \A w, v \in Users : \A n \in DOMAIN wire[w][v] : wire[w][v][n].from = w /\ Then(w, wire[w][v][n])
    BY <1>6 DEF OrderInv, PastInvariant
  <2>3. \A w, v \in Users : \A n \in DOMAIN printed[v] : Then(w, printed[v][n])
    BY <1>6 DEF OrderInv, PastInvariant
  <2>. QED
    BY <1>4, <2>1, <2>2, <2>3 DEF PastInvariant, Past, Then
<1>9. \A t : Past(u, t) /\ t.from = u => Ahead(t, new)
  BY <1>3, <1>4 DEF Past, Ahead
<1>10. ASSUME NEW w \in Users PROVE OrderOf(w)'
  <2>1. CASE w = u
    <3>1. \A a, b \in goroutines'[u] : a # b => Ahead(a, b)
      BY <1>2, <1>3, <1>9 DEF OrderInv, PastInvariant, OrderOf, Ahead
    <3>2. ASSUME NEW v \in Users, NEW b \in goroutines'[u]
          PROVE  /\ \A n \in DOMAIN wire[u][v] : Ahead(wire[u][v][n], b)
                 /\ \A n \in DOMAIN printed[v] : printed[v][n].from = u => Ahead(printed[v][n], b)
      <4>1. CASE b = new
        BY <1>9, <4>1 DEF OrderInv, PastInvariant
      <4>2. CASE b \in goroutines[u]
        BY <4>2 DEF OrderInv, OrderOf
      <4>. QED BY <1>2, <4>1, <4>2
    <3>3. ASSUME NEW v \in Users, NEW n \in DOMAIN wire[u][v]
          PROVE  /\ \A m \in DOMAIN wire[u][v] : m < n => Ahead(wire[u][v][m], wire[u][v][n])
                 /\ \A m \in DOMAIN printed[v] : printed[v][m].from = u => Ahead(printed[v][m], wire[u][v][n])
      BY DEF OrderInv, OrderOf
    <3>. QED
      BY <1>4, <2>1, <3>1, <3>2, <3>3 DEF OrderOf, Ahead
  <2>2. CASE w # u
    <3>1. OrderOf(w) /\ goroutines'[w] = goroutines[w]
      BY <1>2, <2>2 DEF OrderInv
    <3>. QED
      BY <1>4, <3>1 DEF OrderOf, Ahead
  <2>. QED BY <2>1, <2>2
<1>11. OvertakenOnlyBeside'
  BY <1>4 DEF OrderInv, OvertakenOnlyBeside
<1>. QED
  BY <1>8, <1>10, <1>11 DEF OrderInv
\* A text that leaves its goroutine goes behind all that are on the wire.
LEMMA SendMoves ==
  ASSUME TextTypes, NEW u \in Users, Send(u)
  PROVE  \E t \in goroutines[u] :
           /\ goroutines'[u] = goroutines[u] \ {t}
           /\ \A w \in Users : w # u => goroutines'[w] = goroutines[w] /\ wire'[w] = wire[w]
           /\ \A v \in Users : \A n \in DOMAIN wire'[u][v] :
                /\ \/ wire'[u][v][n] = t
                   \/ n \in DOMAIN wire[u][v] /\ wire'[u][v][n] = wire[u][v][n]
                /\ \A m \in DOMAIN wire'[u][v] :
                     m < n => m \in DOMAIN wire[u][v] /\ wire'[u][v][m] = wire[u][v][m]
           /\ UNCHANGED <<typed, reading, printed>>
<1>1. PICK t \in goroutines[u] :
        /\ goroutines' = [goroutines EXCEPT ![u] = @ \ {t}]
        /\ wire' = [wire EXCEPT ![u] = [v \in Users |-> IF v = u THEN @[v] ELSE Append(@[v], t)]]
  BY DEF Send
<1>2. t \in ChatText
  BY DEF TextTypes
<1>3. /\ goroutines'[u] = goroutines[u] \ {t}
      /\ \A w \in Users : w # u => goroutines'[w] = goroutines[w] /\ wire'[w] = wire[w]
  BY <1>1 DEF TextTypes
<1>4. ASSUME NEW v \in Users, NEW n \in DOMAIN wire'[u][v]
      PROVE  /\ \/ wire'[u][v][n] = t
                \/ n \in DOMAIN wire[u][v] /\ wire'[u][v][n] = wire[u][v][n]
             /\ \A m \in DOMAIN wire'[u][v] :
                  m < n => m \in DOMAIN wire[u][v] /\ wire'[u][v][m] = wire[u][v][m]
  <2>. DEFINE s == wire[u][v]
  <2>1. s \in Seq(ChatText)
    BY DEF TextTypes
  <2>2. wire'[u][v] = s \/ wire'[u][v] = Append(s, t)
    BY <1>1 DEF TextTypes
  <2>3. CASE wire'[u][v] = s
    BY <1>4, <2>3
  <2>4. CASE wire'[u][v] = Append(s, t)
    <3>1. /\ DOMAIN Append(s, t) = 1 .. Len(s) + 1
          /\ \A k \in 1 .. Len(s) : k \in DOMAIN s /\ Append(s, t)[k] = s[k]
          /\ Append(s, t)[Len(s) + 1] = t
      BY <1>2, <2>1
    <3>. QED
      BY <1>4, <2>1, <2>4, <3>1
  <2>. QED BY <2>2, <2>3, <2>4
<1>. QED
  BY <1>1, <1>3, <1>4 DEF Send

LEMMA SendOrder == ASSUME KeyInv, OrderInv, NEW u \in Users, Send(u) PROVE OrderInv'
<1>1. PICK t \in goroutines[u] :
        /\ goroutines'[u] = goroutines[u] \ {t}
        /\ \A w \in Users : w # u => goroutines'[w] = goroutines[w] /\ wire'[w] = wire[w]
        /\ \A v \in Users : \A n \in DOMAIN wire'[u][v] :
             /\ \/ wire'[u][v][n] = t
                \/ n \in DOMAIN wire[u][v] /\ wire'[u][v][n] = wire[u][v][n]
             /\ \A m \in DOMAIN wire'[u][v] :
                  m < n => m \in DOMAIN wire[u][v] /\ wire'[u][v][m] = wire[u][v][m]
        /\ UNCHANGED <<typed, reading, printed>>
  BY SendMoves DEF KeyInv
<1>2. OrderOf(u) /\ PastInvariant
  BY DEF OrderInv
<1>3. PastInvariant'
  <2>1. ASSUME NEW w \in Users, NEW x \in goroutines'[w] PROVE x.from = w /\ Past(w, x)
    BY <1>1, <1>2 DEF PastInvariant
  <2>2. ASSUME NEW w \in Users, NEW v \in Users, NEW n \in DOMAIN wire'[w][v]
        PROVE  wire'[w][v][n].from = w /\ Past(w, wire'[w][v][n])
    <3>1. CASE w = u
      BY <1>1, <1>2, <2>2, <3>1 DEF PastInvariant
    <3>2. CASE w # u
      BY <1>1, <1>2, <2>2, <3>2 DEF PastInvariant
    <3>. QED BY <3>1, <3>2
  <2>. QED
    BY <1>1, <1>2, <2>1, <2>2 DEF PastInvariant, Past
<1>4. ASSUME NEW w \in Users PROVE OrderOf(w)'
  <2>1. CASE w = u
    <3>1. \A a, b \in goroutines'[u] : a # b => Ahead(a, b)
      BY <1>1, <1>2 DEF OrderOf
    <3>2. ASSUME NEW v \in Users, NEW b \in goroutines'[u]
          PROVE  /\ \A n \in DOMAIN wire'[u][v] : Ahead(wire'[u][v][n], b)
                 /\ \A n \in DOMAIN printed[v] : printed[v][n].from = u => Ahead(printed[v][n], b)
      <4>1. b \in goroutines[u] /\ b # t
        BY <1>1, <3>2
      <4>2. Ahead(t, b)
        BY <1>2, <4>1 DEF OrderOf
      <4>. QED
        BY <1>1, <1>2, <4>1, <4>2 DEF OrderOf
    <3>3. ASSUME NEW v \in Users, NEW n \in DOMAIN wire'[u][v]
          PROVE  /\ \A m \in DOMAIN wire'[u][v] : m < n => Ahead(wire'[u][v][m], wire'[u][v][n])
                 /\ \A m \in DOMAIN printed[v] : printed[v][m].from = u => Ahead(printed[v][m], wire'[u][v][n])
      <4>1. CASE wire'[u][v][n] = t
        BY <1>1, <1>2, <3>3, <4>1 DEF OrderOf
      <4>2. CASE n \in DOMAIN wire[u][v] /\ wire'[u][v][n] = wire[u][v][n]
        BY <1>1, <1>2, <3>3, <4>2 DEF OrderOf
      <4>. QED BY <1>1, <3>3, <4>1, <4>2
    <3>. QED
      BY <1>1, <2>1, <3>1, <3>2, <3>3 DEF OrderOf, Ahead
  <2>2. CASE w # u
    <3>1. OrderOf(w) /\ goroutines'[w] = goroutines[w] /\ wire'[w] = wire[w]
      BY <1>1, <2>2 DEF OrderInv
    <3>. QED
      BY <1>1, <3>1 DEF OrderOf, Ahead
  <2>. QED BY <2>1, <2>2
<1>5. OvertakenOnlyBeside'
  BY <1>1 DEF OrderInv, OvertakenOnlyBeside
<1>. QED
  BY <1>3, <1>4, <1>5 DEF OrderInv

\* The first text on the wire has only texts behind it that it may be ahead of.
LEMMA OnTextOrder ==
  ASSUME KeyInv, OrderInv, NEW v \in Users, NEW u \in Users, OnText(v, u)
  PROVE  OrderInv'
<1>. DEFINE t == wire[u][v][1]
<1>1. /\ 1 \in DOMAIN wire[u][v]
      /\ \A n \in DOMAIN wire'[u][v] : n + 1 \in DOMAIN wire[u][v] /\ wire'[u][v][n] = wire[u][v][n + 1]
      /\ \A w, x \in Users : ~(w = u /\ x = v) => wire'[w][x] = wire[w][x]
      /\ \A w \in Users : w # v => printed'[w] = printed[w]
      /\ UNCHANGED <<typed, reading, goroutines>>
  BY OnTextMoves DEF KeyInv
<1>2. ASSUME NEW n \in DOMAIN printed'[v]
      PROVE  /\ \/ printed'[v][n] = t
                \/ n \in DOMAIN printed[v] /\ printed'[v][n] = printed[v][n]
             /\ \A m \in DOMAIN printed'[v] :
                  m < n => m \in DOMAIN printed[v] /\ printed'[v][m] = printed[v][m]
  <2>1. printed[v] \in Seq(ChatText) /\ t \in ChatText
    BY <1>1 DEF KeyInv, TextTypes
  <2>2. printed'[v] = printed[v] \/ printed'[v] = Append(printed[v], t)
    BY OnTextMoves DEF KeyInv
  <2>. HIDE DEF t
  <2>3. CASE printed'[v] = printed[v]
    BY <1>2, <2>3
  <2>4. CASE printed'[v] = Append(printed[v], t)
    <3>. DEFINE s == printed[v]
    <3>1. /\ DOMAIN Append(s, t) = 1 .. Len(s) + 1
          /\ \A k \in 1 .. Len(s) : k \in DOMAIN s /\ Append(s, t)[k] = s[k]
          /\ Append(s, t)[Len(s) + 1] = t
      BY <2>1
    <3>. QED
      BY <1>2, <2>1, <2>4, <3>1
  <2>. QED BY <2>2, <2>3, <2>4
<1>3. PastInvariant /\ (\A w \in Users : OrderOf(w)) /\ OvertakenOnlyBeside
  BY DEF OrderInv
<1>4. t.from = u /\ Past(u, t)
  BY <1>1, <1>3 DEF PastInvariant
<1>5. /\ \A m \in DOMAIN printed[v] : printed[v][m].from = u => Ahead(printed[v][m], t)
      /\ \A b \in goroutines[u] : Ahead(t, b)
      /\ \A n \in DOMAIN wire[u][v] : 1 < n => Ahead(t, wire[u][v][n])
  BY <1>1, <1>3 DEF OrderOf
<1>. HIDE DEF t
<1>6. PastInvariant'
  <2>1. ASSUME NEW w \in Users, NEW x \in Users, NEW n \in DOMAIN wire'[w][x]
        PROVE  wire'[w][x][n].from = w /\ Past(w, wire'[w][x][n])
    <3>1. CASE w = u /\ x = v
      BY <1>1, <1>3, <2>1, <3>1 DEF PastInvariant
    <3>2. CASE ~(w = u /\ x = v)
      <4>1. wire'[w][x] = wire[w][x]
        BY <1>1, <3>2
      <4>. QED
        BY <1>3, <2>1, <4>1 DEF PastInvariant
    <3>. QED BY <3>1, <3>2
  <2>2. ASSUME NEW w \in Users, NEW x \in Users, NEW n \in DOMAIN printed'[x] PROVE Past(w, printed'[x][n])
    <3>1. CASE x = v
      BY <1>2, <1>3, <1>4, <2>2, <3>1 DEF PastInvariant, Past
    <3>2. CASE x # v
      BY <1>1, <1>3, <2>2, <3>2 DEF PastInvariant
    <3>. QED BY <3>1, <3>2
  <2>. QED
    BY <1>1, <1>3, <2>1, <2>2 DEF PastInvariant, Past
<1>7. ASSUME NEW w \in Users PROVE OrderOf(w)'
  <2>1. \A a, b \in goroutines[w] : a # b => Ahead(a, b)
    BY <1>3 DEF OrderOf
  <2>2. ASSUME NEW x \in Users, NEW b \in goroutines[w]
        PROVE  /\ \A n \in DOMAIN wire'[w][x] : Ahead(wire'[w][x][n], b)
               /\ \A n \in DOMAIN printed'[x] : printed'[x][n].from = w => Ahead(printed'[x][n], b)
    <3>1. ASSUME NEW n \in DOMAIN wire'[w][x] PROVE Ahead(wire'[w][x][n], b)
      <4>1. CASE w = u /\ x = v
        BY <1>1, <1>3, <3>1, <4>1 DEF OrderOf
      <4>2. CASE ~(w = u /\ x = v)
        <5>1. wire'[w][x] = wire[w][x]
          BY <1>1, <4>2
        <5>. QED
          BY <1>3, <3>1, <5>1 DEF OrderOf
      <4>. QED BY <4>1, <4>2
    <3>2. ASSUME NEW n \in DOMAIN printed'[x], printed'[x][n].from = w PROVE Ahead(printed'[x][n], b)
      <4>1. CASE x = v
        BY <1>2, <1>3, <1>4, <1>5, <3>2, <4>1 DEF OrderOf
      <4>2. CASE x # v
        BY <1>1, <1>3, <3>2, <4>2 DEF OrderOf
      <4>. QED BY <4>1, <4>2
    <3>. QED BY <3>1, <3>2
  <2>3. ASSUME NEW x \in Users, NEW n \in DOMAIN wire'[w][x], NEW m \in DOMAIN wire'[w][x], m < n
        PROVE  Ahead(wire'[w][x][m], wire'[w][x][n])
    <3>1. CASE w = u /\ x = v
      <4>1. m + 1 < n + 1
        <5>1. wire[u][v] \in Seq(ChatText)
          BY DEF KeyInv, TextTypes
        <5>2. wire'[u][v] \in Seq(ChatText)
          BY OnTextMoves DEF KeyInv
        <5>. QED
          BY <2>3, <3>1, <5>2
      <4>. QED
        BY <1>1, <1>3, <2>3, <3>1, <4>1 DEF OrderOf
    <3>2. CASE ~(w = u /\ x = v)
      <4>1. wire'[w][x] = wire[w][x]
        BY <1>1, <3>2
      <4>. QED
        BY <1>3, <2>3, <4>1 DEF OrderOf
    <3>. QED BY <3>1, <3>2
  <2>4. ASSUME NEW x \in Users, NEW n \in DOMAIN wire'[w][x], NEW m \in DOMAIN printed'[x], printed'[x][m].from = w
        PROVE  Ahead(printed'[x][m], wire'[w][x][n])
    <3>1. CASE w = u /\ x = v
      <4>1. n + 1 \in DOMAIN wire[u][v] /\ wire'[u][v][n] = wire[u][v][n + 1] /\ 1 < n + 1
        <5>1. wire'[u][v] \in Seq(ChatText)
          BY OnTextMoves DEF KeyInv
        <5>. QED
          BY <1>1, <2>4, <3>1, <5>1
      <4>. QED
        BY <1>2, <1>3, <1>5, <2>4, <3>1, <4>1 DEF OrderOf
    <3>2. CASE ~(w = u /\ x = v)
      <4>1. wire'[w][x] = wire[w][x]
        BY <1>1, <3>2
      <4>2. m \in DOMAIN printed[x] /\ printed'[x][m] = printed[x][m]
        <5>1. CASE x # v
          BY <1>1, <2>4, <5>1
        <5>2. CASE x = v
          BY <1>2, <1>4, <2>4, <3>2, <5>2
        <5>. QED BY <5>1, <5>2
      <4>. QED
        BY <1>3, <2>4, <4>1, <4>2 DEF OrderOf
    <3>. QED BY <3>1, <3>2
  <2>. QED
    BY <1>1, <2>1, <2>2, <2>3, <2>4 DEF OrderOf, Ahead
<1>8. OvertakenOnlyBeside'
  <2>1. ASSUME NEW x \in Users, NEW n \in DOMAIN printed'[x], NEW m \in DOMAIN printed'[x],
               m < n, printed'[x][m].from = printed'[x][n].from
        PROVE  Ahead(printed'[x][m], printed'[x][n])
    <3>1. CASE x # v
      BY <1>1, <1>3, <2>1, <3>1 DEF OvertakenOnlyBeside, Ahead
    <3>2. CASE x = v
      <4>1. m \in DOMAIN printed[v] /\ printed'[v][m] = printed[v][m]
        BY <1>2, <2>1, <3>2
      <4>2. CASE printed'[v][n] = t
        BY <1>4, <1>5, <2>1, <3>2, <4>1, <4>2
      <4>3. CASE n \in DOMAIN printed[v] /\ printed'[v][n] = printed[v][n]
        BY <1>3, <2>1, <3>2, <4>1, <4>3 DEF OvertakenOnlyBeside, Ahead
      <4>. QED BY <1>2, <2>1, <3>2, <4>2, <4>3
    <3>. QED BY <3>1, <3>2
  <2>. QED
    BY <2>1 DEF OvertakenOnlyBeside, Ahead
<1>. QED
  BY <1>6, <1>7, <1>8 DEF OrderInv

\* Two lines of one user are printed in the other order only if both had their goroutines
\* at one time: for every number of users, keys, lines and parts.
THEOREM OvertakenOnlyBesideHolds == Spec => []OvertakenOnlyBeside
<1>1. Init => IndInv
  BY InitKeys, InitOrder DEF IndInv
<1>2. IndInv /\ [Next]_vars => IndInv'
  <2>. SUFFICES ASSUME KeyInv, OrderInv, [Next]_vars PROVE OrderInv'
    BY StepKeys DEF IndInv
  <2>1. ASSUME UNCHANGED <<typed, reading, goroutines, wire, printed>> PROVE OrderInv'
    BY <2>1, QuietOrder DEF Past
  <2>2. ASSUME NEW u \in Users, NewKey(u) \/ CopyPart(u) PROVE OrderInv'
    BY <2>1, <2>2 DEF NewKey, CopyPart
  <2>3. CASE UNCHANGED vars
    BY <2>1, <2>3 DEF vars
  <2>4. CASE Next
    BY <2>2, <2>4, SendTextOrder, ReadPartOrder, GoSendOrder, SendOrder, OnTextOrder DEF Next
  <2>. QED
    BY <2>3, <2>4
<1>3. IndInv => OvertakenOnlyBeside
  BY DEF IndInv, OrderInv
<1>. QED
  BY <1>1, <1>2, <1>3, PTL DEF Spec
-----------------------------------------------------------------------------
(***************************************************************************)
(* Transport: the server gets whole lines.                                 *)
(***************************************************************************)
Sendable == N!Texts \union {N!Ping(c) : c \in Clients}
Piece    == [type : {"Text", "Ping"}, msg : Sendable, piece : 1 .. 2]

SendTypes ==
    /\ mutex \in [Clients -> Goroutines \union {None}]
    /\ sending \in [Clients -> [Goroutines -> Sendable \union {None}]]
    /\ written \in [Clients -> 0 .. 2]
    /\ stream \in [Clients -> Seq(Piece)]
    /\ peer \in [Clients -> {"open", "closed", "reset"}]

\* In the middle of a line, which is of the goroutine that holds the mutex.
HalfLine(c) == mutex[c] # None /\ written[c] = 1

Holding(c) == sending[c][mutex[c]]

\* An open connection holds lines and perhaps the first half of one more.
LineEnds(c) ==
    IF HalfLine(c)
    THEN Len(stream[c]) % 2 = 1 /\ stream[c][Len(stream[c])].msg = Holding(c)
    ELSE Len(stream[c]) % 2 = 0

SendInvariant ==
    \A c \in Clients :
        /\ mutex[c] # None => Holding(c) # None
        /\ IF peer[c] = "open" THEN LineEnds(c) ELSE stream[c] = <<>>

SendInv == SendTypes /\ SendInvariant /\ N!LinesWhole

LEMMA InitSends == ASSUME N!Init PROVE SendInv
<1>1. SendTypes
  BY DEF N!Init, SendTypes
<1>2. SendInvariant
  BY DEF N!Init, SendInvariant, LineEnds, HalfLine
<1>3. N!LinesWhole
  BY DEF N!Init, N!LinesWhole
<1>. QED
  BY <1>1, <1>2, <1>3 DEF SendInv

LEMMA Parity ==
  ASSUME NEW k \in Nat
  PROVE  /\ k % 2 = 0 \/ k % 2 = 1
         /\ k % 2 = 0 => (k + 1) % 2 = 1
         /\ k % 2 = 1 => k > 0 /\ (k + 1) % 2 = 0
         /\ (k + 2) % 2 = k % 2
OBVIOUS

\* Steps that write nothing, and keep the message of a half line.
LEMMA NothingWritten ==
  ASSUME SendInv, SendTypes', UNCHANGED <<stream, peer>>,
         \A c \in Clients :
            /\ mutex'[c] # None => sending'[c][mutex'[c]] # None
            /\ HalfLine(c)' <=> HalfLine(c)
            /\ HalfLine(c) => sending'[c][mutex'[c]] = Holding(c)
  PROVE  SendInv'
<1>1. SendInvariant'
  BY DEF SendInv, SendInvariant, LineEnds, Holding
<1>2. N!LinesWhole'
  BY DEF SendInv, N!LinesWhole
<1>. QED
  BY <1>1, <1>2 DEF SendInv

LEMMA CallSends ==
  ASSUME SendInv, NEW c \in Clients, NEW g \in Goroutines, N!Call(c, g)
  PROVE  SendInv'
<1>1. PICK m \in N!Texts : sending' = [sending EXCEPT ![c][g] = m]
  BY DEF N!Call
<1>2. sending[c][g] = None /\ UNCHANGED <<mutex, written, stream, peer>>
  BY DEF N!Call
<1>3. SendTypes'
  BY <1>1, <1>2 DEF SendInv, SendTypes, Sendable
<1>4. \A d \in Clients : mutex[d] # None => sending'[d][mutex[d]] = Holding(d)
  BY <1>1, <1>2 DEF SendInv, SendTypes, SendInvariant, Holding
<1>. QED
  BY <1>2, <1>3, <1>4, NothingWritten DEF SendInv, SendInvariant, HalfLine

LEMMA TickSends ==
  ASSUME SendInv, NEW c \in Clients, N!Tick(c)
  PROVE  SendInv'
<1>1. sending' = [sending EXCEPT ![c][Pinger] = N!Ping(c)]
  BY DEF N!Tick
<1>2. sending[c][Pinger] = None /\ UNCHANGED <<mutex, written, stream, peer>>
  BY DEF N!Tick
<1>3. SendTypes'
  BY <1>1, <1>2, TransportAssumption DEF SendInv, SendTypes, Sendable
<1>4. \A d \in Clients : mutex[d] # None => sending'[d][mutex[d]] = Holding(d)
  BY <1>1, <1>2 DEF SendInv, SendTypes, SendInvariant, Holding
<1>. QED
  BY <1>2, <1>3, <1>4, NothingWritten DEF SendInv, SendInvariant, HalfLine

LEMMA LockSends ==
  ASSUME SendInv, NEW c \in Clients, NEW g \in Goroutines, N!Lock(c, g)
  PROVE  SendInv'
<1>1. /\ sending[c][g] # None /\ mutex[c] = None
      /\ mutex' = [mutex EXCEPT ![c] = g] /\ written' = [written EXCEPT ![c] = 0]
      /\ UNCHANGED <<sending, stream, peer>>
  BY DEF N!Lock
<1>2. SendTypes'
  BY <1>1 DEF SendInv, SendTypes
<1>3. \A d \in Clients : d # c => mutex'[d] = mutex[d] /\ written'[d] = written[d]
  BY <1>1 DEF SendInv, SendTypes
<1>4. mutex'[c] = g /\ written'[c] = 0
  BY <1>1 DEF SendInv, SendTypes
<1>. QED
  BY <1>1, <1>2, <1>3, <1>4, NothingWritten DEF SendInv, SendInvariant, HalfLine, Holding

LEMMA UnlockSends ==
  ASSUME SendInv, NEW c \in Clients, NEW g \in Goroutines, N!Unlock(c, g)
  PROVE  SendInv'
<1>1. /\ mutex[c] = g /\ written[c] = 2
      /\ mutex' = [mutex EXCEPT ![c] = None] /\ sending' = [sending EXCEPT ![c][g] = None]
      /\ UNCHANGED <<written, stream, peer>>
  BY DEF N!Unlock
<1>2. SendTypes'
  BY <1>1 DEF SendInv, SendTypes
<1>3. \A d \in Clients : d # c => mutex'[d] = mutex[d] /\ sending'[d] = sending[d]
  BY <1>1 DEF SendInv, SendTypes
<1>4. mutex'[c] = None
  BY <1>1 DEF SendInv, SendTypes
<1>. QED
  BY <1>1, <1>2, <1>3, <1>4, NothingWritten DEF SendInv, SendInvariant, HalfLine, Holding

\* A piece is the first of a line when none is half written, and else the second.
LEMMA WriteSends ==
  ASSUME SendInv, NEW c \in Clients, NEW g \in Goroutines, N!Write(c, g)
  PROVE  SendInv'
<1>1. mutex[c] = g /\ written[c] < 2 /\ UNCHANGED <<mutex, sending>>
  BY DEF N!Write
<1>2. g # None /\ Holding(c) = sending[c][g] /\ Holding(c) \in Sendable
  BY <1>1, TransportAssumption DEF SendInv, SendTypes, SendInvariant, Holding
<1>3. CASE peer[c] = "open"
  <2>. DEFINE p == [type |-> sending[c][g].type, msg |-> sending[c][g], piece |-> written[c] + 1]
  <2>1. /\ written' = [written EXCEPT ![c] = @ + 1] /\ UNCHANGED peer
        /\ stream' = [stream EXCEPT ![c] = Append(@, p)]
    BY <1>3 DEF N!Write
  <2>2. Holding(c).type \in {"Text", "Ping"}
    BY <1>2 DEF Sendable, N!Texts, N!Ping
  <2>3. written[c] \in 0 .. 1
    BY <1>1 DEF SendInv, SendTypes
  <2>4. p \in Piece /\ p.msg = Holding(c) /\ p.piece = written[c] + 1
    BY <1>2, <2>2, <2>3 DEF Piece
  <2>. HIDE DEF p
  <2>5. SendTypes'
    BY <1>1, <2>1, <2>3, <2>4 DEF SendInv, SendTypes
  <2>6. \A d \in Clients : d # c => written'[d] = written[d] /\ stream'[d] = stream[d]
    BY <2>1 DEF SendInv, SendTypes
  <2>7. written'[c] = written[c] + 1 /\ stream'[c] = Append(stream[c], p) /\ stream[c] \in Seq(Piece)
    BY <2>1 DEF SendInv, SendTypes
  <2>8. /\ Len(stream'[c]) = Len(stream[c]) + 1 /\ Len(stream[c]) \in Nat
        /\ stream'[c][Len(stream[c]) + 1] = p
        /\ \A n \in 1 .. Len(stream[c]) : stream'[c][n] = stream[c][n]
        /\ DOMAIN stream[c] = 1 .. Len(stream[c]) /\ DOMAIN stream'[c] = 1 .. Len(stream[c]) + 1
    BY <2>4, <2>7
  <2>9. LineEnds(c)
    BY <1>3 DEF SendInv, SendInvariant
  <2>10. SendInvariant'
    <3>1. LineEnds(c)'
      <4>1. CASE written[c] = 0
        <5>1. Len(stream[c]) % 2 = 0
          BY <2>9, <4>1 DEF LineEnds, HalfLine
        <5>2. HalfLine(c)' /\ Holding(c)' = Holding(c)
          BY <1>1, <1>2, <2>7, <4>1 DEF HalfLine, Holding
        <5>3. (Len(stream[c]) + 1) % 2 = 1
          BY <2>8, <5>1, Parity
        <5>4. stream'[c][Len(stream'[c])].msg = Holding(c)'
          BY <2>4, <2>8, <5>2
        <5>. QED
          BY <2>8, <5>2, <5>3, <5>4 DEF LineEnds
      <4>2. CASE written[c] = 1
        <5>1. Len(stream[c]) % 2 = 1
          BY <1>1, <1>2, <2>9, <4>2 DEF LineEnds, HalfLine
        <5>2. ~HalfLine(c)'
          BY <2>7, <4>2 DEF HalfLine
        <5>3. Len(stream'[c]) % 2 = 0
          BY <2>8, <5>1, Parity
        <5>. QED
          BY <5>2, <5>3 DEF LineEnds
      <4>. QED
        BY <2>3, <4>1, <4>2
    <3>2. ASSUME NEW d \in Clients, d # c
          PROVE  /\ mutex'[d] # None => Holding(d)' # None
                 /\ IF peer'[d] = "open" THEN LineEnds(d)' ELSE stream'[d] = <<>>
      BY <1>1, <2>1, <2>6, <3>2 DEF SendInv, SendInvariant, LineEnds, HalfLine, Holding
    <3>3. Holding(c)' # None /\ peer'[c] = "open"
      BY <1>1, <1>2, <1>3, <2>1 DEF SendInv, SendInvariant, Holding
    <3>. QED
      BY <3>1, <3>2, <3>3 DEF SendInvariant
  <2>11. N!LinesWhole'
    <3>1. ASSUME NEW d \in Clients, NEW n \in DOMAIN stream'[d]
          PROVE  /\ stream'[d][n].piece = IF n % 2 = 1 THEN 1 ELSE 2
                 /\ n % 2 = 0 => stream'[d][n].msg = stream'[d][n-1].msg
      <4>1. CASE d # c
        BY <2>6, <3>1, <4>1 DEF SendInv, N!LinesWhole
      <4>2. CASE d = c /\ n <= Len(stream[c])
        <5>1. n \in 1 .. Len(stream[c]) /\ (n % 2 = 0 => n - 1 \in 1 .. Len(stream[c]))
          <6>1. Len(stream[c]) \in Nat /\ n \in 1 .. Len(stream[c])
            BY <2>8, <3>1, <4>2
          <6>2. n \in Nat /\ (n % 2 = 0 => n # 1)
            BY <6>1
          <6>. QED
            BY <6>1, <6>2
        <5>2. /\ stream[c][n].piece = IF n % 2 = 1 THEN 1 ELSE 2
              /\ n % 2 = 0 => stream[c][n].msg = stream[c][n-1].msg
          BY <2>8, <5>1 DEF SendInv, N!LinesWhole
        <5>. QED
          BY <2>8, <4>2, <5>1, <5>2
      <4>3. CASE d = c /\ n = Len(stream[c]) + 1
        <5>1. CASE written[c] = 0
          <6>1. Len(stream[c]) % 2 = 0
            BY <2>9, <5>1 DEF LineEnds, HalfLine
          <6>2. n % 2 = 1
            BY <2>8, <4>3, <6>1, Parity
          <6>3. stream'[d][n].piece = 1
            BY <2>4, <2>8, <4>3, <5>1
          <6>. QED
            BY <6>2, <6>3
        <5>2. CASE written[c] = 1
          <6>1. Len(stream[c]) % 2 = 1 /\ stream[c][Len(stream[c])].msg = Holding(c)
            BY <1>1, <1>2, <2>9, <5>2 DEF LineEnds, HalfLine
          <6>2. n % 2 = 0 /\ Len(stream[c]) > 0
            BY <2>8, <4>3, <6>1, Parity
          <6>3. stream'[d][n].piece = 2 /\ stream'[d][n].msg = Holding(c)
            BY <2>4, <2>8, <4>3, <5>2
          <6>4. stream'[d][n-1] = stream[c][Len(stream[c])]
            BY <2>8, <4>3, <6>2
          <6>. QED
            BY <6>1, <6>2, <6>3, <6>4
        <5>. QED
          BY <2>3, <5>1, <5>2
      <4>. QED
        BY <2>8, <3>1, <4>1, <4>2, <4>3
    <3>. QED
      BY <3>1 DEF N!LinesWhole
  <2>. QED
    BY <2>5, <2>10, <2>11 DEF SendInv
<1>4. CASE peer[c] # "open"
  <2>1. /\ UNCHANGED stream
        /\ \/ written' = [written EXCEPT ![c] = @ + 1] /\ peer' = [peer EXCEPT ![c] = "reset"]
           \/ UNCHANGED <<written, peer>>
    <3>1. peer[c] = "closed" \/ peer[c] = "reset"
      BY <1>4 DEF SendInv, SendTypes
    <3>2. CASE peer[c] = "closed"
      BY <3>2 DEF N!Write
    <3>3. CASE peer[c] = "reset"
      BY <3>3 DEF N!Write
    <3>. QED
      BY <3>1, <3>2, <3>3
  <2>2. SendTypes'
    <3>1. written[c] + 1 \in 0 .. 2
      BY <1>1 DEF SendInv, SendTypes
    <3>. QED
      BY <1>1, <2>1, <3>1 DEF SendInv, SendTypes
  <2>3. stream[c] = <<>> /\ peer'[c] # "open"
    BY <1>4, <2>1 DEF SendInv, SendInvariant, SendTypes
  <2>4. \A d \in Clients : d # c => written'[d] = written[d] /\ peer'[d] = peer[d]
    BY <2>1 DEF SendInv, SendTypes
  <2>5. SendInvariant'
    BY <1>1, <2>1, <2>3, <2>4 DEF SendInv, SendInvariant, LineEnds, HalfLine, Holding
  <2>6. N!LinesWhole'
    BY <2>1 DEF SendInv, N!LinesWhole
  <2>. QED
    BY <2>2, <2>5, <2>6 DEF SendInv
<1>. QED
  BY <1>3, <1>4
\* The server takes whole lines only.
LEMMA ForwardSends ==
  ASSUME SendInv, NEW c \in Clients, N!Forward(c)
  PROVE  SendInv'
<1>. DEFINE s == stream[c]
            t == SubSeq(s, 3, Len(s))
<1>1. /\ Len(s) >= 2 /\ peer[c] = "open" /\ stream' = [stream EXCEPT ![c] = t]
      /\ UNCHANGED <<mutex, sending, written, peer>>
  BY DEF N!Forward, N!senders
<1>2. s \in Seq(Piece)
  BY DEF SendInv, SendTypes
<1>3. /\ t \in Seq(Piece) /\ Len(t) = Len(s) - 2 /\ Len(s) \in Nat
      /\ \A n \in 1 .. Len(t) : t[n] = s[n + 2]
      /\ DOMAIN s = 1 .. Len(s) /\ DOMAIN t = 1 .. Len(t)
  BY <1>1, <1>2
<1>4. stream'[c] = t /\ \A d \in Clients : d # c => stream'[d] = stream[d]
  BY <1>1 DEF SendInv, SendTypes
<1>5. SendTypes'
  BY <1>1, <1>3 DEF SendInv, SendTypes
<1>6. Len(t) \in Nat /\ Len(s) % 2 = Len(t) % 2 /\ (Len(s) % 2 = 1 => Len(t) > 0)
  <2>1. Len(t) \in Nat /\ Len(s) = Len(t) + 2
    BY <1>1, <1>3
  <2>2. (Len(t) + 2) % 2 = Len(t) % 2 /\ (Len(t) % 2 = 1 => Len(t) > 0)
    BY <2>1, Parity
  <2>. QED
    BY <2>1, <2>2
<1>. HIDE DEF t
<1>7. SendInvariant'
  <2>1. LineEnds(c)
    BY <1>1 DEF SendInv, SendInvariant
  <2>2. LineEnds(c)'
    <3>1. CASE HalfLine(c)
      <4>1. Len(s) % 2 = 1 /\ s[Len(s)].msg = Holding(c)
        BY <2>1, <3>1 DEF LineEnds
      <4>2. t[Len(t)] = s[Len(s)]
        BY <1>3, <1>6, <4>1
      <4>. QED
        BY <1>1, <1>4, <1>6, <3>1, <4>1, <4>2 DEF LineEnds, HalfLine, Holding
    <3>2. CASE ~HalfLine(c)
      BY <1>1, <1>4, <1>6, <2>1, <3>2 DEF LineEnds, HalfLine
    <3>. QED
      BY <3>1, <3>2
  <2>. QED
    BY <1>1, <1>4, <2>2 DEF SendInv, SendInvariant, LineEnds, HalfLine, Holding
<1>8. N!LinesWhole'
  <2>1. ASSUME NEW n \in DOMAIN t
        PROVE  /\ t[n].piece = IF n % 2 = 1 THEN 1 ELSE 2
               /\ n % 2 = 0 => t[n].msg = t[n-1].msg
    <3>1. n \in Nat /\ n > 0 /\ n + 2 \in DOMAIN s /\ t[n] = s[n + 2]
      BY <1>1, <1>3
    <3>2. /\ s[n + 2].piece = IF (n + 2) % 2 = 1 THEN 1 ELSE 2
          /\ (n + 2) % 2 = 0 => s[n + 2].msg = s[(n + 2) - 1].msg
      BY <3>1 DEF SendInv, N!LinesWhole
    <3>3. (n + 2) % 2 = n % 2 /\ (n % 2 = 0 => n > 1)
      BY <3>1, Parity
    <3>4. n % 2 = 0 => t[n - 1] = s[(n + 2) - 1]
      BY <1>3, <3>1, <3>3
    <3>. QED
      BY <3>1, <3>2, <3>3, <3>4
  <2>. QED
    BY <1>4, <2>1 DEF SendInv, N!LinesWhole
<1>. QED
  BY <1>5, <1>7, <1>8 DEF SendInv

LEMMA CloseSends ==
  ASSUME SendInv, NEW c \in Clients, N!Close(c)
  PROVE  SendInv'
<1>1. /\ peer' = [peer EXCEPT ![c] = "closed"] /\ stream' = [stream EXCEPT ![c] = <<>>]
      /\ UNCHANGED <<mutex, sending, written>>
  BY DEF N!Close, N!senders
<1>2. SendTypes'
  BY <1>1 DEF SendInv, SendTypes
<1>3. peer'[c] # "open" /\ stream'[c] = <<>>
  BY <1>1 DEF SendInv, SendTypes
<1>4. \A d \in Clients : d # c => peer'[d] = peer[d] /\ stream'[d] = stream[d]
  BY <1>1 DEF SendInv, SendTypes
<1>5. SendInvariant'
  BY ZenonT(40), <1>1, <1>3, <1>4 DEF SendInv, SendInvariant, LineEnds, HalfLine, Holding
<1>6. N!LinesWhole'
  BY <1>3, <1>4 DEF SendInv, N!LinesWhole
<1>. QED
  BY <1>2, <1>5, <1>6 DEF SendInv

LEMMA SendsUnchanged ==
  ASSUME SendInv, UNCHANGED <<N!senders, stream, peer>>
  PROVE  SendInv'
BY DEF SendInv, SendTypes, SendInvariant, N!LinesWhole, N!senders, LineEnds, HalfLine, Holding

LEMMA SendStep == ASSUME SendInv, N!Next PROVE SendInv'
<1>1. ASSUME NEW c \in Clients, N!Listens(c) PROVE SendInv'
  BY <1>1, SendsUnchanged DEF N!Listens, N!HasMessage, N!EndOfStream, N!Hand
<1>2. ASSUME NEW c \in Clients, NEW g \in Goroutines, N!Send(c, g) PROVE SendInv'
  BY <1>2, LockSends, WriteSends, UnlockSends DEF N!Send
<1>3. ASSUME NEW c \in Clients, N!Refuse(c) PROVE SendInv'
  BY <1>3, SendsUnchanged DEF N!Refuse
<1>. QED
  BY <1>1, <1>2, <1>3, CallSends, TickSends, ForwardSends, CloseSends DEF N!Next

-----------------------------------------------------------------------------
(***************************************************************************)
(* Transport: what is handled is what was sent, in order.                  *)
(***************************************************************************)
Line == N!Routed \union {N!Pong}

\* pos are the places in box of what follows the first k of f, with nothing but pongs
\* between them.
Places(f, k, box, pos) ==
    /\ \A i \in 1 .. Len(f)-k : box[pos[i]] = f[k + i]
    /\ \A i, j \in 1 .. Len(f)-k : i < j => pos[i] < pos[j]
    /\ \A n \in 1 .. Len(box) : box[n].type # "Pong" => \E i \in 1 .. Len(f)-k : pos[i] = n

\* box holds what follows the first k of f, and pongs.
Awaited(f, k, box) == \E pos \in [1 .. Len(f)-k -> 1 .. Len(box)] : Places(f, k, box, pos)

LEMMA RoutedIsNoPong == \A m \in N!Routed : m.type # "Pong" /\ m.size \in {"short", "long"}
BY DEF N!Routed, N!Texts, N!Error, N!Sizes

\* A line comes in behind the others.
LEMMA PongComes ==
  ASSUME NEW f \in Seq(N!Routed), NEW k \in 0 .. Len(f), NEW box \in Seq(Line), Awaited(f, k, box)
  PROVE  Awaited(f, k, Append(box, N!Pong))
<1>. DEFINE more == Append(box, N!Pong)
<1>1. PICK pos \in [1 .. Len(f)-k -> 1 .. Len(box)] : Places(f, k, box, pos)
  BY DEF Awaited
<1>2. /\ Len(more) = Len(box) + 1 /\ Len(box) \in Nat /\ more[Len(box) + 1] = N!Pong
      /\ \A n \in 1 .. Len(box) : more[n] = box[n]
  BY DEF Line
<1>3. N!Pong.type = "Pong"
  BY DEF N!Pong
<1>. HIDE DEF more
<1>4. pos \in [1 .. Len(f)-k -> 1 .. Len(more)]
  BY <1>2
<1>5. \A i \in 1 .. Len(f)-k : pos[i] \in 1 .. Len(box)
  BY <1>1
<1>6. \A i \in 1 .. Len(f)-k : more[pos[i]] = f[k + i]
  BY <1>1, <1>2, <1>5 DEF Places
<1>7. ASSUME NEW n \in 1 .. Len(more), more[n].type # "Pong"
      PROVE  \E i \in 1 .. Len(f)-k : pos[i] = n
  <2>1. n \in 1 .. Len(box) /\ box[n].type # "Pong"
    BY <1>2, <1>3, <1>7
  <2>. QED
    BY <1>1, <2>1 DEF Places
<1>8. Places(f, k, more, pos)
  BY <1>1, <1>6, <1>7 DEF Places
<1>. QED
  BY <1>4, <1>8 DEF Awaited, more

LEMMA TextComes ==
  ASSUME NEW f \in Seq(N!Routed), NEW k \in 0 .. Len(f), NEW box \in Seq(Line), Awaited(f, k, box),
         NEW m \in N!Routed
  PROVE  Awaited(Append(f, m), k, Append(box, m))
<1>. DEFINE all == Append(f, m)
            more == Append(box, m)
<1>1. PICK pos \in [1 .. Len(f)-k -> 1 .. Len(box)] : Places(f, k, box, pos)
  BY DEF Awaited
<1>2. /\ Len(more) = Len(box) + 1 /\ Len(box) \in Nat /\ more[Len(box) + 1] = m
      /\ \A n \in 1 .. Len(box) : more[n] = box[n]
  BY DEF Line
<1>3. /\ Len(all) = Len(f) + 1 /\ Len(f) \in Nat /\ all[Len(f) + 1] = m
      /\ \A n \in 1 .. Len(f) : all[n] = f[n]
  OBVIOUS
<1>. HIDE DEF all, more
<1>. DEFINE l == Len(f) - k
            new == [i \in 1 .. l + 1 |-> IF i = l + 1 THEN Len(box) + 1 ELSE pos[i]]
<1>4. l \in Nat /\ Len(all) - k = l + 1 /\ l + 1 \in 1 .. l + 1
  BY <1>3
<1>13. pos \in [1 .. l -> 1 .. Len(box)]
  BY <1>1
<1>. HIDE DEF l
<1>5. new \in [1 .. l + 1 -> 1 .. Len(more)]
  <2>1. ASSUME NEW i \in 1 .. l + 1, i # l + 1 PROVE pos[i] \in 1 .. Len(box)
    BY <1>4, <1>13, <2>1
  <2>. QED
    BY <1>2, <2>1
<1>6. ASSUME NEW i \in 1 .. l PROVE i \in 1 .. l + 1 /\ new[i] = pos[i] /\ pos[i] \in 1 .. Len(box)
  BY <1>4, <1>13
<1>7. new[l + 1] = Len(box) + 1
  BY <1>4
<1>14. /\ \A i \in 1 .. l : box[pos[i]] = f[k + i]
       /\ \A i, j \in 1 .. l : i < j => pos[i] < pos[j]
       /\ \A n \in 1 .. Len(box) : box[n].type # "Pong" => \E i \in 1 .. l : pos[i] = n
  BY <1>1 DEF Places, l
<1>15. k \in Nat /\ k + l = Len(f)
  BY <1>3 DEF l
<1>. HIDE DEF new
<1>8. \A i \in 1 .. l + 1 : more[new[i]] = all[k + i]
  <2>1. ASSUME NEW i \in 1 .. l PROVE more[new[i]] = all[k + i]
    <3>1. k + i \in 1 .. Len(f) /\ box[pos[i]] = f[k + i]
      BY <1>4, <1>14, <1>15
    <3>. QED
      BY <1>2, <1>3, <1>6, <3>1
  <2>2. more[new[l + 1]] = all[k + (l + 1)]
    BY <1>2, <1>3, <1>4, <1>7, <1>15
  <2>3. \A i \in 1 .. l + 1 : i \in 1 .. l \/ i = l + 1
    BY <1>4
  <2>. QED
    BY <2>1, <2>2, <2>3
<1>9. ASSUME NEW i \in 1 .. l + 1, NEW j \in 1 .. l + 1, i < j PROVE new[i] < new[j]
  <2>1. i \in 1 .. l /\ (j \in 1 .. l \/ j = l + 1)
    BY <1>4, <1>9
  <2>2. CASE j \in 1 .. l
    BY <1>6, <1>9, <1>14, <2>1, <2>2
  <2>3. CASE j = l + 1
    BY <1>2, <1>6, <1>7, <2>1, <2>3
  <2>. QED
    BY <2>1, <2>2, <2>3
<1>10. ASSUME NEW n \in 1 .. Len(more), more[n].type # "Pong"
       PROVE  \E i \in 1 .. l + 1 : new[i] = n
  <2>1. CASE n = Len(box) + 1
    BY <1>4, <1>7, <2>1
  <2>2. CASE n \in 1 .. Len(box)
    <3>1. PICK i \in 1 .. l : pos[i] = n
      BY <1>2, <1>10, <1>14, <2>2
    <3>. QED
      BY <1>6, <3>1
  <2>. QED
    BY <1>2, <2>1, <2>2
<1>11. Places(all, k, more, new)
  BY <1>4, <1>8, <1>9, <1>10 DEF Places
<1>. QED
  BY <1>4, <1>5, <1>11 DEF Awaited, all, more

\* The first line is taken: a pong, or what comes next.
LEMMA PongTaken ==
  ASSUME NEW f \in Seq(N!Routed), NEW k \in 0 .. Len(f), NEW box \in Seq(Line), Awaited(f, k, box),
         box # <<>>, Head(box).type = "Pong"
  PROVE  Awaited(f, k, Tail(box))
<1>. DEFINE rest == Tail(box)
            l == Len(f) - k
<1>1. PICK pos \in [1 .. l -> 1 .. Len(box)] : Places(f, k, box, pos)
  BY DEF Awaited
<1>2. /\ Len(box) \in Nat /\ Len(box) > 0 /\ Len(rest) = Len(box) - 1 /\ box[1].type = "Pong"
      /\ \A n \in 1 .. Len(rest) : rest[n] = box[n + 1]
  OBVIOUS
<1>3. l \in Nat
  OBVIOUS
<1>4. ASSUME NEW i \in 1 .. l PROVE pos[i] \in 2 .. Len(box)
  <2>1. pos[i] \in 1 .. Len(box) /\ box[pos[i]] = f[k + i]
    BY <1>1 DEF Places
  <2>4. k + i \in 1 .. Len(f)
    BY <1>3
  <2>2. f[k + i] \in N!Routed
    BY <2>4
  <2>3. box[pos[i]].type # "Pong"
    BY <2>1, <2>2, RoutedIsNoPong
  <2>. QED
    BY <1>2, <2>1, <2>3
<1>. HIDE DEF rest
<1>. DEFINE new == [i \in 1 .. l |-> pos[i] - 1]
<1>5. new \in [1 .. l -> 1 .. Len(rest)] /\ \A i \in 1 .. l : new[i] = pos[i] - 1
  BY <1>2, <1>3, <1>4
<1>. HIDE DEF new
<1>6. \A i \in 1 .. l : rest[new[i]] = f[k + i]
  BY <1>1, <1>2, <1>4, <1>5 DEF Places
<1>7. \A i, j \in 1 .. l : i < j => new[i] < new[j]
  BY <1>1, <1>4, <1>5 DEF Places
<1>8. ASSUME NEW n \in 1 .. Len(rest), rest[n].type # "Pong"
      PROVE  \E i \in 1 .. l : new[i] = n
  <2>1. n + 1 \in 1 .. Len(box) /\ box[n + 1].type # "Pong"
    BY <1>2, <1>8
  <2>2. PICK i \in 1 .. l : pos[i] = n + 1
    BY <1>1, <2>1 DEF Places
  <2>. QED
    BY <1>5, <2>2
<1>9. Places(f, k, rest, new)
  BY <1>6, <1>7, <1>8 DEF Places
<1>. QED
  BY <1>5, <1>9 DEF Awaited, rest

LEMMA TextTaken ==
  ASSUME NEW f \in Seq(N!Routed), NEW k \in 0 .. Len(f), NEW box \in Seq(Line), Awaited(f, k, box),
         box # <<>>, Head(box).type # "Pong"
  PROVE  /\ k < Len(f) /\ f[k + 1] = Head(box)
         /\ Awaited(f, k + 1, Tail(box))
<1>. DEFINE rest == Tail(box)
            l == Len(f) - k
<1>1. PICK pos \in [1 .. l -> 1 .. Len(box)] : Places(f, k, box, pos)
  BY DEF Awaited
<1>2. /\ Len(box) \in Nat /\ Len(box) > 0 /\ Len(rest) = Len(box) - 1 /\ box[1] = Head(box)
      /\ \A n \in 1 .. Len(rest) : rest[n] = box[n + 1]
  OBVIOUS
<1>3. l \in Nat
  OBVIOUS
<1>. HIDE DEF rest
<1>4. PICK i \in 1 .. l : pos[i] = 1
  BY <1>1, <1>2 DEF Places
<1>5. i = 1
  <2>1. \A j \in 1 .. l : pos[j] \in 1 .. Len(box)
    BY <1>1
  <2>2. 1 \in 1 .. l
    BY <1>3, <1>4
  <2>3. 1 < i => pos[1] < pos[i]
    BY <1>1, <1>4, <2>2 DEF Places
  <2>. QED
    BY <1>4, <2>1, <2>2, <2>3
<1>6. k < Len(f) /\ f[k + 1] = Head(box)
  BY <1>1, <1>2, <1>3, <1>4, <1>5 DEF Places
<1>7. \A j \in 2 .. l : pos[j] \in 2 .. Len(box)
  <2>1. ASSUME NEW j \in 2 .. l PROVE pos[1] < pos[j]
    BY <1>1, <1>3, <1>5 DEF Places
  <2>2. \A j \in 1 .. l : pos[j] \in 1 .. Len(box)
    BY <1>1
  <2>. QED
    BY <1>3, <1>4, <1>5, <2>1, <2>2
<1>. DEFINE new == [j \in 1 .. l - 1 |-> pos[j + 1] - 1]
<1>8. Len(f) - (k + 1) = l - 1
  OBVIOUS
<1>9. new \in [1 .. l - 1 -> 1 .. Len(rest)] /\ \A j \in 1 .. l - 1 : new[j] = pos[j + 1] - 1
  BY <1>2, <1>3, <1>7
<1>. HIDE DEF new
<1>10. ASSUME NEW j \in 1 .. l - 1 PROVE rest[new[j]] = f[(k + 1) + j]
  <2>1. j + 1 \in 2 .. l /\ j + 1 \in 1 .. l /\ (k + 1) + j = k + (j + 1)
    BY <1>3
  <2>2. box[pos[j + 1]] = f[k + (j + 1)]
    BY <1>1, <2>1 DEF Places
  <2>3. pos[j + 1] \in 2 .. Len(box)
    BY <1>7, <2>1
  <2>. QED
    BY <1>2, <1>9, <2>1, <2>2, <2>3
<1>11. ASSUME NEW j \in 1 .. l - 1, NEW h \in 1 .. l - 1, j < h PROVE new[j] < new[h]
  <2>1. j + 1 \in 1 .. l /\ h + 1 \in 1 .. l /\ j + 1 < h + 1 /\ j + 1 \in 2 .. l /\ h + 1 \in 2 .. l
    BY <1>3, <1>11
  <2>2. pos[j + 1] < pos[h + 1]
    BY <1>1, <2>1 DEF Places
  <2>. QED
    BY <1>7, <1>9, <2>1, <2>2
<1>12. ASSUME NEW n \in 1 .. Len(rest), rest[n].type # "Pong"
       PROVE  \E j \in 1 .. l - 1 : new[j] = n
  <2>1. n + 1 \in 1 .. Len(box) /\ box[n + 1].type # "Pong"
    BY <1>2, <1>12
  <2>2. PICK h \in 1 .. l : pos[h] = n + 1
    BY <1>1, <2>1 DEF Places
  <2>3. h # 1
    BY <1>4, <1>5, <2>2
  <2>4. h - 1 \in 1 .. l - 1 /\ (h - 1) + 1 = h
    BY <1>3, <2>3
  <2>5. n \in Nat /\ new[h - 1] = pos[(h - 1) + 1] - 1
    BY <1>9, <2>4
  <2>6. new[h - 1] = n
    BY <2>2, <2>4, <2>5
  <2>. QED
    BY <2>4, <2>6
<1>13. Places(f, k + 1, rest, new)
  BY <1>8, <1>10, <1>11, <1>12 DEF Places
<1>. QED
  BY <1>6, <1>8, <1>9, <1>13 DEF Awaited, rest

\* What has been handed over, or is about to be.
Got(c) == handled[c] \o N!Waiting(c)

ReceiveTypes ==
    /\ inbox \in [Clients -> Seq(Line)]
    /\ forwarded \in [Clients -> Seq(N!Routed)]
    /\ handled \in [Clients -> Seq(N!Routed)]
    /\ listener \in [Clients -> {"reading", "handing", "ended"}]
    /\ nextMsg \in [Clients -> Line \union {None}]
    /\ \A c \in Clients : listener[c] = "handing" => nextMsg[c] \in Line

InOrder(f, got) == Len(got) <= Len(f) /\ \A n \in 1 .. Len(got) : got[n] = f[n] /\ got[n].size = "short"

\* What has been sent to a program is what it has got and what waits in its connection.
ReceiveOf(c) ==
    /\ InOrder(forwarded[c], Got(c))
    /\ listener[c] # "ended" => Awaited(forwarded[c], Len(Got(c)), inbox[c])
    /\ listener[c] = "ended" /\ peer[c] = "open" =>
        Len(Got(c)) < Len(forwarded[c]) /\ forwarded[c][Len(Got(c)) + 1].size = "long"

ReceiveInv == ReceiveTypes /\ \A c \in Clients : ReceiveOf(c)

LEMMA GotIs ==
  ASSUME ReceiveTypes, NEW c \in Clients
  PROVE  /\ Got(c) \in Seq(N!Routed) /\ Len(Got(c)) \in Nat
         /\ listener[c] = "handing" /\ nextMsg[c].type # "Pong" =>
                nextMsg[c] \in N!Routed /\ Got(c) = Append(handled[c], nextMsg[c])
         /\ ~(listener[c] = "handing" /\ nextMsg[c].type # "Pong") => Got(c) = handled[c]
<1>1. handled[c] \in Seq(N!Routed)
  BY DEF ReceiveTypes
<1>2. CASE listener[c] = "handing" /\ nextMsg[c].type # "Pong"
  <2>1. N!Pong.type = "Pong"
    BY DEF N!Pong
  <2>2. nextMsg[c] \in N!Routed
    BY <1>2, <2>1 DEF ReceiveTypes, Line
  <2>3. N!Waiting(c) = <<nextMsg[c]>>
    BY <1>2 DEF N!Waiting
  <2>4. handled[c] \o <<nextMsg[c]>> = Append(handled[c], nextMsg[c])
    BY <1>1, <2>2, AppendIsConcat
  <2>5. Append(handled[c], nextMsg[c]) \in Seq(N!Routed)
    BY <1>1, <2>2
  <2>. QED
    BY <1>2, <2>2, <2>3, <2>4, <2>5 DEF Got
<1>3. CASE ~(listener[c] = "handing" /\ nextMsg[c].type # "Pong")
  <2>1. N!Waiting(c) = <<>>
    BY <1>3 DEF N!Waiting
  <2>2. handled[c] \o <<>> = handled[c]
    BY <1>1
  <2>. QED
    BY <1>1, <1>3, <2>1, <2>2 DEF Got
<1>. QED
  BY <1>2, <1>3

LEMMA InitReceives == ASSUME N!Init PROVE ReceiveInv
<1>1. ReceiveTypes
  BY DEF N!Init, ReceiveTypes
<1>2. ASSUME NEW c \in Clients PROVE ReceiveOf(c)
  <2>1. listener[c] = "reading" /\ handled[c] = <<>> /\ forwarded[c] = <<>> /\ inbox[c] = <<>>
    BY DEF N!Init
  <2>2. Got(c) = <<>>
    BY <1>1, <2>1, GotIs
  <2>3. Awaited(<<>>, 0, <<>>)
    <3>. DEFINE none == [i \in 1 .. 0 |-> 1]
    <3>1. none \in [1 .. Len(<<>>) - 0 -> 1 .. Len(<<>>)] /\ Places(<<>>, 0, <<>>, none)
      BY DEF Places
    <3>. QED
      BY <3>1 DEF Awaited
  <2>4. Len(Got(c)) = 0
    BY <2>2
  <2>. QED
    BY <2>1, <2>2, <2>3, <2>4 DEF ReceiveOf, InOrder
<1>. QED
  BY <1>1, <1>2 DEF ReceiveInv

\* Steps of others, and the end of a connection.
LEMMA NothingReceived ==
  ASSUME ReceiveInv, UNCHANGED <<inbox, forwarded, N!listeners>>,
         \A c \in Clients : peer'[c] = "open" => peer[c] = "open"
  PROVE  ReceiveInv'
<1>1. UNCHANGED <<inbox, forwarded, handled, listener, nextMsg>>
  BY DEF N!listeners
<1>2. ReceiveTypes'
  BY <1>1 DEF ReceiveInv, ReceiveTypes
<1>3. \A c \in Clients : Got(c)' = Got(c)
  BY <1>1 DEF Got, N!Waiting
<1>4. \A c \in Clients : ReceiveOf(c)'
  BY <1>1, <1>3 DEF ReceiveInv, ReceiveOf
<1>. QED
  BY <1>2, <1>4 DEF ReceiveInv

LEMMA ForwardReceives ==
  ASSUME SendInv, ReceiveInv, NEW c \in Clients, N!Forward(c)
  PROVE  ReceiveInv'
<1>. DEFINE m == stream[c][1].msg
            To == IF m.type = "Ping" THEN {d \in {c} : listener[d] # "ended"}
                  ELSE {d \in Clients \ {c} : peer[d] = "open"}
<1>1. /\ Len(stream[c]) >= 2
      /\ inbox' = [d \in Clients |->
            IF d \in To THEN Append(inbox[d], IF m.type = "Ping" THEN N!Pong ELSE m) ELSE inbox[d]]
      /\ forwarded' = [d \in Clients |->
            IF d \in To /\ m.type # "Ping" THEN Append(forwarded[d], m) ELSE forwarded[d]]
      /\ UNCHANGED <<handled, listener, nextMsg, peer>>
  BY DEF N!Forward, N!listeners
<1>2. m \in Sendable
  <2>1. stream[c] \in Seq(Piece)
    BY DEF SendInv, SendTypes
  <2>2. stream[c][1] \in Piece
    BY <1>1, <2>1
  <2>. QED
    BY <2>2 DEF Piece
<1>3. m.type # "Ping" => m \in N!Routed
  BY <1>2 DEF Sendable, N!Ping, N!Routed
<1>. HIDE DEF m
<1>4. ReceiveTypes
  BY DEF ReceiveInv
<1>5. ASSUME NEW d \in Clients
      PROVE  /\ inbox[d] \in Seq(Line) /\ forwarded[d] \in Seq(N!Routed) /\ ReceiveOf(d)
             /\ Got(d)' = Got(d) /\ Got(d) \in Seq(N!Routed) /\ Len(Got(d)) \in 0 .. Len(forwarded[d])
  <2>1. inbox[d] \in Seq(Line) /\ forwarded[d] \in Seq(N!Routed) /\ ReceiveOf(d)
    BY DEF ReceiveInv, ReceiveTypes
  <2>2. Got(d)' = Got(d)
    BY <1>1 DEF Got, N!Waiting
  <2>3. Got(d) \in Seq(N!Routed) /\ Len(Got(d)) \in Nat
    BY <1>4, GotIs
  <2>. QED
    BY <2>1, <2>2, <2>3 DEF ReceiveOf, InOrder
<1>6. ASSUME NEW d \in Clients
      PROVE  /\ inbox'[d] \in Seq(Line) /\ forwarded'[d] \in Seq(N!Routed)
             /\ ReceiveOf(d)'
  <2>1. CASE d \notin To
    <3>1. inbox'[d] = inbox[d] /\ forwarded'[d] = forwarded[d]
      BY <1>1, <2>1
    <3>. QED
      BY <1>1, <1>5, <3>1 DEF ReceiveOf
  <2>2. CASE d \in To /\ m.type = "Ping"
    <3>1. inbox'[d] = Append(inbox[d], N!Pong) /\ forwarded'[d] = forwarded[d] /\ listener[d] # "ended"
      BY <1>1, <2>2
    <3>2. Awaited(forwarded[d], Len(Got(d)), inbox[d])
      BY <1>5, <3>1 DEF ReceiveOf
    <3>3. Awaited(forwarded[d], Len(Got(d)), Append(inbox[d], N!Pong))
      BY <1>5, <3>2, PongComes
    <3>4. Append(inbox[d], N!Pong) \in Seq(Line)
      BY <1>5 DEF Line
    <3>. QED
      BY <1>1, <1>5, <3>1, <3>3, <3>4 DEF ReceiveOf
  <2>3. CASE d \in To /\ m.type # "Ping"
    <3>. DEFINE f == forwarded[d]
                k == Len(Got(d))
    <3>1. inbox'[d] = Append(inbox[d], m) /\ forwarded'[d] = Append(f, m) /\ m \in N!Routed
      BY <1>1, <1>3, <2>3
    <3>2. /\ Append(inbox[d], m) \in Seq(Line) /\ Append(f, m) \in Seq(N!Routed)
          /\ Len(Append(f, m)) = Len(f) + 1 /\ \A n \in 1 .. Len(f) : Append(f, m)[n] = f[n]
      BY <1>5, <3>1 DEF Line
    <3>3. InOrder(Append(f, m), Got(d))
      BY <1>5, <3>2 DEF ReceiveOf, InOrder
    <3>4. listener[d] # "ended" => Awaited(Append(f, m), k, Append(inbox[d], m))
      BY <1>5, <3>1, TextComes DEF ReceiveOf
    <3>5. k < Len(f) /\ f[k + 1].size = "long" =>
             k < Len(Append(f, m)) /\ Append(f, m)[k + 1].size = "long"
      BY <1>5, <3>2
    <3>. QED
      BY <1>1, <1>5, <3>1, <3>2, <3>3, <3>4, <3>5 DEF ReceiveOf
  <2>. QED
    BY <2>1, <2>2, <2>3
<1>7. ReceiveTypes'
  BY <1>1, <1>4, <1>6 DEF ReceiveTypes
<1>. QED
  BY <1>6, <1>7 DEF ReceiveInv

\* The others' places are left alone.
LEMMA OtherReceives ==
  ASSUME ReceiveInv, ReceiveTypes', NEW c \in Clients, UNCHANGED <<forwarded, peer>>,
         \A d \in Clients : d # c =>
            /\ inbox'[d] = inbox[d] /\ handled'[d] = handled[d]
            /\ listener'[d] = listener[d] /\ nextMsg'[d] = nextMsg[d],
         ReceiveOf(c)'
  PROVE  ReceiveInv'
<1>1. ASSUME NEW d \in Clients, d # c PROVE ReceiveOf(d)'
  <2>1. Got(d)' = Got(d)
    BY <1>1 DEF Got, N!Waiting
  <2>. QED
    BY <1>1, <2>1 DEF ReceiveInv, ReceiveOf
<1>. QED
  BY <1>1 DEF ReceiveInv

LEMMA HasMessageReceives ==
  ASSUME ReceiveInv, NEW c \in Clients, N!HasMessage(c)
  PROVE  ReceiveInv'
<1>. DEFINE m == Head(inbox[c])
            f == forwarded[c]
            k == Len(Got(c))
<1>1. /\ listener[c] = "reading" /\ inbox[c] # <<>>
      /\ nextMsg' = [nextMsg EXCEPT ![c] = IF m.size = "long" THEN None ELSE m]
      /\ listener' = [listener EXCEPT ![c] = IF m.size = "long" THEN "ended" ELSE "handing"]
      /\ inbox' = [inbox EXCEPT ![c] = Tail(@)]
      /\ UNCHANGED <<forwarded, handled, peer>>
  BY DEF N!HasMessage
<1>2. /\ inbox[c] \in Seq(Line) /\ m \in Line /\ Tail(inbox[c]) \in Seq(Line)
      /\ f \in Seq(N!Routed) /\ handled[c] \in Seq(N!Routed)
  BY <1>1 DEF ReceiveInv, ReceiveTypes
<1>3. /\ nextMsg'[c] = IF m.size = "long" THEN None ELSE m
      /\ listener'[c] = IF m.size = "long" THEN "ended" ELSE "handing"
      /\ inbox'[c] = Tail(inbox[c])
      /\ \A d \in Clients : d # c => /\ inbox'[d] = inbox[d] /\ handled'[d] = handled[d]
                                     /\ listener'[d] = listener[d] /\ nextMsg'[d] = nextMsg[d]
  BY <1>1 DEF ReceiveInv, ReceiveTypes
<1>4. ReceiveTypes'
  <2>1. /\ inbox' \in [Clients -> Seq(Line)]
        /\ nextMsg' \in [Clients -> Line \union {None}]
        /\ listener' \in [Clients -> {"reading", "handing", "ended"}]
    BY <1>1, <1>2 DEF ReceiveInv, ReceiveTypes
  <2>2. \A d \in Clients : listener'[d] = "handing" => nextMsg'[d] \in Line
    BY <1>2, <1>3 DEF ReceiveInv, ReceiveTypes
  <2>. QED
    BY <1>1, <2>1, <2>2 DEF ReceiveInv, ReceiveTypes
<1>5. /\ Got(c) = handled[c] /\ k \in 0 .. Len(f) /\ InOrder(f, Got(c))
      /\ Awaited(f, k, inbox[c])
  BY <1>1, GotIs DEF ReceiveInv, ReceiveOf, InOrder
<1>. HIDE DEF m
<1>6. ReceiveOf(c)'
  <2>1. CASE m.size = "long"
    <3>1. m.type # "Pong"
      BY <1>2, <2>1, RoutedIsNoPong DEF Line, N!Pong
    <3>2. k < Len(f) /\ f[k + 1] = m
      BY <1>1, <1>2, <1>5, <3>1, TextTaken DEF m
    <3>3. Got(c)' = handled'[c]
      BY <1>3, <1>4, <2>1, GotIs DEF Got, N!Waiting
    <3>. QED
      BY <1>1, <1>3, <1>5, <2>1, <3>2, <3>3 DEF ReceiveOf
  <2>2. CASE m.size # "long" /\ m.type = "Pong"
    <3>1. Awaited(f, k, Tail(inbox[c]))
      BY <1>1, <1>2, <1>5, <2>2, PongTaken DEF m
    <3>2. N!Waiting(c)' = <<>>
      BY <1>3, <2>2 DEF N!Waiting
    <3>3. handled[c] \o <<>> = handled[c]
      BY <1>2
    <3>4. Got(c)' = handled[c]
      BY <1>1, <3>2, <3>3 DEF Got
    <3>. QED
      BY <1>1, <1>3, <1>5, <2>2, <3>1, <3>4 DEF ReceiveOf
  <2>3. CASE m.size # "long" /\ m.type # "Pong"
    <3>1. m \in N!Routed
      BY <1>2, <2>3 DEF Line, N!Pong
    <3>2. m.size = "short"
      BY <2>3, <3>1, RoutedIsNoPong
    <3>3. k < Len(f) /\ f[k + 1] = m /\ Awaited(f, k + 1, Tail(inbox[c]))
      BY <1>1, <1>2, <1>5, <2>3, TextTaken DEF m
    <3>4. N!Waiting(c)' = <<m>>
      BY <1>3, <2>3 DEF N!Waiting
    <3>5. handled[c] \o <<m>> = Append(handled[c], m)
      BY <1>2, <3>1, AppendIsConcat
    <3>6. Got(c)' = Append(Got(c), m)
      BY <1>1, <1>5, <3>4, <3>5 DEF Got
    <3>7. /\ Len(Append(Got(c), m)) = k + 1 /\ Append(Got(c), m)[k + 1] = m
          /\ \A n \in 1 .. k : Append(Got(c), m)[n] = Got(c)[n]
      BY <1>2, <1>5, <3>1
    <3>8. InOrder(f, Append(Got(c), m))
      <4>1. \A n \in 1 .. k + 1 : n \in 1 .. k \/ n = k + 1
        BY <1>5
      <4>. QED
        BY <1>2, <1>5, <3>2, <3>3, <3>7, <4>1 DEF InOrder
    <3>. QED
      BY <1>1, <1>3, <2>3, <3>3, <3>6, <3>7, <3>8 DEF ReceiveOf
  <2>. QED
    BY <2>1, <2>2, <2>3
<1>. QED
  BY <1>1, <1>3, <1>4, <1>6, OtherReceives

LEMMA EndOfStreamReceives ==
  ASSUME ReceiveInv, NEW c \in Clients, N!EndOfStream(c)
  PROVE  ReceiveInv'
<1>1. /\ listener[c] = "reading" /\ peer[c] # "open"
      /\ listener' = [listener EXCEPT ![c] = "ended"]
      /\ UNCHANGED <<inbox, forwarded, nextMsg, handled, peer>>
  BY DEF N!EndOfStream
<1>2. listener'[c] = "ended" /\ \A d \in Clients : d # c => listener'[d] = listener[d]
  BY <1>1 DEF ReceiveInv, ReceiveTypes
<1>3. ReceiveTypes'
  BY <1>1, <1>2 DEF ReceiveInv, ReceiveTypes
<1>4. Got(c)' = Got(c)
  BY <1>1, <1>2 DEF Got, N!Waiting
<1>5. ReceiveOf(c)'
  BY <1>1, <1>2, <1>4 DEF ReceiveInv, ReceiveOf
<1>. QED
  BY <1>1, <1>2, <1>3, <1>5, OtherReceives

LEMMA HandReceives ==
  ASSUME ReceiveInv, NEW c \in Clients, N!Hand(c), nextMsg[c].type # "Error"
  PROVE  ReceiveInv'
<1>. DEFINE m == nextMsg[c]
<1>1. /\ listener[c] = "handing"
      /\ listener' = [listener EXCEPT ![c] = "reading"]
      /\ handled' = IF m.type = "Pong" THEN handled ELSE [handled EXCEPT ![c] = Append(@, m)]
      /\ UNCHANGED <<inbox, forwarded, nextMsg, peer>>
  BY DEF N!Hand
<1>2. listener'[c] = "reading" /\ \A d \in Clients : d # c => listener'[d] = listener[d] /\ handled'[d] = handled[d]
  BY <1>1 DEF ReceiveInv, ReceiveTypes
<1>3. handled'[c] = IF m.type = "Pong" THEN handled[c] ELSE Append(handled[c], m)
  BY <1>1 DEF ReceiveInv, ReceiveTypes
<1>4. Got(c) = handled'[c] /\ Got(c) \in Seq(N!Routed)
  BY <1>1, <1>3, GotIs DEF ReceiveInv
<1>5. ReceiveTypes'
  <2>1. handled' \in [Clients -> Seq(N!Routed)]
    BY <1>1, <1>3, <1>4 DEF ReceiveInv, ReceiveTypes
  <2>. QED
    BY <1>1, <1>2, <2>1 DEF ReceiveInv, ReceiveTypes
<1>6. Got(c)' = Got(c)
  <2>1. N!Waiting(c)' = <<>>
    BY <1>2 DEF N!Waiting
  <2>2. handled'[c] \o <<>> = handled'[c]
    BY <1>4
  <2>. QED
    BY <1>4, <2>1, <2>2 DEF Got
<1>7. ReceiveOf(c)'
  BY <1>1, <1>2, <1>6 DEF ReceiveInv, ReceiveOf
<1>. QED
  BY <1>1, <1>2, <1>5, <1>7, OtherReceives

\* An error is a line like others, until the listener comes to it.
LEMMA RefuseReceives ==
  ASSUME ReceiveInv, NEW c \in Clients, N!Refuse(c)
  PROVE  ReceiveInv'
<1>. DEFINE f == forwarded[c]
            k == Len(Got(c))
            m == N!Error
<1>1. /\ inbox' = [inbox EXCEPT ![c] = Append(@, m)]
      /\ forwarded' = [forwarded EXCEPT ![c] = Append(@, m)]
      /\ UNCHANGED <<handled, listener, nextMsg, peer>>
  BY DEF N!Refuse, N!listeners
<1>2. /\ inbox[c] \in Seq(Line) /\ f \in Seq(N!Routed) /\ ReceiveOf(c)
      /\ Got(c) \in Seq(N!Routed) /\ k \in 0 .. Len(f)
  BY GotIs DEF ReceiveInv, ReceiveTypes, ReceiveOf, InOrder
<1>3. m \in N!Routed /\ m \in Line
  BY DEF N!Routed, Line
<1>. HIDE DEF m
<1>4. /\ Append(inbox[c], m) \in Seq(Line) /\ Append(f, m) \in Seq(N!Routed)
      /\ Len(Append(f, m)) = Len(f) + 1 /\ \A n \in 1 .. Len(f) : Append(f, m)[n] = f[n]
  BY <1>2, <1>3
<1>5. /\ inbox'[c] = Append(inbox[c], m) /\ forwarded'[c] = Append(f, m)
      /\ \A d \in Clients : d # c => inbox'[d] = inbox[d] /\ forwarded'[d] = forwarded[d]
  BY <1>1 DEF ReceiveInv, ReceiveTypes
<1>6. ReceiveTypes'
  BY <1>1, <1>4 DEF ReceiveInv, ReceiveTypes
<1>7. \A d \in Clients : Got(d)' = Got(d)
  BY <1>1 DEF Got, N!Waiting
<1>8. InOrder(Append(f, m), Got(c))
  BY <1>2, <1>4 DEF ReceiveOf, InOrder
<1>9. listener[c] # "ended" => Awaited(Append(f, m), k, Append(inbox[c], m))
  BY <1>2, <1>3, TextComes DEF ReceiveOf
<1>10. k < Len(f) /\ f[k + 1].size = "long" =>
          k < Len(Append(f, m)) /\ Append(f, m)[k + 1].size = "long"
  BY <1>2, <1>4
<1>11. ReceiveOf(c)'
  BY <1>1, <1>2, <1>5, <1>7, <1>8, <1>9, <1>10 DEF ReceiveOf
<1>12. \A d \in Clients : d # c => ReceiveOf(d)'
  BY <1>1, <1>5, <1>7 DEF ReceiveInv, ReceiveOf
<1>. QED
  BY <1>6, <1>11, <1>12 DEF ReceiveInv

LEMMA ReceiveStep == ASSUME SendInv, ReceiveInv, N!Next PROVE ReceiveInv'
<1>1. ASSUME NEW c \in Clients, N!Listens(c) PROVE ReceiveInv'
  <2>1. CASE N!Hand(c) /\ nextMsg[c].type = "Error"
    BY <2>1, NothingReceived DEF N!Hand, N!listeners
  <2>. QED
    BY <1>1, <2>1, HasMessageReceives, EndOfStreamReceives, HandReceives DEF N!Listens
<1>2. ASSUME NEW c \in Clients, N!Tick(c) PROVE ReceiveInv'
  BY <1>2, NothingReceived DEF N!Tick
<1>3. ASSUME NEW c \in Clients, NEW g \in Goroutines, N!Call(c, g) PROVE ReceiveInv'
  BY <1>3, NothingReceived DEF N!Call
<1>4. ASSUME NEW c \in Clients, NEW g \in Goroutines, N!Send(c, g) PROVE ReceiveInv'
  <2>1. CASE N!Lock(c, g)
    BY <2>1, NothingReceived DEF N!Lock
  <2>2. CASE N!Unlock(c, g)
    BY <2>2, NothingReceived DEF N!Unlock
  <2>3. CASE N!Write(c, g)
    <3>1. UNCHANGED <<inbox, forwarded, N!listeners>>
      BY <2>3 DEF N!Write
    <3>2. UNCHANGED peer \/ peer' = [peer EXCEPT ![c] = "reset"]
      <4>1. peer[c] \in {"open", "closed", "reset"}
        BY DEF SendInv, SendTypes
      <4>. QED
        BY <2>3, <4>1 DEF N!Write
    <3>3. \A d \in Clients : peer'[d] = "open" => peer[d] = "open"
      BY <3>2 DEF SendInv, SendTypes
    <3>. QED
      BY <3>1, <3>3, NothingReceived
  <2>. QED
    BY <1>4, <2>1, <2>2, <2>3 DEF N!Send
<1>5. ASSUME NEW c \in Clients, N!Close(c) PROVE ReceiveInv'
  <2>1. UNCHANGED <<inbox, forwarded, N!listeners>> /\ peer' = [peer EXCEPT ![c] = "closed"]
    BY <1>5 DEF N!Close
  <2>2. \A d \in Clients : peer'[d] = "open" => peer[d] = "open"
    BY <2>1 DEF SendInv, SendTypes
  <2>. QED
    BY <2>1, <2>2, NothingReceived
<1>. QED
  BY <1>1, <1>2, <1>3, <1>4, <1>5, ForwardReceives, RefuseReceives DEF N!Next

LEMMA ReceiveInvSuffices == ASSUME ReceiveInv PROVE N!HandledIsPrefix
<1>1. SUFFICES ASSUME NEW c \in Clients
               PROVE  /\ N!IsPrefix(Got(c), forwarded[c])
                      /\ \A n \in DOMAIN Got(c) : Got(c)[n].size = "short"
                      /\ listener[c] = "ended" /\ peer[c] = "open" =>
                            forwarded[c][Len(Got(c)) + 1].size = "long"
  BY DEF N!HandledIsPrefix, Got
<1>2. /\ Got(c) \in Seq(N!Routed) /\ forwarded[c] \in Seq(N!Routed)
      /\ InOrder(forwarded[c], Got(c)) /\ Len(Got(c)) \in Nat
  BY GotIs DEF ReceiveInv, ReceiveOf, ReceiveTypes
<1>3. N!IsPrefix(Got(c), forwarded[c])
  <2>. DEFINE g == Got(c)
              f == forwarded[c]
  <2>1. g \in Seq(N!Routed) /\ f \in Seq(N!Routed) /\ Len(g) \in Nat /\ Len(g) <= Len(f)
        /\ \A n \in 1 .. Len(g) : g[n] = f[n]
    BY <1>2 DEF InOrder
  <2>. HIDE DEF g, f
  <2>2. SubSeq(g, 1, Len(g)) = SubSeq(f, 1, Len(g))
    BY <2>1
  <2>. QED
    BY <2>1, <2>2 DEF N!IsPrefix, g, f
<1>. QED
  BY <1>2, <1>3 DEF ReceiveInv, ReceiveOf, InOrder

\* Lines are whole where they arrive, and a program handles what was sent to it in that
\* order, with nothing left out, up to a line that is too long (Send, MessageReader).
THEOREM LinesWholeInOrderHolds == ProgramsSpec => []LinesWholeInOrder
<1>. DEFINE Inv == SendInv /\ ReceiveInv
<1>1. ProgramsInit => Inv
  BY InitSends, InitReceives DEF ProgramsInit
<1>2. ASSUME Inv, [ProgramsNext]_allVars PROVE Inv'
  <2>1. CASE UNCHANGED net
    <3>1. /\ UNCHANGED <<mutex, sending, sent, written, stream, inbox, forwarded, peer>>
          /\ UNCHANGED <<listener, nextMsg, handled>>
      BY <2>1 DEF net
    <3>2. SendInv'
      BY <1>2, <3>1, SendsUnchanged DEF N!senders
    <3>3. ReceiveInv'
      BY <1>2, <3>1, NothingReceived DEF N!listeners
    <3>. QED
      BY <3>2, <3>3
  <2>2. CASE N!Next
    BY <1>2, <2>2, SendStep, ReceiveStep
  <2>. QED
    BY <1>2, <2>1, <2>2 DEF ProgramsNext, allVars
<1>3. Inv => LinesWholeInOrder
  BY ReceiveInvSuffices DEF SendInv, LinesWholeInOrder
<1>. QED
  BY <1>1, <1>2, <1>3, PTL DEF ProgramsSpec
-----------------------------------------------------------------------------
(***************************************************************************)
(* EtsiKeys: a getter has the key that its leader has announced.           *)
(***************************************************************************)
Calling == {"ask", "sent", "writing", "reading", "answered", "retry", "done"}

EtsiTypes ==
    /\ lastID \in Nat
    /\ call \in [E!Programs -> Calling]
    /\ answer \in [E!Programs -> Nat]
    /\ result \in [E!Programs -> Nat \union {None}]
    /\ announced \in [Requesters -> Nat \union {None}]

\* What has been announced is what the requester has, for good.
AnnouncedIsKept == \A r \in Requesters : announced[r] # None => announced[r] = result[r] /\ call[r] = "done"

\* A getter has asked for the announced ID, and got that one or an error.
AnsweredByID ==
    \A g \in Getters :
        /\ call[g] # "ask" \/ result[g] # None => announced[LeaderOf[g]] # None
        /\ call[g] = "answered" => answer[g] \in {0, announced[LeaderOf[g]]}
        /\ result[g] # None => result[g] = announced[LeaderOf[g]]

EtsiInv == EtsiTypes /\ AnnouncedIsKept /\ AnsweredByID

LEMMA InitCalls == ASSUME E!Init PROVE EtsiInv
BY DEF E!Init, E!Programs, EtsiInv, EtsiTypes, AnnouncedIsKept, AnsweredByID, Calling

\* Steps of a call before it is answered, and of one that failed.
LEMMA CallGoesOn ==
  ASSUME EtsiInv, NEW p \in E!Programs, UNCHANGED <<lastID, answer, result, announced>>,
         NEW next \in Calling \ {"answered"}, call' = [call EXCEPT ![p] = next],
         call[p] # "done",
         p \in Getters => announced[LeaderOf[p]] # None
  PROVE  EtsiInv'
BY EtsiAssumption DEF EtsiInv, EtsiTypes, AnnouncedIsKept, AnsweredByID, E!Programs

LEMMA EtsiStep == ASSUME EtsiInv, E!Next PROVE EtsiInv'
<1>1. ASSUME NEW p \in E!Programs, E!Ask(p) PROVE EtsiInv'
  BY <1>1, CallGoesOn DEF E!Ask, E!server, Calling
<1>2. ASSUME NEW p \in E!Programs, E!Serve(p) PROVE EtsiInv'
  <2>1. p \in Getters => announced[LeaderOf[p]] # None
    BY <1>2 DEF E!Serve, EtsiInv, AnsweredByID
  <2>. QED
    BY <1>2, <2>1, CallGoesOn DEF E!Serve, E!server, Calling
<1>3. ASSUME NEW p \in E!Programs, E!Fail(p) PROVE EtsiInv'
  <2>1. /\ p \in Getters => announced[LeaderOf[p]] # None
        /\ call[p] # "done"
    BY <1>3 DEF E!Fail, EtsiInv, AnsweredByID
  <2>. QED
    BY <1>3, <2>1, CallGoesOn DEF E!Fail, E!server, Calling
<1>4. ASSUME NEW p \in E!Programs, E!Retry(p) PROVE EtsiInv'
  <2>1. p \in Getters => announced[LeaderOf[p]] # None
    BY <1>4 DEF E!Retry, EtsiInv, AnsweredByID
  <2>. QED
    BY <1>4, <2>1, CallGoesOn DEF E!Retry, E!server, Calling
<1>5. ASSUME NEW p \in E!Programs, E!Receive(p) PROVE EtsiInv'
  <2>1. CASE answer[p] = 0
    <3>1. p \in Getters => announced[LeaderOf[p]] # None
      BY <1>5 DEF E!Receive, EtsiInv, AnsweredByID
    <3>. QED
      BY <1>5, <2>1, <3>1, CallGoesOn DEF E!Receive, E!server, Calling
  <2>2. CASE answer[p] # 0
    <3>1. /\ call[p] = "answered" /\ call' = [call EXCEPT ![p] = "done"]
          /\ result' = [result EXCEPT ![p] = answer[p]]
          /\ UNCHANGED <<lastID, answer, announced>>
      BY <1>5, <2>2 DEF E!Receive, E!server
    <3>2. EtsiTypes'
      BY <3>1 DEF EtsiInv, EtsiTypes, E!Programs, Calling
    <3>3. AnnouncedIsKept'
      BY <3>1, EtsiAssumption DEF EtsiInv, EtsiTypes, AnnouncedIsKept, E!Programs
    <3>4. AnsweredByID'
      BY <2>2, <3>1, EtsiAssumption DEF EtsiInv, EtsiTypes, AnsweredByID, E!Programs
    <3>. QED
      BY <3>2, <3>3, <3>4 DEF EtsiInv
  <2>. QED
    BY <2>1, <2>2
<1>6. ASSUME NEW r \in Requesters, E!getKeys(r) PROVE EtsiInv'
  BY <1>6, EtsiAssumption
     DEF E!getKeys, EtsiInv, EtsiTypes, AnnouncedIsKept, AnsweredByID, E!Programs, Calling
<1>7. ASSUME NEW r \in Requesters, E!Announce(r) PROVE EtsiInv'
  BY <1>7, EtsiAssumption
     DEF E!Announce, E!server, EtsiInv, EtsiTypes, AnnouncedIsKept, AnsweredByID, E!Programs
<1>8. ASSUME NEW g \in Getters, E!handleDecKeys(g) PROVE EtsiInv'
  <2>. DEFINE id == announced[LeaderOf[g]]
  <2>1. /\ call[g] = "reading" /\ call' = [call EXCEPT ![g] = "answered"]
        /\ answer' = [answer EXCEPT ![g] = IF id \in keyStore THEN id ELSE 0]
        /\ UNCHANGED <<lastID, result, announced>>
    BY <1>8 DEF E!handleDecKeys, E!server
  <2>2. id \in Nat /\ g \in E!Programs
    BY <2>1, EtsiAssumption DEF EtsiInv, EtsiTypes, AnsweredByID, E!Programs
  <2>3. EtsiTypes'
    BY <2>1, <2>2 DEF EtsiInv, EtsiTypes, Calling
  <2>4. AnnouncedIsKept'
    BY <2>1, EtsiAssumption DEF EtsiInv, EtsiTypes, AnnouncedIsKept, E!Programs
  <2>5. AnsweredByID'
    BY <2>1, EtsiAssumption DEF EtsiInv, EtsiTypes, AnsweredByID, E!Programs
  <2>. QED
    BY <2>3, <2>4, <2>5 DEF EtsiInv
<1>9. CASE E!Crash
  BY <1>9, EtsiAssumption
     DEF E!Crash, E!Using, EtsiInv, EtsiTypes, AnnouncedIsKept, AnsweredByID, E!Programs, Calling
<1>10. CASE E!Restart
  BY <1>10 DEF E!Restart, E!programs, EtsiInv, EtsiTypes, AnnouncedIsKept, AnsweredByID
<1>. QED
  BY <1>1, <1>2, <1>3, <1>4, <1>5, <1>6, <1>7, <1>8, <1>9, <1>10 DEF E!Next

\* Whoever gets a key by its ID gets the key of the program that announced it, whatever is
\* lost, asked for again or forgotten by the server (RequestKeyByID, handleDecKeys).
THEOREM OneKeyHolds == ProgramsSpec => [](component = "etsi" => E!OneKey)
<1>1. ProgramsInit => EtsiInv
  BY InitCalls DEF ProgramsInit
<1>2. ASSUME EtsiInv, [ProgramsNext]_allVars PROVE EtsiInv'
  <2>1. CASE UNCHANGED etsi
    BY <1>2, <2>1 DEF etsi, EtsiInv, EtsiTypes, AnnouncedIsKept, AnsweredByID
  <2>2. CASE E!Next
    BY <1>2, <2>2, EtsiStep
  <2>. QED
    BY <1>2, <2>1, <2>2 DEF ProgramsNext, allVars
<1>3. EtsiInv => E!OneKey
  BY EtsiAssumption DEF EtsiInv, AnnouncedIsKept, AnsweredByID, E!OneKey
<1>. QED
  BY <1>1, <1>2, <1>3, PTL DEF ProgramsSpec
-----------------------------------------------------------------------------
(***************************************************************************)
(* Configuration: what was accepted is not refused later.                  *)
(***************************************************************************)
Section(set) == set \union {Nil}

AnyConfig == [program : {"member", "leader"}, ClusterID : AnyNumber,
              Cluster : Section(AnyCluster), Leader : Section(AnyLeader)]

ConfigTypes == config \in AnyConfig /\ replaced \in BOOLEAN

\* The numbers that were accepted do not depend on files.
NumbersOk ==
    /\ config.ClusterID \in Nat
    /\ config.Cluster # Nil => config.Cluster.NMembers \in Nat \ {0} /\ config.Cluster.MemberID \in Nat
    /\ config.Leader # Nil => config.Leader.NClusters \in Nat \ {0}

\* Only what is not valid is refused, and until a file is replaced what was accepted is valid.
ConfigInvariant ==
    /\ phase = "load" => ~replaced
    /\ phase = "refused" => ~C!validate /\ ~replaced
    /\ phase \in {"new", "init", "run"} => NumbersOk /\ (~replaced => C!validate)
    /\ C!TidyRunsOn

ConfigInv == component = "configuration" => ConfigTypes /\ ConfigInvariant

LEMMA InitConfigures == ASSUME C!Init PROVE ConfigTypes /\ ConfigInvariant
<1>1. config \in AnyConfig
  <2>. USE ConfigurationAssumption DEF AnyConfig, Section, AnyNumber
  <2>1. ASSUME NEW id \in ClusterIDs, NEW c \in MemberClusters,
               config = [program |-> "member", ClusterID |-> id, Cluster |-> c, Leader |-> Nil]
        PROVE  config \in AnyConfig
    BY <2>1
  <2>2. ASSUME NEW id \in ClusterIDs, NEW c \in LeaderClusters, NEW l \in LeaderSections,
               config = [program |-> "leader", ClusterID |-> id, Cluster |-> c, Leader |-> l]
        PROVE  config \in AnyConfig
    BY <2>2
  <2>3. ASSUME NEW program \in {"member", "leader"},
               config = [program |-> program, ClusterID |-> 0, Cluster |-> Nil, Leader |-> Nil]
        PROVE  config \in AnyConfig
    BY <2>3
  <2>. QED
    BY <2>1, <2>2, <2>3 DEF C!Init
<1>2. phase = "load" /\ replaced = FALSE
  BY DEF C!Init
<1>. QED
  BY <1>1, <1>2 DEF ConfigTypes, ConfigInvariant, C!TidyRunsOn

LEMMA ValidNumbers == ASSUME ConfigTypes, C!validate PROVE NumbersOk
BY DEF ConfigTypes, AnyConfig, Section, AnyCluster, AnyLeader, AnyNumber,
       C!validate, C!ClusterValid, C!LeaderValid, NumbersOk

LEMMA GetConfigAccepts ==
  ASSUME ConfigTypes, ConfigInvariant, C!GetConfig
  PROVE  ConfigTypes' /\ ConfigInvariant'
<1>1. phase = "load" /\ UNCHANGED <<config, files, replaced>> /\ (C!validate <=> C!validate')
  BY DEF C!GetConfig, C!validate, C!ClusterValid, C!LeaderValid, C!CryptoOk, C!checkPKFile,
         C!FileOfPath, C!FileNamed, C!PublicKeysOk, C!HasKey
<1>2. phase' = IF C!validate THEN "new" ELSE "refused"
  BY DEF C!GetConfig
<1>3. C!validate => NumbersOk
  BY ValidNumbers
<1>. QED
  BY <1>1, <1>2, <1>3 DEF ConfigTypes, ConfigInvariant, NumbersOk, C!TidyRunsOn

\* Steps after which the program goes on, has ended as one may, or has panicked untidily.
LEMMA GoesOn ==
  ASSUME ConfigTypes, ConfigInvariant, phase \in {"new", "init", "run"},
         UNCHANGED <<config, files, replaced>>,
         phase' \in {"new", "init", "run"}
            \/ (phase' \in {"exited", "panicked"}
                /\ (C!Tidy => phase' = "exited" /\ replaced))
  PROVE  ConfigTypes' /\ ConfigInvariant'
<1>1. (C!validate <=> C!validate') /\ (C!Tidy <=> C!Tidy')
  BY DEF C!validate, C!ClusterValid, C!LeaderValid, C!CryptoOk, C!checkPKFile,
         C!FileOfPath, C!FileNamed, C!PublicKeysOk, C!HasKey, C!Tidy
<1>. QED
  BY <1>1 DEF ConfigTypes, ConfigInvariant, NumbersOk, C!TidyRunsOn

\* What the calls of a step may return.
Allowed ==
    IF ~C!Tidy THEN {"ok", "exited", "panicked"} ELSE IF replaced THEN {"ok", "exited"} ELSE {"ok"}

LEMMA CallsGoOn ==
  ASSUME ConfigTypes, ConfigInvariant, phase \in {"new", "init", "run"},
         UNCHANGED <<config, files, replaced>>,
         NEW results \in Seq(Allowed), C!Then(results, "run")
  PROVE  ConfigTypes' /\ ConfigInvariant'
<1>1. \A n \in DOMAIN results : results[n] \in Allowed
  OBVIOUS
<1>2. CASE phase' = "run"
  BY <1>2, GoesOn
<1>3. CASE \E n \in DOMAIN results : results[n] # "ok" /\ phase' = results[n]
  BY <1>1, <1>3, GoesOn DEF Allowed
<1>. QED
  BY <1>2, <1>3 DEF C!Then

\* What the look-up of a public key returns.
LEMMA PublicKeysResult ==
  ASSUME NEW c \in AnyCluster, c.NMembers \in Nat \ {0}, NEW index \in 0 .. c.NMembers-1
  PROVE  /\ C!GetPublicKeys(c, index) \in {"ok", "exited"}
         /\ C!GetPublicKeys(c, index) = "exited" =>
                ~C!PublicKeysOk(C!FileNamed(c.PublicKeys), c.NMembers)
BY DEF C!GetPublicKeys, C!PublicKeysOk

\* What validate has found out about a text without blanks.
LEMMA ValidEdge ==
  ASSUME NEW text \in AnyText, ~text.blank, C!checkPKFile(text)
  PROVE  /\ C!HasPath(text) => C!HasKey(C!FileOfPath(text), C!SsLen)
         /\ C!UsesKem(text) => C!HasKey(C!FileNamed(text), C!PkLen)
<1>1. C!Trimmed(text) = text
  BY DEF C!Trimmed, AnyText
<1>2. C!HasPath(text) => ~C!HasUrl(text) /\ ~C!HasKey(C!FileNamed(text), C!PkLen)
  BY DEF C!HasPath, C!HasUrl, C!FileNamed, C!Unreadable, C!HasKey
<1>. QED
  BY <1>1, <1>2 DEF C!checkPKFile, C!UsesKem

LEMMA ValidCluster ==
  ASSUME NEW c \in AnyCluster, ~c.Crypto.blank, C!ClusterValid(c)
  PROVE  /\ C!HasPath(c.Crypto) => C!HasKey(C!FileOfPath(c.Crypto), C!SharedLen)
         /\ C!UsesKem(c.Crypto) => /\ C!PublicKeysOk(C!FileNamed(c.PublicKeys), c.NMembers)
                                   /\ C!HasKey(C!FileNamed(c.SecretKey), C!SkLen)
<1>1. C!Trimmed(c.Crypto) = c.Crypto
  BY DEF C!Trimmed, AnyText, AnyCluster
<1>2. C!HasPath(c.Crypto) => ~C!HasUrl(c.Crypto) /\ C!IsSet(c.Crypto)
  BY DEF C!HasPath, C!HasUrl, C!IsSet
<1>3. C!UsesKem(c.Crypto) => ~C!CryptoOk(c.Crypto)
  BY <1>1 DEF C!UsesKem, C!CryptoOk
<1>. QED
  BY <1>1, <1>2, <1>3 DEF C!ClusterValid, C!CryptoOk

\* Calls that read a key that was checked, or look up a place.
LEMMA KeyAllowed ==
  ASSUME NEW content, NEW len, C!Tidy /\ ~replaced => C!HasKey(content, len)
  PROVE  C!openAndDecodeKey(content, len) \in Allowed
BY DEF C!openAndDecodeKey, Allowed

LEMMA SlotAllowed ==
  ASSUME NEW n, NEW index, C!Tidy => index < n
  PROVE  C!InSlots(index, n) \in Allowed
BY DEF C!InSlots, Allowed

LEMMA PublicKeysAllowed ==
  ASSUME NEW c \in AnyCluster, NEW index, C!Tidy => c.NMembers \in Nat \ {0} /\ index \in 0 .. c.NMembers-1,
         C!Tidy /\ ~replaced => C!PublicKeysOk(C!FileNamed(c.PublicKeys), c.NMembers)
  PROVE  C!GetPublicKeys(c, index) \in Allowed
<1>1. C!GetPublicKeys(c, index) \in {"ok", "exited", "panicked"}
  BY DEF C!GetPublicKeys
<1>2. CASE C!Tidy
  BY <1>2, PublicKeysResult DEF Allowed
<1>. QED
  BY <1>1, <1>2 DEF Allowed

\* What is known of a program that has been constructed.
LEMMA WhatIsAccepted ==
  ASSUME ConfigTypes, ConfigInvariant, phase \in {"new", "init", "run"}
  PROVE  /\ config.Cluster # Nil =>
              /\ config.Cluster \in AnyCluster /\ config.Cluster.NMembers \in Nat \ {0}
              /\ config.Cluster.MemberID \in Nat
              /\ C!Tidy => ~config.Cluster.Crypto.blank /\ config.Cluster.MemberID < config.Cluster.NMembers
              /\ ~replaced => C!ClusterValid(config.Cluster)
         /\ config.Leader # Nil =>
              /\ config.Leader \in AnyLeader
              /\ C!Tidy => /\ ~config.Leader.LeftCrypto.blank /\ ~config.Leader.RightCrypto.blank
                           /\ config.ClusterID < config.Leader.NClusters
              /\ ~replaced => C!LeaderValid(config.Leader)
<1>1. NumbersOk /\ (~replaced => C!validate)
  BY DEF ConfigInvariant
<1>2. ASSUME config.Cluster # Nil
      PROVE  /\ config.Cluster \in AnyCluster /\ config.Cluster.NMembers \in Nat \ {0}
             /\ config.Cluster.MemberID \in Nat
             /\ C!Tidy => ~config.Cluster.Crypto.blank /\ config.Cluster.MemberID < config.Cluster.NMembers
             /\ ~replaced => C!ClusterValid(config.Cluster)
  BY <1>1, <1>2, ConfigurationAssumption
     DEF ConfigTypes, AnyConfig, Section, NumbersOk, C!validate, C!Tidy, C!Below
<1>3. ASSUME config.Leader # Nil
      PROVE  /\ config.Leader \in AnyLeader
             /\ C!Tidy => /\ ~config.Leader.LeftCrypto.blank /\ ~config.Leader.RightCrypto.blank
                          /\ config.ClusterID < config.Leader.NClusters
             /\ ~replaced => C!LeaderValid(config.Leader)
  BY <1>1, <1>3, ConfigurationAssumption
     DEF ConfigTypes, AnyConfig, Section, NumbersOk, C!validate, C!Tidy, C!Below
<1>. QED
  BY <1>2, <1>3

LEMMA OkAllowed == "ok" \in Allowed
BY DEF Allowed

\* The accessors of a leader section.
LEMMA EdgeAllowed ==
  ASSUME ConfigTypes, ConfigInvariant, phase \in {"new", "init", "run"}, config.program = "leader",
         NEW l, l = config.Leader, NEW text \in {l.LeftCrypto, l.RightCrypto}
  PROVE  /\ C!HasPath(text) => C!openAndDecodeKey(C!FileOfPath(text), C!SsLen) \in Allowed
         /\ C!UsesKem(text) => C!openAndDecodeKey(C!FileNamed(text), C!PkLen) \in Allowed
<1>1. CASE C!Tidy /\ ~replaced
  <2>1. text \in AnyText /\ ~text.blank /\ C!checkPKFile(text)
    BY <1>1, WhatIsAccepted DEF C!Tidy, AnyLeader, C!LeaderValid
  <2>. QED
    BY <2>1, ValidEdge, KeyAllowed
<1>2. CASE ~(C!Tidy /\ ~replaced)
  BY <1>2, KeyAllowed
<1>. QED
  BY <1>1, <1>2

LEMMA LeaderAllowed ==
  ASSUME ConfigTypes, ConfigInvariant, phase \in {"new", "init", "run"}, config.program = "leader",
         NEW l, l = config.Leader
  PROVE  /\ C!openAndDecodeKey(C!FileNamed(l.SecretKey), C!SkLen) \in Allowed
         /\ C!InSlots(config.ClusterID, l.NClusters) \in Allowed
<1>1. C!Tidy /\ ~replaced => C!HasKey(C!FileNamed(l.SecretKey), C!SkLen)
  BY WhatIsAccepted DEF C!Tidy, C!LeaderValid
<1>2. C!Tidy => config.ClusterID < l.NClusters
  BY WhatIsAccepted DEF C!Tidy
<1>. QED
  BY <1>1, <1>2, KeyAllowed, SlotAllowed

\* The accessors of a cluster section.
LEMMA ClusterAllowed ==
  ASSUME ConfigTypes, ConfigInvariant, phase \in {"new", "init", "run"}, config.Cluster # Nil,
         NEW c, c = config.Cluster
  PROVE  /\ C!HasPath(c.Crypto) => C!openAndDecodeKey(C!FileOfPath(c.Crypto), C!SharedLen) \in Allowed
         /\ C!UsesKem(c.Crypto) =>
              /\ C!openAndDecodeKey(C!FileNamed(c.SecretKey), C!SkLen) \in Allowed
              /\ \A index \in 0 .. c.NMembers-1 : C!GetPublicKeys(c, index) \in Allowed
              /\ C!GetPublicKeys(c, c.MemberID) \in Allowed
              /\ C!InSlots(c.MemberID, c.NMembers) \in Allowed
<1>1. /\ c \in AnyCluster /\ c.NMembers \in Nat \ {0} /\ c.MemberID \in Nat
      /\ C!Tidy => ~c.Crypto.blank /\ c.MemberID < c.NMembers
      /\ ~replaced => C!ClusterValid(c)
  BY WhatIsAccepted
<1>2. C!Tidy /\ ~replaced =>
        /\ C!HasPath(c.Crypto) => C!HasKey(C!FileOfPath(c.Crypto), C!SharedLen)
        /\ C!UsesKem(c.Crypto) => /\ C!PublicKeysOk(C!FileNamed(c.PublicKeys), c.NMembers)
                                  /\ C!HasKey(C!FileNamed(c.SecretKey), C!SkLen)
  BY <1>1, ValidCluster
<1>3. C!Tidy => c.MemberID \in 0 .. c.NMembers-1
  BY <1>1
<1>. QED
  BY <1>1, <1>2, <1>3, KeyAllowed, SlotAllowed, PublicKeysAllowed

LEMMA InitsGoOn ==
  ASSUME ConfigTypes, ConfigInvariant, C!Inits
  PROVE  ConfigTypes' /\ ConfigInvariant'
<1>. DEFINE leader  == IF config.program = "leader" THEN C!LeaderInit(config.Leader) ELSE <<>>
            cluster == IF config.Cluster # Nil THEN C!ClusterInit(config.Cluster) ELSE <<>>
<1>1. phase = "init" /\ UNCHANGED <<config, files, replaced>> /\ C!Then(leader \o cluster, "run")
  BY DEF C!Inits
<1>2. leader \in Seq(Allowed)
  <2>1. CASE config.program = "leader"
    BY <1>1, <2>1, OkAllowed, EdgeAllowed, LeaderAllowed DEF C!LeaderInit
  <2>. QED
    BY <2>1
<1>3. cluster \in Seq(Allowed)
  <2>1. CASE config.Cluster # Nil
    <3>. DEFINE c == config.Cluster
    <3>1. c.NMembers \in Nat \ {0} /\ c.MemberID \in Nat
      BY <1>1, <2>1, WhatIsAccepted
    <3>2. (c.MemberID + 1) % c.NMembers \in 0 .. c.NMembers-1
      BY <3>1
    <3>. QED
      BY <1>1, <2>1, <3>2, ClusterAllowed DEF C!ClusterInit, C!UsesKem
  <2>. QED
    BY <2>1
<1>. HIDE DEF leader, cluster
<1>4. leader \o cluster \in Seq(Allowed)
  BY <1>2, <1>3
<1>. QED
  BY <1>1, <1>4, CallsGoOn

LEMMA LeaderAkeOneGoesOn ==
  ASSUME ConfigTypes, ConfigInvariant, C!LeaderAkeOne
  PROVE  ConfigTypes' /\ ConfigInvariant'
<1>. DEFINE l == config.Leader
            results == <<C!openAndDecodeKey(C!FileNamed(l.SecretKey), C!SkLen),
                         C!openAndDecodeKey(C!FileNamed(l.LeftCrypto), C!PkLen),
                         C!InSlots(config.ClusterID, l.NClusters)>>
<1>1. /\ phase = "run" /\ config.program = "leader" /\ UNCHANGED <<config, files, replaced>>
      /\ C!UsesKem(l.LeftCrypto) /\ C!Then(results, "run")
  BY DEF C!LeaderAkeOne
<1>2. results \in Seq(Allowed)
  BY <1>1, EdgeAllowed, LeaderAllowed
<1>. HIDE DEF results
<1>. QED
  BY <1>1, <1>2, CallsGoOn

LEMMA ClusterAkeOneGoesOn ==
  ASSUME ConfigTypes, ConfigInvariant, C!ClusterAkeOne
  PROVE  ConfigTypes' /\ ConfigInvariant'
<1>. DEFINE c == config.Cluster
            results(sender) ==
                <<C!openAndDecodeKey(C!FileNamed(c.SecretKey), C!SkLen), C!GetPublicKeys(c, sender),
                  C!GetPublicKeys(c, c.MemberID), C!InSlots(c.MemberID, c.NMembers)>>
<1>1. /\ phase = "run" /\ config.Cluster # Nil /\ UNCHANGED <<config, files, replaced>>
      /\ C!UsesKem(c.Crypto)
  BY DEF C!ClusterAkeOne
<1>2. PICK sender \in 0 .. c.NMembers-1 : C!Then(results(sender), "run")
  BY DEF C!ClusterAkeOne
<1>3. results(sender) \in Seq(Allowed)
  BY <1>1, ClusterAllowed
<1>. HIDE DEF results
<1>. QED
  BY <1>1, <1>2, <1>3, CallsGoOn

LEMMA NewSessionsGoOn ==
  ASSUME ConfigTypes, ConfigInvariant, C!NewSessions
  PROVE  ConfigTypes' /\ ConfigInvariant'
BY GoesOn DEF C!NewSessions, C!Tidy

LEMMA ReplaceGoesOn ==
  ASSUME ConfigTypes, ConfigInvariant, C!Replace
  PROVE  ConfigTypes' /\ ConfigInvariant'
<1>1. /\ phase \in {"new", "init", "run"} /\ phase' = phase /\ config' = config /\ replaced' = TRUE
  BY DEF C!Replace
<1>2. NumbersOk'
  BY <1>1 DEF ConfigInvariant, NumbersOk
<1>. QED
  BY <1>1, <1>2 DEF ConfigTypes, ConfigInvariant, C!TidyRunsOn

LEMMA ConfigStep ==
  ASSUME ConfigTypes, ConfigInvariant, C!Next
  PROVE  ConfigTypes' /\ ConfigInvariant'
BY GetConfigAccepts, NewSessionsGoOn, InitsGoOn, LeaderAkeOneGoesOn, ClusterAkeOneGoesOn, ReplaceGoesOn
   DEF C!Next

\* A file that is read has been named.
LEMMA ReadIsNamed ==
  ASSUME NEW text, C!FileNamed(text).readable
  PROVE  text.form = "file" /\ ~text.blank
BY DEF C!FileNamed, C!Unreadable

LEMMA DocumentedClusterIsValid ==
  ASSUME NEW c \in AnyCluster, C!DocumentedCluster(c)
  PROVE  C!ClusterValid(c)
<1>. USE ConfigurationAssumption
<1>1. c.NMembers # Nil /\ c.NMembers > 0 /\ c.MemberID # Nil /\ c.MemberID >= 0
  BY DEF C!DocumentedCluster
<1>2. ~c.Crypto.blank => C!Trimmed(c.Crypto) = c.Crypto
  BY DEF C!Trimmed, AnyCluster, AnyText
<1>3. CASE /\ C!HasUrl(c.Crypto) \/ (C!HasPath(c.Crypto) /\ C!FileOfPath(c.Crypto) = C!KeyFile(C!SharedLen))
           /\ ~C!IsSet(c.PublicKeys) /\ ~C!IsSet(c.SecretKey)
  BY <1>1, <1>2, <1>3
     DEF C!ClusterValid, C!exactlyOne, C!IsSet, C!HasUrl, C!HasPath, C!CryptoOk, C!HasKey, C!KeyFile
<1>4. CASE /\ ~C!IsSet(c.Crypto)
           /\ C!FileNamed(c.PublicKeys) = C!PksFile(c.NMembers)
           /\ C!FileNamed(c.SecretKey) = C!KeyFile(C!SkLen)
  <2>1. C!FileNamed(c.PublicKeys).readable /\ C!FileNamed(c.PublicKeys).publicKeys = c.NMembers
    BY <1>4 DEF C!PksFile
  <2>2. C!FileNamed(c.SecretKey).readable /\ C!FileNamed(c.SecretKey).key = C!SkLen
    BY <1>4 DEF C!KeyFile
  <2>3. C!IsSet(c.PublicKeys) /\ C!IsSet(c.SecretKey)
    BY <2>1, <2>2, ReadIsNamed DEF C!IsSet
  <2>. QED
    BY <1>1, <1>4, <2>1, <2>2, <2>3 DEF C!ClusterValid, C!exactlyOne, C!PublicKeysOk, C!HasKey
<1>. QED
  BY <1>3, <1>4 DEF C!DocumentedCluster

LEMMA DocumentedEdgeIsValid ==
  ASSUME NEW text \in AnyText, C!DocumentedEdge(text)
  PROVE  C!checkPKFile(text)
<1>1. ~text.blank => C!Trimmed(text) = text
  BY DEF C!Trimmed, AnyText
<1>2. CASE C!HasUrl(text)
  BY <1>1, <1>2 DEF C!checkPKFile, C!HasUrl
<1>3. CASE C!HasPath(text) /\ C!FileOfPath(text) = C!KeyFile(C!SsLen)
  BY <1>1, <1>3 DEF C!checkPKFile, C!HasPath, C!HasKey, C!KeyFile
<1>4. CASE C!FileNamed(text) = C!KeyFile(C!PkLen)
  <2>1. C!FileNamed(text).readable /\ C!FileNamed(text).key = C!PkLen
    BY <1>4 DEF C!KeyFile
  <2>. QED
    BY <1>1, <2>1, ReadIsNamed DEF C!checkPKFile, C!HasKey
<1>. QED
  BY <1>2, <1>3, <1>4 DEF C!DocumentedEdge

LEMMA DocumentedIsValid == ASSUME ConfigTypes, C!Documented PROVE C!validate
<1>1. config.ClusterID # Nil /\ config.ClusterID >= 0
  BY ConfigurationAssumption DEF C!Documented
<1>2. ASSUME config.Cluster # Nil PROVE C!ClusterValid(config.Cluster)
  BY <1>2, DocumentedClusterIsValid DEF ConfigTypes, AnyConfig, Section, C!Documented
<1>3. ASSUME config.Leader # Nil PROVE C!LeaderValid(config.Leader)
  <2>1. config.Leader \in AnyLeader
    BY <1>3 DEF ConfigTypes, AnyConfig, Section
  <2>2. config.Leader.NClusters # Nil /\ config.Leader.NClusters > 0
    BY <1>3, ConfigurationAssumption DEF C!Documented
  <2>3. C!HasKey(C!FileNamed(config.Leader.SecretKey), C!SkLen)
    BY <1>3 DEF C!Documented, C!KeyFile, C!HasKey
  <2>. QED
    BY <1>3, <2>1, <2>2, <2>3, DocumentedEdgeIsValid DEF C!Documented, C!LeaderValid, AnyLeader
<1>. QED
  BY <1>1, <1>2, <1>3 DEF C!validate

\* A configuration that follows the README is accepted, and a program with an accepted and
\* tidy one never panics over it, and ends only if a key file was replaced (validate).
THEOREM TidyRunsOnHolds == ProgramsSpec => []TidyRunsOn
<1>1. ProgramsInit => ConfigInv
  <2>1. ASSUME ProgramsInit, component = "configuration" PROVE C!Init
    BY <2>1 DEF ProgramsInit
  <2>. QED
    BY <2>1, InitConfigures DEF ConfigInv
<1>2. ASSUME ConfigInv, [ProgramsNext]_allVars PROVE ConfigInv'
  <2>1. CASE component # "configuration"
    BY <1>2, <2>1 DEF ConfigInv, ProgramsNext, allVars
  <2>2. CASE component = "configuration" /\ C!Next
    BY <1>2, <2>2, ConfigStep DEF ConfigInv
  <2>3. CASE component = "configuration" /\ UNCHANGED allVars
    <3>1. UNCHANGED <<config, files, replaced, phase>>
      BY <2>3 DEF allVars, settings
    <3>2. (C!validate <=> C!validate') /\ (C!Tidy <=> C!Tidy')
      BY <3>1 DEF C!validate, C!ClusterValid, C!LeaderValid, C!CryptoOk, C!checkPKFile,
         C!FileOfPath, C!FileNamed, C!PublicKeysOk, C!HasKey, C!Tidy
    <3>. QED
      BY <1>2, <2>3, <3>1, <3>2 DEF ConfigInv, ConfigTypes, ConfigInvariant, NumbersOk, C!TidyRunsOn
  <2>4. component = "configuration" => C!Next \/ UNCHANGED allVars
    BY <1>2 DEF ProgramsNext
  <2>. QED
    BY <2>1, <2>2, <2>3, <2>4
<1>3. ConfigInv => TidyRunsOn
  <2>1. ASSUME ConfigTypes, ConfigInvariant PROVE C!TidyRunsOn /\ C!DocumentedIsAccepted
    BY <2>1, DocumentedIsValid DEF ConfigInvariant, C!DocumentedIsAccepted
  <2>. QED
    BY <2>1 DEF ConfigInv, TidyRunsOn
<1>. QED
  BY <1>1, <1>2, <1>3, PTL DEF ProgramsSpec
-----------------------------------------------------------------------------
(***************************************************************************)
(* ConfigGenerator: what was written for one cluster is left alone.        *)
(***************************************************************************)
\* The first k clusters have been written, with size[c] members each, and nothing else.
WrittenFor(k, size) ==
    /\ \A w : w \in DOMAIN configs <=> \E c \in 0 .. k-1 : w \in G!Directories(c, size[c])
    /\ \A c \in 0 .. k-1 : \A w \in G!Directories(c, size[c]) :
        /\ w \in DOMAIN files
        /\ files[w] = G!FilesOf(c, size[c])[w]
        /\ configs[w] = G!ConfigsOf(c, size[c])[w]

WrittenSoFar == \E size \in [0 .. nextCluster-1 -> Nat \ {0}] : WrittenFor(nextCluster, size)

GeneratorInvariant ==
    /\ nClusters \in Int /\ nextCluster \in Nat
    /\ phase = "start" => nextCluster = 0
    /\ phase = "clusters" => nClusters > 1 /\ nextCluster < nClusters
    /\ phase = "done" => nextCluster \in {0, nClusters}
    /\ nextCluster > 0 => nClusters > 1
    /\ WrittenSoFar

GeneratorInv == component = "generator" => GeneratorInvariant

LEMMA InitGenerates == ASSUME G!Init PROVE GeneratorInvariant
<1>1. /\ nClusters = 0 /\ nextCluster = 0 /\ configs = <<>> /\ phase = "start"
  BY DEF G!Init
<1>2. DOMAIN configs = {}
  BY <1>1
<1>3. WrittenFor(nextCluster, [c \in 0 .. nextCluster-1 |-> 1])
  BY <1>1, <1>2 DEF WrittenFor
<1>4. WrittenSoFar
  <2>1. [c \in 0 .. nextCluster-1 |-> 1] \in [0 .. nextCluster-1 -> Nat \ {0}]
    OBVIOUS
  <2>. QED
    BY <1>3, <2>1, Zenon DEF WrittenSoFar
<1>. QED
  BY <1>1, <1>4 DEF GeneratorInvariant

\* A directory belongs to one cluster.
LEMMA DirectoriesApart ==
  ASSUME NEW c, NEW d, c # d, NEW n, NEW m
  PROVE  G!Directories(c, n) \intersect G!Directories(d, m) = {}
<1>1. ASSUME NEW w \in G!Directories(c, n) PROVE w[2] = c
  BY <1>1 DEF G!Directories, G!Leader, G!Member
<1>2. ASSUME NEW w \in G!Directories(d, m) PROVE w[2] = d
  BY <1>2 DEF G!Directories, G!Leader, G!Member
<1>. QED
  BY <1>1, <1>2

LEMMA GenerateClusterWrites ==
  ASSUME GeneratorInvariant, G!GenerateCluster
  PROVE  GeneratorInvariant'
<1>0. PICK k \in Nat : k = nextCluster
  BY DEF GeneratorInvariant
<1>1. /\ phase = "clusters" /\ k = nextCluster /\ nClusters \in Int /\ nClusters > 1 /\ k < nClusters
      /\ nextCluster' = k + 1 /\ nClusters' = nClusters
      /\ phase' = IF k + 1 = nClusters THEN "done" ELSE "clusters"
  BY <1>0 DEF GeneratorInvariant, G!GenerateCluster
<1>2. PICK size \in [0 .. k-1 -> Nat \ {0}] : WrittenFor(k, size)
  BY <1>0 DEF GeneratorInvariant, WrittenSoFar
<1>3. PICK n \in Nat \ {0} : /\ files' = G!Over(G!FilesOf(k, n), files)
                             /\ configs' = G!Over(G!ConfigsOf(k, n), configs)
  BY <1>0 DEF G!GenerateCluster
<1>10. PICK more \in [0 .. k -> Nat \ {0}] : more = [c \in 0 .. k |-> IF c = k THEN n ELSE size[c]]
  <2>1. [c \in 0 .. k |-> IF c = k THEN n ELSE size[c]] \in [0 .. k -> Nat \ {0}]
    BY <1>0, <1>2, <1>3
  <2>. QED
    BY <2>1, Zenon
<1>4. /\ more \in [0 .. k -> Nat \ {0}] /\ more[k] = n /\ k \in 0 .. k
      /\ \A c \in 0 .. k-1 : c \in 0 .. k /\ c # k /\ more[c] = size[c]
      /\ \A c \in 0 .. k : c # k => c \in 0 .. k-1
  BY <1>0, <1>10
<1>5. /\ DOMAIN G!FilesOf(k, n) = G!Directories(k, n)
      /\ DOMAIN G!ConfigsOf(k, n) = G!Directories(k, n)
  BY DEF G!FilesOf, G!ConfigsOf
<1>11. /\ DOMAIN files' = DOMAIN G!FilesOf(k, n) \union DOMAIN files
       /\ \A w \in DOMAIN G!FilesOf(k, n) : files'[w] = G!FilesOf(k, n)[w]
       /\ \A w \in DOMAIN files : w \notin DOMAIN G!FilesOf(k, n) => files'[w] = files[w]
  BY <1>3 DEF G!Over
<1>13. /\ DOMAIN configs' = DOMAIN G!ConfigsOf(k, n) \union DOMAIN configs
       /\ \A w \in DOMAIN G!ConfigsOf(k, n) : configs'[w] = G!ConfigsOf(k, n)[w]
       /\ \A w \in DOMAIN configs : w \notin DOMAIN G!ConfigsOf(k, n) => configs'[w] = configs[w]
  BY <1>3 DEF G!Over
<1>6. ASSUME NEW w
      PROVE  w \in DOMAIN configs' <=> \E c \in 0 .. k : w \in G!Directories(c, more[c])
  <2>1. w \in DOMAIN configs' <=> w \in G!Directories(k, n) \/ w \in DOMAIN configs
    BY <1>5, <1>11, <1>13
  <2>2. w \in DOMAIN configs <=> \E c \in 0 .. k-1 : w \in G!Directories(c, size[c])
    BY <1>2 DEF WrittenFor
  <2>. QED
    BY <1>4, <2>1, <2>2
<1>7. ASSUME NEW c \in 0 .. k, NEW w \in G!Directories(c, more[c])
      PROVE  /\ w \in DOMAIN files'
             /\ files'[w] = G!FilesOf(c, more[c])[w]
             /\ configs'[w] = G!ConfigsOf(c, more[c])[w]
  <2>1. CASE c = k
    BY <1>4, <1>7, <1>5, <1>11, <1>13, <2>1
  <2>2. CASE c # k
    <3>1. c \in 0 .. k-1 /\ more[c] = size[c] /\ w \in G!Directories(c, size[c])
      BY <1>4, <1>7, <2>2
    <3>2. w \notin G!Directories(k, n)
      BY <2>2, <3>1, DirectoriesApart
    <3>3. /\ w \in DOMAIN files /\ w \in DOMAIN configs
          /\ files[w] = G!FilesOf(c, size[c])[w] /\ configs[w] = G!ConfigsOf(c, size[c])[w]
      BY <1>2, <3>1 DEF WrittenFor
    <3>. QED
      BY <1>5, <1>11, <1>13, <3>1, <3>2, <3>3
  <2>. QED
    BY <2>1, <2>2
<1>8. \A c \in 0 .. k : /\ G!FilesOf(c, more[c])' = G!FilesOf(c, more[c])
                        /\ G!ConfigsOf(c, more[c])' = G!ConfigsOf(c, more[c])
  BY <1>1 DEF G!FilesOf, G!ConfigsOf, G!LeaderFilesOf, G!LeaderConfig, G!leftIndex, G!rightIndex
<1>9. WrittenFor(k + 1, more)'
  BY <1>0, <1>1, <1>6, <1>7, <1>8 DEF WrittenFor
<1>12. WrittenSoFar'
  <2>1. 0 .. nextCluster'-1 = 0 .. k /\ nextCluster' = k + 1
    BY <1>1
  <2>. QED
    BY <1>9, <1>10, <2>1, Zenon DEF WrittenSoFar
<1>. QED
  BY <1>0, <1>1, <1>12 DEF GeneratorInvariant

LEMMA NothingWrittenBefore ==
  ASSUME GeneratorInvariant, nextCluster = 0, UNCHANGED <<nextCluster, files, configs>>
  PROVE  WrittenSoFar'
<1>1. PICK size \in [0 .. nextCluster-1 -> Nat \ {0}] : WrittenFor(nextCluster, size)
  BY DEF GeneratorInvariant, WrittenSoFar
<1>2. WrittenFor(nextCluster, size)'
  BY <1>1 DEF WrittenFor
<1>. QED
  BY <1>1, <1>2 DEF WrittenSoFar

LEMMA GeneratorStep ==
  ASSUME GeneratorInvariant, G!Next
  PROVE  GeneratorInvariant'
<1>1. CASE G!Generate
  <2>1. phase = "start" /\ phase' = "done" /\ nextCluster = 0
        /\ UNCHANGED <<nClusters, nextCluster, files, configs>>
    BY <1>1 DEF G!Generate, GeneratorInvariant
  <2>. QED
    BY <2>1, NothingWrittenBefore DEF GeneratorInvariant
<1>2. CASE G!generateConfig
  <2>1. /\ phase = "start" /\ nextCluster = 0 /\ nClusters' \in Int
        /\ phase' = IF nClusters' <= 1 THEN "done" ELSE "clusters"
        /\ UNCHANGED <<nextCluster, files, configs>>
    BY <1>2 DEF G!generateConfig, GeneratorInvariant
  <2>. QED
    BY <2>1, NothingWrittenBefore DEF GeneratorInvariant
<1>. QED
  BY <1>1, <1>2, GenerateClusterWrites DEF G!Next

\* The neighbour of a neighbour is the leader itself.
LEMMA Neighbours ==
  ASSUME nClusters \in Int, nClusters > 1, NEW c \in 0 .. nClusters-1
  PROVE  LET next == (c + 1) % nClusters
         IN  next \in 0 .. nClusters-1 /\ G!rightIndex(c) = next /\ G!leftIndex(next) = c
<1>1. CASE c + 1 < nClusters
  <2>1. (c + 1) % nClusters = c + 1 /\ (c + 1 + nClusters) % nClusters = c + 1
        /\ (c + 1 - 1 + nClusters) % nClusters = c
    BY <1>1
  <2>. QED
    BY <1>1, <2>1 DEF G!rightIndex, G!leftIndex
<1>2. CASE c + 1 = nClusters
  <2>1. nClusters % nClusters = 0 /\ (nClusters + nClusters) % nClusters = 0
        /\ (0 - 1 + nClusters) % nClusters = c
    BY <1>2
  <2>. QED
    BY <1>2, <2>1 DEF G!rightIndex, G!leftIndex
<1>. QED
  BY <1>1, <1>2

LEMMA EdgesMatchAtEnd == ASSUME GeneratorInvariant PROVE G!EdgesMatch
<1>. SUFFICES ASSUME phase = "done", NEW c \in 0 .. nextCluster-1
              PROVE  LET next == (c + 1) % nClusters
                         l(d) == configs[G!Leader(d)].leaders
                     IN  /\ configs[G!Leader(c)].clusterID = c /\ l(c).nClusters = nClusters
                         /\ G!FileOf(G!Leader(c), l(c).rightCrypto).pk = G!FileOf(G!Leader(next), l(next).secretKey).sk
                         /\ G!FileOf(G!Leader(next), l(next).leftCrypto).pk = G!FileOf(G!Leader(c), l(c).secretKey).sk
  BY DEF G!EdgesMatch
<1>. DEFINE next == (c + 1) % nClusters
<1>1. nClusters \in Int /\ nClusters > 1 /\ nextCluster = nClusters
  BY DEF GeneratorInvariant
<1>2. next \in 0 .. nClusters-1 /\ G!rightIndex(c) = next /\ G!leftIndex(next) = c
  BY <1>1, Neighbours
<1>. HIDE DEF next
<1>3. PICK size \in [0 .. nClusters-1 -> Nat \ {0}] : WrittenFor(nClusters, size)
  BY <1>1 DEF GeneratorInvariant, WrittenSoFar
<1>4. ASSUME NEW d \in 0 .. nClusters-1
      PROVE  /\ files[G!Leader(d)] = G!LeaderFilesOf(d, size[d])
             /\ configs[G!Leader(d)] = G!LeaderConfig(d, size[d])
  <2>1. G!Leader(d) \in G!Directories(d, size[d])
    BY DEF G!Directories
  <2>. QED
    BY <1>3, <2>1 DEF WrittenFor, G!FilesOf, G!ConfigsOf
<1>5. ASSUME NEW d \in 0 .. nClusters-1
      PROVE  /\ configs[G!Leader(d)].clusterID = d
             /\ configs[G!Leader(d)].leaders.nClusters = nClusters
             /\ G!FileOf(G!Leader(d), configs[G!Leader(d)].leaders.rightCrypto).pk = G!LeaderPair(G!rightIndex(d))
             /\ G!FileOf(G!Leader(d), configs[G!Leader(d)].leaders.leftCrypto).pk = G!LeaderPair(G!leftIndex(d))
             /\ G!FileOf(G!Leader(d), configs[G!Leader(d)].leaders.secretKey).sk = G!LeaderPair(d)
  <2>0. /\ files[G!Leader(d)] = G!LeaderFilesOf(d, size[d])
        /\ configs[G!Leader(d)] = G!LeaderConfig(d, size[d])
    BY <1>4
  <2>1. /\ files[G!Leader(d)]["sk"] = G!sk(G!LeaderPair(d))
        /\ files[G!Leader(d)]["left_pk"] = G!pk(G!LeaderPair(G!leftIndex(d)))
        /\ files[G!Leader(d)]["right_pk"] = G!pk(G!LeaderPair(G!rightIndex(d)))
    BY <2>0 DEF G!LeaderFilesOf
  <2>2. /\ configs[G!Leader(d)].clusterID = d
        /\ configs[G!Leader(d)].leaders = [nClusters |-> nClusters, leftCrypto |-> "left_pk",
                                           rightCrypto |-> "right_pk", secretKey |-> "sk"]
    BY <2>0 DEF G!LeaderConfig
  <2>3. G!FileOf(G!Leader(d), "sk").sk = G!LeaderPair(d)
    BY <2>1 DEF G!FileOf, G!sk
  <2>4. G!FileOf(G!Leader(d), "left_pk").pk = G!LeaderPair(G!leftIndex(d))
    BY <2>1 DEF G!FileOf, G!pk
  <2>5. G!FileOf(G!Leader(d), "right_pk").pk = G!LeaderPair(G!rightIndex(d))
    BY <2>1 DEF G!FileOf, G!pk
  <2>. QED
    BY <2>2, <2>3, <2>4, <2>5
<1>. QED
  BY <1>1, <1>2, <1>5 DEF next

\* The place of the owner of directory w in cluster c of n members.
Place(c, n, w) == IF w = G!Leader(c) THEN n-1 ELSE w[3]

LEMMA PlacesOfMembers ==
  ASSUME NEW c, NEW n \in Nat \ {0}
  PROVE  /\ \A j \in 0 .. n-2 : /\ G!Member(c, j) \in G!Directories(c, n) /\ G!Member(c, j) # G!Leader(c)
                                /\ Place(c, n, G!Member(c, j)) = j
         /\ G!Leader(c) \in G!Directories(c, n) /\ Place(c, n, G!Leader(c)) = n-1
         /\ \A w \in G!Directories(c, n) :
              /\ Place(c, n, w) \in 0 .. n-1
              /\ w # G!Leader(c) => Place(c, n, w) \in 0 .. n-2 /\ w = G!Member(c, Place(c, n, w)) /\ n > 1
<1>1. ASSUME NEW j \in 0 .. n-2
      PROVE  /\ G!Member(c, j) \in G!Directories(c, n) /\ G!Member(c, j) # G!Leader(c)
             /\ G!Member(c, j)[3] = j
  <2>1. Len(<<"member", c, j>>) = 3 /\ Len(<<"leader", c>>) = 2
    OBVIOUS
  <2>. QED
    BY <2>1 DEF G!Directories, G!Leader, G!Member
<1>2. G!Leader(c) \in G!Directories(c, n)
  BY DEF G!Directories
<1>3. ASSUME NEW w \in G!Directories(c, n), w # G!Leader(c)
      PROVE  \E j \in 0 .. n-2 : w = G!Member(c, j)
  BY <1>3 DEF G!Directories
<1>. QED
  BY <1>1, <1>2, <1>3 DEF Place

LEMMA SameCardinality == \A S : G!Cardinality(S) = Cardinality(S)
BY Zenon DEF G!Cardinality, Cardinality

\* A cluster of n members has n directories.
LEMMA AsManyDirectories ==
  ASSUME NEW c, NEW n \in Nat \ {0}
  PROVE  Cardinality(G!Directories(c, n)) = n
<1>. DEFINE D == G!Directories(c, n)
            b == [k \in 1 .. n |-> IF k = n THEN G!Leader(c) ELSE G!Member(c, k-1)]
<1>1. ASSUME NEW k \in 1 .. n
      PROVE  b[k] \in D /\ Place(c, n, b[k]) = k-1
  <2>1. CASE k = n
    BY <2>1, PlacesOfMembers
  <2>2. CASE k # n
    <3>1. k-1 \in 0 .. n-2 /\ b[k] = G!Member(c, k-1)
      BY <2>2
    <3>. QED
      BY <3>1, PlacesOfMembers
  <2>. QED
    BY <2>1, <2>2
<1>2. ASSUME NEW w \in D PROVE \E k \in 1 .. n : b[k] = w
  <2>1. CASE w = G!Leader(c)
    BY <2>1
  <2>2. CASE w # G!Leader(c)
    <3>. DEFINE j == Place(c, n, w)
    <3>1. j \in 0 .. n-2 /\ w = G!Member(c, j)
      BY <2>2, PlacesOfMembers
    <3>. HIDE DEF j
    <3>2. j + 1 \in 1 .. n /\ b[j + 1] = w
      BY <3>1
    <3>. QED
      BY <3>2
  <2>. QED
    BY <2>1, <2>2
<1>3. b \in [1 .. n -> D]
  BY <1>1
<1>. HIDE DEF b, D
<1>4. \A k, m \in 1 .. n : b[k] = b[m] => k = m
  <2>. SUFFICES ASSUME NEW k \in 1 .. n, NEW m \in 1 .. n, b[k] = b[m] PROVE k = m
    OBVIOUS
  <2>1. k-1 = m-1
    BY <1>1
  <2>. QED
    BY <2>1
<1>5. b \in Bijection(1 .. n, D)
  BY <1>2, <1>3, <1>4, Fun_IsBij
<1>6. ExistsBijection(1 .. n, D)
  BY <1>5 DEF ExistsBijection
<1>. QED
  BY <1>6, FS_CountingElements DEF D

\* What a member of a cluster of more than one, the leader or another, finds in its directory.
MemberHas(c, n, w) ==
    LET own == configs[w].cluster[1]
        keys == G!FileOf(w, own.publicKeys).pks
    IN  /\ configs[w].clusterID = c /\ configs[w].cluster # <<>>
        /\ own.nMembers = n /\ own.memberID = Place(c, n, w)
        /\ keys = [m \in 0 .. n-1 |-> G!MemberPair(c, m)]
        /\ G!FileOf(w, own.secretKey).sk = G!MemberPair(c, Place(c, n, w))

LEMMA LeaderHas ==
  ASSUME NEW c, NEW n \in Nat \ {0}, NEW w, w = G!Leader(c),
         files[w] = G!LeaderFilesOf(c, n), configs[w] = G!LeaderConfig(c, n)
  PROVE  /\ configs[w].clusterID = c
         /\ n = 1 => configs[w].cluster = <<>>
         /\ n > 1 => MemberHas(c, n, w)
<1>1. configs[w].clusterID = c /\ (n = 1 => configs[w].cluster = <<>>)
  BY DEF G!LeaderConfig
<1>2. ASSUME n > 1 PROVE MemberHas(c, n, w)
  <2>. DEFINE own == [nMembers |-> n, memberID |-> n-1,
                      publicKeys |-> "cluster_pks", secretKey |-> "cluster_sk"]
  <2>1. configs[w].cluster = <<own>>
    BY <1>2 DEF G!LeaderConfig
  <2>2. <<own>>[1] = own /\ <<own>> # <<>>
    OBVIOUS
  <2>3. files[w]["cluster_pks"] = G!AllPks(c, n) /\ files[w]["cluster_sk"] = G!sk(G!MemberPair(c, n-1))
    BY <1>2 DEF G!LeaderFilesOf
  <2>4. G!FileOf(w, "cluster_pks").pks = [m \in 0 .. n-1 |-> G!MemberPair(c, m)]
    BY <2>3 DEF G!FileOf, G!AllPks, G!pks
  <2>5. G!FileOf(w, "cluster_sk").sk = G!MemberPair(c, n-1)
    BY <2>3 DEF G!FileOf, G!sk
  <2>6. Place(c, n, w) = n-1
    BY DEF Place
  <2>. QED
    BY <1>1, <2>1, <2>2, <2>4, <2>5, <2>6 DEF MemberHas
<1>. QED
  BY <1>1, <1>2

LEMMA OtherHas ==
  ASSUME NEW c, NEW n \in Nat \ {0}, NEW j \in 0 .. n-2, NEW w, w = G!Member(c, j),
         files[w] = G!MemberFilesOf(c, j, n), configs[w] = G!MemberConfig(c, j, n)
  PROVE  MemberHas(c, n, w)
<1>. DEFINE own == [nMembers |-> n, memberID |-> j, publicKeys |-> "pks", secretKey |-> "sk"]
<1>1. configs[w].clusterID = c /\ configs[w].cluster = <<own>>
  BY DEF G!MemberConfig
<1>2. <<own>>[1] = own /\ <<own>> # <<>>
  OBVIOUS
<1>3. files[w]["pks"] = G!AllPks(c, n) /\ files[w]["sk"] = G!sk(G!MemberPair(c, j))
  BY DEF G!MemberFilesOf
<1>4. G!FileOf(w, "pks").pks = [m \in 0 .. n-1 |-> G!MemberPair(c, m)]
  BY <1>3 DEF G!FileOf, G!AllPks, G!pks
<1>5. G!FileOf(w, "sk").sk = G!MemberPair(c, j)
  BY <1>3 DEF G!FileOf, G!sk
<1>6. Place(c, n, w) = j
  BY PlacesOfMembers
<1>. QED
  BY <1>1, <1>2, <1>4, <1>5, <1>6 DEF MemberHas

\* What is known of every directory.
WrittenAs(c, n, w) ==
  /\ configs[w].clusterID = c
  /\ n = 1 => configs[w].cluster = <<>>
  /\ n > 1 => MemberHas(c, n, w)

LEMMA WhatIsWritten ==
  ASSUME NEW k \in Nat, NEW size \in [0 .. k-1 -> Nat \ {0}], WrittenFor(k, size),
         NEW c \in 0 .. k-1, NEW w \in G!Directories(c, size[c])
  PROVE  WrittenAs(c, size[c], w)
<1>. DEFINE n == size[c]
<1>1. files[w] = G!FilesOf(c, n)[w] /\ configs[w] = G!ConfigsOf(c, n)[w]
  BY DEF WrittenFor
<1>2. CASE w = G!Leader(c)
  <2>1. files[w] = G!LeaderFilesOf(c, n) /\ configs[w] = G!LeaderConfig(c, n)
    BY <1>1, <1>2 DEF G!FilesOf, G!ConfigsOf
  <2>. QED
    BY <1>2, <2>1, LeaderHas DEF WrittenAs
<1>3. CASE w # G!Leader(c)
  <2>1. n > 1 /\ Place(c, n, w) \in 0 .. n-2 /\ w = G!Member(c, Place(c, n, w)) /\ Place(c, n, w) = w[3]
    BY <1>3, PlacesOfMembers DEF Place
  <2>2. files[w] = G!MemberFilesOf(c, w[3], n) /\ configs[w] = G!MemberConfig(c, w[3], n)
    BY <1>1, <1>3 DEF G!FilesOf, G!ConfigsOf
  <2>3. MemberHas(c, n, w)
    BY <2>1, <2>2, OtherHas
  <2>. QED
    BY <2>1, <2>3 DEF MemberHas, WrittenAs
<1>. QED
  BY <1>2, <1>3

LEMMA EachIsWritten ==
  ASSUME GeneratorInvariant
  PROVE  \E size \in [0 .. nextCluster-1 -> Nat \ {0}] :
           /\ WrittenFor(nextCluster, size)
           /\ \A c \in 0 .. nextCluster-1 : \A w \in G!Directories(c, size[c]) : WrittenAs(c, size[c], w)
<1>1. nextCluster \in Nat
  BY DEF GeneratorInvariant
<1>2. PICK size \in [0 .. nextCluster-1 -> Nat \ {0}] : WrittenFor(nextCluster, size)
  BY DEF GeneratorInvariant, WrittenSoFar
<1>3. ASSUME NEW c \in 0 .. nextCluster-1, NEW w \in G!Directories(c, size[c])
      PROVE  WrittenAs(c, size[c], w)
  BY <1>1, <1>2, WhatIsWritten
<1>. QED
  BY <1>2, <1>3

LEMMA MembersMatchAtEnd == ASSUME GeneratorInvariant PROVE G!MembersMatch
<1>. DEFINE Of(c) == {w \in DOMAIN configs : configs[w].clusterID = c /\ configs[w].cluster # <<>>}
            own(w) == configs[w].cluster[1]
            keys(w) == G!FileOf(w, own(w).publicKeys).pks
<1>. SUFFICES ASSUME NEW c \in 0 .. nextCluster-1
              PROVE  LET all == Of(c)
                     IN  \A w \in all :
                          /\ \A v \in all : keys(v) = keys(w) /\ (own(v).memberID = own(w).memberID => v = w)
                          /\ {own(v).memberID : v \in all} = DOMAIN keys(w)
                          /\ own(w).nMembers = G!Cardinality(all)
                          /\ G!FileOf(w, own(w).secretKey).sk = keys(w)[own(w).memberID]
  BY Zenon DEF G!MembersMatch
<1>. SUFFICES ASSUME NEW w \in Of(c)
              PROVE  /\ \A v \in Of(c) : keys(v) = keys(w) /\ (own(v).memberID = own(w).memberID => v = w)
                     /\ {own(v).memberID : v \in Of(c)} = DOMAIN keys(w)
                     /\ own(w).nMembers = G!Cardinality(Of(c))
                     /\ G!FileOf(w, own(w).secretKey).sk = keys(w)[own(w).memberID]
  BY Zenon
<1>1. nextCluster \in Nat
  BY DEF GeneratorInvariant
<1>2. PICK size \in [0 .. nextCluster-1 -> Nat \ {0}] :
        /\ WrittenFor(nextCluster, size)
        /\ \A d \in 0 .. nextCluster-1 : \A v \in G!Directories(d, size[d]) : WrittenAs(d, size[d], v)
  BY EachIsWritten
<1>. DEFINE n == size[c]
<1>3. ASSUME NEW v PROVE v \in Of(c) <=> n > 1 /\ v \in G!Directories(c, n)
  <2>1. ASSUME v \in Of(c) PROVE n > 1 /\ v \in G!Directories(c, n)
    <3>1. PICK d \in 0 .. nextCluster-1 : v \in G!Directories(d, size[d])
      BY <1>2, <2>1 DEF WrittenFor
    <3>2. configs[v].clusterID = d /\ (size[d] = 1 => configs[v].cluster = <<>>)
      BY <1>2, <3>1 DEF WrittenAs
    <3>3. configs[v].clusterID = c /\ configs[v].cluster # <<>>
      BY <2>1
    <3>4. size[d] \in Nat \ {0} /\ size[d] # 1
      BY <1>2, <3>2, <3>3
    <3>5. size[d] > 1
      BY <3>4
    <3>6. d = c
      BY <3>2, <3>3
    <3>. QED
      BY <3>1, <3>5, <3>6
  <2>2. ASSUME n > 1, v \in G!Directories(c, n) PROVE v \in Of(c)
    <3>1. v \in DOMAIN configs
      BY <1>2, <2>2 DEF WrittenFor
    <3>2. MemberHas(c, n, v)
      BY <1>2, <2>2 DEF WrittenAs
    <3>. QED
      BY <3>1, <3>2 DEF MemberHas
  <2>. QED
    BY <2>1, <2>2
<1>4. n > 1 /\ n \in Nat /\ Of(c) = G!Directories(c, n)
  BY <1>2, <1>3
<1>5. ASSUME NEW v \in Of(c) PROVE MemberHas(c, n, v)
  BY <1>2, <1>4, <1>5 DEF WrittenAs
<1>. HIDE DEF Of
<1>6. ASSUME NEW v \in Of(c)
      PROVE  /\ own(v).nMembers = n /\ own(v).memberID = Place(c, n, v)
             /\ keys(v) = [m \in 0 .. n-1 |-> G!MemberPair(c, m)]
             /\ G!FileOf(v, own(v).secretKey).sk = G!MemberPair(c, Place(c, n, v))
  BY <1>5 DEF MemberHas
<1>7. ASSUME NEW v \in Of(c)
      PROVE  /\ Place(c, n, v) \in 0 .. n-1
             /\ v # G!Leader(c) => Place(c, n, v) \in 0 .. n-2 /\ v = G!Member(c, Place(c, n, v))
             /\ v = G!Leader(c) => Place(c, n, v) = n-1
  BY <1>4, PlacesOfMembers
<1>. HIDE DEF own, keys, n
<1>8. ASSUME NEW v \in Of(c), own(v).memberID = own(w).memberID PROVE v = w
  <2>1. Place(c, n, v) = Place(c, n, w)
    BY <1>6, <1>8
  <2>. QED
    BY <1>4, <1>7, <2>1
<1>9. {own(v).memberID : v \in Of(c)} = 0 .. n-1
  <2>1. ASSUME NEW m \in 0 .. n-1 PROVE \E v \in Of(c) : own(v).memberID = m
    <3>1. CASE m = n-1
      BY <1>4, <1>6, <3>1, PlacesOfMembers
    <3>2. CASE m # n-1
      <4>1. m \in 0 .. n-2
        BY <1>4, <3>2
      <4>. QED
        BY <1>4, <1>6, <4>1, PlacesOfMembers
    <3>. QED
      BY <3>1, <3>2
  <2>. QED
    BY <1>6, <1>7, <2>1
<1>10. G!Cardinality(Of(c)) = n
  BY <1>4, AsManyDirectories, SameCardinality
<1>11. DOMAIN keys(w) = 0 .. n-1 /\ \A v \in Of(c) : keys(v) = keys(w)
  BY <1>6
<1>12. keys(w)[own(w).memberID] = G!MemberPair(c, Place(c, n, w))
  <2>1. keys(w) = [m \in 0 .. n-1 |-> G!MemberPair(c, m)] /\ own(w).memberID = Place(c, n, w)
    BY <1>6
  <2>2. Place(c, n, w) \in 0 .. n-1
    BY <1>7
  <2>. QED
    BY <2>1, <2>2
<1>13. own(w).nMembers = n /\ G!FileOf(w, own(w).secretKey).sk = G!MemberPair(c, Place(c, n, w))
  BY <1>6
<1>. QED
  BY <1>8, <1>9, <1>10, <1>11, <1>12, <1>13

\* Neighbouring leaders have each other's public keys, on the right side, and the members of
\* a cluster agree on its keys and have each its own place (generateConfig).
THEOREM FilesMatchHolds == ProgramsSpec => []FilesMatch
<1>1. ProgramsInit => GeneratorInv
  <2>1. ASSUME ProgramsInit, component = "generator" PROVE G!Init
    BY <2>1 DEF ProgramsInit
  <2>. QED
    BY <2>1, InitGenerates DEF GeneratorInv
<1>2. ASSUME GeneratorInv, [ProgramsNext]_allVars PROVE GeneratorInv'
  <2>1. component' = component
    BY <1>2 DEF ProgramsNext, allVars
  <2>2. CASE component = "generator" /\ G!Next
    BY <1>2, <2>1, <2>2, GeneratorStep DEF GeneratorInv
  <2>3. CASE component = "generator" /\ UNCHANGED allVars
    <3>1. UNCHANGED <<nClusters, nextCluster, configs, files, phase>>
      BY <2>3 DEF allVars, generator
    <3>2. WrittenSoFar' <=> WrittenSoFar
      BY <3>1 DEF WrittenSoFar, WrittenFor, G!FilesOf, G!ConfigsOf, G!LeaderFilesOf, G!LeaderConfig,
                  G!leftIndex, G!rightIndex
    <3>. QED
      BY <1>2, <2>1, <2>3, <3>1, <3>2 DEF GeneratorInv, GeneratorInvariant
  <2>4. component = "generator" => G!Next \/ UNCHANGED allVars
    BY <1>2 DEF ProgramsNext
  <2>. QED
    BY <2>1, <2>2, <2>3, <2>4 DEF GeneratorInv
<1>3. GeneratorInv => FilesMatch
  BY EdgesMatchAtEnd, MembersMatchAtEnd DEF GeneratorInv, FilesMatch
<1>. QED
  BY <1>1, <1>2, <1>3, PTL DEF ProgramsSpec
=============================================================================
