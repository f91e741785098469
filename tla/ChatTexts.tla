------------------------------- MODULE ChatTexts -------------------------------
(***************************************************************************)
(* The texts users send each other under the main session key, and the     *)
(* two goroutines of a program that share that key without a lock: the     *)
(* handler copies a new key into place, the terminal's SendText compares   *)
(* it with zero and encrypts with it.  A copy and a use of the key's bytes *)
(* take several steps; a key is a sequence of parts.  Each text is sent by *)
(* a goroutine of its own.  The router passes the texts of one program to  *)
(* another in the order in which it got them.                              *)
(***************************************************************************)
EXTENDS Integers, SequencesExt

CONSTANTS
    Users,      \* the programs of one chat
    NKeys,      \* bound: main session keys, one after the other
    MaxTexts,   \* bound: lines each user types
    Parts       \* pieces in which a key is copied and read

ASSUME ChatAssumption == NKeys \in Nat \ {0} /\ Parts \in Nat \ {0}

VARIABLES
    mainSessionKey, \* by user, in parts; 0 is zero bytes
    copying,        \* the key being copied, and how many parts have been; 0 for none
    typed,          \* how many lines have been typed
    reading,        \* the parts SendText has read of the key; <<0>> when it is not running
    raced,          \* whether the key was being copied while SendText ran
    goroutines,     \* the texts whose goroutine has not yet sent them
    wire,           \* the texts on their way, by sender and recipient
    printed         \* the texts printed, by recipient

vars == <<mainSessionKey, copying, typed, reading, raced, goroutines, wire, printed>>

NoKey == [p \in 1 .. Parts |-> 0]
Whole(k) == [p \in 1 .. Parts |-> k]
NotSending == <<0>>
-----------------------------------------------------------------------------
Init ==
    /\ mainSessionKey = [u \in Users |-> NoKey]
    /\ copying = [u \in Users |-> [key |-> 0, done |-> Parts]]
    /\ typed = [u \in Users |-> 0]
    /\ reading = [u \in Users |-> NotSending]
    /\ raced = [u \in Users |-> FALSE]
    /\ goroutines = [u \in Users |-> {}]
    /\ wire = [u \in Users |-> [v \in Users |-> <<>>]]
    /\ printed = [u \in Users |-> <<>>]

Copying(u) == copying[u].done < Parts

\* A newer main session key arrives: onMainSessionKey or decryptAndStoreKey.
NewKey(u) ==
    /\ ~Copying(u)
    /\ \E k \in copying[u].key + 1 .. NKeys : copying' = [copying EXCEPT ![u] = [key |-> k, done |-> 0]]
    /\ raced' = [raced EXCEPT ![u] = TRUE]
    /\ UNCHANGED <<mainSessionKey, typed, reading, goroutines, wire, printed>>

\* The last part is left as it was.
CopyPart_ButLast(u) ==
    /\ Copying(u)
    /\ LET p == copying[u].done + 1
       IN  /\ mainSessionKey' = IF p = Parts THEN mainSessionKey ELSE [mainSessionKey EXCEPT ![u][p] = copying[u].key]
           /\ copying' = [copying EXCEPT ![u].done = p]
    /\ UNCHANGED <<typed, reading, raced, goroutines, wire, printed>>

\* The first main session key is kept.
CopyPart_Once(u) ==
    /\ Copying(u)
    /\ LET p == copying[u].done + 1
       IN  /\ mainSessionKey' = [mainSessionKey EXCEPT ![u][p] = IF @ = 0 THEN copying[u].key ELSE @]
           /\ copying' = [copying EXCEPT ![u].done = p]
    /\ UNCHANGED <<typed, reading, raced, goroutines, wire, printed>>

CopyPart(u) ==
    /\ Copying(u)
    /\ LET p == copying[u].done + 1
       IN  /\ mainSessionKey' = [mainSessionKey EXCEPT ![u][p] = copying[u].key]
           /\ copying' = [copying EXCEPT ![u].done = p]
    /\ UNCHANGED <<typed, reading, raced, goroutines, wire, printed>>

\* SendText compares the key with zero.
SendText(u) ==
    /\ reading[u] = NotSending /\ typed[u] < MaxTexts
    /\ typed' = [typed EXCEPT ![u] = @ + 1]
    /\ IF mainSessionKey[u] = NoKey
       THEN UNCHANGED <<reading, raced>>
       ELSE /\ reading' = [reading EXCEPT ![u] = <<>>]
            /\ raced' = [raced EXCEPT ![u] = Copying(u)]
    /\ UNCHANGED <<mainSessionKey, copying, goroutines, wire, printed>>

\* encryptAesGcm reads the key.
ReadPart(u) ==
    /\ reading[u] # NotSending /\ Len(reading[u]) < Parts
    /\ reading' = [reading EXCEPT ![u] = Append(@, mainSessionKey[u][Len(@) + 1])]
    /\ UNCHANGED <<mainSessionKey, copying, typed, raced, goroutines, wire, printed>>

\* The text gets its goroutine.
GoSend(u) ==
    /\ Len(reading[u]) = Parts /\ reading[u] # NotSending
    /\ reading' = [reading EXCEPT ![u] = NotSending]
    /\ goroutines' = [goroutines EXCEPT ![u] = @ \union
         {[from |-> u, line |-> typed[u], under |-> reading[u], raced |-> raced[u],
           beside |-> {t.line : t \in @}]}]
    /\ UNCHANGED <<mainSessionKey, copying, typed, raced, wire, printed>>

\* The goroutines get hold of the transport in any order.
Send(u) ==
    /\ \E t \in goroutines[u] :
         /\ goroutines' = [goroutines EXCEPT ![u] = @ \ {t}]
         /\ wire' = [wire EXCEPT ![u] = [v \in Users |-> IF v = u THEN @[v] ELSE Append(@[v], t)]]
    /\ UNCHANGED <<mainSessionKey, copying, typed, reading, raced, printed>>

\* Every message is handled by a goroutine of its own.
OnText_Concurrent(v, u) ==
    /\ ~Copying(v)
    /\ \E n \in DOMAIN wire[u][v] :
         LET t == wire[u][v][n]
         IN  /\ wire' = [wire EXCEPT ![u][v] = RemoveAt(@, n)]
             /\ printed' = IF mainSessionKey[v] = NoKey \/ t.under # mainSessionKey[v]
                           THEN printed ELSE [printed EXCEPT ![v] = Append(@, t)]
    /\ UNCHANGED <<mainSessionKey, copying, typed, reading, raced, goroutines>>

\* onText, on the handler that copies the keys.  A text under another key is not opened.
OnText(v, u) ==
    /\ ~Copying(v) /\ wire[u][v] # <<>>
    /\ LET t == Head(wire[u][v])
       IN  printed' = IF mainSessionKey[v] = NoKey \/ t.under # mainSessionKey[v]
                      THEN printed ELSE [printed EXCEPT ![v] = Append(@, t)]
    /\ wire' = [wire EXCEPT ![u][v] = Tail(@)]
    /\ UNCHANGED <<mainSessionKey, copying, typed, reading, raced, goroutines>>

Next == \E u \in Users : NewKey(u) \/ CopyPart(u) \/ SendText(u) \/ ReadPart(u) \/ GoSend(u) \/ Send(u)
                         \/ \E v \in Users : OnText(u, v)

Spec == Init /\ [][Next]_vars

\* A program goes on while one of its goroutines can.  Which of them is up to the scheduler;
\* as a user types no end of lines, all of them are done in the end.
Program(u) == CopyPart(u) \/ ReadPart(u) \/ GoSend(u) \/ Send(u) \/ (\E v \in Users : OnText(u, v))

Fairness == \A u \in Users : WF_vars(Program(u))

FairSpec == Spec /\ Fairness
-----------------------------------------------------------------------------
Sent == (UNION {goroutines[u] : u \in Users})
        \union (UNION {ToSet(wire[u][v]) : u \in Users, v \in Users})
        \union (UNION {ToSet(printed[u]) : u \in Users})

\* A text is encrypted under one whole main session key: the key is never zero again after
\* SendText has looked, and is never partly zero, unless the handler was copying a key in
\* just while SendText ran (SendText, decryptAndStoreKey).
TextUnderOneKey == \A t \in Sent : t.raced \/ \E k \in 1 .. NKeys : t.under = Whole(k)

\* A text is encrypted with the main session key (message.go:48), not a mixture of two.
TextUnderMainKey == \A t \in Sent : \E k \in 1 .. NKeys : t.under = Whole(k)

\* Two lines of one user are printed in the other order only if the goroutine of the first
\* had not yet sent it when the second was typed.
OvertakenOnlyBeside ==
    \A v \in Users : \A m, n \in DOMAIN printed[v] :
        LET a == printed[v][m]
            b == printed[v][n]
        IN  m < n /\ a.from = b.from => a.line < b.line \/ b.line \in a.beside

\* Once all have taken over the last key, a line typed after that is printed by everyone
\* else, whatever keys each of them had before.
EventuallyPrinted ==
    \A u \in Users : \A v \in Users \ {u} : \A n \in 1 .. MaxTexts :
        /\ \A w \in Users : copying[w] = [key |-> NKeys, done |-> Parts]
        /\ reading[u] = <<>> /\ typed[u] = n
        ~> \E i \in DOMAIN printed[v] : printed[v][i].from = u /\ printed[v][i].line = n
=============================================================================
