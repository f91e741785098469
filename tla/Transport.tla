------------------------------- MODULE Transport -------------------------------
(***************************************************************************)
(* The connections of the programs to the routing server (tcp.go and       *)
(* message.go): Send, called by several goroutines of a program and by the *)
(* one that pings, and the listener with its MessageReader.  A line is     *)
(* written in two pieces.  The routing server passes a message on to the   *)
(* other programs, answers a ping, and may refuse a program or close a     *)
(* connection.                                                             *)
(***************************************************************************)
EXTENDS Integers, SequencesExt

CONSTANTS
    Clients,    \* the programs
    Talkers,    \* bound: those that send more than pings
    Pingers,    \* bound: those whose pings are modelled
    Refused,    \* bound: those the server may refuse, once each
    Goroutines, \* those of each program that send; Pinger is one of them
    Pinger,
    MaxSent,    \* bound: messages each of the others sends
    None

VARIABLES
    mutex,      \* by program: the goroutine that holds t.mu
    sending,    \* by program and goroutine: the message it has to send
    sent,       \* ... and how many it has sent
    written,    \* by program: pieces written since Lock
    stream,     \* by program: pieces on their way to the server
    inbox,      \* by program: lines on their way to it
    forwarded,  \* by program: all lines sent to it that are no pong
    listener,   \* by program: "reading", "handing", "ended"
    nextMsg,    \* ... the message of its reader
    handled,    \* ... what it has handed to receiveChan
    peer,       \* by program: "open", "closed" by the server, "reset" after a write to it
    exited

senders   == <<mutex, sending, sent, written>>
listeners == <<listener, nextMsg, handled>>
vars      == <<senders, stream, inbox, forwarded, listeners, peer, exited>>

\* Whether the line is shorter than the 64 KB bufio.Scanner takes.
Sizes == {"short", "long"}
Texts == [type : {"Text"}, from : Talkers, by : Goroutines \ {Pinger}, n : 1 .. MaxSent, size : Sizes]
Ping(c) == [type |-> "Ping", from |-> c, size |-> "short"]
Pong    == [type |-> "Pong", size |-> "short"]
Error   == [type |-> "Error", size |-> "short"]

\* What a program is sent besides pongs.
Routed == Texts \union {Error}
-----------------------------------------------------------------------------
Init ==
    /\ mutex = [c \in Clients |-> None]
    /\ sending = [c \in Clients |-> [g \in Goroutines |-> None]]
    /\ sent = [c \in Clients |-> [g \in Goroutines |-> 0]]
    /\ written = [c \in Clients |-> 0]
    /\ stream = [c \in Clients |-> <<>>]
    /\ inbox = [c \in Clients |-> <<>>]
    /\ forwarded = [c \in Clients |-> <<>>]
    /\ listener = [c \in Clients |-> "reading"]
    /\ nextMsg = [c \in Clients |-> None]
    /\ handled = [c \in Clients |-> <<>>]
    /\ peer = [c \in Clients |-> "open"]
    /\ exited = [c \in Clients |-> FALSE]

\* A goroutine calls Send.
Call(c, g) ==
    /\ c \in Talkers /\ g # Pinger /\ sending[c][g] = None /\ sent[c][g] < MaxSent
    /\ \E m \in Texts : m.from = c /\ m.by = g /\ m.n = sent[c][g] + 1 /\ sending' = [sending EXCEPT ![c][g] = m]
    /\ sent' = [sent EXCEPT ![c][g] = @ + 1]
    /\ UNCHANGED <<mutex, written, stream, inbox, forwarded, listeners, peer, exited>>

\* The ticker: the last ping has been answered long ago, if the connection stands.
Tick(c) ==
    /\ c \in Pingers /\ sending[c][Pinger] = None
    /\ peer[c] = "open" => \A q \in {stream[c], inbox[c]} : \A n \in DOMAIN q : q[n].type \notin {"Ping", "Pong"}
    /\ sending' = [sending EXCEPT ![c][Pinger] = Ping(c)]
    /\ UNCHANGED <<mutex, sent, written, stream, inbox, forwarded, listeners, peer, exited>>

\* Any goroutine may write.
Lock_Free(c, g) ==
    /\ sending[c][g] # None /\ mutex[c] # g /\ (mutex[c] = None \/ written[c] = 1)
    /\ mutex' = [mutex EXCEPT ![c] = g] /\ written' = [written EXCEPT ![c] = 0]
    /\ UNCHANGED <<sending, sent, stream, inbox, forwarded, listeners, peer, exited>>

Lock(c, g) ==
    /\ sending[c][g] # None /\ mutex[c] = None
    /\ mutex' = [mutex EXCEPT ![c] = g] /\ written' = [written EXCEPT ![c] = 0]
    /\ UNCHANGED <<sending, sent, stream, inbox, forwarded, listeners, peer, exited>>

Write(c, g) ==
    /\ mutex[c] = g /\ written[c] < 2
    /\ CASE peer[c] = "open" ->
              /\ written' = [written EXCEPT ![c] = @ + 1]
              /\ stream' = [stream EXCEPT ![c] = Append(@, [type |-> sending[c][g].type, msg |-> sending[c][g], piece |-> written[c] + 1])]
              /\ UNCHANGED <<peer, exited>>
         [] peer[c] = "closed" ->
              /\ written' = [written EXCEPT ![c] = @ + 1]
              /\ peer' = [peer EXCEPT ![c] = "reset"]
              /\ UNCHANGED <<stream, exited>>
         [] peer[c] = "reset" ->
              /\ exited' = [exited EXCEPT ![c] = TRUE]
              /\ UNCHANGED <<written, stream, peer>>
    /\ UNCHANGED <<mutex, sending, sent, inbox, forwarded, listeners>>

Unlock(c, g) ==
    /\ mutex[c] = g /\ written[c] = 2
    /\ mutex' = [mutex EXCEPT ![c] = None]
    /\ sending' = [sending EXCEPT ![c][g] = None]
    /\ UNCHANGED <<sent, written, stream, inbox, forwarded, listeners, peer, exited>>

\* The routing server has a whole line.
Forward(c) ==
    /\ Len(stream[c]) >= 2 /\ peer[c] = "open"
    /\ stream' = [stream EXCEPT ![c] = SubSeq(@, 3, Len(@))]
    /\ LET m == stream[c][1].msg
           To == IF m.type = "Ping" THEN {d \in {c} : listener[d] # "ended"}
                 ELSE {d \in Clients \ {c} : peer[d] = "open"}
       IN  /\ inbox' = [d \in Clients |-> IF d \in To THEN Append(inbox[d], IF m.type = "Ping" THEN Pong ELSE m) ELSE inbox[d]]
           /\ forwarded' = [d \in Clients |-> IF d \in To /\ m.type # "Ping" THEN Append(forwarded[d], m) ELSE forwarded[d]]
    /\ UNCHANGED <<senders, listeners, peer, exited>>

Close(c) ==
    /\ peer[c] = "open"
    /\ peer' = [peer EXCEPT ![c] = "closed"] /\ stream' = [stream EXCEPT ![c] = <<>>]
    /\ UNCHANGED <<senders, inbox, forwarded, listeners, exited>>

\* The routing server tells a program what is wrong with it.
Refuse(c) ==
    /\ c \in Refused /\ peer[c] = "open" /\ Error \notin Range(forwarded[c])
    /\ inbox' = [inbox EXCEPT ![c] = Append(@, Error)] /\ forwarded' = [forwarded EXCEPT ![c] = Append(@, Error)]
    /\ UNCHANGED <<senders, stream, listeners, peer, exited>>

\* HasMessage with advance: a line too long, like one that is no message, ends the listener.
HasMessage(c) ==
    /\ listener[c] = "reading" /\ inbox[c] # <<>>
    /\ LET m == Head(inbox[c])
       IN  /\ nextMsg' = [nextMsg EXCEPT ![c] = IF m.size = "long" THEN None ELSE m]
           /\ listener' = [listener EXCEPT ![c] = IF m.size = "long" THEN "ended" ELSE "handing"]
    /\ inbox' = [inbox EXCEPT ![c] = Tail(@)]
    /\ UNCHANGED <<senders, stream, forwarded, handled, peer, exited>>

\* Scan finds the end of the stream, after all that came before it.
EndOfStream(c) ==
    /\ listener[c] = "reading" /\ inbox[c] = <<>> /\ peer[c] # "open"
    /\ listener' = [listener EXCEPT ![c] = "ended"]
    /\ UNCHANGED <<senders, stream, inbox, forwarded, nextMsg, handled, peer, exited>>

\* break in place of continue.
Hand_StopsAtPong(c) ==
    /\ listener[c] = "handing"
    /\ \/ /\ nextMsg[c].type = "Error"
          /\ exited' = [exited EXCEPT ![c] = TRUE]
          /\ UNCHANGED <<listener, handled>>
       \/ /\ nextMsg[c].type # "Error"
          /\ listener' = [listener EXCEPT ![c] = IF nextMsg[c].type = "Pong" THEN "ended" ELSE "reading"]
          /\ handled' = IF nextMsg[c].type = "Pong" THEN handled ELSE [handled EXCEPT ![c] = Append(@, nextMsg[c])]
          /\ UNCHANGED exited
    /\ UNCHANGED <<senders, stream, inbox, forwarded, nextMsg, peer>>

\* Pongs are dropped, an error ends the program, other messages are handed to receiveChan.
Hand(c) ==
    /\ listener[c] = "handing"
    /\ \/ /\ nextMsg[c].type = "Error"
          /\ exited' = [exited EXCEPT ![c] = TRUE]
          /\ UNCHANGED <<listener, handled>>
       \/ /\ nextMsg[c].type # "Error"
          /\ listener' = [listener EXCEPT ![c] = "reading"]
          /\ handled' = IF nextMsg[c].type = "Pong" THEN handled ELSE [handled EXCEPT ![c] = Append(@, nextMsg[c])]
          /\ UNCHANGED exited
    /\ UNCHANGED <<senders, stream, inbox, forwarded, nextMsg, peer>>

Send(c, g) == Lock(c, g) \/ Write(c, g) \/ Unlock(c, g)
Listens(c) == HasMessage(c) \/ EndOfStream(c) \/ Hand(c)

Next ==
    \/ \E c \in Clients : ~exited[c] /\ (Listens(c) \/ Tick(c) \/ \E g \in Goroutines : Call(c, g) \/ Send(c, g))
    \/ \E c \in Clients : Forward(c) \/ Refuse(c) \/ Close(c)

Spec == Init /\ [][Next]_vars

\* Those that have anything to send within the bounds.
Senders(c) == {g \in Goroutines : IF g = Pinger THEN c \in Pingers ELSE c \in Talkers}

\* Goroutines run on, one that waits for a mutex nobody takes any more gets it, and the
\* ticker ticks.
Fairness ==
    \A c \in Clients :
        /\ WF_vars(~exited[c] /\ Listens(c)) /\ WF_vars(Forward(c))
        /\ c \in Pingers => WF_vars(~exited[c] /\ Tick(c))
        /\ \A g \in Senders(c) : WF_vars(~exited[c] /\ Send(c, g))

FairSpec == Spec /\ Fairness
-----------------------------------------------------------------------------
\* The server gets whole lines, whichever goroutines send at the same time: the pieces of a
\* message follow one another (Send, with t.mu).
LinesWhole ==
    \A c \in Clients : \A n \in DOMAIN stream[c] :
        /\ stream[c][n].piece = IF n % 2 = 1 THEN 1 ELSE 2
        /\ n % 2 = 0 => stream[c][n].msg = stream[c][n-1].msg

\* The message the listener is handing over, or the error that ends the program.
Waiting(c) == IF listener[c] = "handing" /\ nextMsg[c].type # "Pong" THEN <<nextMsg[c]>> ELSE <<>>

\* A program handles what was sent to it in that order, each message once and none left
\* out, up to the first line that is too long, after which it handles nothing any more, or
\* up to the error that ends it.
HandledIsPrefix ==
    \A c \in Clients :
        LET got == handled[c] \o Waiting(c)
        IN  /\ IsPrefix(got, forwarded[c])
            /\ \A n \in DOMAIN got : got[n].size = "short"
            /\ listener[c] = "ended" /\ peer[c] = "open" => forwarded[c][Len(got) + 1].size = "long"

\* A program whose connection is closed by the server ends, even if nobody types and
\* nothing is handled: the ping finds out (pingPong).
ClosedIsNoticed == \A c \in Pingers : peer[c] # "open" ~> exited[c]

\* What the server passes on to a program with an open connection is handled, unless a line
\* too long comes before it, or the program or the connection ends.
PassedOnIsHandled ==
    \A c \in Clients : \A n \in 1 .. MaxSent :
        Len(forwarded[c]) >= n
        ~> (Len(handled[c]) >= n \/ exited[c] \/ \E m \in DOMAIN forwarded[c] : m <= n /\ forwarded[c][m].size = "long")
=============================================================================
