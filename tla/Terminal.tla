-------------------------------- MODULE Terminal --------------------------------
(***************************************************************************)
(* The terminal of a program (tui.go): the channels for log lines and for  *)
(* messages, which every goroutine writes to and only the loop of StartTUI *)
(* takes from, the goroutine that reads the keyboard, and the loop, which  *)
(* calls SendText and with it may write to the log channel itself.         *)
(***************************************************************************)
EXTENDS Integers, SequencesExt

CONSTANTS
    LogCap, MsgCap, CharCap,    \* capacities of logChan, msgChan and chars
    Handlers,       \* goroutines that log and print: handlers of messages, getters of keys
    InitLogs,       \* what Init logs on the goroutine of main: less than LogCap, as the
                    \* listener logs one message too before it waits for a handler
    MaxProduced,    \* bound: lines each of them logs or prints
    Keyboard,       \* what can be typed
    MaxTyped,       \* bound: runes typed
    None

VARIABLES
    main,           \* the lines Init has still to log, then "ui"
    listened,       \* whether the listener has logged its first message
    logChan, msgChan, chars, closed,
    produced,       \* by handler: how many lines it has begun to log or print
    waiting,        \* by handler: the line it wants to get rid of
    keyboard, ended,    \* all that has been typed; whether the input has ended
    stdin, buffered, holding,   \* typed and not read; read and not looked at; on its way to chars
    loop, input,    \* the loop of StartTUI: "off", "select", "logging"; the line so far
    lines,          \* the lines given to onLine
    shown,          \* what has been printed from the two channels
    keySet, exited

channels == <<logChan, msgChan, chars, closed>>
handlers == <<produced, waiting>>
typing   == <<keyboard, ended, stdin, buffered, holding>>
tui      == <<loop, input, lines, shown>>
vars     == <<main, listened, channels, handlers, typing, tui, keySet, exited>>

Enter == 13
Backspace == 127
Esc == 27
Nul == 0
-----------------------------------------------------------------------------
Init ==
    /\ main = InitLogs /\ listened = FALSE
    /\ logChan = <<>> /\ msgChan = <<>> /\ chars = <<>> /\ closed = FALSE
    /\ produced = [h \in Handlers |-> 0] /\ waiting = [h \in Handlers |-> None]
    /\ keyboard = <<>> /\ ended = FALSE /\ stdin = <<>> /\ buffered = <<>> /\ holding = None
    /\ loop = "off" /\ input = <<>> /\ lines = <<>> /\ shown = <<>>
    /\ keySet = FALSE /\ exited = FALSE

Log(line) == Len(logChan) < LogCap /\ logChan' = Append(logChan, line)

\* Init on the goroutine of main, which starts the terminal afterwards.
InitLog ==
    /\ main # -1 /\ main > 0
    /\ Log(<<"init", main>>)
    /\ main' = main - 1
    /\ UNCHANGED <<listened, msgChan, chars, closed, handlers, typing, tui, keySet, exited>>

StartTUI ==
    /\ main = 0 /\ loop = "off"
    /\ loop' = "select" /\ main' = -1
    /\ UNCHANGED <<listened, channels, handlers, typing, input, lines, shown, keySet, exited>>

\* The listener logs the first message; no one takes it before Init is done.
ListenerLog ==
    /\ ~listened
    /\ Log(<<"listener", 0>>)
    /\ listened' = TRUE
    /\ UNCHANGED <<main, msgChan, chars, closed, handlers, typing, tui, keySet, exited>>

Produce(h) ==
    /\ main <= 0 /\ waiting[h] = None /\ produced[h] < MaxProduced
    /\ produced' = [produced EXCEPT ![h] = @ + 1]
    /\ \E kind \in {"log", "print"} : waiting' = [waiting EXCEPT ![h] = <<kind, produced[h] + 1>>]
    /\ UNCHANGED <<main, listened, channels, typing, tui, keySet, exited>>

\* LogInfo, LogRoute, LogError, LogCrypto.
LogLine(h) ==
    /\ waiting[h] # None /\ waiting[h][1] = "log"
    /\ Log(<<h, waiting[h][2]>>)
    /\ waiting' = [waiting EXCEPT ![h] = None]
    /\ UNCHANGED <<main, listened, msgChan, chars, closed, produced, typing, tui, keySet, exited>>

PrintLine(h) ==
    /\ waiting[h] # None /\ waiting[h][1] = "print"
    /\ Len(msgChan) < MsgCap /\ msgChan' = Append(msgChan, <<h, waiting[h][2]>>)
    /\ waiting' = [waiting EXCEPT ![h] = None]
    /\ UNCHANGED <<main, listened, logChan, chars, closed, produced, typing, tui, keySet, exited>>

\* The handler gets the main session key.
SetKey ==
    /\ ~keySet /\ main <= 0
    /\ keySet' = TRUE
    /\ UNCHANGED <<main, listened, channels, handlers, typing, tui, exited>>

Type ==
    /\ ~ended /\ Len(keyboard) < MaxTyped
    /\ \/ \E r \in Keyboard : keyboard' = Append(keyboard, r) /\ stdin' = Append(stdin, r) /\ UNCHANGED ended
       \/ ended' = TRUE /\ UNCHANGED <<keyboard, stdin>>
    /\ UNCHANGED <<main, listened, channels, handlers, buffered, holding, tui, keySet, exited>>

\* The buffered reader gets what there is, or the first part of it.
Fill ==
    /\ loop # "off" /\ holding = None /\ buffered = <<>> /\ stdin # <<>>
    /\ \E n \in 1 .. Len(stdin) : buffered' = SubSeq(stdin, 1, n) /\ stdin' = SubSeq(stdin, n + 1, Len(stdin))
    /\ UNCHANGED <<main, listened, channels, handlers, keyboard, ended, holding, tui, keySet, exited>>

\* One turn of the reader: ESC with nothing behind it ends the program, otherwise all that
\* has been read is an escape sequence.
ReadRune ==
    /\ holding = None /\ buffered # <<>>
    /\ IF Head(buffered) = Esc
       THEN /\ IF Len(buffered) = 1 THEN exited' = TRUE ELSE UNCHANGED exited
            /\ buffered' = <<>> /\ UNCHANGED holding
       ELSE holding' = Head(buffered) /\ buffered' = Tail(buffered) /\ UNCHANGED exited
    /\ UNCHANGED <<main, listened, channels, handlers, keyboard, ended, stdin, tui, keySet>>

PassRune ==
    /\ holding # None /\ Len(chars) < CharCap
    /\ chars' = Append(chars, holding) /\ holding' = None
    /\ UNCHANGED <<main, listened, logChan, msgChan, closed, handlers, keyboard, ended, stdin, buffered, tui, keySet, exited>>

ReadEnd ==
    /\ loop # "off" /\ ended /\ stdin = <<>> /\ buffered = <<>> /\ holding = None /\ ~closed
    /\ closed' = TRUE
    /\ UNCHANGED <<main, listened, logChan, msgChan, chars, handlers, typing, tui, keySet, exited>>

(***************************************************************************)
(* The cases of the loop's select.                                         *)
(***************************************************************************)
TakeLog ==
    /\ loop = "select" /\ logChan # <<>>
    /\ shown' = Append(shown, Head(logChan)) /\ logChan' = Tail(logChan)
    /\ UNCHANGED <<main, listened, msgChan, chars, closed, handlers, typing, loop, input, lines, keySet, exited>>

\* Messages are printed together with the next log line.
TakeMsg_WithLog ==
    /\ loop = "select" /\ msgChan # <<>> /\ logChan # <<>>
    /\ shown' = Append(shown, Head(msgChan)) /\ msgChan' = Tail(msgChan)
    /\ UNCHANGED <<main, listened, logChan, chars, closed, handlers, typing, loop, input, lines, keySet, exited>>

TakeMsg ==
    /\ loop = "select" /\ msgChan # <<>>
    /\ shown' = Append(shown, Head(msgChan)) /\ msgChan' = Tail(msgChan)
    /\ UNCHANGED <<main, listened, logChan, chars, closed, handlers, typing, loop, input, lines, keySet, exited>>

\* A line is typed: SendText logs if there is no key yet.
onLine ==
    /\ lines' = Append(lines, input) /\ input' = <<>>
    /\ loop' = IF keySet THEN "select" ELSE "logging"
    /\ UNCHANGED shown

\* A closed channel gives zero, and does so every time; runs of it are shortened to one.
TakeRune ==
    /\ loop = "select"
    /\ \/ chars # <<>> /\ chars' = Tail(chars)
       \/ chars = <<>> /\ closed /\ UNCHANGED chars
    /\ LET r == IF chars # <<>> THEN Head(chars) ELSE Nul
       IN  \/ r = Enter /\ input # <<>> /\ onLine
           \/ r = Enter /\ input = <<>> /\ UNCHANGED tui
           \/ /\ r = Backspace
              /\ input' = IF input = <<>> THEN input ELSE Front(input)
              /\ UNCHANGED <<loop, lines, shown>>
           \/ /\ r \notin {Enter, Backspace}
              /\ input' = IF r = Nul /\ input # <<>> /\ Last(input) = Nul THEN input ELSE Append(input, r)
              /\ UNCHANGED <<loop, lines, shown>>
    /\ UNCHANGED <<main, listened, logChan, msgChan, closed, handlers, typing, keySet, exited>>

\* LogCrypto of SendText gets its line into the channel.
LoopLog ==
    /\ loop = "logging"
    /\ Log(<<"loop", 0>>)
    /\ loop' = "select"
    /\ UNCHANGED <<main, listened, msgChan, chars, closed, handlers, typing, input, lines, shown, keySet, exited>>

Reader   == Fill \/ ReadRune \/ PassRune \/ ReadEnd
Internal == InitLog \/ StartTUI \/ ListenerLog \/ (\E h \in Handlers : LogLine(h) \/ PrintLine(h))
            \/ Reader \/ TakeLog \/ TakeMsg \/ TakeRune \/ LoopLog

Next == ~exited /\ (Internal \/ (\E h \in Handlers : Produce(h)) \/ SetKey \/ Type)

Spec == Init /\ [][Next]_vars

\* Each goroutine runs on, a sender that waits at a channel gets its turn when there is room
\* for good, and the select of the loop passes over none of its cases for ever.
Fairness ==
    /\ WF_vars(~exited /\ (InitLog \/ StartTUI)) /\ WF_vars(~exited /\ ListenerLog)
    /\ \A h \in Handlers : WF_vars(~exited /\ (LogLine(h) \/ PrintLine(h)))
    /\ WF_vars(~exited /\ Reader)
    /\ WF_vars(~exited /\ TakeLog) /\ WF_vars(~exited /\ TakeMsg) /\ WF_vars(~exited /\ TakeRune)
    /\ WF_vars(~exited /\ LoopLog)

FairSpec == Spec /\ Fairness
-----------------------------------------------------------------------------
\* The loop waits for itself: SendText logs into a full channel that only it empties.
WaitsForItself == loop = "logging" /\ Len(logChan) = LogCap

\* Nothing else gets stuck: when nothing can go on by itself, there is nothing to do, or the
\* loop waits for itself (tui.go:173 with cluster_protocol/protocol.go:322).
StuckOnlyOnOwnLog ==
    exited \/ ENABLED Internal \/ WaitsForItself
    \/ /\ loop = "select" /\ logChan = <<>> /\ msgChan = <<>> /\ chars = <<>>
       /\ stdin = <<>> /\ buffered = <<>> /\ holding = None
       /\ \A h \in Handlers : waiting[h] = None

Letters(s) == SelectSeq(s, LAMBDA r : r \notin {Enter, Nul})
Held == IF holding = None THEN <<>> ELSE <<holding>>

\* With letters and enters only, no rune is lost or moved on its way through the buffers
\* into the lines, and a line is given to SendText once.
TypedIsKept ==
    (\A n \in DOMAIN keyboard : keyboard[n] \notin {Backspace, Esc}) =>
        Letters(keyboard) = Letters(FlattenSeq(lines) \o input \o chars \o Held \o buffered \o stdin)

\* What a handler logs or prints is shown in the end, also after the end of the input, when
\* the keyboard's channel always has something, unless the loop waits for itself.
EverythingShown ==
    \A h \in Handlers : \A n \in 1 .. MaxProduced :
        (waiting[h] # None /\ produced[h] = n)
        ~> (exited \/ WaitsForItself \/ \E m \in DOMAIN shown : shown[m] = <<h, n>>)
=============================================================================
