----------------------------- MODULE RandomBytes -----------------------------
(***************************************************************************)
(* randombytes of randombytes.c on Linux: the kernel is asked until the    *)
(* whole buffer is filled.  With the system call getrandom, or by reading  *)
(* /dev/urandom through a descriptor that is opened at the first call and  *)
(* kept.  The kernel may be interrupted, fail, or give fewer bytes than    *)
(* asked for.                                                              *)
(***************************************************************************)
EXTENDS Integers, SequencesExt

CONSTANTS MaxLen,       \* bound: bytes in a call
          MaxCalls      \* bound: calls

VARIABLES
    getrandom,          \* which of the two was compiled in
    fd,                 \* the static descriptor
    calls,              \* how many calls there have been
    asked, out,         \* the buffer: its length, and the bytes written, <<offset, draw>>
    outlen,             \* what the loop still wants
    pc                  \* "caller", "open", "read", "aborted"

vars == <<getrandom, fd, calls, asked, out, outlen, pc>>

Init ==
    /\ getrandom \in BOOLEAN
    /\ fd = -1 /\ calls = 0 /\ asked = 0 /\ out = <<>> /\ outlen = 0
    /\ pc = "caller"

randombytes(n) ==
    /\ pc = "caller" /\ calls < MaxCalls
    /\ calls' = calls + 1
    /\ asked' = n /\ outlen' = n /\ out' = <<>>
    /\ pc' = IF getrandom \/ fd # -1 THEN "read" ELSE "open"
    /\ UNCHANGED <<getrandom, fd>>

Open ==
    /\ pc = "open"
    /\ fd' = 3
    /\ pc' = "read"
    /\ UNCHANGED <<getrandom, calls, asked, out, outlen>>

\* errno is not EINTR.
Fail ==
    /\ pc \in {"open", "read"} /\ (pc = "read" => outlen > 0)
    /\ pc' = "aborted"
    /\ UNCHANGED <<getrandom, fd, calls, asked, out, outlen>>

\* errno is EINTR: once more with the same arguments.
Interrupted ==
    /\ pc \in {"open", "read"} /\ (pc = "read" => outlen > 0)
    /\ UNCHANGED vars

\* ret bytes at the pointer, which then stands behind them.
Read ==
    /\ pc = "read" /\ outlen > 0
    /\ \E ret \in 1 .. outlen :
          /\ out' = out \o [i \in 1 .. ret |-> Len(out) + i]
          /\ outlen' = outlen - ret
    /\ UNCHANGED <<getrandom, fd, calls, asked, pc>>

Return ==
    /\ pc = "read" /\ outlen = 0
    /\ pc' = "caller"
    /\ UNCHANGED <<getrandom, fd, calls, asked, out, outlen>>

Next == (\E n \in 0 .. MaxLen : randombytes(n)) \/ Open \/ Fail \/ Interrupted \/ Read \/ Return

\* The kernel does not interrupt for ever: an interruption changes nothing.
FairSpec == Init /\ [][Next]_vars /\ WF_vars(Open) /\ WF_vars(Read) /\ WF_vars(Return)
-----------------------------------------------------------------------------
\* The caller gets the buffer back only with every byte of it written, whatever the
\* kernel's pieces were, and nothing was written past its end.
ReturnsFilled ==
    /\ pc = "caller" => out = [i \in 1 .. asked |-> i]
    /\ Len(out) <= asked

\* A call comes back or ends the program, and the descriptor it opened stays open.
CallEnds == /\ (pc \in {"open", "read"}) ~> (pc \in {"caller", "aborted"})
            /\ [][fd # -1 => fd' = fd /\ pc' # "open"]_vars
=============================================================================
