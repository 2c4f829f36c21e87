------------------------------ MODULE FifoLock ------------------------------
(***************************************************************************)
(* What the mutex promises: one owner at a time, waiters in one line, the  *)
(* lock handed directly to the head of the line.  Nobody joins the line of *)
(* a free lock (there would be nobody to wake them) and nobody overtakes a *)
(* line that is not empty.                                                 *)
(***************************************************************************)
EXTENDS Integers, Sequences

CONSTANTS Procs, NoProc

VARIABLES
    owner,      \* the process that has the lock, or NoProc
    line        \* the processes waiting for it, first come first

Init == owner = NoProc /\ line = <<>>

Acquire(p) ==
    /\ owner = NoProc /\ line = <<>>
    /\ owner' = p
    /\ UNCHANGED line

Join(p) ==
    /\ owner \notin {NoProc, p}
    /\ \A i \in 1 .. Len(line) : line[i] # p
    /\ line' = Append(line, p)
    /\ UNCHANGED owner

GiveUp(p) ==
    /\ \E i \in 1 .. Len(line) :
          /\ line[i] = p
          /\ line' = [j \in 1 .. Len(line) - 1 |-> IF j < i THEN line[j] ELSE line[j + 1]]
    /\ UNCHANGED owner

Handoff ==
    /\ owner # NoProc /\ line # <<>>
    /\ owner' = Head(line)
    /\ line' = Tail(line)

Release ==
    /\ owner # NoProc /\ line = <<>>
    /\ owner' = NoProc
    /\ UNCHANGED line

Next ==
    \/ Handoff \/ Release
    \/ \E p \in Procs : Acquire(p) \/ Join(p) \/ GiveUp(p)

Spec == Init /\ [][Next]_<<owner, line>>
=============================================================================
