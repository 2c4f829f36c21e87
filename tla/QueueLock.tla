----------------------------- MODULE QueueLock -----------------------------
(***************************************************************************)
(* What a WaitQueue promises the primitives built on it: a lock over one   *)
(* FIFO line of waiting processes.  lock(false) returns None exactly when  *)
(* nobody has the lock and nobody is in line; while somebody has it, both  *)
(* forms of lock wait.                                                     *)
(***************************************************************************)
EXTENDS Integers, Sequences

CONSTANTS Procs, NoProc

VARIABLES
    holder,     \* who has the lock, or NoProc
    line        \* the waiting processes, front first

qvars == <<holder, line>>

QueueInit == holder = NoProc /\ line = <<>>

(* lock(true). *)
LockQueue(p) ==
    /\ holder = NoProc
    /\ holder' = p
    /\ UNCHANGED line

(* lock(false) finds a queue... *)
LockExisting(p) == line # <<>> /\ LockQueue(p)

(* ... or returns None. *)
NobodyInLine == holder = NoProc /\ line = <<>>

(* The contents of a locked queue change only by these three operations. *)
PushNode(p, n) == /\ holder = p
                  /\ line' = Append(line, n)

PopNodes(p, k) == /\ holder = p
                  /\ line' = SubSeq(line, k + 1, Len(line))

Position(n) == {i \in 1 .. Len(line) : line[i] = n}

RemoveNode(p, n) ==
    /\ holder = p
    /\ \/ \E i \in Position(n) :
             line' = SubSeq(line, 1, i - 1) \o SubSeq(line, i + 1, Len(line))
       \/ Position(n) = {} /\ UNCHANGED line

UnlockQueue(p) ==
    /\ holder = p
    /\ holder' = NoProc
    /\ UNCHANGED line

QueueNext ==
    \E p \in Procs :
        \/ LockQueue(p) \/ UnlockQueue(p)
        \/ /\ \/ \E n \in Procs : Position(n) = {} /\ PushNode(p, n)
              \/ \E k \in 1 .. Len(line) : PopNodes(p, k)
              \/ \E n \in Procs : RemoveNode(p, n)
           /\ UNCHANGED holder

QueueSpec == QueueInit /\ [][QueueNext]_qvars
=============================================================================
