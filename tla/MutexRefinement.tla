-------------------------- MODULE MutexRefinement --------------------------
(***************************************************************************)
(* The mutex implements FifoLock.  The lock changes hands when the guard's *)
(* drop pops the head of the queue; the line is the mutex's one queue.     *)
(***************************************************************************)
EXTENDS Mutex

(* The owner as an outside observer sees it: a handoff counts from the pop. *)
LockOwner ==
    IF \E p \in Procs : Owns(p)
    THEN LET p == CHOOSE p \in Procs : Owns(p)
         IN  IF HandingOff(p) THEN node[p] ELSE p
    ELSE NoProc

(* The one queue that has somebody in it. *)
LockLine ==
    IF \E q \in Queues : contents[q] # <<>>
    THEN contents[CHOOSE q \in Queues : contents[q] # <<>>]
    ELSE <<>>

Abstract == INSTANCE FifoLock WITH owner <- LockOwner, line <- LockLine

(* Every behaviour of the mutex is one of the FIFO lock: direct handoff to  *)
(* the longest-waiting request, no overtaking of a non-empty queue, nobody  *)
(* queued on a free lock, cancellation removes exactly the canceller.       *)
ImplementsFifoLock == Abstract!Spec
=============================================================================
