------------------------ MODULE WaitQueueRefinement ------------------------
(***************************************************************************)
(* Each wait queue implements QueueLock, whatever the others do with the   *)
(* queues they exchange with it through the pool.                          *)
(***************************************************************************)
EXTENDS WaitQueue

Holder(w) ==
    IF \E p \in Procs : HasLock(p) /\ at[p] = w
    THEN CHOOSE p \in Procs : HasLock(p) /\ at[p] = w
    ELSE NoProc

(* The line: the queue the word shows, or the one its allocator still hides. *)
Line(w) ==
    IF word[w].q \in Queues THEN contents[word[w].q]
    ELSE IF word[w] = UPDATING /\ HasQueue(Holder(w)) THEN contents[ptr[Holder(w)].q]
    ELSE <<>>

Abstract(w) == INSTANCE QueueLock WITH holder <- Holder(w), line <- Line(w)

(* The tag, UPDATING, NULL and the recycling of queues are invisible: the   *)
(* primitives see one lock over one FIFO line (WaitQueue::lock,             *)
(* LockedQueue::unlock).                                                    *)
ImplementsQueueLock ==
    /\ \A w \in WaitQueues : Abstract(w)!QueueInit
    /\ [][\A w \in WaitQueues : [Abstract(w)!QueueNext]_<<Holder(w), Line(w)>>]_vars

(* lock(false) returns None only at a moment when nobody has the lock and   *)
(* nobody is in line: the flags that led the caller here are not lost.      *)
NoneIsTrue ==
    [][\A p \in Procs :
          pc[p] = "lock" /\ pc'[p] = "idle" => Abstract(at[p])!NobodyInLine]_vars
=============================================================================
