------------------------------- MODULE Mutex -------------------------------
(***************************************************************************)
(* The mutex of src/src/lib.rs, one atomic operation per step: the queue   *)
(* word, the wait queue behind it, the blocking Mutex::lock, the future    *)
(* AsyncLockRequest (poll, re-poll and drop) and the drop of a MutexGuard. *)
(* Threads and tasks share one MutexInternal: Mutex and AsyncMutex convert *)
(* into one another.  A queued Signal is named by the process that owns    *)
(* it.  Memory is sequentially consistent.                                 *)
(***************************************************************************)
EXTENDS Integers, Sequences

CONSTANTS
    Threads,    \* processes that call Mutex::lock
    Tasks,      \* processes that poll an AsyncLockRequest
    Queues,     \* the QueueStructures of the process-wide pool
    NoQueue, NoProc

ASSUME ProcAssumption == Threads \cap Tasks = {} /\ NoProc \notin Threads \cup Tasks
ASSUME QueueAssumption == NoQueue \notin Queues

VARIABLES
    word,       \* MutexInternal.queue
    contents,   \* the SignalQueue in each QueueStructure, front first
    pool,       \* queues in the global pool
    value,      \* Signal.value of each process's current request
    slot,       \* is the DynamicWaker of that Signal armed?
    awake,      \* park token of a thread, wake-up of a task, not yet consumed
    pc,
    ptr,        \* local copy of the queue word
    node        \* the node popped by a guard's drop

vars == <<word, contents, pool, value, slot, awake, pc, ptr, node>>

Procs == Threads \cup Tasks

(* The queue word: three sentinels, a published queue, a tag-locked queue. *)
UNLOCKED == [st |-> "unlocked", q |-> NoQueue]
LOCKED == [st |-> "locked", q |-> NoQueue]
UPDATING == [st |-> "updating", q |-> NoQueue]
Ptr(q) == [st |-> "queue", q |-> q]
Tagged(q) == [st |-> "tagged", q |-> q]

Words == {UNLOCKED, LOCKED, UPDATING} \cup {Ptr(q) : q \in Queues}
            \cup {Tagged(q) : q \in Queues}

Signals == {"uninit", "waiting", "signaled", "returned"}

(* A word whose queue may be tagged right away. *)
IsQueue(w) == w.st = "queue"

Goto(p, to) == pc' = [pc EXCEPT ![p] = to]

(* The queue without the entry at position i. *)
RemoveNode(s, i) == [j \in 1 .. Len(s) - 1 |-> IF j < i THEN s[j] ELSE s[j + 1]]

Init ==
    /\ word = UNLOCKED
    /\ contents = [q \in Queues |-> <<>>]
    /\ pool = Queues
    /\ value = [p \in Procs |-> "uninit"]
    /\ slot = [p \in Procs |-> FALSE]
    /\ awake = [p \in Procs |-> FALSE]
    /\ pc = [p \in Procs |-> "idle"]
    /\ ptr = [p \in Procs |-> UNLOCKED]
    /\ node = [p \in Procs |-> NoProc]

-----------------------------------------------------------------------------
(* Acquiring.                                                              *)

(* Mutex::lock: the fast path, or lock_slow with a fresh sync Signal. *)
Lock(p) ==
    /\ p \in Threads /\ pc[p] = "idle"
    /\ \/ /\ word = UNLOCKED
          /\ word' = LOCKED
          /\ Goto(p, "held")
          /\ UNCHANGED slot
       \/ /\ word # UNLOCKED
          /\ slot' = [slot EXCEPT ![p] = TRUE]
          /\ Goto(p, "lock")
          /\ UNCHANGED word
    /\ UNCHANGED <<contents, pool, value, awake, ptr, node>>

(* First poll of an AsyncLockRequest: the fast path, or the start of       *)
(* enqueue, which prepares the Signal nobody else can see yet.             *)
PollFirst(p) ==
    /\ p \in Tasks /\ pc[p] = "idle"
    /\ \/ /\ word = UNLOCKED
          /\ word' = LOCKED
          /\ value' = [value EXCEPT ![p] = "returned"]
          /\ Goto(p, "held")
          /\ UNCHANGED <<slot, ptr>>
       \/ /\ word # UNLOCKED
          /\ value' = [value EXCEPT ![p] = "waiting"]
          /\ slot' = [slot EXCEPT ![p] = TRUE]
          /\ ptr' = [ptr EXCEPT ![p] = word]
          /\ Goto(p, "branch")
          /\ UNCHANGED word
    /\ UNCHANGED <<contents, pool, awake, node>>

(* The UNLOCKED -> LOCKED CAS at the top of lock_slow's loop and at the    *)
(* bottom of enqueue's.                                                    *)
RetryLock(p) ==
    /\ pc[p] = "lock"
    /\ \/ /\ word = UNLOCKED
          /\ word' = LOCKED
          /\ value' = IF p \in Tasks THEN [value EXCEPT ![p] = "returned"] ELSE value
          /\ Goto(p, "held")
          /\ UNCHANGED ptr
       \/ /\ word # UNLOCKED
          /\ ptr' = [ptr EXCEPT ![p] = word]
          /\ Goto(p, "branch")
          /\ UNCHANGED <<word, value>>
    /\ UNCHANGED <<contents, pool, slot, awake, node>>

(* Mutant: the allocator goes from LOCKED to the tagged queue at once. *)
BranchNoUpdating(p) ==
    /\ pc[p] = "branch"
    /\ \/ /\ ptr[p] = LOCKED /\ word = LOCKED
          /\ \E q \in pool : /\ pool' = pool \ {q}
                             /\ word' = Tagged(q)
                             /\ ptr' = [ptr EXCEPT ![p] = Ptr(q)]
          /\ Goto(p, "push")
       \/ /\ IsQueue(ptr[p]) /\ word = ptr[p]
          /\ word' = Tagged(ptr[p].q)
          /\ Goto(p, "push")
          /\ UNCHANGED <<pool, ptr>>
       \/ /\ word # ptr[p] \/ ptr[p].st \in {"updating", "tagged"}
          /\ Goto(p, "lock")
          /\ UNCHANGED <<word, pool, ptr>>
    /\ UNCHANGED <<contents, value, slot, awake, node>>

(* The step the observed word selects: become the queue's allocator, tag   *)
(* the queue, or go round the loop again.                                  *)
Branch(p) ==
    /\ pc[p] = "branch"
    /\ \/ /\ ptr[p] = LOCKED /\ word = LOCKED
          /\ word' = UPDATING
          /\ Goto(p, "alloc")
       \/ /\ IsQueue(ptr[p]) /\ word = ptr[p]
          /\ word' = Tagged(ptr[p].q)
          /\ Goto(p, "push")
       \/ /\ word # ptr[p] \/ ptr[p].st \in {"updating", "tagged"}
          /\ Goto(p, "lock")
          /\ UNCHANGED word
    /\ UNCHANGED <<contents, pool, value, slot, awake, ptr, node>>

(* allocate_queue, while everybody else waits behind UPDATING. *)
AllocateQueue(p) ==
    /\ pc[p] = "alloc"
    /\ \E q \in pool : /\ pool' = pool \ {q}
                       /\ ptr' = [ptr EXCEPT ![p] = Ptr(q)]
    /\ Goto(p, "push")
    /\ UNCHANGED <<word, contents, value, slot, awake, node>>

(* Mutant: a newcomer is put at the front of the line. *)
PushFront(p) ==
    /\ pc[p] = "push"
    /\ contents' = [contents EXCEPT ![ptr[p].q] = <<p>> \o @]
    /\ Goto(p, IF p \in Threads /\ contents[ptr[p].q] = <<>> THEN "publishFirst" ELSE "publish")
    /\ UNCHANGED <<word, pool, value, slot, awake, ptr, node>>

(* SignalQueue::push of the own Signal; the first in line may spin. *)
Push(p) ==
    /\ pc[p] = "push"
    /\ contents' = [contents EXCEPT ![ptr[p].q] = Append(@, p)]
    /\ Goto(p, IF p \in Threads /\ contents[ptr[p].q] = <<>> THEN "publishFirst" ELSE "publish")
    /\ UNCHANGED <<word, pool, value, slot, awake, ptr, node>>

(* The store that publishes the queue, and releases its tag. *)
Publish(p) ==
    /\ pc[p] \in {"publish", "publishFirst"}
    /\ word' = ptr[p]
    /\ Goto(p, IF p \in Tasks THEN "pending"
               ELSE IF pc[p] = "publishFirst" THEN "spin" ELSE "swap")
    /\ UNCHANGED <<contents, pool, value, slot, awake, ptr, node>>

-----------------------------------------------------------------------------
(* A queued thread.                                                        *)

(* The bounded spin of the first in line. *)
Spin(p) ==
    /\ pc[p] = "spin"
    /\ \/ value[p] = "signaled" /\ Goto(p, "held")
       \/ value[p] # "signaled" /\ Goto(p, "swap")
    /\ UNCHANGED <<word, contents, pool, value, slot, awake, ptr, node>>

(* Mutant: the thread parks whatever the swap returned. *)
SwapBlind(p) ==
    /\ pc[p] = "swap"
    /\ value' = [value EXCEPT ![p] = "waiting"]
    /\ Goto(p, "park")
    /\ UNCHANGED <<word, contents, pool, slot, awake, ptr, node>>

(* swap(INIT_WAITING): from now on a signaler unparks the thread. *)
Swap(p) ==
    /\ pc[p] = "swap"
    /\ value' = [value EXCEPT ![p] = "waiting"]
    /\ Goto(p, IF value[p] = "signaled" THEN "held" ELSE "park")
    /\ UNCHANGED <<word, contents, pool, slot, awake, ptr, node>>

(* park() returns, with the token or spuriously. *)
ParkReturn(p) ==
    /\ pc[p] = "park"
    /\ awake' = [awake EXCEPT ![p] = FALSE]
    /\ Goto(p, "check")
    /\ UNCHANGED <<word, contents, pool, value, slot, ptr, node>>

CheckSignal(p) ==
    /\ pc[p] = "check"
    /\ Goto(p, IF value[p] = "signaled" THEN "held" ELSE "park")
    /\ UNCHANGED <<word, contents, pool, value, slot, awake, ptr, node>>

-----------------------------------------------------------------------------
(* A queued task.                                                          *)

(* poll of a queued request, woken or not (select, join): takes a published *)
(* handoff, or goes on to re-arm its waker.                                 *)
Poll(p) ==
    /\ pc[p] = "pending"
    /\ awake' = [awake EXCEPT ![p] = FALSE]
    /\ \/ /\ value[p] = "signaled"
          /\ value' = [value EXCEPT ![p] = "returned"]
          /\ Goto(p, "held")
       \/ /\ value[p] # "signaled"
          /\ Goto(p, "rearm")
          /\ UNCHANGED value
    /\ UNCHANGED <<word, contents, pool, slot, ptr, node>>

(* rearm: DynamicWaker::register, Armed or WasEmpty. *)
Rearm(p) ==
    /\ pc[p] = "rearm"
    /\ slot' = [slot EXCEPT ![p] = TRUE]
    /\ Goto(p, IF slot[p] THEN "pending" ELSE "reload")
    /\ UNCHANGED <<word, contents, pool, value, awake, ptr, node>>

(* rearm, slot found empty: take the signal if it landed, else wake itself. *)
Reload(p) ==
    /\ pc[p] = "reload"
    /\ \/ /\ value[p] = "signaled"
          /\ value' = [value EXCEPT ![p] = "returned"]
          /\ Goto(p, "held")
          /\ UNCHANGED awake
       \/ /\ value[p] # "signaled"
          /\ awake' = [awake EXCEPT ![p] = TRUE]
          /\ Goto(p, "pending")
          /\ UNCHANGED value
    /\ UNCHANGED <<word, contents, pool, slot, ptr, node>>

-----------------------------------------------------------------------------
(* Dropping a queued request.                                              *)

(* Mutant: a handoff that arrived before the drop is forgotten. *)
DropRequestLeak(p) ==
    /\ pc[p] = "pending"
    /\ Goto(p, IF value[p] = "signaled" THEN "idle" ELSE "leave")
    /\ UNCHANGED <<word, contents, pool, value, slot, awake, ptr, node>>

(* Drop for AsyncLockRequest: an unnoticed handoff is released at once,    *)
(* otherwise the Signal has to leave the queue.                            *)
DropRequest(p) ==
    /\ pc[p] = "pending"
    /\ Goto(p, IF value[p] = "signaled" THEN "held" ELSE "leave")
    /\ UNCHANGED <<word, contents, pool, value, slot, awake, ptr, node>>

(* Mutant: a tagged or UPDATING word is taken for a queue. *)
LeaveAnyWord(p) ==
    /\ pc[p] = "leave"
    /\ \/ word \in {UNLOCKED, LOCKED} /\ Goto(p, "await") /\ UNCHANGED ptr
       \/ word \notin {UNLOCKED, LOCKED} /\ Goto(p, "leaveTag") /\ ptr' = [ptr EXCEPT ![p] = word]
    /\ UNCHANGED <<word, contents, pool, value, slot, awake, node>>

(* remove_from_queue reads the word: no queue, a transient state, a queue. *)
Leave(p) ==
    /\ pc[p] = "leave"
    /\ \/ word \in {UNLOCKED, LOCKED} /\ Goto(p, "await") /\ UNCHANGED ptr
       \/ IsQueue(word) /\ Goto(p, "leaveTag") /\ ptr' = [ptr EXCEPT ![p] = word]
    /\ UNCHANGED <<word, contents, pool, value, slot, awake, node>>

LeaveTag(p) ==
    /\ pc[p] = "leaveTag"
    /\ \/ /\ word = ptr[p]
          /\ word' = Tagged(ptr[p].q)
          /\ Goto(p, "remove")
       \/ /\ word # ptr[p]
          /\ Goto(p, "leave")
          /\ UNCHANGED word
    /\ UNCHANGED <<contents, pool, value, slot, awake, ptr, node>>

(* SignalQueue::remove of the own Signal, which may already be popped. *)
Remove(p) ==
    /\ pc[p] = "remove"
    /\ LET q == ptr[p].q
           s == contents[q]
       IN  \/ \E i \in 1 .. Len(s) :
                 /\ s[i] = p
                 /\ contents' = [contents EXCEPT ![q] = RemoveNode(s, i)]
                 /\ Goto(p, "removed")
           \/ /\ \A i \in 1 .. Len(s) : s[i] # p
              /\ Goto(p, "missed")
              /\ UNCHANGED contents
    /\ UNCHANGED <<word, pool, value, slot, awake, ptr, node>>

(* Mutant: a popped request is taken for a removed one. *)
LeaveUntagMissed(p) ==
    /\ pc[p] \in {"removed", "missed"}
    /\ word' = ptr[p]
    /\ value' = [value EXCEPT ![p] = "uninit"]
    /\ slot' = [slot EXCEPT ![p] = FALSE]
    /\ Goto(p, "idle")
    /\ UNCHANGED <<contents, pool, awake, ptr, node>>

(* Mutant: the last request to leave pools the queue it still publishes. *)
LeaveUntagPools(p) ==
    /\ pc[p] \in {"removed", "missed"}
    /\ word' = ptr[p]
    /\ pool' = IF contents[ptr[p].q] = <<>> THEN pool \cup {ptr[p].q} ELSE pool
    /\ IF pc[p] = "removed"
       THEN /\ value' = [value EXCEPT ![p] = "uninit"]
            /\ slot' = [slot EXCEPT ![p] = FALSE]
            /\ Goto(p, "idle")
       ELSE /\ Goto(p, "await")
            /\ UNCHANGED <<value, slot>>
    /\ UNCHANGED <<contents, awake, ptr, node>>

(* The untagging store; a removed request is gone. *)
LeaveUntag(p) ==
    /\ pc[p] \in {"removed", "missed"}
    /\ word' = ptr[p]
    /\ IF pc[p] = "removed"
       THEN /\ value' = [value EXCEPT ![p] = "uninit"]
            /\ slot' = [slot EXCEPT ![p] = FALSE]
            /\ Goto(p, "idle")
       ELSE /\ Goto(p, "await")
            /\ UNCHANGED <<value, slot>>
    /\ UNCHANGED <<contents, pool, awake, ptr, node>>

(* drop_slow spins for the handoff in flight, then owns the lock it drops. *)
AwaitSignal(p) ==
    /\ pc[p] = "await"
    /\ value[p] = "signaled"
    /\ Goto(p, "held")
    /\ UNCHANGED <<word, contents, pool, value, slot, awake, ptr, node>>

-----------------------------------------------------------------------------
(* Releasing: Drop for MutexGuard.                                         *)

(* The LOCKED -> UNLOCKED CAS.  The request that produced the guard is     *)
(* over, its Signal with it.                                               *)
Unlock(p) ==
    /\ pc[p] = "held"
    /\ value' = [value EXCEPT ![p] = "uninit"]
    /\ slot' = [slot EXCEPT ![p] = FALSE]
    /\ \/ /\ word = LOCKED
          /\ word' = UNLOCKED
          /\ Goto(p, "idle")
          /\ UNCHANGED ptr
       \/ /\ word # LOCKED
          /\ ptr' = [ptr EXCEPT ![p] = word]
          /\ Goto(p, "unlock")
          /\ UNCHANGED word
    /\ UNCHANGED <<contents, pool, awake, node>>

(* Mutant: any word the drop has read is tagged. *)
UnlockTagBlind(p) ==
    /\ pc[p] = "unlock"
    /\ \/ /\ word = ptr[p]
          /\ word' = Tagged(ptr[p].q)
          /\ Goto(p, "pop")
          /\ UNCHANGED ptr
       \/ /\ word # ptr[p]
          /\ ptr' = [ptr EXCEPT ![p] = word]
          /\ UNCHANGED <<word, pc>>
    /\ UNCHANGED <<contents, pool, value, slot, awake, node>>

(* drop_slow: tag the queue, else take the word read anew and try again. *)
UnlockTag(p) ==
    /\ pc[p] = "unlock"
    /\ \/ /\ IsQueue(ptr[p]) /\ word = ptr[p]
          /\ word' = Tagged(ptr[p].q)
          /\ Goto(p, "pop")
          /\ UNCHANGED ptr
       \/ /\ ~IsQueue(ptr[p]) \/ word # ptr[p]
          /\ ptr' = [ptr EXCEPT ![p] = word]
          /\ UNCHANGED <<word, pc>>
    /\ UNCHANGED <<contents, pool, value, slot, awake, node>>

Pop(p) ==
    /\ pc[p] = "pop"
    /\ LET q == ptr[p].q
       IN  \/ /\ contents[q] # <<>>
              /\ node' = [node EXCEPT ![p] = Head(contents[q])]
              /\ contents' = [contents EXCEPT ![q] = Tail(@)]
              /\ Goto(p, "untag")
           \/ /\ contents[q] = <<>>
              /\ Goto(p, "release")
              /\ UNCHANGED <<node, contents>>
    /\ UNCHANGED <<word, pool, value, slot, awake, ptr>>

Untag(p) ==
    /\ pc[p] = "untag"
    /\ word' = ptr[p]
    /\ Goto(p, "take")
    /\ UNCHANGED <<contents, pool, value, slot, awake, ptr, node>>

(* Mutant: the wake-up goes out before the value is stored. *)
TakeWakerEarly(p) ==
    /\ pc[p] = "take"
    /\ slot' = [slot EXCEPT ![node[p]] = FALSE]
    /\ awake' = [awake EXCEPT ![node[p]] = @ \/ slot[node[p]]]
    /\ Goto(p, "signal")
    /\ UNCHANGED <<word, contents, pool, value, ptr, node>>

(* signal_node: take the waker first... *)
TakeWaker(p) ==
    /\ pc[p] = "take"
    /\ slot' = [slot EXCEPT ![node[p]] = FALSE]
    /\ Goto(p, IF slot[node[p]] THEN "signalWake" ELSE "signal")
    /\ UNCHANGED <<word, contents, pool, value, awake, ptr, node>>

(* ... then publish the value, the last access to the node.  A thread is   *)
(* unparked only if it had announced itself, a task whenever it had a waker. *)
StoreSignal(p) ==
    /\ pc[p] \in {"signal", "signalWake"}
    /\ value' = [value EXCEPT ![node[p]] = "signaled"]
    /\ IF pc[p] = "signalWake" /\ (node[p] \in Threads => value[node[p]] = "waiting")
       THEN Goto(p, "wake") /\ UNCHANGED node
       ELSE Goto(p, "idle") /\ node' = [node EXCEPT ![p] = NoProc]
    /\ UNCHANGED <<word, contents, pool, slot, awake, ptr>>

Wake(p) ==
    /\ pc[p] = "wake"
    /\ awake' = [awake EXCEPT ![node[p]] = TRUE]
    /\ node' = [node EXCEPT ![p] = NoProc]
    /\ Goto(p, "idle")
    /\ UNCHANGED <<word, contents, pool, value, slot, ptr>>

(* Nobody queued: unlock, then return the queue to the pool. *)
Release(p) ==
    /\ pc[p] = "release"
    /\ word' = UNLOCKED
    /\ Goto(p, "dealloc")
    /\ UNCHANGED <<contents, pool, value, slot, awake, ptr, node>>

DeallocateQueue(p) ==
    /\ pc[p] = "dealloc"
    /\ pool' = pool \cup {ptr[p].q}
    /\ Goto(p, "idle")
    /\ UNCHANGED <<word, contents, value, slot, awake, ptr, node>>

-----------------------------------------------------------------------------
Acquiring(p) ==
    RetryLock(p) \/ Branch(p) \/ AllocateQueue(p) \/ Push(p) \/ Publish(p)

Waiting(p) ==
    Spin(p) \/ Swap(p) \/ CheckSignal(p) \/ Rearm(p) \/ Reload(p)

Leaving(p) ==
    Leave(p) \/ LeaveTag(p) \/ Remove(p) \/ LeaveUntag(p) \/ AwaitSignal(p)

Releasing(p) ==
    \/ Unlock(p) \/ UnlockTag(p) \/ Pop(p) \/ Untag(p)
    \/ TakeWaker(p) \/ StoreSignal(p) \/ Wake(p)
    \/ Release(p) \/ DeallocateQueue(p)

Next ==
    \E p \in Procs :
        \/ Lock(p) \/ PollFirst(p) \/ ParkReturn(p) \/ Poll(p) \/ DropRequest(p)
        \/ Acquiring(p) \/ Waiting(p) \/ Leaving(p) \/ Releasing(p)

Spec == Init /\ [][Next]_vars

-----------------------------------------------------------------------------
(* Properties.                                                             *)

PCs == {"idle", "lock", "branch", "alloc", "push", "publish", "publishFirst",
        "spin", "swap", "park", "check", "pending", "rearm", "reload",
        "leave", "leaveTag", "remove", "removed", "missed", "await",
        "held", "unlock", "pop", "untag", "take", "signal", "signalWake",
        "wake", "release", "dealloc"}

TypeOK ==
    /\ word \in Words
    /\ contents \in [Queues -> Seq(Procs)]
    /\ pool \subseteq Queues
    /\ value \in [Procs -> Signals]
    /\ slot \in [Procs -> BOOLEAN]
    /\ awake \in [Procs -> BOOLEAN]
    /\ pc \in [Procs -> PCs]
    /\ ptr \in [Procs -> Words]
    /\ node \in [Procs -> Procs \cup {NoProc}]

(* The process has published its Signal and still relies on it. *)
Parked(p) ==
    pc[p] \in {"publish", "publishFirst", "spin", "swap", "park", "check", "pending",
               "rearm", "reload", "leave", "leaveTag", "remove", "missed", "await"}

(* A guard drop that has popped a node and not yet signaled it. *)
HandingOff(p) == pc[p] \in {"untag", "take", "signal", "signalWake"}

(* The process has the lock: through a guard it holds or is dropping, or   *)
(* through a handoff it has not noticed yet.                               *)
Owns(p) ==
    \/ pc[p] \in {"held", "unlock", "pop", "release"} \/ HandingOff(p)
    \/ Parked(p) /\ value[p] = "signaled"

InQueue(p, q) == \E i \in 1 .. Len(contents[q]) : contents[q][i] = p

(* The process has exclusive access to a queue: it allocates it behind     *)
(* UPDATING or it has set the tag.                                         *)
HasQueue(p) ==
    pc[p] \in {"alloc", "push", "publish", "publishFirst", "remove", "removed",
               "missed", "pop", "untag", "release"}

(* Mutual exclusion across guards, guards being dropped and handoffs in     *)
(* flight to a parked or cancelled waiter; and the word says UNLOCKED       *)
(* exactly when nobody owns the lock, so no path leaks it                   *)
(* (MutexInternal::try_lock, MutexGuard::drop, AsyncLockRequest::drop_slow). *)
MutualExclusion ==
    /\ \A p, r \in Procs : Owns(p) /\ Owns(r) => p = r
    /\ word = UNLOCKED <=> \A p \in Procs : ~Owns(p)

(* Every node that the queue or a signaler can still reach belongs to a     *)
(* request that is still parked on it: no Signal on a stack or in a future  *)
(* is freed under signal_node, pop or remove.                               *)
NodesAlive ==
    /\ \A q \in Queues : \A i \in 1 .. Len(contents[q]) : Parked(contents[q][i])
    /\ \A p \in Procs : HandingOff(p) => Parked(node[p])

(* One process at a time has access to the mutex's queue, through the tag   *)
(* or through UPDATING, and a queue is pooled only while it is empty and    *)
(* nobody is left who could touch it (tag CAS sites, deallocate_queue).     *)
QueueExclusive ==
    /\ \A p, r \in Procs : HasQueue(p) /\ HasQueue(r) => p = r
    /\ \A q \in pool :
          /\ contents[q] = <<>>
          /\ word.q # q
          /\ \A p \in Procs : HasQueue(p) /\ pc[p] # "alloc" => ptr[p].q # q

(* A waiter that has been handed the lock and sleeps will be woken: its     *)
(* token is there or its signaler is about to leave it (signal_node's       *)
(* take-store-wake order against lock_slow's swap and rearm).               *)
NoLostWakeup ==
    \A p \in Procs :
        pc[p] \in {"park", "pending"} /\ value[p] = "signaled" =>
            awake[p] \/ \E r \in Procs : pc[r] = "wake" /\ node[r] = p

(* While the lock is held the word moves only from LOCKED over UPDATING to  *)
(* a queue, then back and forth between that queue and its tag; it is taken *)
(* back to UNLOCKED only by the owner (comments of MutexGuard::drop_slow).  *)
WordProtocol ==
    [][ /\ word = LOCKED => word' \in {UNLOCKED, UPDATING}
        /\ word = UPDATING => IsQueue(word')
        /\ IsQueue(word) => word' = Tagged(word.q)
        /\ word.st = "tagged" => word' \in {UNLOCKED, Ptr(word.q)}
        /\ word' = UNLOCKED => \E p \in Procs : Owns(p) /\ ~Owns(p)'
      ]_word

-----------------------------------------------------------------------------
(* The inductive invariant behind the safety properties.                   *)

(* What a process may rely on between its tag CAS and its untagging store: *)
(* its local pointer denotes a queue and the word keeps everybody else out. *)
TagHeld(p) ==
    /\ pc[p] = "alloc" => word = UPDATING
    /\ pc[p] \in {"push", "publish", "publishFirst"} =>
          IsQueue(ptr[p]) /\ word \in {UPDATING, Tagged(ptr[p].q)}
    /\ pc[p] \in {"remove", "removed", "missed", "pop", "untag", "release"} =>
          IsQueue(ptr[p]) /\ word = Tagged(ptr[p].q)
    /\ pc[p] \in {"leaveTag", "dealloc"} => IsQueue(ptr[p])

TagInv ==
    /\ \A p, r \in Procs : HasQueue(p) /\ HasQueue(r) => p = r
    /\ \A p \in Procs : TagHeld(p)

(* A node is queued at most once, only while its owner is parked on it and  *)
(* has not been signaled.                                                   *)
LineInv ==
    /\ \A q \in Queues : \A i \in 1 .. Len(contents[q]) :
          Parked(contents[q][i]) /\ value[contents[q][i]] # "signaled"
    /\ \A q1, q2 \in Queues : \A i \in 1 .. Len(contents[q1]), j \in 1 .. Len(contents[q2]) :
          contents[q1][i] = contents[q2][j] => q1 = q2 /\ i = j

(* A popped node is out of every queue and waits for exactly this signal. *)
HandoffInv ==
    \A p \in Procs : HandingOff(p) =>
        /\ node[p] \in Procs
        /\ Parked(node[p])
        /\ value[node[p]] # "signaled"
        /\ \A q \in Queues : ~InQueue(node[p], q)

(* A signal stays unnoticed only while its receiver is parked. *)
SignalInv ==
    \A p \in Procs : value[p] = "signaled" => Parked(p) \/ pc[p] = "held"

(* The processes whose local pointer denotes a queue they alone may touch. *)
UsesQueue(p) == (HasQueue(p) /\ pc[p] # "alloc") \/ pc[p] = "dealloc"

PoolInv ==
    /\ \A p \in Procs : pc[p] \in {"release", "dealloc"} => contents[ptr[p].q] = <<>>
    /\ \A p \in Procs : pc[p] = "dealloc" => word.q # ptr[p].q
    /\ \A p, r \in Procs : UsesQueue(p) /\ UsesQueue(r) /\ ptr[p].q = ptr[r].q => p = r
    /\ \A q \in pool : /\ contents[q] = <<>>
                        /\ word.q # q
                        /\ \A p \in Procs : UsesQueue(p) => ptr[p].q # q

IInv ==
    /\ TypeOK /\ TagInv /\ LineInv /\ HandoffInv /\ SignalInv /\ PoolInv
    /\ MutualExclusion
=============================================================================
