----------------------------- MODULE WaitQueue -----------------------------
(***************************************************************************)
(* WaitQueue::lock and LockedQueue::unlock of src/src/wait_queue.rs, one   *)
(* atomic operation per step, for several wait queues that share the pool  *)
(* of src/xutex-pool/src/lib.rs, which the first users build concurrently. *)
(* Each call locks one of them, does what its caller does with the         *)
(* contents (push its own node, pop from the front, remove its own node,   *)
(* or leave them alone) and unlocks.                                       *)
(***************************************************************************)
EXTENDS Integers, Sequences, FiniteSets

CONSTANTS
    Procs,
    WaitQueues,     \* the WaitQueue fields of the primitives
    Queues,         \* addresses of QueueStructures on the heap
    Prefill,        \* the queues a new pool is filled with
    NoQueue, NoProc

ASSUME NamesAssumption == NoProc \notin Procs /\ NoQueue \notin Queues
ASSUME PrefillAssumption == Prefill \in Nat

VARIABLES
    word,       \* WaitQueue.ptr
    contents,   \* the SignalQueue in each QueueStructure, front first
    published,  \* POOL is not null
    pool,       \* queues in the pool it points to
    build,      \* queues in the pool a process has built and not published
    heap,       \* allocated addresses
    pc,
    at,         \* the wait queue a call is about
    op,         \* what the caller wants: "push", "pop", "remove"
    ptr         \* local copy of the word; the LockedQueue once locked

poolVars == <<published, pool, build, heap>>
vars == <<word, contents, poolVars, pc, at, op, ptr>>

NULL == [st |-> "null", q |-> NoQueue]
UPDATING == [st |-> "updating", q |-> NoQueue]
Ptr(q) == [st |-> "queue", q |-> q]
Tagged(q) == [st |-> "tagged", q |-> q]

Words == {NULL, UPDATING} \cup {Ptr(q) : q \in Queues} \cup {Tagged(q) : q \in Queues}

Goto(p, to) == pc' = [pc EXCEPT ![p] = to]
SetPtr(p, w) == ptr' = [ptr EXCEPT ![p] = w]

Position(s, n) == {i \in 1 .. Len(s) : s[i] = n}

Init ==
    /\ word = [w \in WaitQueues |-> NULL]
    /\ contents = [q \in Queues |-> <<>>]
    /\ published = FALSE /\ pool = {} /\ heap = {}
    /\ build = [p \in Procs |-> {}]
    /\ pc = [p \in Procs |-> "idle"]
    /\ at \in [Procs -> WaitQueues]
    /\ op = [p \in Procs |-> "pop"]
    /\ ptr = [p \in Procs |-> NULL]

-----------------------------------------------------------------------------
(* The calls the primitives make: a process queues its node at most once.  *)
Queued(p) == \E q \in Queues : Position(contents[q], p) # {}

(* lock: the first load of the word. *)
Lock(p) ==
    /\ pc[p] = "idle"
    /\ \E w \in WaitQueues, o \in {"push", "pop", "remove"} :
          /\ o = "push" => ~Queued(p)
          /\ at' = [at EXCEPT ![p] = w]
          /\ op' = [op EXCEPT ![p] = o]
          /\ SetPtr(p, word[w])
    /\ Goto(p, "lock")
    /\ UNCHANGED <<word, contents, poolVars>>

(* Mutant: a NULL read some time ago is trusted. *)
LockNoneStale(p) ==
    /\ pc[p] = "lock" /\ ptr[p] = NULL /\ op[p] # "push"
    /\ Goto(p, "idle")
    /\ UNCHANGED <<word, contents, poolVars, at, op, ptr>>

(* lock(false), NULL seen: None if the compare-exchange confirms it. *)
LockNone(p) ==
    /\ pc[p] = "lock" /\ ptr[p] = NULL /\ op[p] # "push"
    /\ IF word[at[p]] = NULL THEN Goto(p, "idle") /\ UNCHANGED ptr
                             ELSE SetPtr(p, word[at[p]]) /\ UNCHANGED pc
    /\ UNCHANGED <<word, contents, poolVars, at, op>>

(* lock(true), NULL seen: become the allocator. *)
LockAlloc(p) ==
    /\ pc[p] = "lock" /\ ptr[p] = NULL /\ op[p] = "push"
    /\ \/ /\ word[at[p]] = NULL
          /\ word' = [word EXCEPT ![at[p]] = UPDATING]
          /\ Goto(p, "alloc")
          /\ UNCHANGED ptr
       \/ /\ word[at[p]] # NULL
          /\ SetPtr(p, word[at[p]])
          /\ UNCHANGED <<word, pc>>
    /\ UNCHANGED <<contents, poolVars, at, op>>

(* allocate_queue: the load in pool(). *)
AllocateQueue(p) ==
    /\ pc[p] = "alloc"
    /\ Goto(p, IF published THEN "take" ELSE "build")
    /\ UNCHANGED <<word, contents, poolVars, at, op, ptr>>

Fresh == Queues \ heap

(* init_pool: allocate a pool and its queues... *)
BuildPool(p) ==
    /\ pc[p] = "build"
    /\ \E qs \in SUBSET Fresh :
          /\ Cardinality(qs) = Prefill
          /\ build' = [build EXCEPT ![p] = qs]
          /\ heap' = heap \cup qs
    /\ Goto(p, "publish")
    /\ UNCHANGED <<word, contents, published, pool, at, op, ptr>>

(* Mutant: the pool is published with a store. *)
PublishPoolStore(p) ==
    /\ pc[p] = "publish"
    /\ published' = TRUE
    /\ pool' = build[p]
    /\ build' = [build EXCEPT ![p] = {}]
    /\ Goto(p, "take")
    /\ UNCHANGED <<word, contents, heap, at, op, ptr>>

(* ... publish it, or free it all if somebody else was first. *)
PublishPool(p) ==
    /\ pc[p] = "publish"
    /\ published' = TRUE
    /\ build' = [build EXCEPT ![p] = {}]
    /\ IF published THEN heap' = heap \ build[p] /\ UNCHANGED pool
                    ELSE pool' = build[p] /\ UNCHANGED heap
    /\ Goto(p, "take")
    /\ UNCHANGED <<word, contents, at, op, ptr>>

(* Pop a queue, or allocate one when the pool has none. *)
TakeQueue(p) ==
    /\ pc[p] = "take"
    /\ \E q \in IF pool = {} THEN Fresh ELSE pool :
          /\ pool' = pool \ {q}
          /\ heap' = heap \cup {q}
          /\ SetPtr(p, Ptr(q))
    /\ Goto(p, "locked")
    /\ UNCHANGED <<word, contents, published, build, at, op>>

(* Spin on UPDATING or on a tag. *)
LockReload(p) ==
    /\ pc[p] = "lock" /\ ptr[p].st \in {"updating", "tagged"}
    /\ SetPtr(p, word[at[p]])
    /\ UNCHANGED <<word, contents, poolVars, pc, at, op>>

(* The tag compare-exchange. *)
LockTag(p) ==
    /\ pc[p] = "lock" /\ ptr[p].st = "queue"
    /\ \/ /\ word[at[p]] = ptr[p]
          /\ word' = [word EXCEPT ![at[p]] = Tagged(ptr[p].q)]
          /\ Goto(p, "locked")
          /\ UNCHANGED ptr
       \/ /\ word[at[p]] # ptr[p]
          /\ SetPtr(p, word[at[p]])
          /\ UNCHANGED <<word, pc>>
    /\ UNCHANGED <<contents, poolVars, at, op>>

-----------------------------------------------------------------------------
(* Mutant: a node is pushed at the wrong end. *)
WithQueueFront(p) ==
    /\ pc[p] = "locked"
    /\ LET s == contents[ptr[p].q]
       IN  \/ /\ op[p] = "push"
              /\ contents' = [contents EXCEPT ![ptr[p].q] = <<p>> \o s]
           \/ /\ op[p] = "pop"
              /\ \E k \in 1 .. Len(s) :
                    contents' = [contents EXCEPT ![ptr[p].q] = SubSeq(s, k + 1, Len(s))]
           \/ /\ op[p] = "remove"
              /\ \E i \in Position(s, p) :
                    contents' = [contents EXCEPT ![ptr[p].q] =
                                    SubSeq(s, 1, i - 1) \o SubSeq(s, i + 1, Len(s))]
           \/ /\ op[p] = "remove" => Position(s, p) = {}
              /\ UNCHANGED contents
    /\ Goto(p, "unlock")
    /\ UNCHANGED <<word, poolVars, at, op, ptr>>

(* with_queue, as the primitives call it. A caller that came to push may find *)
(* under the lock that it need not wait; one that came to pop takes as many   *)
(* nodes from the front as it has to signal, possibly none; one that came to  *)
(* remove its node may find it gone.                                          *)
WithQueue(p) ==
    /\ pc[p] = "locked"
    /\ LET s == contents[ptr[p].q]
       IN  \/ /\ op[p] = "push"
              /\ contents' = [contents EXCEPT ![ptr[p].q] = Append(s, p)]
           \/ /\ op[p] = "pop"
              /\ \E k \in 1 .. Len(s) :
                    contents' = [contents EXCEPT ![ptr[p].q] = SubSeq(s, k + 1, Len(s))]
           \/ /\ op[p] = "remove"
              /\ \E i \in Position(s, p) :
                    contents' = [contents EXCEPT ![ptr[p].q] =
                                    SubSeq(s, 1, i - 1) \o SubSeq(s, i + 1, Len(s))]
           \/ /\ op[p] = "remove" => Position(s, p) = {}
              /\ UNCHANGED contents
    /\ Goto(p, "unlock")
    /\ UNCHANGED <<word, poolVars, at, op, ptr>>

(* Mutant: an empty queue is published like any other. *)
UnlockPublishesEmpty(p) ==
    /\ pc[p] = "unlock"
    /\ word' = [word EXCEPT ![at[p]] = ptr[p]]
    /\ Goto(p, "idle")
    /\ UNCHANGED <<contents, poolVars, at, op, ptr>>

(* Mutant: the empty queue is pooled before it is unpublished. *)
UnlockPoolsFirst(p) ==
    /\ pc[p] = "unlock"
    /\ IF contents[ptr[p].q] = <<>>
       THEN /\ pool' = pool \cup {ptr[p].q}
            /\ Goto(p, "dealloc")
            /\ UNCHANGED word
       ELSE /\ word' = [word EXCEPT ![at[p]] = ptr[p]]
            /\ Goto(p, "idle")
            /\ UNCHANGED pool
    /\ UNCHANGED <<contents, published, build, heap, at, op, ptr>>

(* Mutant: a queue is unpublished after a pop, whoever is left in it. *)
UnlockAfterPop(p) ==
    /\ pc[p] = "unlock"
    /\ IF contents[ptr[p].q] = <<>> \/ op[p] = "pop"
       THEN /\ word' = [word EXCEPT ![at[p]] = NULL]
            /\ Goto(p, "dealloc")
       ELSE /\ word' = [word EXCEPT ![at[p]] = ptr[p]]
            /\ Goto(p, "idle")
    /\ UNCHANGED <<contents, poolVars, at, op, ptr>>

(* unlock: publish the queue, or unpublish an empty one. *)
Unlock(p) ==
    /\ pc[p] = "unlock"
    /\ IF contents[ptr[p].q] = <<>>
       THEN /\ word' = [word EXCEPT ![at[p]] = NULL]
            /\ Goto(p, "dealloc")
       ELSE /\ word' = [word EXCEPT ![at[p]] = ptr[p]]
            /\ Goto(p, "idle")
    /\ UNCHANGED <<contents, poolVars, at, op, ptr>>

DeallocateQueue(p) ==
    /\ pc[p] = "dealloc"
    /\ pool' = pool \cup {ptr[p].q}
    /\ Goto(p, "idle")
    /\ UNCHANGED <<word, contents, published, build, heap, at, op, ptr>>

Next ==
    \E p \in Procs :
        \/ Lock(p) \/ LockNone(p) \/ LockAlloc(p) \/ AllocateQueue(p)
        \/ BuildPool(p) \/ PublishPool(p) \/ TakeQueue(p)
        \/ LockReload(p) \/ LockTag(p)
        \/ WithQueue(p) \/ Unlock(p) \/ DeallocateQueue(p)

Spec == Init /\ [][Next]_vars

-----------------------------------------------------------------------------
(* Properties.                                                             *)

TypeOK ==
    /\ word \in [WaitQueues -> Words]
    /\ contents \in [Queues -> Seq(Procs)]
    /\ published \in BOOLEAN /\ pool \subseteq Queues /\ heap \subseteq Queues
    /\ build \in [Procs -> SUBSET Queues]
    /\ pc \in [Procs -> {"idle", "lock", "alloc", "build", "publish", "take",
                         "locked", "unlock", "dealloc"}]
    /\ at \in [Procs -> WaitQueues]
    /\ op \in [Procs -> {"push", "pop", "remove"}]
    /\ ptr \in [Procs -> Words]

HasLock(p) == pc[p] \in {"alloc", "build", "publish", "take", "locked", "unlock"}

(* The process may touch the contents of the queue it points to. *)
HasQueue(p) == pc[p] \in {"locked", "unlock", "dealloc"}

(* A wait queue or a process has it. *)
InUse(q) ==
    \/ \E w \in WaitQueues : word[w].q = q
    \/ \E p \in Procs : HasQueue(p) /\ ptr[p].q = q

(* At most one process has the lock of a wait queue, nobody else points to  *)
(* the same pooled allocation, and pooled queues are empty and unpublished  *)
(* even though stale copies of their address exist (lock, unlock).          *)
Exclusive ==
    /\ \A p, r \in Procs : HasLock(p) /\ HasLock(r) /\ at[p] = at[r] => p = r
    /\ \A p, r \in Procs : HasQueue(p) /\ HasQueue(r) /\ ptr[p].q = ptr[r].q => p = r
    /\ \A w1, w2 \in WaitQueues : word[w1].q = word[w2].q /\ word[w1].q \in Queues => w1 = w2
    /\ \A q \in pool : contents[q] = <<>> /\ ~InUse(q)

(* Every queue on the heap is in the pool, in a pool being built, in the    *)
(* hands of a process or in a wait queue, and none of these has been freed: *)
(* building the pool twice loses no queue and frees none that is in use     *)
(* (init_pool, allocate_queue, deallocate_queue).                           *)
QueuesAccounted ==
    /\ \A q \in Queues :
          q \in heap <=> q \in pool \/ (\E p \in Procs : q \in build[p]) \/ InUse(q)
    /\ \A p \in Procs : build[p] \cap pool = {}
    /\ \A p, r \in Procs : p # r => build[p] \cap build[r] = {}

(* A published, untagged queue has somebody in it, so popping never finds   *)
(* it empty (the invariant LockedQueue::unlock documents).                  *)
PublishedNonEmpty ==
    \A w \in WaitQueues : word[w].st = "queue" => contents[word[w].q] # <<>>

-----------------------------------------------------------------------------
(* The inductive invariant.                                                *)

(* Control points and the word: who has the lock has written UPDATING or    *)
(* the tag of its own queue, and nobody else is inside.                     *)
LockInv ==
    /\ \A p, r \in Procs : HasLock(p) /\ HasLock(r) /\ at[p] = at[r] => p = r
    /\ \A p \in Procs :
          /\ HasLock(p) /\ ~HasQueue(p) => word[at[p]] = UPDATING
          /\ HasLock(p) /\ HasQueue(p) => word[at[p]] \in {UPDATING, Tagged(ptr[p].q)}
          /\ HasQueue(p) => ptr[p].st = "queue"

(* ... and such a word has somebody who will replace it. *)
HeldInv ==
    \A w \in WaitQueues :
        word[w].st \in {"updating", "tagged"} => \E p \in Procs : HasLock(p) /\ at[p] = w

(* Who is about to push its node is in no queue. *)
CallInv ==
    \A p \in Procs :
        op[p] = "push" /\ pc[p] \in {"lock", "alloc", "build", "publish", "take", "locked"} => ~Queued(p)

(* A queue is in one place only. *)
PlaceInv ==
    /\ \A p, r \in Procs : HasQueue(p) /\ HasQueue(r) /\ ptr[p].q = ptr[r].q => p = r
    /\ \A w1, w2 \in WaitQueues : word[w1].q = word[w2].q /\ word[w1].q \in Queues => w1 = w2
    /\ \A p \in Procs, w \in WaitQueues :
          HasQueue(p) /\ word[w].q = ptr[p].q => HasLock(p) /\ at[p] = w
    /\ \A q \in pool : ~InUse(q)
    /\ \A p \in Procs : \A q \in build[p] : ~InUse(q)

(* A pool that is being built is nobody else's business, and before one is  *)
(* published there are no queues in use.                                    *)
BuildInv ==
    /\ \A p \in Procs : pc[p] # "publish" => build[p] = {}
    /\ ~published =>
          /\ pool = {}
          /\ \A w \in WaitQueues : word[w].q = NoQueue
          /\ \A p \in Procs : ~HasQueue(p) /\ pc[p] # "take"

(* Whoever is in a queue can be found through a word or a lock holder. *)
ContentsInv ==
    \A q \in Queues :
        \/ contents[q] = <<>>
        \/ \E w \in WaitQueues : word[w].q = q
        \/ \E p \in Procs : HasLock(p) /\ HasQueue(p) /\ ptr[p].q = q

(* The invariant that carries the proofs: types, locks, the one place of    *)
(* each queue and the life of the pool (lock, unlock, init_pool).           *)
QueueInv ==
    /\ TypeOK /\ LockInv /\ HeldInv /\ CallInv
    /\ PlaceInv /\ BuildInv /\ QueuesAccounted /\ ContentsInv /\ PublishedNonEmpty
=============================================================================
