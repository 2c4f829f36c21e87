# Verification of xutex

xutex is a crate of synchronisation primitives that serve blocking threads and asynchronous tasks
from one state: a mutex, a semaphore, a reader-writer lock, a notifier, a once-cell and a barrier.
All of them put waiters on an allocation-free FIFO queue whose nodes live in the waiters' stack
frames or futures, and borrow the queue itself from a global pool. What can go wrong is therefore
always of the same kind: a waiter that nobody wakes, a node touched after its owner left, a permit,
lock or role lost with a cancelled request. This directory models the primitives in TLA+, checks
them with TLC on small instances, and proves with TLAPS, for every number of threads, tasks, queues
and permits, the safety properties of the mutex, of the wait queue under all other primitives, of the
waker slot, of waiting and signaling, and of the barrier, the semaphore, the reader-writer lock, the
notifier and the once-cell.

## The system and its model

| part | source | modules | how |
|---|---|---|---|
| mutex | `src/src/lib.rs` | `Mutex`, `FifoLock`, `MutexRefinement` | every atomic operation a step; implements an abstract FIFO lock |
| wait queue | `src/src/wait_queue.rs` | `WaitQueue`, `QueueLock`, `WaitQueueRefinement` | pointer word, tag, pool; implements `QueueLock` |
| waiting and signaling | `src/src/wait_queue.rs` (`signal_node`, `PoppedChain`, `rearm`) | `Parking`, `FlaggedQueue` | shared by the five primitives below |
| waker slot | `src/src/waker.rs` | `WakerHandoff` | spin lock, several wakers |
| barrier | `src/src/barrier.rs` | `Barrier` | on `Parking` |
| semaphore | `src/src/semaphore.rs` | `Semaphore` | on `FlaggedQueue` |
| rwlock | `src/src/rwlock.rs` | `RwLock` | on `Semaphore` |
| notifier | `src/src/notify.rs` | `Notify` | on `FlaggedQueue` |
| once-cell | `src/src/once_cell.rs` | `OnceCell` | on `Parking` |
| node list | `src/xutex-pool/src/lib.rs` (`SignalQueue`), `src/src/wait_queue.rs` (`PoppedChain`) | `SignalQueue` | link by link; implements the line of `QueueLock` |
| queue pool | `src/xutex-pool/src/lib.rs` | in `WaitQueue`, `Mutex` | built on first use, a set |

**Composition.** The mutex keeps its queue in its own word and is modelled down to single atomic
operations. The other primitives use `WaitQueue`. That type is modelled alone, in full detail, with
any number of them sharing a pool that several processes may build at once, and shown by refinement
to implement `QueueLock`: a lock over one FIFO line, where `lock(false)` answers None exactly when
nobody is in line. There the contents of a locked queue are a sequence; `SignalQueue` shows that the
list of `next` pointers, in memory that is reused with arbitrary contents, behaves as that sequence,
and that a chain of popped nodes stays intact while its nodes are signaled. The primitives are modelled
on `QueueLock`, so each of their steps is one operation on the primitive's word or on the locked
line. `Parking` adds what all of them do with a node: a thread announces itself and parks, a task is
polled and re-arms its waker, a dropped future looks for its node and, if it was popped, spins for
the signal; a signaler takes the waker, stores the value and wakes, node by node. `FlaggedQueue` adds
the HAS_QUEUE bit of the semaphore and the notifier. Control points have the names listed in the
header of `Parking`; `ret` says where a process goes on after it has unlocked the queue.

**Conventions.** A compare-exchange loop is one step that succeeds, since its failed rounds change
nothing; a load whose result is used after another process may have moved is a step of its own. A
change to the locked line is merged with the read-modify-write before it when only the holder of
the lock can see the line. Threads block, tasks are polled; either may call any operation. A task's
future may be dropped wherever it is suspended. Spurious returns of `park` and unsolicited polls are
possible everywhere unless noted. Definitions introduced by "Mutant:" are plausible bugs; no
specification uses them, they show that each property can fail.

**Memory.** Every step acts on one sequentially consistent memory. The orderings of the atomics are
not examined; the repository's loom tests do that.

## Runs

Instances have one thread and two tasks unless noted: enough for a holder or signaler, a waiter that
is cancelled and a waiter behind it, which is what every protocol here distinguishes. Tasks are
interchangeable in the safety runs of mutex, semaphore and notifier, processes and queues in that of
the wait queue, nodes and signalers in that of the list (symmetry; never used for liveness). The four primitives on `Parking` share one property,
`WaitersSafe`: types, no freed node reachable or signaled twice, no lost wake-up.

| run | what it shows |
|---|---|
| `mutex_safety` | mutual exclusion counting locks in flight to a waiter, no freed node reachable, exclusive queues and clean pool, no lost wake-up, the inductive invariant of the proofs, the transitions of the word, and the refinement to `FifoLock` |
| `mutex_progress` | with finitely many requests every lock, cancellation and unlock finishes |
| `waitqueue_safety` | three processes that push, pop any number of nodes, remove, or lock and leave the contents alone, two wait queues over one pool, which they build: exclusive access despite recycled addresses, no queue lost or freed in use, no empty queue published, the inductive invariant of the proofs, refinement to `QueueLock`, None only for an empty line |
| `signal_queue` | four nodes, two signalers: the linked list implements the line, and a sealed chain is what was popped |
| `waker_handoff` | three wakers: exclusive slot, the taken waker is woken |
| `waker_changed` | *violated*: the latest waker is not always woken (finding below) |
| `barrier` | barrier of two, any number of rounds: arrivals counted through withdrawals, nobody released early, everybody of a complete generation eventually back |
| `barrier_crowd` | *violated*: four threads on a barrier of two, one sleeps for ever (finding below) |
| `semaphore_safety` | two permits, requests of 0 to 2: permits conserved through partial grants, close and cancellation; no servable head left asleep, nobody in line of a closed one; exact flag; nobody overtakes the line |
| `rwlock` | two threads and a task, at most two readers: a writer is alone, nobody starves |
| `notify` | any number of calls: every notification wakes one wait or is the stored permit, nobody sleeps beside a permit, old generations form a prefix and leave |
| `oncecell` | unbounded rounds: one initializer, SIGNALED only for a value that is there, the role of a failed initializer reaches somebody |

**Bounds.** Only two limit how often something happens: the lock requests in `mutex_progress`
(`MaxRequests`) and the permits in existence (`MaxPermits`; two make partial grants). Everything else
is called without bound. Generations are kept as how many ago a process entered its own, modulo
`Wrap`, so that the numbers come round again as those in the word do (half a word of the barrier, the
word above its flags of the notifier); with `Wrap = 3` an old, a current and a next one can meet in
the line. `NobodyLapped` is an assumption, not a guard of the code: no single wait lasts through `Wrap`
generations (2^32 of the barrier on a 64-bit machine), after which the code could not tell its
generation from the current one. `AllReleased`, `ReleasedWhenComplete` and `OldOnesReleased` speak of
numbers that wrap around, and say nothing about that aliasing. `Prefill` is the
number of queues a new pool is given, one instead of 16 per processor; with four addresses an
allocation never fails. Deadlock is checked for the mutex, the wait queue
and the list; elsewhere everybody may wait for a notification or an arrival that nobody has to send.

**Fairness.** Strong fairness for each process's own steps: the scheduler runs it again and again,
and waiting for the queue's tag ends because its holder, which never blocks, moves on. That the tag is
free infinitely often follows from the code; that a process spinning for it is among those that get it
does not, as the spin lock is not fair and the code alone guarantees only that somebody goes on. The
liveness runs show that nothing else keeps a process waiting. A sleeper is
fair only once woken, so no progress depends on a spurious wake-up. Calling an operation and dropping
a future are never fair. `rwlock` also assumes that guards are dropped, `oncecell` that initializers
end. `rwlock` leaves spurious wake-ups out; the safety of what it builds on is checked with them in
`semaphore_safety`.

## Findings

* `barrier_crowd`. `release_waiters` stops at the first node of another generation
  (`src/src/barrier.rs:121`). If `n + 2` or more threads share a barrier, the leader of one generation
  may be slow, the next generation queues behind its waiters, the next leader finds a foreign head
  and pops nobody, and the first leader pops only its own: a waiter of the second generation is never
  signaled, although the documentation says all are released together. With three users of a
  barrier of two, as in `barrier`, it does not happen.
* `waker_changed`. If a queued future is polled twice between the signaler's take and its store, and
  the second time with a new waker, `register` answers `Armed` to the second `rearm` because of the
  waker that the first one left in the slot. That `rearm` returns without waking the task
  (`src/src/wait_queue.rs:384`), and the signaler wakes only the waker it has taken, an old one.
  Tasks that keep one waker are not affected (`Parking` has that case).

## Proofs

All theorems hold for arbitrary constants that satisfy the named assumptions of the modules: sets
disjoint from the null names, sizes positive, `Wrap` at least two. Two modules
assume finitely many processes: `Semaphore` (`FiniteAssumption`), because permits are summed over them,
and `SignalQueue` (`WaitersAssumption`), because a walk along the links is as long as there are nodes.

| module | what it proves |
|---|---|
| `MutexProofs` | `TypeOK`, `MutualExclusion`, `NodesAlive`, `QueueExclusive`, `NoLostWakeup`, `WordProtocol`, refinement `ImplementsFifoLock` |
| `WaitQueueProofs` | `Exclusive`, `QueuesAccounted`, `PublishedNonEmpty`, `NoneIsTrue`, refinement `ImplementsQueueLock`; of the waker slot `SlotExclusive`, `TakenWakerWoken` |
| `ParkingProofs` | the lemmas on waiting and signaling that the next four rest on |
| `OnceCellProofs` | `OneInitializer`, `SignaledMeansReady`, `NobodyStranded`, `WaitersSafe` |
| `BarrierProofs` | `CountsArrivals`, `ReleasedWhenComplete`, `WaitersSafe` |
| `SemaphoreProofs` | `TypeOK`, `PermitsConserved`, `FlagMeansLine`, `NobodyStuck`, `NoBarging`, `WaitersSafe`; `WriterAlone` of the reader-writer lock |
| `NotifyProofs` | `NotificationsConserved`, `NobodySleepsOnPermit`, `OldOnesReleased`, `FlagMeansLine`, `WaitersSafe` |
| `SignalQueueProofs` | `ChainExact`, refinement `ListIsLine` |

**Mutex.** `IInv` is an invariant (`Invariance`). Mutual exclusion alone is not
inductive: a lock handed to a popped node is owned by nobody's guard for some steps, and whether a
node may be signaled depends on who has the queue. `IInv` therefore adds where each control point
stands relative to the word (who holds the tag, who is between allocation and publication), that a
request is in a queue, at a signaler, or nowhere, and in one place only, and that pooled queues are
empty and unreachable. TLC checks the same `IInv` in `mutex_safety`. `NoLostWakeup` needs `SleepInv`
on top: a sleeper's waker is armed until a signaler takes it, the signaler therefore always finds it,
and whoever sleeps on a stored signal has a wake-up coming. The refinement to `FifoLock` maps the
owner to the process that has the lock or to the node it is being handed to, and the line to the one
queue that is not empty; that there is only one is `OneLine`, and `Mapped` says that the mapping's
choices are no choices. A step of the mutex is then a request, a cancellation, a release or handover
to the head of the line, or changes neither.

**Wait queue.** `QueueInv` is an invariant, and implies the three state properties. The danger is a
process that read the address of a queue, slept, and finds the same address in the word again after
the queue went through the pool. `QueueInv` says that a word in a transient state has exactly one
process behind it, that each allocated queue is in exactly one place (a word, a process, the pool, a
pool under construction), and that a queue that neither a word nor the owner of a lock has is empty;
what a stale copy of the address may be is left open, as the compare-exchange decides. The refinement
maps the holder to that one process and the line to the contents of the queue that the word or that
process has; steps that only move a queue between word, process and pool leave both alone. TLC checks
the same `QueueInv` in `waitqueue_safety`. For the waker slot the strengthening says that the value is
stored before the wake and never taken back.

**Waiting and signaling.** `ParkingInv` is kept by every step of `Parking` (`ParkingKeeps`) and by the
steps of a primitive that push a prepared node, pop a prefix of the line into a chain, or remove the
node of a leaver (`PushStep`, `PopStep`, `RemoveStep`, `OwnStep`), and implies `WaitersSafe`
(`InvSafe`). It says that a node is in the line, in one chain, at one signaler or nowhere; that its
owner waits and has its waker in the slot as long as the node is in line or chain; and that whoever
sleeps on a delivered signal has a wake-up or a signaler about to give it. With it a take never finds
the slot empty.

The invariant of each primitive is `ParkingInv`, what a process knows about itself (`Local`: who has
the lock, which node is prepared, what has been received), and what follows. The proofs sort the steps
by what they touch (the word, the line, the node of a request that ends, sleep), so that each conjunct
is shown once per sort.

**Once-cell.** `OnceInv` adds why a line is never abandoned (`LineInv`): while it is not empty, an
initializer is running, or the cell is ready and somebody drains it, or the cell is empty and somebody
will look at it again or carries the offer to retry. The last case is the hard one: the offer moves
from the aborter to a chain, into a Signal, from a Signal to a woken or a dropped waiter and from there
to the next in line (`ReviverGoesOn`).

**Barrier.** `BarrierInv` adds that whoever is popped, signaled, woken or leads a release is not in the
generation that is forming (`OldInv`), and that the count in the word is the number of processes that
are (`CountInv`). A withdrawal that races with the last arrival is decided by the word alone, so both
are kept together: neither is inductive without the other.

**Semaphore and reader-writer lock.** `SemInv` adds an account per process (`Account`: what it has been
granted and does not own, what it holds in its hands), what a signal promises (`Promise`), and that a
head of the line that could be served has somebody on the way to it (`StuckInv`). Between two grants of
one drain the head may be servable only because the drain goes on; `StuckInv` says so, `NobodyStuck`
is what is left when nobody drains. Sums of permits are numbers of units, pairs of a process and one
of its permits, so that the theorems on finite sets apply and no induction is needed. The lock is a
semaphore none of whose permits is ever forgotten (`RwInvariance`), so a writer has all there are.

**Notifier.** `NotifyInv` adds that the notifications owed are those that processes carry, in the
hands of a notifier, in a chain, in a Signal or received, and one for the permit (`CountInv`); that a
permit and a line exclude each other; and that old generations form a prefix of the line with a
notify_waiters on the way. A pop hands the notification from the notifier to the head of the line,
which carried none because nothing else can have popped it: this is where the count needs `ParkingInv`.

**Node list.** What is linked from a node on (`Linked`) is a recursive function of the links. The prover
has no induction over data, but it has that a set of numbers has a least element (`Least`, from the
well-foundedness of inclusion on finite sets), and that is enough: links that lead through a sequence
and end there (`Path`) make the walk go along it, because there is no least place where it leaves it
(`WalkIs`), so `Linked` is the sequence (`LinkedIs`). Each operation then has one lemma about paths
(`PathPush`, `PathPop`, `PathRemove`). `ListsInv` says that the list is a path that ends at `last`, that a
chain is a path from its cursor once it is sealed and leads into the list before, that no node is in
two of them, and that the owner of a node in any of them waits for it, so that freed memory is outside.
The unsealed chain is the hard part: its last link is a link into the list that pop left behind, and
follows `first` only because whoever pops has the queue locked.

TLC agrees with `ParkingInv`, `OnceInv`, `BarrierInv`, `SemInv`, `NotifyInv` and `ListsInv` on the instances
above.

**Only model-checked.** Everything under fairness (`mutex_progress`, and the liveness of `barrier`,
`rwlock` and `oncecell`): the prover has neither fairness nor ENABLED.

## Not modelled

* `Backoff` delays retries, the shims and the allocator glue rename things; no shared state.
* The width of the permit count, which the code keeps below its maximum by an assertion.
* The order in which the pool hands out its queues: any.
* The drop of a primitive, which has it for itself.
* Weak memory, see above.
