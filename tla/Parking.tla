------------------------------ MODULE Parking ------------------------------
(***************************************************************************)
(* How processes wait on a WaitQueue and are signaled: the Signal node of  *)
(* each process, the ways of a thread and of a task to sleep on it, and    *)
(* the steps of signal_node over a PoppedChain (src/src/wait_queue.rs).    *)
(* The barrier, the semaphore, the notifier and the once-cell add their    *)
(* state word to it.  A node is named by the process that owns it, and a   *)
(* task is always polled with the same waker.  The parts of a primitive    *)
(* meet at these control points:                                           *)
(*    swap, pending   the node is queued: go to sleep on it                *)
(*    woken           a signal has been received, its value is in seen     *)
(*    leave           a task drops its future while the node may be queued *)
(*    remove          leave has locked the queue                           *)
(*    awaited         the signal that overtook leave is in seen            *)
(*    unlock          unlock the queue and continue at ret, where "signal" *)
(*                    stands for signaling the nodes in chain with sent    *)
(***************************************************************************)
EXTENDS QueueLock

CONSTANT Threads    \* processes that block; the others are tasks that poll

ASSUME ProcsAssumption == Threads \subseteq Procs /\ NoProc \notin Procs

VARIABLES
    pc,
    value,      \* Signal.value of each process's current request
    slot,       \* is the DynamicWaker of that Signal armed?
    awake,      \* park token of a thread, wake-up of a task, not yet consumed
    seen,       \* the signal a waiter has received
    ret,        \* where a process continues after unlock
    chain,      \* PoppedChain: nodes popped and still to be signaled
    sent,       \* the value they are signaled with
    node        \* the node that signal_node works on

nodeVars == <<value, slot, awake, seen>>
signalVars == <<chain, sent, node>>
pvars == <<qvars, pc, nodeVars, ret, signalVars>>

Tasks == Procs \ Threads

Signals == {"uninit", "waiting", "signaled", "all", "closed", "retry"}

(* value >= SIGNAL_SIGNALED *)
Delivered(v) == v \in {"signaled", "all", "closed", "retry"}

Goto(p, to) == pc' = [pc EXCEPT ![p] = to]

ParkingInit ==
    /\ QueueInit
    /\ pc = [p \in Procs |-> "idle"]
    /\ value = [p \in Procs |-> "uninit"]
    /\ slot = [p \in Procs |-> FALSE]
    /\ awake = [p \in Procs |-> FALSE]
    /\ seen = [p \in Procs |-> "uninit"]
    /\ ret = [p \in Procs |-> "idle"]
    /\ chain = [p \in Procs |-> <<>>]
    /\ sent = [p \in Procs |-> "uninit"]
    /\ node = [p \in Procs |-> NoProc]

(* Signal::new_sync, or the preparation of a future's entry before the push. *)
PrepareNode(p) ==
    /\ value' = [value EXCEPT ![p] = IF p \in Tasks THEN "waiting" ELSE "uninit"]
    /\ slot' = [slot EXCEPT ![p] = TRUE]
    /\ UNCHANGED <<awake, seen>>

(* The request is over and its Signal gone. *)
FreeNode(p) ==
    /\ value' = [value EXCEPT ![p] = "uninit"]
    /\ slot' = [slot EXCEPT ![p] = FALSE]
    /\ seen' = [seen EXCEPT ![p] = "uninit"]
    /\ UNCHANGED awake

(* Read the value; only a delivered one matters. *)
Receive(p) == seen' = [seen EXCEPT ![p] = IF Delivered(value[p]) THEN value[p] ELSE @]

-----------------------------------------------------------------------------
(* Asleep.                                                                 *)

(* A thread announces itself: from now on a signaler unparks it. *)
Swap(p) ==
    /\ pc[p] = "swap"
    /\ Receive(p)
    /\ value' = [value EXCEPT ![p] = "waiting"]
    /\ Goto(p, IF Delivered(value[p]) THEN "woken" ELSE "park")
    /\ UNCHANGED <<qvars, slot, awake, ret, signalVars>>

(* park() returns, with the token or spuriously. *)
ParkReturn(p) ==
    /\ pc[p] = "park"
    /\ awake' = [awake EXCEPT ![p] = FALSE]
    /\ Goto(p, "check")
    /\ UNCHANGED <<qvars, value, slot, seen, ret, signalVars>>

CheckSignal(p) ==
    /\ pc[p] = "check"
    /\ Receive(p)
    /\ Goto(p, IF Delivered(value[p]) THEN "woken" ELSE "park")
    /\ UNCHANGED <<qvars, value, slot, awake, ret, signalVars>>

(* poll of a queued future, woken or not: the signal is there, or rearm. *)
Poll(p) ==
    /\ pc[p] = "pending"
    /\ awake' = [awake EXCEPT ![p] = FALSE]
    /\ Receive(p)
    /\ Goto(p, IF Delivered(value[p]) THEN "woken" ELSE "rearm")
    /\ UNCHANGED <<qvars, value, slot, ret, signalVars>>

(* rearm: DynamicWaker::register, Armed or WasEmpty. *)
Rearm(p) ==
    /\ pc[p] = "rearm"
    /\ slot' = [slot EXCEPT ![p] = TRUE]
    /\ Goto(p, IF slot[p] THEN "pending" ELSE "reload")
    /\ UNCHANGED <<qvars, value, awake, seen, ret, signalVars>>

(* rearm, slot found empty: take the signal if it landed, else wake itself. *)
Reload(p) ==
    /\ pc[p] = "reload"
    /\ Receive(p)
    /\ awake' = [awake EXCEPT ![p] = @ \/ ~Delivered(value[p])]
    /\ Goto(p, IF Delivered(value[p]) THEN "woken" ELSE "pending")
    /\ UNCHANGED <<qvars, value, slot, ret, signalVars>>

(* A dropped future looks for its node in the queue. *)
Leave(p) ==
    /\ pc[p] = "leave"
    /\ \/ LockExisting(p) /\ Goto(p, "remove")
       \/ NobodyInLine /\ Goto(p, "await") /\ UNCHANGED qvars
    /\ UNCHANGED <<nodeVars, ret, signalVars>>

(* It was popped: spin until the signal in flight arrives. *)
AwaitSignal(p) ==
    /\ pc[p] = "await" /\ Delivered(value[p])
    /\ Receive(p)
    /\ Goto(p, "awaited")
    /\ UNCHANGED <<qvars, value, slot, awake, ret, signalVars>>

-----------------------------------------------------------------------------
(* signal_all: nodes are signaled front to back, each link read before its  *)
(* node is signaled.                                                        *)

(* The next node of the chain, if any. *)
SignalNext(p) ==
    LET done == chain[p] = <<>>
    IN  /\ Goto(p, IF done THEN "idle" ELSE "take")
        /\ sent' = [sent EXCEPT ![p] = IF done THEN "uninit" ELSE @]

(* LockedQueue::unlock. *)
ThenUnlock(p, to) ==
    /\ ret' = [ret EXCEPT ![p] = to]
    /\ Goto(p, "unlock")

Unlock(p) ==
    /\ pc[p] = "unlock"
    /\ UnlockQueue(p)
    /\ IF ret[p] = "signal" THEN SignalNext(p) ELSE Goto(p, ret[p]) /\ UNCHANGED sent
    /\ ret' = [ret EXCEPT ![p] = "idle"]
    /\ UNCHANGED <<nodeVars, chain, node>>

(* Mutant: the waiter is woken before the value is stored. *)
TakeWakerAndWake(p) ==
    /\ pc[p] = "take"
    /\ node' = [node EXCEPT ![p] = Head(chain[p])]
    /\ chain' = [chain EXCEPT ![p] = Tail(@)]
    /\ slot' = [slot EXCEPT ![Head(chain[p])] = FALSE]
    /\ awake' = [awake EXCEPT ![Head(chain[p])] = @ \/ slot[Head(chain[p])]]
    /\ Goto(p, "store")
    /\ UNCHANGED <<qvars, value, seen, ret, sent>>

TakeWaker(p) ==
    /\ pc[p] = "take"
    /\ node' = [node EXCEPT ![p] = Head(chain[p])]
    /\ chain' = [chain EXCEPT ![p] = Tail(@)]
    /\ slot' = [slot EXCEPT ![Head(chain[p])] = FALSE]
    /\ Goto(p, IF slot[Head(chain[p])] THEN "storeWake" ELSE "store")
    /\ UNCHANGED <<qvars, value, awake, seen, ret, sent>>

(* The last access to the node.  A thread is unparked only if it had        *)
(* announced itself, a task whenever it had a waker.                        *)
StoreSignal(p) ==
    /\ pc[p] \in {"store", "storeWake"}
    /\ value' = [value EXCEPT ![node[p]] = sent[p]]
    /\ IF pc[p] = "storeWake" /\ (node[p] \in Threads => value[node[p]] = "waiting")
       THEN Goto(p, "wake") /\ UNCHANGED <<node, sent>>
       ELSE SignalNext(p) /\ node' = [node EXCEPT ![p] = NoProc]
    /\ UNCHANGED <<qvars, slot, awake, seen, ret, chain>>

Wake(p) ==
    /\ pc[p] = "wake"
    /\ awake' = [awake EXCEPT ![node[p]] = TRUE]
    /\ node' = [node EXCEPT ![p] = NoProc]
    /\ SignalNext(p)
    /\ UNCHANGED <<qvars, value, slot, seen, ret, chain>>

(* The steps a scheduled process takes by itself, and those it may take     *)
(* without reason: a spurious return of park, an unsolicited poll.          *)
ParkingStep(p) ==
    \/ Swap(p) \/ CheckSignal(p) \/ Rearm(p) \/ Reload(p)
    \/ Leave(p) \/ AwaitSignal(p) \/ Unlock(p)
    \/ TakeWaker(p) \/ StoreSignal(p) \/ Wake(p)

Rouse(p) == ParkReturn(p) \/ Poll(p)

-----------------------------------------------------------------------------
(* Properties every primitive inherits.                                    *)

(* Where a process is, or will be once it has unlocked the queue. *)
At(p) == IF pc[p] \in {"clear", "unlock"} THEN ret[p] ELSE pc[p]

(* The process has published its Signal and still relies on it. *)
Parked(p) ==
    At(p) \in {"swap", "park", "check", "pending", "rearm", "reload",
              "withdraw", "leave", "remove", "await"}

ParkingTypeOK ==
    /\ holder \in Procs \cup {NoProc} /\ line \in Seq(Procs)
    /\ value \in [Procs -> Signals] /\ seen \in [Procs -> Signals]
    /\ slot \in [Procs -> BOOLEAN] /\ awake \in [Procs -> BOOLEAN]
    /\ chain \in [Procs -> Seq(Procs)] /\ sent \in [Procs -> Signals]
    /\ node \in [Procs -> Procs \cup {NoProc}]

(* Every node the queue, a chain or a signaler can still reach belongs to a *)
(* request that is still parked on it, at one place only.                   *)
NodesAlive ==
    /\ \A i \in 1 .. Len(line) : Parked(line[i])
    /\ \A p \in Procs : \A i \in 1 .. Len(chain[p]) :
          Parked(chain[p][i]) /\ Position(chain[p][i]) = {}
    /\ \A p \in Procs : pc[p] \in {"store", "storeWake"} =>
          Parked(node[p]) /\ Position(node[p]) = {} /\ ~Delivered(value[node[p]])

(* A sleeping waiter whose signal has been stored has its token, or its     *)
(* signaler is about to leave it.                                           *)
NoLostWakeup ==
    \A p \in Procs :
        pc[p] \in {"park", "pending"} /\ Delivered(value[p]) =>
            awake[p] \/ \E r \in Procs : pc[r] = "wake" /\ node[r] = p

(* Signaling is safe for the waiters: it never touches a Signal that has    *)
(* been freed, signals none twice (PoppedChain and signal_node against the  *)
(* drop of futures), and wakes whoever sleeps on its signal (take, store    *)
(* and wake against the swap before park and against rearm).                *)
WaitersSafe == ParkingTypeOK /\ NodesAlive /\ NoLostWakeup
=============================================================================
