---------------------------- MODULE SignalQueue ----------------------------
(***************************************************************************)
(* The intrusive list behind a WaitQueue: SignalQueue of                   *)
(* src/xutex-pool/src/lib.rs, linked through the `next` fields of the      *)
(* waiters' Signals, and the PoppedChain of src/src/wait_queue.rs, which   *)
(* reuses the links of the nodes it has popped.  pop and remove leave the  *)
(* link of their node as it is, and a Signal that is gone leaves arbitrary *)
(* memory behind, in which the next one is made.                           *)
(***************************************************************************)
EXTENDS Integers, Sequences, FiniteSets

CONSTANTS
    Waiters,    \* each has room for one Signal, named after it
    Signalers,
    Nobody

ASSUME AgentsAssumption == Waiters \cap Signalers = {} /\ Nobody \notin Waiters \cup Signalers
ASSUME WaitersAssumption == IsFiniteSet(Waiters)

Agents == Waiters \cup Signalers

VARIABLES
    holder,         \* who has the queue locked
    first, last,    \* SignalQueue
    next,           \* Signal.next, or whatever is in its place
    value,          \* has the Signal been signaled?
    pc, ret,        \* ret: where to go after unlock
    cur,            \* PoppedChain.head, then the cursor of signal_all
    tail,           \* PoppedChain.last
    node,           \* the node signal_node works on
    popped          \* history: nodes popped and not signaled yet, in order

list == <<first, last>>
chainVars == <<cur, tail, node, popped>>
vars == <<holder, list, next, value, pc, ret, chainVars>>

Goto(a, to) == pc' = [pc EXCEPT ![a] = to]

Init ==
    /\ holder = Nobody
    /\ first = Nobody /\ last = Nobody
    /\ next = [n \in Waiters |-> Nobody]
    /\ value = [n \in Waiters |-> FALSE]
    /\ pc = [a \in Agents |-> "idle"]
    /\ ret = [a \in Agents |-> "idle"]
    /\ cur = [s \in Signalers |-> Nobody]
    /\ tail = [s \in Signalers |-> Nobody]
    /\ node = [s \in Signalers |-> Nobody]
    /\ popped = [s \in Signalers |-> <<>>]

-----------------------------------------------------------------------------
(* The lock of the WaitQueue, which shows no queue when the list is empty. *)
Lock(a, to) == holder = Nobody /\ holder' = a /\ Goto(a, to)

ThenUnlock(a, to) == ret' = [ret EXCEPT ![a] = to] /\ Goto(a, "unlock")

Unlock(a) ==
    /\ pc[a] = "unlock"
    /\ holder' = Nobody
    /\ Goto(a, ret[a])
    /\ ret' = [ret EXCEPT ![a] = "idle"]
    /\ UNCHANGED <<list, next, value, chainVars>>

-----------------------------------------------------------------------------
(* Waiters.                                                                *)

(* Signal::new_none, Signal::new_sync. *)
New(n) ==
    /\ pc[n] = "idle"
    /\ next' = [next EXCEPT ![n] = Nobody]
    /\ value' = [value EXCEPT ![n] = FALSE]
    /\ Goto(n, "enqueue")
    /\ UNCHANGED <<holder, list, ret, chainVars>>

Enqueue(n) ==
    /\ pc[n] = "enqueue"
    /\ Lock(n, "push")
    /\ UNCHANGED <<list, next, value, ret, chainVars>>

(* push. *)
Push(n) ==
    /\ pc[n] = "push"
    /\ last' = n
    /\ IF last # Nobody THEN next' = [next EXCEPT ![last] = n] /\ UNCHANGED first
                        ELSE first' = n /\ UNCHANGED next
    /\ ThenUnlock(n, "queued")
    /\ UNCHANGED <<holder, value, chainVars>>

(* A pending future is dropped. *)
Leave(n) ==
    /\ pc[n] = "queued" /\ ~value[n]
    /\ \/ first # Nobody /\ Lock(n, "remove")
       \/ first = Nobody /\ holder = Nobody /\ Goto(n, "await") /\ UNCHANGED holder
    /\ UNCHANGED <<list, next, value, ret, chainVars>>

(* The nodes on the way from `from` along the links nx; a cycle shows as one *)
(* node too many.                                                           *)
Walk(nx, from) ==
    LET nth[i \in 0 .. Cardinality(Waiters)] ==
            IF i = 0 THEN from
            ELSE IF nth[i - 1] = Nobody THEN Nobody ELSE nx[nth[i - 1]]
    IN  nth

LinkedBy(nx, from) ==
    LET nth == Walk(nx, from)
        length == Cardinality({i \in DOMAIN nth : nth[i] # Nobody})
    IN  [i \in 1 .. length |-> nth[i - 1]]

Linked(from) == LinkedBy(next, from)

(* What the walk in remove finds before n. *)
Prev(n) ==
    LET s == Linked(first)
        i == CHOOSE i \in DOMAIN s : s[i] = n
    IN  IF i = 1 THEN Nobody ELSE s[i - 1]

(* Mutant: last is left where it was. *)
RemoveKeepsLast(n) ==
    /\ pc[n] = "remove"
    /\ IF \E i \in DOMAIN Linked(first) : Linked(first)[i] = n
       THEN /\ IF Prev(n) # Nobody
               THEN next' = [next EXCEPT ![Prev(n)] = next[n]] /\ UNCHANGED first
               ELSE first' = next[n] /\ UNCHANGED next
            /\ last' = IF first' = Nobody THEN Nobody ELSE last
            /\ ThenUnlock(n, "done")
       ELSE ThenUnlock(n, "await") /\ UNCHANGED <<list, next>>
    /\ UNCHANGED <<holder, value, chainVars>>

(* remove. *)
Remove(n) ==
    /\ pc[n] = "remove"
    /\ IF \E i \in DOMAIN Linked(first) : Linked(first)[i] = n
       THEN /\ IF Prev(n) # Nobody
               THEN next' = [next EXCEPT ![Prev(n)] = next[n]] /\ UNCHANGED first
               ELSE first' = next[n] /\ UNCHANGED next
            /\ last' = IF last = n THEN Prev(n) ELSE last
            /\ ThenUnlock(n, "done")
       ELSE ThenUnlock(n, "await") /\ UNCHANGED <<list, next>>
    /\ UNCHANGED <<holder, value, chainVars>>

(* The wait is over and the memory of its Signal put to other use. *)
Free(n) ==
    /\ pc[n] = "done" \/ (pc[n] \in {"queued", "await"} /\ value[n])
    /\ \E garbage \in Waiters \cup {Nobody} : next' = [next EXCEPT ![n] = garbage]
    /\ Goto(n, "idle")
    /\ UNCHANGED <<holder, list, value, ret, chainVars>>

(* Signal::reset: a once-cell waiter that was told to retry queues again. *)
Reset(n) ==
    /\ pc[n] = "queued" /\ value[n]
    /\ next' = [next EXCEPT ![n] = Nobody]
    /\ value' = [value EXCEPT ![n] = FALSE]
    /\ Goto(n, "enqueue")
    /\ UNCHANGED <<holder, list, ret, chainVars>>

-----------------------------------------------------------------------------
(* Signalers.                                                              *)

LockQueue(s) ==
    /\ pc[s] = "idle" /\ first # Nobody
    /\ Lock(s, "pop")
    /\ UNCHANGED <<list, next, value, ret, chainVars>>

(* pop. *)
Pop(s) ==
    /\ pc[s] = "pop" /\ first # Nobody
    /\ first' = next[first]
    /\ last' = IF next[first] = Nobody THEN Nobody ELSE last
    /\ popped' = [popped EXCEPT ![s] = Append(@, first)]

(* A single node, signaled without a chain. *)
PopOne(s) ==
    /\ tail[s] = Nobody
    /\ Pop(s)
    /\ node' = [node EXCEPT ![s] = first]
    /\ ThenUnlock(s, "signal")
    /\ UNCHANGED <<holder, next, value, cur, tail>>

(* PoppedChain::append. *)
PopAppend(s) ==
    /\ Pop(s)
    /\ cur' = [cur EXCEPT ![s] = IF @ = Nobody THEN first ELSE @]
    /\ tail' = [tail EXCEPT ![s] = first]
    /\ UNCHANGED <<holder, next, value, pc, ret, node>>

(* Mutant: the link to the node still queued is not cut. *)
SealForgets(s) ==
    /\ pc[s] = "pop"
    /\ tail' = [tail EXCEPT ![s] = Nobody]
    /\ ThenUnlock(s, "walk")
    /\ UNCHANGED <<holder, list, next, value, cur, node, popped>>

(* PoppedChain::seal. *)
Seal(s) ==
    /\ pc[s] = "pop"
    /\ next' = IF tail[s] = Nobody THEN next ELSE [next EXCEPT ![tail[s]] = Nobody]
    /\ tail' = [tail EXCEPT ![s] = Nobody]
    /\ ThenUnlock(s, "walk")
    /\ UNCHANGED <<holder, list, value, cur, node, popped>>

(* signal_all: the link is read first... *)
SignalAll(s) ==
    /\ pc[s] = "walk"
    /\ IF cur[s] = Nobody
       THEN Goto(s, "idle") /\ UNCHANGED <<cur, node>>
       ELSE /\ node' = [node EXCEPT ![s] = cur[s]]
            /\ cur' = [cur EXCEPT ![s] = next[cur[s]]]
            /\ Goto(s, "signal")
    /\ UNCHANGED <<holder, list, next, value, ret, tail, popped>>

(* ... then the node is signaled and no longer touched. *)
SignalNode(s) ==
    /\ pc[s] = "signal"
    /\ value' = [value EXCEPT ![node[s]] = TRUE]
    /\ node' = [node EXCEPT ![s] = Nobody]
    /\ popped' = [popped EXCEPT ![s] = Tail(@)]
    /\ Goto(s, "walk")
    /\ UNCHANGED <<holder, list, next, ret, cur, tail>>

-----------------------------------------------------------------------------
Next ==
    \/ \E a \in Agents : Unlock(a)
    \/ \E n \in Waiters :
          New(n) \/ Enqueue(n) \/ Push(n) \/ Leave(n) \/ Remove(n) \/ Free(n) \/ Reset(n)
    \/ \E s \in Signalers :
          \/ LockQueue(s) \/ PopOne(s) \/ PopAppend(s) \/ Seal(s)
          \/ SignalAll(s) \/ SignalNode(s)

Spec == Init /\ [][Next]_vars

-----------------------------------------------------------------------------
Line == INSTANCE QueueLock WITH Procs <- Agents, NoProc <- Nobody, line <- Linked(first)

(* The linked nodes are the FIFO line the primitives rely on: push appends, *)
(* pop takes the front, remove takes its node out of any place, and stale   *)
(* links or last pointers never join or lose a node (push, pop, remove).    *)
ListIsLine == Line!QueueSpec

(* Where a waiter's Signal is published. *)
Alive(n) == pc[n] \in {"queued", "remove", "await", "unlock"}

(* What is left of a sealed chain is exactly what was popped and not yet    *)
(* signaled, in order: signal_all overlooks no waiter and follows no link   *)
(* into the queue, into another chain or into a Signal that is gone.        *)
ChainExact ==
    \A s \in Signalers :
        /\ pc[s] \in {"walk", "signal"} =>
              popped[s] = (IF node[s] = Nobody THEN <<>> ELSE <<node[s]>>) \o Linked(cur[s])
        /\ \A i \in DOMAIN popped[s] : Alive(popped[s][i]) /\ ~value[popped[s][i]]
=============================================================================
