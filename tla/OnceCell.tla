------------------------------ MODULE OnceCell ------------------------------
(***************************************************************************)
(* OnceCell and AsyncOnceCell (src/src/once_cell.rs): callers race to      *)
(* become the initializer, the others wait in line; an initializer that    *)
(* fails, panics or is dropped hands its role to one waiter.  The value is *)
(* represented by the process whose initializer produced it.               *)
(***************************************************************************)
EXTENDS Parking

VARIABLES
    state,      \* OnceCore.state
    content     \* OnceCellInternal.value; NoProc: not initialized

ovars == <<state, content>>
vars == <<pvars, ovars>>

(* new, or new_with a value. *)
Init ==
    /\ ParkingInit
    /\ \/ state = "empty" /\ content = NoProc
       \/ state = "ready" /\ content \in Procs

-----------------------------------------------------------------------------
(* get_or_init, get_or_try_init and set.                                   *)

Get(p) ==
    /\ pc[p] = "idle"
    /\ Goto(p, "inspect")
    /\ UNCHANGED <<qvars, nodeVars, ret, signalVars, ovars>>

(* Mutant: nobody takes the role before those who are in line. *)
InspectPolite(p) ==
    /\ pc[p] = "inspect"
    /\ LET to == CASE state = "ready" -> "idle"
                   [] state = "empty" /\ line = <<>> -> "begin"
                   [] OTHER -> "enqueue"
       IN  Goto(p, to) /\ IF to = "enqueue" THEN PrepareNode(p) ELSE UNCHANGED nodeVars
    /\ UNCHANGED <<qvars, ret, signalVars, ovars>>

(* The head of both retry loops. *)
Inspect(p) ==
    /\ pc[p] = "inspect"
    /\ Goto(p, CASE state = "ready" -> "idle"
                 [] state = "empty" -> "begin"
                 [] state = "running" -> "enqueue")
    /\ IF state = "running" THEN PrepareNode(p) ELSE UNCHANGED nodeVars
    /\ UNCHANGED <<qvars, ret, signalVars, ovars>>

(* Mutant: the role is taken on the strength of the earlier load. *)
BeginBlind(p) ==
    /\ pc[p] = "begin"
    /\ state' = "running"
    /\ Goto(p, "init")
    /\ UNCHANGED <<qvars, nodeVars, ret, signalVars, content>>

(* try_begin_init. *)
Begin(p) ==
    /\ pc[p] = "begin"
    /\ IF state = "empty"
       THEN state' = "running" /\ Goto(p, "init")
       ELSE Goto(p, "inspect") /\ UNCHANGED state
    /\ UNCHANGED <<qvars, nodeVars, ret, signalVars, content>>

(* set does not wait: it becomes the initializer or fails. *)
Set(p) ==
    /\ pc[p] = "idle" /\ state = "empty"
    /\ state' = "running"
    /\ Goto(p, "write")
    /\ UNCHANGED <<qvars, nodeVars, ret, signalVars, content>>

(* The initializer returns a value; or an error, panics, or is dropped with *)
(* its future.                                                              *)
Initialize(p) ==
    /\ pc[p] = "init"
    /\ Goto(p, "write") \/ Goto(p, "abort")
    /\ UNCHANGED <<qvars, nodeVars, ret, signalVars, ovars>>

(* write_and_complete. *)
Write(p) ==
    /\ pc[p] = "write"
    /\ content' = p
    /\ Goto(p, "complete")
    /\ UNCHANGED <<qvars, nodeVars, ret, signalVars, state>>

Complete(p) ==
    /\ pc[p] = "complete"
    /\ state' = "ready"
    /\ Goto(p, "drainLock")
    /\ UNCHANGED <<qvars, nodeVars, ret, signalVars, content>>

Abort(p) ==
    /\ pc[p] = "abort"
    /\ state' = "empty"
    /\ Goto(p, "retryLock")
    /\ UNCHANGED <<qvars, nodeVars, ret, signalVars, content>>

(* complete and wake_one_retry look for waiters. *)
LockLine(p) ==
    /\ pc[p] \in {"drainLock", "retryLock"}
    /\ \/ LockExisting(p) /\ Goto(p, IF pc[p] = "drainLock" THEN "drain" ELSE "retry")
       \/ NobodyInLine /\ Goto(p, "idle") /\ UNCHANGED qvars
    /\ UNCHANGED <<nodeVars, ret, signalVars, ovars>>

PopAndSignal(p, k, signal) ==
    /\ chain' = [chain EXCEPT ![p] = SubSeq(line, 1, k)]
    /\ sent' = [sent EXCEPT ![p] = signal]
    /\ PopNodes(p, k)
    /\ ThenUnlock(p, "signal")
    /\ UNCHANGED <<holder, nodeVars, node, ovars>>

(* Mutant: the waiters of a failed initializer are told it succeeded. *)
RetryAsSignaled(p) == pc[p] = "retry" /\ PopAndSignal(p, 1, "signaled")

Drain(p) == pc[p] = "drain" /\ PopAndSignal(p, Len(line), "signaled")

Retry(p) == pc[p] = "retry" /\ PopAndSignal(p, 1, "retry")

-----------------------------------------------------------------------------
(* Waiting.                                                                *)

(* enqueue_or_state. *)
Enqueue(p) ==
    /\ pc[p] = "enqueue"
    /\ LockQueue(p)
    /\ Goto(p, "fresh")
    /\ UNCHANGED <<nodeVars, ret, signalVars, ovars>>

Push(p) ==
    /\ PushNode(p, p)
    /\ ThenUnlock(p, IF p \in Threads THEN "swap" ELSE "pending")
    /\ UNCHANGED nodeVars

(* Mutant: the state is not read again under the lock. *)
FreshStale(p) ==
    /\ pc[p] = "fresh"
    /\ Push(p)
    /\ UNCHANGED <<holder, signalVars, ovars>>

(* fetch_add(0): park only while the initializer is still running. *)
Fresh(p) ==
    /\ pc[p] = "fresh"
    /\ IF state = "running"
       THEN Push(p)
       ELSE FreeNode(p) /\ ThenUnlock(p, "inspect") /\ UNCHANGED line
    /\ UNCHANGED <<holder, signalVars, ovars>>

(* A thread reads the state again in any case, a task trusts SIGNALED. *)
Finish(p) ==
    /\ pc[p] = "woken"
    /\ Goto(p, IF p \in Tasks /\ seen[p] = "signaled" THEN "idle" ELSE "inspect")
    /\ FreeNode(p)
    /\ UNCHANGED <<qvars, ret, signalVars, ovars>>

(* Drop of a waiting future: a role it was offered is passed on. *)
Drop(p) ==
    /\ pc[p] = "pending"
    /\ IF value[p] = "waiting"
       THEN Goto(p, "leave") /\ UNCHANGED nodeVars
       ELSE Goto(p, IF value[p] = "retry" THEN "retryLock" ELSE "idle") /\ FreeNode(p)
    /\ UNCHANGED <<qvars, ret, signalVars, ovars>>

(* Mutant: a node that is no longer queued is taken for a removed one. *)
RemoveBlind(p) ==
    /\ pc[p] = "remove"
    /\ RemoveNode(p, p)
    /\ ThenUnlock(p, "removed")
    /\ UNCHANGED <<holder, nodeVars, signalVars, ovars>>

(* cancel_wait. *)
Remove(p) ==
    /\ pc[p] = "remove"
    /\ RemoveNode(p, p)
    /\ ThenUnlock(p, IF Position(p) = {} THEN "await" ELSE "removed")
    /\ UNCHANGED <<holder, nodeVars, signalVars, ovars>>

(* Mutant: the role that overtook the drop is not passed on. *)
ReturnLoses(p) ==
    /\ pc[p] \in {"removed", "awaited"}
    /\ Goto(p, "idle")
    /\ FreeNode(p)
    /\ UNCHANGED <<qvars, ret, signalVars, ovars>>

Return(p) ==
    /\ pc[p] \in {"removed", "awaited"}
    /\ Goto(p, IF seen[p] = "retry" THEN "retryLock" ELSE "idle")
    /\ FreeNode(p)
    /\ UNCHANGED <<qvars, ret, signalVars, ovars>>

-----------------------------------------------------------------------------
(* take needs the cell for itself. *)
Take ==
    /\ state = "ready" /\ \A p \in Procs : pc[p] = "idle"
    /\ state' = "empty" /\ content' = NoProc
    /\ UNCHANGED pvars

Step(p) ==
    \/ Inspect(p) \/ Begin(p) \/ Initialize(p) \/ Write(p) \/ Complete(p) \/ Abort(p)
    \/ LockLine(p) \/ Drain(p) \/ Retry(p) \/ Enqueue(p) \/ Fresh(p)
    \/ Finish(p) \/ Remove(p) \/ Return(p)
    \/ ParkingStep(p) /\ UNCHANGED ovars

Next ==
    \/ \E p \in Procs : \/ Get(p) \/ Set(p) \/ Drop(p) \/ Step(p)
                        \/ Rouse(p) /\ UNCHANGED ovars
    \/ Take

Spec == Init /\ [][Next]_vars

Woken(p) == awake[p] /\ Rouse(p) /\ UNCHANGED ovars

(* Calls that have begun go on, initializers end, and woken waiters run.    *)
FairSpec ==
    /\ Spec
    /\ \A p \in Procs : SF_vars(Step(p) \/ Woken(p))

-----------------------------------------------------------------------------
Initializing(p) == pc[p] \in {"init", "write", "complete", "abort"}

(* RUNNING is held by exactly one initializer, and the slot is written by   *)
(* nobody else (try_begin_init against complete, abort and take).           *)
OneInitializer ==
    /\ state = "running" <=> \E p \in Procs : Initializing(p)
    /\ \A p, q \in Procs : Initializing(p) /\ Initializing(q) => p = q

(* Whoever is told that the value is there finds it there: a task that      *)
(* gets SIGNALED does not look at the state again (poll_wait).              *)
SignaledMeansReady ==
    /\ state = "ready" => content # NoProc
    /\ \A p \in Procs : "signaled" \in {value[p], seen[p], sent[p]} => state = "ready"

(* p will look at the state or wake the head of the line. *)
OnTheWay(p) ==
    \/ At(p) \in {"retryLock", "retry", "drainLock", "drain", "inspect", "begin", "enqueue",
                  "fresh", "signal", "awaited", "woken"}
    \/ chain[p] # <<>> \/ node[p] # NoProc
    \/ Delivered(value[p])

(* Nobody waits for an initializer that is gone: if none is running, a      *)
(* waiter has been chosen to take over, or somebody is about to choose one  *)
(* (abort, wake_one_retry and cancel_wait against enqueue_or_state).        *)
NobodyStranded ==
    line # <<>> => state = "running" \/ \E p \in Procs : OnTheWay(p)

(* An empty cell with a waiter gets a new initializer sooner or later, or   *)
(* the waiter gives up.                                                     *)
RoleTakenOver ==
    \A p \in Procs : state = "empty" /\ Parked(p) ~> state # "empty" \/ ~Parked(p)

=============================================================================
