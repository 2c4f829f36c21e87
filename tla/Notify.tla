------------------------------- MODULE Notify -------------------------------
(***************************************************************************)
(* Notify and AsyncNotify (src/src/notify.rs).  The state word holds       *)
(* HAS_QUEUE, the stored permit and the notify_waiters generation; every   *)
(* compare-exchange loop on it is one step.  Generations are only ever     *)
(* compared for equality, so the model keeps how far each wait is behind   *)
(* the current one, modulo the number after which the generation wraps.    *)
(* The number of calls is not bounded.                                     *)
(***************************************************************************)
EXTENDS FlaggedQueue, FiniteSets

CONSTANT Wrap   \* the number of generations the word can tell apart

ASSUME WrapAssumption == Wrap \in Nat /\ Wrap > 1

VARIABLES
    permit,     \* NotifyCore.state, with hasQueue
    behind,     \* how many generations ago captured_gen, or Signal.aux, was
                \* the generation in the state (mod Wrap)
    owed        \* history: calls of notify_one that were neither absorbed nor
                \* have completed a wait

others == <<permit, behind, owed>>
nvars == <<hasQueue, others>>
vars == <<pvars, nvars>>

Init ==
    /\ ParkingInit
    /\ hasQueue = FALSE /\ permit = FALSE
    /\ behind = [p \in Procs |-> 0]
    /\ owed = 0

-----------------------------------------------------------------------------
(* Waiting.                                                                *)

(* The generation in the state is still the one the wait captured. *)
InCurrent(p) == behind[p] = 0

(* wait, or notified(). *)
Wait(p) ==
    /\ pc[p] = "idle"
    /\ behind' = [behind EXCEPT ![p] = 0]
    /\ Goto(p, "armed")
    /\ UNCHANGED <<qvars, nodeVars, ret, signalVars, hasQueue, permit, owed>>

(* A generation that has advanced completes the wait, a permit is used up. *)
Complete(p) ==
    \/ ~InCurrent(p) /\ UNCHANGED <<permit, owed>>
    \/ InCurrent(p) /\ permit /\ permit' = FALSE /\ owed' = owed - 1

(* try_complete; a future that fails it is polled slowly and tries again. *)
TryComplete(p) ==
    /\ pc[p] \in {"armed", "again"}
    /\ \/ Complete(p) /\ Goto(p, "idle") /\ UNCHANGED nodeVars
       \/ /\ InCurrent(p) /\ ~permit
          /\ IF pc[p] = "armed" /\ p \in Tasks
             THEN Goto(p, "again") /\ UNCHANGED nodeVars
             ELSE Goto(p, "enqueue") /\ PrepareNode(p)
          /\ UNCHANGED <<permit, owed>>
    /\ UNCHANGED <<qvars, ret, signalVars, hasQueue, behind>>

(* A future is dropped before its first poll. *)
Disarm(p) ==
    /\ pc[p] = "armed" /\ p \in Tasks
    /\ Goto(p, "idle")
    /\ UNCHANGED <<qvars, nodeVars, ret, signalVars, nvars>>

(* enqueue_or_complete. *)
Enqueue(p) ==
    /\ pc[p] = "enqueue"
    /\ LockQueue(p)
    /\ Goto(p, "flag")
    /\ UNCHANGED <<nodeVars, ret, signalVars, nvars>>

Finished(p) == Complete(p) /\ FreeNode(p) /\ UNCHANGED line /\ ThenClear(p, "idle")

Push(p) ==
    /\ InCurrent(p) /\ ~permit
    /\ PushNode(p, p)
    /\ ThenClear(p, IF p \in Threads THEN "swap" ELSE "pending")
    /\ UNCHANGED <<nodeVars, permit, owed>>

(* Mutant: a permit stored since try_complete is overlooked. *)
FlagBlind(p) ==
    /\ pc[p] = "flag"
    /\ hasQueue' = TRUE
    /\ \/ ~InCurrent(p) /\ Finished(p)
       \/ /\ InCurrent(p)
          /\ PushNode(p, p)
          /\ ThenClear(p, IF p \in Threads THEN "swap" ELSE "pending")
          /\ UNCHANGED <<nodeVars, permit, owed>>
    /\ UNCHANGED <<holder, signalVars, behind>>

(* fetch_or(HAS_QUEUE): the flag is set and the word read in one step. *)
Flag(p) ==
    /\ pc[p] = "flag"
    /\ hasQueue' = TRUE
    /\ \/ ~InCurrent(p) /\ Finished(p)
       \/ Push(p)
       \/ /\ InCurrent(p) /\ permit
          /\ Goto(p, "grab")
          /\ UNCHANGED <<line, nodeVars, ret, permit, owed>>
    /\ UNCHANGED <<holder, signalVars, behind>>

(* The compare-exchange that uses up the permit, or what its failures       *)
(* lead to.                                                                 *)
Grab(p) ==
    /\ pc[p] = "grab"
    /\ Finished(p) \/ Push(p)
    /\ UNCHANGED <<holder, signalVars, hasQueue, behind>>

-----------------------------------------------------------------------------
(* Notifying.                                                              *)

(* What notify_one decides from the word: look for a waiter, or store the   *)
(* permit, which absorbs further notifications.                             *)
Store(p) ==
    IF hasQueue
    THEN Goto(p, "notifyLock") /\ UNCHANGED <<permit, owed>>
    ELSE /\ owed' = IF permit THEN owed - 1 ELSE owed
         /\ permit' = TRUE
         /\ Goto(p, "idle")

NotifyOne(p) ==
    /\ pc[p] = "idle"
    /\ owed' = owed + 1
    /\ Goto(p, "notify")
    /\ UNCHANGED <<qvars, nodeVars, ret, signalVars, hasQueue, permit, behind>>

Notify(p) ==
    /\ pc[p] = "notify"
    /\ Store(p)
    /\ UNCHANGED <<qvars, nodeVars, ret, signalVars, hasQueue, behind>>

(* notify_one_slow: a flag that turns out stale is read again. *)
NotifyLock(p) ==
    /\ pc[p] = "notifyLock"
    /\ \/ LockExisting(p) /\ Goto(p, "pop")
       \/ NobodyInLine /\ Goto(p, "notify") /\ UNCHANGED qvars
    /\ UNCHANGED <<nodeVars, ret, signalVars, nvars>>

Pop(p) ==
    /\ pc[p] = "pop"
    /\ chain' = [chain EXCEPT ![p] = <<Head(line)>>]
    /\ sent' = [sent EXCEPT ![p] = "signaled"]
    /\ PopNodes(p, 1)
    /\ ThenClear(p, "signal")
    /\ UNCHANGED <<holder, nodeVars, node, nvars>>

(* The process is in a wait that may still look at its generation. *)
Waiting(p) == At(p) \in {"armed", "again", "enqueue", "flag", "grab"} \/ Parked(p)

(* Nobody waits through Wrap generations: none is ended while somebody is   *)
(* still in the one whose number comes next.  An assumption: the code has   *)
(* no such guard, its numbers are only too many for one wait.               *)
NobodyLapped == \A p \in Procs : Waiting(p) => behind[p] + 1 < Wrap

NotifyWaiters(p) ==
    /\ pc[p] = "idle" /\ NobodyLapped
    /\ behind' = [r \in Procs |-> IF Waiting(r) THEN (behind[r] + 1) % Wrap ELSE 0]
    /\ Goto(p, IF hasQueue THEN "sweep" ELSE "idle")
    /\ UNCHANGED <<qvars, nodeVars, ret, signalVars, hasQueue, permit, owed>>

Sweep(p) ==
    /\ pc[p] = "sweep"
    /\ \/ LockExisting(p) /\ Goto(p, "select")
       \/ NobodyInLine /\ Goto(p, "idle") /\ UNCHANGED qvars
    /\ UNCHANGED <<nodeVars, ret, signalVars, nvars>>

(* Mutant: only the generation this call ended is released. *)
SelectOne(p) ==
    /\ pc[p] = "select"
    /\ \E k \in 0 .. Len(line) : /\ \A i \in 1 .. k : behind[line[i]] = 1
                                 /\ k < Len(line) => behind[line[k + 1]] # 1
                                 /\ chain' = [chain EXCEPT ![p] = SubSeq(line, 1, k)]
                                 /\ PopNodes(p, k)
    /\ sent' = [sent EXCEPT ![p] = "all"]
    /\ ThenClear(p, "signal")
    /\ UNCHANGED <<holder, nodeVars, node, nvars>>

(* The first k in line are not of the live generation, the next is. *)
Leading(k) ==
    /\ \A i \in 1 .. k : ~InCurrent(line[i])
    /\ k < Len(line) => InCurrent(line[k + 1])

(* Pop the leading nodes that are not of the live generation. *)
Select(p) ==
    /\ pc[p] = "select"
    /\ \E k \in 0 .. Len(line) : /\ Leading(k)
                                 /\ chain' = [chain EXCEPT ![p] = SubSeq(line, 1, k)]
                                 /\ PopNodes(p, k)
    /\ sent' = [sent EXCEPT ![p] = "all"]
    /\ ThenClear(p, "signal")
    /\ UNCHANGED <<holder, nodeVars, node, nvars>>

-----------------------------------------------------------------------------
(* The end of a queued wait.                                               *)

Finish(p) ==
    /\ pc[p] = "woken"
    /\ owed' = IF seen[p] = "signaled" THEN owed - 1 ELSE owed
    /\ FreeNode(p)
    /\ Goto(p, "idle")
    /\ UNCHANGED <<qvars, ret, signalVars, hasQueue, permit, behind>>

(* Drop of a queued future: a notification it got is passed on. *)
Drop(p) ==
    /\ pc[p] = "pending"
    /\ IF value[p] = "waiting"
       THEN Goto(p, "leave") /\ UNCHANGED nodeVars
       ELSE Goto(p, IF value[p] = "signaled" THEN "notify" ELSE "idle") /\ FreeNode(p)
    /\ UNCHANGED <<qvars, ret, signalVars, nvars>>

(* Mutant: a node that is no longer queued is taken for a removed one. *)
RemoveBlind(p) ==
    /\ pc[p] = "remove"
    /\ RemoveNode(p, p)
    /\ ThenClear(p, "removed")
    /\ UNCHANGED <<holder, nodeVars, signalVars, nvars>>

Remove(p) ==
    /\ pc[p] = "remove"
    /\ RemoveNode(p, p)
    /\ ThenClear(p, IF Position(p) = {} THEN "await" ELSE "removed")
    /\ UNCHANGED <<holder, nodeVars, signalVars, nvars>>

(* Mutant: the notification that overtook the drop is not passed on. *)
ReturnLoses(p) ==
    /\ pc[p] \in {"removed", "awaited"}
    /\ Goto(p, "idle")
    /\ FreeNode(p)
    /\ UNCHANGED <<qvars, ret, signalVars, nvars>>

Return(p) ==
    /\ pc[p] \in {"removed", "awaited"}
    /\ Goto(p, IF seen[p] = "signaled" THEN "notify" ELSE "idle")
    /\ FreeNode(p)
    /\ UNCHANGED <<qvars, ret, signalVars, nvars>>

-----------------------------------------------------------------------------
Step(p) ==
    \/ TryComplete(p) \/ Enqueue(p) \/ Flag(p) \/ Grab(p)
    \/ Notify(p) \/ NotifyLock(p) \/ Pop(p) \/ Sweep(p) \/ Select(p)
    \/ Finish(p) \/ Remove(p) \/ Return(p)
    \/ QueueStep(p) /\ UNCHANGED others

Next ==
    \E p \in Procs :
        \/ Wait(p) \/ Disarm(p) \/ NotifyOne(p) \/ NotifyWaiters(p) \/ Drop(p)
        \/ Step(p) \/ (Rouse(p) /\ UNCHANGED nvars)

Spec == Init /\ [][Next]_vars

-----------------------------------------------------------------------------
(* p's node is on its way to get the signal s. *)
InFlight(p, s) ==
    \E r \in Procs : sent[r] = s /\
        \/ \E i \in 1 .. Len(chain[r]) : chain[r][i] = p
        \/ node[r] = p /\ pc[r] \in {"store", "storeWake"}

(* p is delivering a notification of notify_one, or has got one. *)
Carries(p) ==
    \/ pc[p] \in {"notify", "notifyLock", "pop"}
    \/ "signaled" \in {value[p], seen[p]} \/ InFlight(p, "signaled")

(* Every notify_one wakes exactly one wait, unless it is absorbed by the    *)
(* stored permit: none is lost by a waiter that is dropped, cancelled or    *)
(* overtaken, and none counts twice (notify_one_slow, drop_slow).           *)
NotificationsConserved ==
    owed = Cardinality({p \in Procs : Carries(p)}) + (IF permit THEN 1 ELSE 0)

(* Nobody is in line while a permit is stored. *)
NobodySleepsOnPermit == permit => line = <<>>

(* Whoever waits for a generation that is over has a notify_waiters on the  *)
(* way, and nobody of a later generation is ahead of it, where the drain    *)
(* would stop: "FIFO order guarantees old-generation entries form a prefix" *)
(* (notify_waiters against enqueue_or_complete).                            *)
OldOnesReleased ==
    \A i \in 1 .. Len(line) : ~InCurrent(line[i]) =>
        /\ \E p \in Procs : pc[p] \in {"sweep", "select"}
        /\ \A j \in 1 .. i : ~InCurrent(line[j])
=============================================================================
