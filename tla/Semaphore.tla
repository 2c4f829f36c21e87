----------------------------- MODULE Semaphore -----------------------------
(***************************************************************************)
(* SemCore, the permit counter behind Semaphore, AsyncSemaphore, RwLock    *)
(* and AsyncRwLock (src/src/semaphore.rs).  The pool word is the triple    *)
(* permits, hasQueue, closed; every compare-exchange loop on it is one     *)
(* step.  What happens under the queue lock and touches only the line and  *)
(* the nodes in it is merged with the atomic operation next to it.         *)
(***************************************************************************)
EXTENDS FlaggedQueue, FiniteSets

CONSTANTS
    Initial,    \* permits at the start
    MaxPermits, \* bound on the permits in existence
    Sizes       \* request sizes

ASSUME PermitsAssumption ==
    Initial \in 0 .. MaxPermits /\ MaxPermits \in Nat /\ Sizes \subseteq Nat

ASSUME FiniteAssumption == IsFiniteSet(Procs)

VARIABLES
    permits, closed,    \* SemCore.pool, with hasQueue
    need,       \* size of the request a process is making
    aux,        \* Signal.aux: permits it still misses
    held,       \* permits owned by its SemaphorePermit
    avail,      \* permits a drain has taken out of the pool
    total       \* history: permits in existence

word == <<permits, hasQueue, closed>>
requests == <<need, aux, held>>
others == <<permits, closed, requests, avail, total>>
svars == <<hasQueue, others>>
vars == <<pvars, svars>>

Init ==
    /\ ParkingInit
    /\ permits = Initial /\ hasQueue = FALSE /\ closed = FALSE
    /\ need = [p \in Procs |-> 0]
    /\ aux = [p \in Procs |-> 0]
    /\ held = [p \in Procs |-> 0]
    /\ avail = [p \in Procs |-> 0]
    /\ total = Initial

(* The sum of f over S, as the number of units it is made of. *)
Units(f, S) == UNION {{x} \X (1 .. f[x]) : x \in S}
Sum(f, S) == Cardinality(Units(f, S))

(* What a process has been granted and does not own yet. *)
Granted(p) == need[p] - aux[p]

ForgetRequest(p) ==
    /\ need' = [need EXCEPT ![p] = 0]
    /\ aux' = [aux EXCEPT ![p] = 0]

-----------------------------------------------------------------------------
(* Acquiring.                                                              *)

(* Mutant: the fast path takes permits past the waiting line. *)
TryAcquireBarge(n) == ~closed /\ permits >= n

(* try_acquire succeeds... *)
TryAcquire(n) == ~closed /\ ~hasQueue /\ permits >= n

TakePermits(p, n) ==
    /\ permits' = permits - n
    /\ held' = [held EXCEPT ![p] = @ + n]
    /\ UNCHANGED <<hasQueue, closed>>

(* try_acquire, acquire_sync, or the first poll of poll_acquire; a failed   *)
(* try_acquire of the user ends there and changes nothing.                  *)
Acquire(p, n) ==
    /\ pc[p] = "idle" /\ held[p] = 0
    /\ IF TryAcquire(n)
       THEN TakePermits(p, n) /\ UNCHANGED <<need, aux, pc>>
       ELSE /\ need' = [need EXCEPT ![p] = n]
            /\ aux' = [aux EXCEPT ![p] = n]
            /\ Goto(p, "retry")
            /\ UNCHANGED <<word, held>>
    /\ UNCHANGED <<qvars, nodeVars, ret, signalVars, avail, total>>

(* acquire_sync_slow, poll_acquire_slow: try again, then prepare the node. *)
Retry(p) ==
    /\ pc[p] = "retry"
    /\ \/ /\ closed \/ TryAcquire(need[p])
          /\ IF closed THEN UNCHANGED <<word, held>> ELSE TakePermits(p, need[p])
          /\ ForgetRequest(p)
          /\ Goto(p, "idle")
          /\ UNCHANGED nodeVars
       \/ /\ ~closed /\ ~TryAcquire(need[p])
          /\ PrepareNode(p)
          /\ Goto(p, "enqueue")
          /\ UNCHANGED <<word, requests>>
    /\ UNCHANGED <<qvars, ret, signalVars, avail, total>>

(* enqueue_or_acquire. *)
Enqueue(p) ==
    /\ pc[p] = "enqueue"
    /\ LockQueue(p)
    /\ Goto(p, "flag")
    /\ UNCHANGED <<nodeVars, ret, signalVars, svars>>

(* The semaphore is closed: give up. *)
GiveUp(p) ==
    /\ closed
    /\ FreeNode(p) /\ ForgetRequest(p)
    /\ UNCHANGED <<line, permits, closed, held>>
    /\ ThenClear(p, "idle")

(* Only the head of the line may take from the pool. *)
MayGrab(p) == ~closed /\ line = <<>> /\ permits >= need[p]

Push(p) ==
    /\ ~closed /\ ~MayGrab(p)
    /\ PushNode(p, p)
    /\ ThenClear(p, IF p \in Threads THEN "swap" ELSE "pending")
    /\ UNCHANGED <<nodeVars, permits, closed, requests>>

(* Mutant: the permits are read without setting the flag, and a node is pushed. *)
FlagLate(p) ==
    /\ pc[p] = "flag"
    /\ \/ GiveUp(p) /\ hasQueue' = hasQueue
       \/ Push(p) /\ hasQueue' = hasQueue
       \/ MayGrab(p) /\ Goto(p, "grab") /\ hasQueue' = hasQueue
             /\ UNCHANGED <<line, nodeVars, permits, closed, requests, ret>>
    /\ UNCHANGED <<holder, signalVars, avail, total>>

(* fetch_or(HAS_QUEUE): the flag is set and the permits read in one step. *)
Flag(p) ==
    /\ pc[p] = "flag"
    /\ hasQueue' = TRUE
    /\ \/ GiveUp(p)
       \/ Push(p)
       \/ MayGrab(p) /\ Goto(p, "grab")
             /\ UNCHANGED <<line, nodeVars, permits, closed, requests, ret>>
    /\ UNCHANGED <<holder, signalVars, avail, total>>

(* The compare-exchange, or what its failures lead to. *)
Grab(p) ==
    /\ pc[p] = "grab"
    /\ \/ GiveUp(p) /\ UNCHANGED hasQueue
       \/ Push(p) /\ UNCHANGED hasQueue
       \/ /\ MayGrab(p)
          /\ TakePermits(p, need[p])
          /\ FreeNode(p) /\ ForgetRequest(p)
          /\ UNCHANGED line
          /\ ThenClear(p, "idle")
    /\ UNCHANGED <<holder, signalVars, avail, total>>

-----------------------------------------------------------------------------
(* Releasing.                                                              *)

(* release: the permits go back, and a flag found in the same step asks for *)
(* a drain.                                                                 *)
PutBack(p, n) ==
    /\ permits' = permits + n
    /\ Goto(p, IF n > 0 /\ hasQueue THEN "drain" ELSE "idle")
    /\ UNCHANGED <<hasQueue, closed>>

(* Drop of a SemaphorePermit, or of a part split off it. *)
Release(p, n) ==
    /\ pc[p] = "idle" /\ n \in 1 .. held[p]
    /\ held' = [held EXCEPT ![p] = @ - n]
    /\ PutBack(p, n)
    /\ UNCHANGED <<qvars, nodeVars, ret, signalVars, need, aux, avail, total>>

AddPermits(p, n) ==
    /\ pc[p] = "idle" /\ n > 0 /\ total + n <= MaxPermits
    /\ total' = total + n
    /\ PutBack(p, n)
    /\ UNCHANGED <<qvars, nodeVars, ret, signalVars, requests, avail>>

(* SemaphorePermit::forget. *)
Forget(p) ==
    /\ pc[p] = "idle" /\ held[p] > 0
    /\ held' = [held EXCEPT ![p] = 0]
    /\ total' = total - held[p]
    /\ UNCHANGED <<pvars, word, need, aux, avail>>

(* Mutant: more permits are removed than there are. *)
ForgetTooMany(p, n) ==
    /\ pc[p] = "idle"
    /\ permits' = permits - n /\ total' = total - n
    /\ UNCHANGED <<pvars, hasQueue, closed, requests, avail>>

(* forget_permits. *)
ForgetPermits(p, n) ==
    /\ pc[p] = "idle"
    /\ LET forget == IF permits < n THEN permits ELSE n
       IN  permits' = permits - forget /\ total' = total - forget
    /\ UNCHANGED <<pvars, hasQueue, closed, requests, avail>>

(* drain: lock(false)... *)
Drain(p) ==
    /\ pc[p] = "drain"
    /\ \/ LockExisting(p) /\ Goto(p, "collect")
       \/ NobodyInLine /\ Goto(p, "idle") /\ UNCHANGED qvars
    /\ UNCHANGED <<nodeVars, ret, signalVars, svars>>

(* ... empty the pool... *)
Collect(p) ==
    /\ pc[p] = "collect"
    /\ avail' = [avail EXCEPT ![p] = permits]
    /\ permits' = 0
    /\ Goto(p, "grant")
    /\ UNCHANGED <<qvars, nodeVars, ret, signalVars, hasQueue, closed, requests,
                   total>>

(* What the first k in line still miss. *)
Missing(k) == Sum(aux, {line[i] : i \in 1 .. k})

(* The permits suffice for the first k in line, and what is left of them    *)
(* not for the next one.                                                    *)
Serves(p, k) ==
    LET rest == avail[p] - Missing(k)
        served(q) == \E i \in 1 .. k : line[i] = q
        next(q) == k < Len(line) /\ line[k + 1] = q
    IN  /\ rest >= 0 /\ \A q \in Procs : next(q) => rest < aux[q]
        /\ aux' = [q \in Procs |-> IF served(q) THEN 0
                                   ELSE IF next(q) THEN aux[q] - rest ELSE aux[q]]
        /\ permits' = IF k = Len(line) THEN permits + rest ELSE permits
        /\ chain' = [chain EXCEPT ![p] = SubSeq(line, 1, k)]
        /\ PopNodes(p, k)

(* ... and serve the line in order: whoever the permits suffice for is      *)
(* popped, the next one gets the rest, and what nobody needs goes back.     *)
Grant(p) ==
    /\ pc[p] = "grant"
    /\ \E k \in 0 .. Len(line) : Serves(p, k)
    /\ sent' = [sent EXCEPT ![p] = "signaled"]
    /\ avail' = [avail EXCEPT ![p] = 0]
    /\ ThenClear(p, "signal")
    /\ UNCHANGED <<holder, nodeVars, node, hasQueue, closed, need, held, total>>

-----------------------------------------------------------------------------
(* Closing.                                                                *)

Close(p) ==
    /\ pc[p] = "idle" /\ ~closed
    /\ closed' = TRUE
    /\ Goto(p, IF hasQueue THEN "close" ELSE "idle")
    /\ UNCHANGED <<qvars, nodeVars, ret, signalVars, permits, hasQueue, requests,
                   avail, total>>

CloseLock(p) ==
    /\ pc[p] = "close"
    /\ \/ LockExisting(p) /\ Goto(p, "expel")
       \/ NobodyInLine /\ Goto(p, "idle") /\ UNCHANGED qvars
    /\ UNCHANGED <<nodeVars, ret, signalVars, svars>>

(* Pop everybody; they return what they had been assigned themselves. *)
Expel(p) ==
    /\ pc[p] = "expel"
    /\ chain' = [chain EXCEPT ![p] = line]
    /\ sent' = [sent EXCEPT ![p] = "closed"]
    /\ PopNodes(p, Len(line))
    /\ ThenClear(p, "signal")
    /\ UNCHANGED <<holder, nodeVars, node, word, requests, avail, total>>

-----------------------------------------------------------------------------
(* The end of a queued request.                                            *)

(* Mutant: a closed waiter forgets the permits it was assigned. *)
FinishLeaks(p) ==
    /\ pc[p] = "woken"
    /\ FreeNode(p) /\ ForgetRequest(p)
    /\ IF seen[p] = "signaled"
       THEN held' = [held EXCEPT ![p] = need[p]]
       ELSE UNCHANGED held
    /\ Goto(p, "idle")
    /\ UNCHANGED <<qvars, ret, signalVars, word, avail, total>>

(* finish_sync, or the poll that finds the signal. *)
Finish(p) ==
    /\ pc[p] = "woken"
    /\ FreeNode(p) /\ ForgetRequest(p)
    /\ IF seen[p] = "signaled"
       THEN /\ held' = [held EXCEPT ![p] = need[p]]
            /\ Goto(p, "idle")
            /\ UNCHANGED word
       ELSE PutBack(p, Granted(p)) /\ UNCHANGED held
    /\ UNCHANGED <<qvars, ret, signalVars, avail, total>>

(* drop_acquire. *)
Drop(p) ==
    /\ pc[p] = "pending"
    /\ IF value[p] = "waiting"
       THEN Goto(p, "leave") /\ UNCHANGED <<nodeVars, word, need, aux>>
       ELSE FreeNode(p) /\ ForgetRequest(p) /\ PutBack(p, Granted(p))
    /\ UNCHANGED <<qvars, ret, signalVars, held, avail, total>>

(* Mutant: a node that is no longer queued is taken for a removed one. *)
RemoveBlind(p) ==
    /\ pc[p] = "remove"
    /\ RemoveNode(p, p)
    /\ ThenClear(p, IF Granted(p) > 0 THEN "giveback"
                    ELSE IF Head(line) = p /\ Len(line) > 1 THEN "cancelledHead"
                    ELSE "cancelled")
    /\ UNCHANGED <<holder, nodeVars, signalVars, word, requests, avail, total>>

(* Mutant: whoever is behind a cancelled head is left to the next release. *)
RemoveQuietly(p) ==
    /\ pc[p] = "remove"
    /\ RemoveNode(p, p)
    /\ ThenClear(p, IF Position(p) = {} THEN "await"
                    ELSE IF Granted(p) > 0 THEN "giveback" ELSE "cancelled")
    /\ UNCHANGED <<holder, nodeVars, signalVars, word, requests, avail, total>>

(* cancel_acquire: leave the line.  The new head may find enough permits in *)
(* the pool.                                                                *)
Remove(p) ==
    /\ pc[p] = "remove"
    /\ RemoveNode(p, p)
    /\ ThenClear(p, IF Position(p) = {} THEN "await"
                    ELSE IF Granted(p) > 0 THEN "giveback"
                    ELSE IF Head(line) = p /\ Len(line) > 1 THEN "cancelledHead"
                    ELSE "cancelled")
    /\ UNCHANGED <<holder, nodeVars, signalVars, word, requests, avail, total>>

(* The cancelled request gives back its part, or has the line served. *)
Cancelled(p) ==
    /\ pc[p] \in {"giveback", "cancelledHead", "cancelled"}
    /\ FreeNode(p) /\ ForgetRequest(p)
    /\ IF pc[p] = "giveback"
       THEN PutBack(p, Granted(p))
       ELSE Goto(p, IF pc[p] = "cancelledHead" THEN "drain" ELSE "idle") /\ UNCHANGED word
    /\ UNCHANGED <<qvars, ret, signalVars, held, avail, total>>

(* It had been popped: return what the signal brought. *)
Return(p) ==
    /\ pc[p] = "awaited"
    /\ FreeNode(p) /\ ForgetRequest(p)
    /\ PutBack(p, IF seen[p] = "closed" THEN Granted(p) ELSE need[p])
    /\ UNCHANGED <<qvars, ret, signalVars, held, avail, total>>

-----------------------------------------------------------------------------
Step(p) ==
    \/ Retry(p) \/ Enqueue(p) \/ Flag(p) \/ Grab(p)
    \/ Drain(p) \/ Collect(p) \/ Grant(p) \/ CloseLock(p) \/ Expel(p)
    \/ Finish(p) \/ Remove(p) \/ Cancelled(p) \/ Return(p)
    \/ QueueStep(p) /\ UNCHANGED others

Next ==
    \E p \in Procs :
        \/ \E n \in Sizes :
              Acquire(p, n) \/ Release(p, n) \/ AddPermits(p, n) \/ ForgetPermits(p, n)
        \/ Forget(p) \/ Close(p) \/ Drop(p)
        \/ Step(p) \/ (Rouse(p) /\ UNCHANGED svars)

Spec == Init /\ [][Next]_vars

-----------------------------------------------------------------------------
TypeOK ==
    /\ permits \in 0 .. MaxPermits /\ hasQueue \in BOOLEAN /\ closed \in BOOLEAN
    /\ need \in [Procs -> Nat] /\ aux \in [Procs -> Nat]
    /\ held \in [Procs -> Nat] /\ avail \in [Procs -> Nat]
    /\ total \in 0 .. MaxPermits

(* Permits that are out of the pool on behalf of a process. *)
Out == [p \in Procs |-> held[p] + avail[p] + Granted(p)]

(* No permit is lost or made up: each one is in the pool, owned by a permit *)
(* object, assigned to a waiter or in the hands of a drain, and nobody is   *)
(* assigned more than it asked for (release, drain, close, and the          *)
(* cancellation of every kind of request).                                  *)
PermitsConserved ==
    /\ \A p \in Procs : aux[p] <= need[p]
    /\ total = permits + Sum(Out, Procs)

(* Nobody waits in line for nothing: whenever the head could be served from *)
(* the pool, or the semaphore is closed, somebody is on the way to the line *)
(* (release and close against enqueue_or_acquire, and a head that cancels). *)
NobodyStuck ==
    holder = NoProc /\ line # <<>> =>
        /\ aux[Head(line)] <= permits =>
              \E p \in Procs : pc[p] \in {"drain", "giveback", "cancelledHead", "close"}
        /\ closed => \E p \in Procs : pc[p] = "close"

(* Permits are taken straight from the pool only when nobody is in line.    *)
NoBarging ==
    [][\A p \in Procs :
        pc[p] \in {"idle", "retry", "grab"} /\ held'[p] > held[p] => line = <<>>]_vars
=============================================================================
