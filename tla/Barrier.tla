------------------------------ MODULE Barrier ------------------------------
(***************************************************************************)
(* Barrier and AsyncBarrier (src/src/barrier.rs).  The state word holds    *)
(* the generation and the number of arrivals; every compare-exchange loop  *)
(* on it is one step.  Generations are only ever compared for equality, so *)
(* the model keeps how far each process is behind the current one, modulo  *)
(* the number after which the generation wraps off the top of the word.    *)
(* The number of rounds is not bounded.                                    *)
(***************************************************************************)
EXTENDS Parking, FiniteSets

CONSTANTS
    N,          \* the size of the barrier
    Wrap        \* the number of generations the word can tell apart

ASSUME SizeAssumption == N \in Nat \ {0} /\ Wrap \in Nat /\ Wrap > 1

VARIABLES
    arrived,    \* BarrierCore.state, the arrivals of the current generation
    behind      \* how many generations ago a process arrived (mod Wrap): what
                \* the generation in the state, or in a Signal.aux, is to it

bvars == <<arrived, behind>>
vars == <<pvars, bvars>>

Init ==
    /\ ParkingInit
    /\ arrived = 0
    /\ behind = [p \in Procs |-> 0]

-----------------------------------------------------------------------------
(* The process arrived in the generation the state word shows. *)
InCurrent(p) == behind[p] = 0

(* The generation after a completing arrival; who has left has none.       *)
NextGeneration(p) ==
    behind' = [r \in Procs |-> IF r = p THEN 1
                               ELSE IF pc[r] = "idle" THEN 0 ELSE (behind[r] + 1) % Wrap]

(* Nobody sleeps through Wrap generations: none is completed while somebody *)
(* is still in the one whose number comes next.  This is an assumption: the *)
(* code has no such guard, its numbers are only too many for one wait.      *)
NobodyLapped == \A p \in Procs : pc[p] # "idle" => behind[p] + 1 < Wrap

(* arrive: the completing arrival leads and opens the next generation. *)
Arrive(p) ==
    /\ pc[p] = "idle"
    /\ IF arrived + 1 >= N
       THEN /\ NobodyLapped
            /\ NextGeneration(p)
            /\ arrived' = 0
            /\ Goto(p, "release")
            /\ UNCHANGED nodeVars
       ELSE /\ behind' = [behind EXCEPT ![p] = 0]
            /\ arrived' = arrived + 1
            /\ PrepareNode(p)
            /\ Goto(p, "enqueue")
    /\ UNCHANGED <<qvars, ret, signalVars>>

(* release_waiters: lock(false). *)
Release(p) ==
    /\ pc[p] = "release"
    /\ \/ LockExisting(p) /\ Goto(p, "drain")
       \/ NobodyInLine /\ Goto(p, "idle") /\ UNCHANGED qvars
    /\ UNCHANGED <<nodeVars, ret, signalVars, bvars>>

(* Mutant: everybody in line is popped. *)
DrainAll(p) ==
    /\ pc[p] = "drain"
    /\ chain' = [chain EXCEPT ![p] = line]
    /\ PopNodes(p, Len(line))
    /\ sent' = [sent EXCEPT ![p] = "all"]
    /\ ThenUnlock(p, "signal")
    /\ UNCHANGED <<holder, nodeVars, node, bvars>>

(* The first k in line arrived in the generation of p, the next did not. *)
Leading(p, k) ==
    /\ \A i \in 1 .. k : behind[line[i]] = behind[p]
    /\ k < Len(line) => behind[line[k + 1]] # behind[p]

(* Pop the leading nodes of the generation. *)
Drain(p) ==
    /\ pc[p] = "drain"
    /\ \E k \in 0 .. Len(line) : /\ Leading(p, k)
                                 /\ chain' = [chain EXCEPT ![p] = SubSeq(line, 1, k)]
                                 /\ PopNodes(p, k)
    /\ sent' = [sent EXCEPT ![p] = "all"]
    /\ ThenUnlock(p, "signal")
    /\ UNCHANGED <<holder, nodeVars, node, bvars>>

(* enqueue_or_complete: lock(true)... *)
Enqueue(p) ==
    /\ pc[p] = "enqueue"
    /\ LockQueue(p)
    /\ Goto(p, "fresh")
    /\ UNCHANGED <<nodeVars, ret, signalVars, bvars>>

Push(p) ==
    /\ PushNode(p, p)
    /\ ThenUnlock(p, IF p \in Threads THEN "swap" ELSE "pending")
    /\ UNCHANGED nodeVars

(* Mutant: the state is not read again under the lock. *)
FreshStale(p) ==
    /\ pc[p] = "fresh"
    /\ Push(p)
    /\ UNCHANGED <<holder, signalVars, bvars>>

(* ... then park unless the generation is complete. *)
Fresh(p) ==
    /\ pc[p] = "fresh"
    /\ \/ ~InCurrent(p) /\ FreeNode(p) /\ ThenUnlock(p, "idle") /\ UNCHANGED line
       \/ InCurrent(p) /\ Push(p)
    /\ UNCHANGED <<holder, signalVars, bvars>>

(* The wait returns, or its future is gone. *)
Return(p) ==
    /\ pc[p] \in {"woken", "awaited", "removed"}
    /\ FreeNode(p)
    /\ Goto(p, "idle")
    /\ UNCHANGED <<qvars, ret, signalVars, bvars>>

-----------------------------------------------------------------------------
(* Dropping a pending wait. *)
Drop(p) ==
    /\ pc[p] = "pending"
    /\ IF value[p] = "waiting" THEN Goto(p, "withdraw") /\ UNCHANGED nodeVars
                               ELSE Goto(p, "idle") /\ FreeNode(p)
    /\ UNCHANGED <<qvars, ret, signalVars, bvars>>

(* Mutant: the arrival is taken back from whatever generation is forming. *)
WithdrawAny(p) ==
    /\ pc[p] = "withdraw"
    /\ arrived' = arrived - 1
    /\ Goto(p, "leave")
    /\ UNCHANGED <<qvars, nodeVars, ret, signalVars, behind>>

(* Withdraw the arrival while the generation is still forming. *)
Withdraw(p) ==
    /\ pc[p] = "withdraw"
    /\ IF InCurrent(p) THEN arrived' = arrived - 1 /\ Goto(p, "leave")
                                ELSE Goto(p, "await") /\ UNCHANGED arrived
    /\ UNCHANGED <<qvars, nodeVars, ret, signalVars, behind>>

Remove(p) ==
    /\ pc[p] = "remove"
    /\ RemoveNode(p, p)
    /\ ThenUnlock(p, IF Position(p) = {} THEN "await" ELSE "removed")
    /\ UNCHANGED <<holder, nodeVars, signalVars, bvars>>

-----------------------------------------------------------------------------
Step(p) ==
    \/ Release(p) \/ Drain(p) \/ Enqueue(p) \/ Fresh(p) \/ Return(p)
    \/ Withdraw(p) \/ Remove(p)
    \/ ParkingStep(p) /\ UNCHANGED bvars

Next ==
    \E p \in Procs :
        Arrive(p) \/ Drop(p) \/ Step(p) \/ (Rouse(p) /\ UNCHANGED bvars)

Spec == Init /\ [][Next]_vars

Woken(p) == awake[p] /\ Rouse(p) /\ UNCHANGED bvars

(* A parked thread or a pending task moves when woken, everybody else when  *)
(* scheduled; spinning on the queue word always ends, its holder moves on.  *)
FairSpec == Spec /\ \A p \in Procs : SF_vars(Step(p) \/ Woken(p))

-----------------------------------------------------------------------------
(* The process counts among the arrivals of its generation. *)
Arrived(p) ==
    At(p) \in {"enqueue", "fresh", "swap", "park", "check", "pending", "rearm",
              "reload", "woken", "withdraw"}

(* The count of the forming generation is the number of processes waiting   *)
(* for it: a withdrawn arrival leaves exactly one place, in its own         *)
(* generation (arrive against AsyncBarrierWaitRequest::drop_slow).          *)
CountsArrivals ==
    arrived = Cardinality({p \in Procs : Arrived(p) /\ InCurrent(p)})

(* Nobody is released before the generation is complete: every popped node  *)
(* and every signal belongs to a completed generation.                      *)
ReleasedWhenComplete ==
    \A p \in Procs :
        /\ pc[p] \in {"woken", "awaited"} => ~InCurrent(p)
        /\ \A i \in 1 .. Len(chain[p]) : ~InCurrent(chain[p][i])

(* Once the generation is complete every wait for it returns. *)
AllReleased ==
    \A p \in Procs : (Arrived(p) /\ ~InCurrent(p)) ~> pc[p] = "idle"
=============================================================================
