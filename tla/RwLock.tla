------------------------------- MODULE RwLock -------------------------------
(***************************************************************************)
(* RwLock and AsyncRwLock (src/src/rwlock.rs): a semaphore of max_readers  *)
(* permits of which a reader takes one and a writer all.  It is never      *)
(* closed and its permits are never forgotten.                             *)
(***************************************************************************)
EXTENDS Semaphore

max_readers == Initial

(* read, try_read, and the first poll of AsyncReadRequest. *)
Read(p) == Acquire(p, 1)

(* write, try_write, and the first poll of AsyncWriteRequest. *)
Write(p) == Acquire(p, max_readers)

Writing(p) == held[p] = max_readers

(* Mutant: the kept permit is returned too, and the guard lives on. *)
DowngradeAll(p) ==
    /\ Writing(p) /\ pc[p] = "idle"
    /\ held' = [held EXCEPT ![p] = 1]
    /\ PutBack(p, max_readers)
    /\ UNCHANGED <<qvars, nodeVars, ret, signalVars, need, aux, avail, total>>

Downgrade(p) == Writing(p) /\ Release(p, max_readers - 1)

DropGuard(p) == Release(p, held[p])

RwStep(p) ==
    \/ Read(p) \/ Write(p) \/ Downgrade(p) \/ DropGuard(p) \/ Drop(p) \/ Step(p)

(* Spurious wake-ups are left out: they could only help. *)
Woken(p) == awake[p] /\ Rouse(p) /\ UNCHANGED svars

RwNext == \E p \in Procs : RwStep(p) \/ Woken(p)

(* A parked thread or a pending task moves when woken, everybody else when  *)
(* scheduled; guards are dropped sooner or later.                           *)
RwFairSpec ==
    /\ Init /\ [][RwNext]_vars
    /\ \A p \in Procs : SF_vars(Step(p) \/ DropGuard(p) \/ Woken(p))

-----------------------------------------------------------------------------
(* A writer is alone, through every downgrade, cancellation and hand-over.  *)
WriterAlone ==
    \A p, q \in Procs : p # q /\ held[p] > 0 /\ held[q] > 0 => ~Writing(p)

(* No reader or writer starves: every request is granted or cancelled.      *)
NobodyStarves == \A p \in Procs : pc[p] = "retry" ~> pc[p] = "idle"
=============================================================================
