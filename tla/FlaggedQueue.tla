---------------------------- MODULE FlaggedQueue ----------------------------
(***************************************************************************)
(* A WaitQueue whose owner keeps a HAS_QUEUE bit in its own state word     *)
(* (src/src/semaphore.rs, src/src/notify.rs): enqueuers set the bit under  *)
(* the queue lock, and unlock clears it when it leaves the line empty.     *)
(***************************************************************************)
EXTENDS Parking

VARIABLE hasQueue

(* LockedQueue::unlock, given a closure that clears the bit. *)
ThenClear(p, to) ==
    /\ ret' = [ret EXCEPT ![p] = to]
    /\ Goto(p, IF line' = <<>> THEN "clear" ELSE "unlock")

Clear(p) ==
    /\ pc[p] = "clear"
    /\ hasQueue' = FALSE
    /\ Goto(p, "unlock")
    /\ UNCHANGED <<qvars, nodeVars, ret, signalVars>>

(* The steps of one process on the queue, with a word it leaves alone. *)
QueueStep(p) == Clear(p) \/ (ParkingStep(p) /\ UNCHANGED hasQueue)

(* HAS_QUEUE is set as long as somebody is in line, and no longer than the  *)
(* queue is locked afterwards: the fast paths neither overlook a waiter nor *)
(* are barred for ever (fetch_or before the push, fetch_and in unlock).     *)
FlagMeansLine ==
    /\ line # <<>> => hasQueue
    /\ holder = NoProc /\ line = <<>> => ~hasQueue
=============================================================================
