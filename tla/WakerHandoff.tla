---------------------------- MODULE WakerHandoff ----------------------------
(***************************************************************************)
(* DynamicWaker (src/src/waker.rs), rearm and signal_node                  *)
(* (src/src/wait_queue.rs): one queued future that its executor polls with *)
(* changing wakers, and the signaler that has popped its node.  The slot's *)
(* spin lock is explicit.                                                  *)
(***************************************************************************)
EXTENDS Naturals

CONSTANTS Wakers, NoWaker

ASSUME WakersAssumption == NoWaker \notin Wakers

VARIABLES
    updating, slot,     \* DynamicWaker
    value,              \* Signal.value
    task,               \* control of the polling side
    current,            \* the waker of the latest poll
    signaler,           \* control of signal_node
    taken,              \* the waker it took
    woken               \* wakers woken since their last poll

taskVars == <<task, current>>
signalerVars == <<signaler, taken>>
slotVars == <<updating, slot, value, taskVars, signalerVars, woken>>

(* The first poll has registered its waker with register_unsync and pushed  *)
(* the node.                                                               *)
SlotInit ==
    /\ updating = FALSE
    /\ current \in Wakers
    /\ slot = current
    /\ value = "waiting"
    /\ task = "pending"
    /\ signaler = "idle"
    /\ taken = NoWaker
    /\ woken = {}

-----------------------------------------------------------------------------
(* The polling side.                                                       *)

(* poll: the signal is there, or rearm. *)
Poll(w) ==
    /\ task = "pending"
    /\ current' = w
    /\ woken' = woken \ {w}
    /\ task' = IF value = "signaled" THEN "ready" ELSE "register"
    /\ UNCHANGED <<updating, slot, value, signalerVars>>

(* Mutant: the registration that takes no lock. *)
RegisterUnsync ==
    /\ task = "register"
    /\ task' = "store"
    /\ UNCHANGED <<updating, slot, value, current, signalerVars, woken>>

(* register: spin on updating... *)
Register ==
    /\ task = "register"
    /\ ~updating /\ updating' = TRUE
    /\ task' = "store"
    /\ UNCHANGED <<slot, value, current, signalerVars, woken>>

(* ... replace the waker unless the stored one would wake the same task...  *)
StoreAsync ==
    /\ task = "store"
    /\ slot' = current
    /\ task' = IF slot = NoWaker THEN "wasEmpty" ELSE "armed"
    /\ UNCHANGED <<updating, value, current, signalerVars, woken>>

(* ... and release the lock.  rearm returns Pending when Armed. *)
Registered ==
    /\ task \in {"armed", "wasEmpty"}
    /\ updating' = FALSE
    /\ task' = IF task = "armed" THEN "pending" ELSE "reload"
    /\ UNCHANGED <<slot, value, current, signalerVars, woken>>

(* rearm, WasEmpty: consume the signal that landed, or wake itself. *)
Reload ==
    /\ task = "reload"
    /\ \/ value = "signaled" /\ task' = "ready" /\ UNCHANGED woken
       \/ value # "signaled" /\ task' = "pending" /\ woken' = woken \cup {current}
    /\ UNCHANGED <<updating, slot, value, current, signalerVars>>

-----------------------------------------------------------------------------
(* signal_node.                                                            *)

Take ==
    /\ signaler = "idle"
    /\ ~updating /\ updating' = TRUE
    /\ signaler' = "replace"
    /\ UNCHANGED <<slot, value, taskVars, taken, woken>>

Replace ==
    /\ signaler = "replace"
    /\ taken' = slot
    /\ slot' = NoWaker
    /\ signaler' = "release"
    /\ UNCHANGED <<updating, value, taskVars, woken>>

Taken ==
    /\ signaler = "release"
    /\ updating' = FALSE
    /\ signaler' = "publish"
    /\ UNCHANGED <<slot, value, taskVars, taken, woken>>

Publish ==
    /\ signaler = "publish"
    /\ value' = "signaled"
    /\ signaler' = "wake"
    /\ UNCHANGED <<updating, slot, taskVars, taken, woken>>

(* Mutant: a task that has registered again is not woken. *)
WakeIfEmpty ==
    /\ signaler = "wake"
    /\ woken' = IF slot = NoWaker THEN woken \cup {taken} ELSE woken
    /\ signaler' = "done"
    /\ UNCHANGED <<updating, slot, value, taskVars, taken>>

Wake ==
    /\ signaler = "wake"
    /\ woken' = woken \cup {taken}
    /\ signaler' = "done"
    /\ UNCHANGED <<updating, slot, value, taskVars, taken>>

SlotNext ==
    \/ \E w \in Wakers : Poll(w)
    \/ Register \/ StoreAsync \/ Registered \/ Reload
    \/ Take \/ Replace \/ Taken \/ Publish \/ Wake

SlotSpec == SlotInit /\ [][SlotNext]_slotVars

-----------------------------------------------------------------------------
(* register and take never touch the slot at the same time: whoever is in   *)
(* its critical section holds updating, and only one of them is.            *)
SlotExclusive ==
    LET registering == task \in {"store", "armed", "wasEmpty"}
        taking == signaler \in {"replace", "release"}
    IN  ~(registering /\ taking) /\ (updating <=> registering \/ taking)

(* A pending future whose signal is stored has been, or is about to be,     *)
(* woken through the waker the signaler took, provided that one is also the *)
(* waker of the latest poll (signal_node's take-store-wake order).          *)
TakenWakerWoken ==
    task = "pending" /\ value = "signaled" /\ taken = current =>
        current \in woken \/ signaler = "wake"

(* The same for whatever waker the latest poll brought: the documentation   *)
(* of rearm has the task wake itself "so it polls again once the value is   *)
(* published".                                                              *)
LatestWakerWoken ==
    task = "pending" /\ value = "signaled" =>
        current \in woken \/ (signaler = "wake" /\ taken = current)
=============================================================================
