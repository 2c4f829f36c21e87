--------------------------- MODULE BarrierProofs ---------------------------
(***************************************************************************)
(* The barrier for any number of threads and tasks and any size: the count *)
(* in the state word is the number of processes waiting for the generation *)
(* that is forming, and nobody is released before theirs is complete.      *)
(***************************************************************************)
EXTENDS Barrier, ParkingProofs, FiniteSetTheorems

(* Zenon is tried on every leaf that names no other prover. *)
USE Zenon

(* Points where a process holds the lock of the queue. *)
Locking(p) == pc[p] \in {"drain", "fresh", "remove", "unlock"}

(* The request of p has a Signal. *)
HasNode(p) == Parked(p) \/ At(p) \in {"enqueue", "fresh", "woken", "removed", "awaited"}

(* What each process knows about itself. *)
Local(p) ==
    /\ pc[p] # "clear"
    /\ pc[p] = "unlock" => ret[p] \in {"idle", "swap", "pending", "signal", "await", "removed"}
    /\ Locking(p) => holder = p
    /\ pc[p] \in {"enqueue", "fresh"} => Prepared(p)
    /\ ~HasNode(p) => value[p] = "uninit"

(* The generation of p is complete wherever somebody acts on it: at its      *)
(* leader, at its nodes that are popped or signaled, and where they return.  *)
Completed(p) ==
    \/ pc[p] \in {"release", "drain", "woken", "awaited"} \/ Delivered(value[p])
    \/ \E r \in Procs : Popped(p, r)

OldInv == behind \in [Procs -> Nat] /\ \A p \in Procs : Completed(p) => ~InCurrent(p)

(* Those who wait for the generation that is forming. *)
Current == {p \in Procs : Arrived(p) /\ InCurrent(p)}

CountInv == IsFiniteSet(Current) /\ arrived = Cardinality(Current)

BarrierInv == ParkingInv /\ (\A p \in Procs : Local(p)) /\ OldInv /\ CountInv

-----------------------------------------------------------------------------
(* Steps on the state word and the way into the queue. *)
PlainStep(p) == Arrive(p) \/ Release(p) \/ Enqueue(p)

(* The end of a wait, or of the attempt to begin one. *)
EndStep(p) == (Fresh(p) /\ ~InCurrent(p)) \/ Return(p) \/ Drop(p) \/ Withdraw(p)

LineStep(p) == (Fresh(p) /\ InCurrent(p)) \/ Drain(p) \/ Remove(p)

SleepStep(p) == (ParkingStep(p) \/ Rouse(p)) /\ UNCHANGED bvars

BarrierStep(p) == PlainStep(p) \/ EndStep(p) \/ LineStep(p) \/ SleepStep(p)

(* Where the steps on the state word lead. *)
PlainMove(p) ==
    /\ \/ pc[p] = "idle" /\ pc'[p] = "release" /\ UNCHANGED nodeVars /\ holder' = holder
       \/ pc[p] = "idle" /\ pc'[p] = "enqueue" /\ PrepareNode(p) /\ holder' = holder
       \/ pc[p] = "release" /\ pc'[p] = "drain" /\ UNCHANGED nodeVars /\ holder = NoProc /\ holder' = p
       \/ pc[p] = "release" /\ pc'[p] = "idle" /\ UNCHANGED nodeVars /\ holder' = holder
       \/ pc[p] = "enqueue" /\ pc'[p] = "fresh" /\ UNCHANGED nodeVars /\ holder = NoProc /\ holder' = p
    /\ \A r \in Procs \ {p} : pc'[r] = pc[r]
    /\ pc' = [r \in Procs |-> pc'[r]]
    /\ line' = line /\ UNCHANGED <<ret, signalVars>>

(* They lead where PlainMove says. *)
LEMMA PlainFacts ==
  ASSUME BarrierInv, NEW p \in Procs, PlainStep(p)
  PROVE  PlainMove(p)
<1>p. pc = [r \in Procs |-> pc[r]]
  BY DEF BarrierInv, ParkingInv, PointsOK
<1>1. CASE Arrive(p)
  BY <1>p, <1>1 DEF Arrive, Goto, qvars, PlainMove
<1>2. CASE Release(p) \/ Enqueue(p)
  BY <1>p, <1>2 DEF Release, Enqueue, LockExisting, LockQueue, Goto, qvars, PlainMove
<1> QED  BY <1>1, <1>2 DEF PlainStep

(* They keep the invariant of waiting, and out of the way of others. *)
LEMMA PlainParking ==
  ASSUME BarrierInv, NEW p \in Procs, PlainMove(p)
  PROVE  ParkingInv' /\ Frame(p)
<1>1. /\ pc[p] \in {"idle", "release", "enqueue"}
      /\ pc'[p] \in {"idle", "release", "drain", "enqueue", "fresh"} /\ ret' = ret
      /\ PrepareNode(p) \/ UNCHANGED nodeVars
      /\ holder' = holder \/ (holder = NoProc /\ holder' = p)
  BY DEF PlainMove
<1>2. /\ ~Parked(p) /\ ~Parked(p)' /\ ~Asleep(p)' /\ ~Signaling(p) /\ ~Signaling(p)'
      /\ At(p)' # "signal"
  BY <1>1 DEF Parked, Asleep, Signaling, At
<1>3. ~Busy(p)
  BY <1>2 DEF BarrierInv, ParkingInv, AliveInv
<1> QED  BY <1>1, <1>2, <1>3, OwnMove DEF PlainMove, BarrierInv

(* How a wait ends. *)
EndMove(p) ==
    /\ \/ /\ pc[p] = "fresh" /\ pc'[p] = "unlock" /\ ~InCurrent(p)
          /\ ret' = [ret EXCEPT ![p] = "idle"] /\ FreeNode(p)
       \/ pc[p] \in {"woken", "awaited", "removed"} /\ pc'[p] = "idle" /\ ret' = ret /\ FreeNode(p)
       \/ /\ pc[p] = "pending" /\ value[p] # "waiting" /\ pc'[p] = "idle" /\ ret' = ret /\ FreeNode(p)
       \/ /\ pc[p] = "pending" /\ value[p] = "waiting" /\ pc'[p] = "withdraw"
          /\ ret' = ret /\ UNCHANGED nodeVars
       \/ /\ pc[p] = "withdraw" /\ pc'[p] = (IF InCurrent(p) THEN "leave" ELSE "await")
          /\ ret' = ret /\ UNCHANGED nodeVars
    /\ \A r \in Procs \ {p} : pc'[r] = pc[r]
    /\ pc' = [r \in Procs |-> pc'[r]]
    /\ UNCHANGED <<holder, line, signalVars, behind>>

(* As EndMove says. *)
LEMMA EndFacts ==
  ASSUME BarrierInv, NEW p \in Procs, EndStep(p)
  PROVE  EndMove(p)
<1>p. pc = [r \in Procs |-> pc[r]]
  BY DEF BarrierInv, ParkingInv, PointsOK
<1>1. CASE Fresh(p) /\ ~InCurrent(p)
  BY <1>p, <1>1 DEF Fresh, ThenUnlock, Goto, bvars, EndMove
<1>2. CASE Return(p)
  BY <1>p, <1>2 DEF Return, Goto, qvars, bvars, EndMove
<1>3. CASE Drop(p)
  BY <1>p, <1>3 DEF Drop, Goto, qvars, bvars, EndMove
<1>4. CASE Withdraw(p)
  BY <1>p, <1>4 DEF Withdraw, Goto, qvars, EndMove
<1> QED  BY <1>1, <1>2, <1>3, <1>4 DEF EndStep

(* The end of a wait keeps the invariant of waiting too, *)
LEMMA EndParking ==
  ASSUME BarrierInv, NEW p \in Procs, EndMove(p)
  PROVE  ParkingInv' /\ Frame(p)
<1>t. ParkingTypeOK /\ PointsOK
  BY DEF BarrierInv, ParkingInv
<1>1. /\ pc[p] \in {"fresh", "woken", "awaited", "removed", "pending", "withdraw"}
      /\ \/ pc'[p] = "unlock" /\ ret' = [ret EXCEPT ![p] = "idle"] /\ FreeNode(p)
         \/ pc'[p] = "idle" /\ ret' = ret /\ FreeNode(p)
         \/ /\ pc[p] \in {"pending", "withdraw"} /\ pc'[p] \in {"withdraw", "leave", "await"}
            /\ ret' = ret /\ UNCHANGED nodeVars
      /\ \A r \in Procs \ {p} : pc'[r] = pc[r] /\ ret'[r] = ret[r]
  BY <1>t DEF EndMove, PointsOK
<1>r. ret'[p] = ret[p] \/ ret'[p] = "idle"
  BY <1>t, <1>1 DEF PointsOK
<1>2. /\ ~Signaling(p) /\ ~Signaling(p)' /\ ~Asleep(p)' /\ At(p)' # "signal" /\ At(p) = pc[p]
      /\ Parked(p) <=> pc[p] \in {"pending", "withdraw"}
      /\ Parked(p)' <=> pc'[p] \in {"withdraw", "leave", "await"}
  <2>1. pc'[p] = "unlock" => ret'[p] = "idle"
    BY <1>t, <1>1 DEF PointsOK
  <2> QED  BY <1>1, <2>1 DEF Parked, Asleep, Signaling, At
<1>3. Busy(p) => pc'[p] \in {"withdraw", "leave", "await"}
  <2>1. Busy(p) => Parked(p) /\ ~Delivered(value[p])
    BY DEF BarrierInv, ParkingInv, AliveInv
  <2>2. pc[p] = "pending" => value[p] # "uninit"
    BY <1>2 DEF BarrierInv, ParkingInv, WaiterInv
  <2>3. value[p] \in {"uninit", "waiting"} \/ Delivered(value[p])
    BY <1>t DEF ParkingTypeOK, Signals, Delivered
  <2>4. pc[p] = "pending" /\ value[p] = "waiting" => pc'[p] = "withdraw"
    BY DEF EndMove
  <2>5. pc[p] = "withdraw" => pc'[p] \in {"leave", "await"}
    BY DEF EndMove
  <2> QED  BY <1>2, <2>1, <2>2, <2>3, <2>4, <2>5
<1>4. pc'[p] \in {"withdraw", "leave", "await"} => Parked(p) /\ At(p) # "swap" /\ UNCHANGED nodeVars
  BY <1>1, <1>2
<1>5. PrepareNode(p) \/ FreeNode(p) \/ UNCHANGED nodeVars
  BY <1>1
<1>6. ret' = ret \/ ret' = [ret EXCEPT ![p] = "idle"]
  BY <1>1
<1>7. /\ holder' = holder /\ UNCHANGED <<line, signalVars>>
      /\ pc' = [r \in Procs |-> pc'[r]]
  BY DEF EndMove
<1> QED  BY <1>1, <1>2, <1>3, <1>4, <1>5, <1>6, <1>7, OwnMove DEF BarrierInv

(* Pushes, pops and removals. *)
LineMove(p) ==
    \E to :
        /\ Locked(p, to) /\ pc'[p] = "unlock" /\ UNCHANGED bvars
        /\ \/ /\ pc[p] = "fresh" /\ InCurrent(p) /\ line' = Append(line, p) /\ chain' = chain /\ sent' = sent
              /\ to = (IF p \in Threads THEN "swap" ELSE "pending")
           \/ /\ pc[p] = "drain" /\ to = "signal" /\ sent' = [sent EXCEPT ![p] = "all"]
              /\ \E k \in 0 .. Len(line) : /\ Leading(p, k)
                                           /\ chain' = [chain EXCEPT ![p] = SubSeq(line, 1, k)]
                                           /\ line' = SubSeq(line, k + 1, Len(line))
           \/ /\ pc[p] = "remove" /\ chain' = chain /\ sent' = sent
              /\ \/ Position(p) = {} /\ line' = line /\ to = "await"
                 \/ (\E k \in Position(p) : line' = Without(line, k)) /\ to = "removed"

(* They happen under the lock. *)
LEMMA LineFacts ==
  ASSUME BarrierInv, NEW p \in Procs, LineStep(p)
  PROVE  LineMove(p)
<1>p. pc = [r \in Procs |-> pc[r]]
  BY DEF BarrierInv, ParkingInv, PointsOK
<1>l. ASSUME NEW to, holder = p, ThenUnlock(p, to), UNCHANGED <<holder, nodeVars, node>>
      PROVE  Locked(p, to) /\ pc'[p] = "unlock"
  BY <1>p, <1>l DEF Locked, ThenUnlock, Goto
<1>1. CASE Fresh(p) /\ InCurrent(p)
  <2>1. PICK to : to = IF p \in Threads THEN "swap" ELSE "pending"
    OBVIOUS
  <2>2. /\ pc[p] = "fresh" /\ holder = p /\ line' = Append(line, p) /\ ThenUnlock(p, to)
        /\ UNCHANGED <<holder, nodeVars, signalVars, bvars>>
    BY <1>1, <2>1 DEF Fresh, Push, PushNode
  <2>3. Locked(p, to) /\ pc'[p] = "unlock" /\ chain' = chain /\ sent' = sent
    BY <1>l, <2>2 DEF signalVars
  <2> QED  BY <1>1, <2>1, <2>2, <2>3 DEF LineMove
<1>2. CASE Drain(p)
  <2>1. /\ pc[p] = "drain" /\ sent' = [sent EXCEPT ![p] = "all"] /\ holder = p
        /\ ThenUnlock(p, "signal") /\ UNCHANGED <<holder, nodeVars, node, bvars>>
        /\ \E k \in 0 .. Len(line) : /\ Leading(p, k)
                                     /\ chain' = [chain EXCEPT ![p] = SubSeq(line, 1, k)]
                                     /\ line' = SubSeq(line, k + 1, Len(line))
    BY <1>2 DEF Drain, PopNodes
  <2>2. Locked(p, "signal") /\ pc'[p] = "unlock"
    BY <1>l, <2>1
  <2> QED  BY <2>1, <2>2 DEF LineMove
<1>3. CASE Remove(p)
  <2>1. PICK to : to = IF Position(p) = {} THEN "await" ELSE "removed"
    OBVIOUS
  <2>2. /\ pc[p] = "remove" /\ holder = p /\ UNCHANGED <<holder, nodeVars, signalVars, bvars>>
        /\ ThenUnlock(p, to)
        /\ \/ \E k \in Position(p) : line' = Without(line, k)
           \/ Position(p) = {} /\ line' = line
    BY <1>3, <2>1 DEF Remove, RemoveNode, Without
  <2>3. Locked(p, to) /\ pc'[p] = "unlock" /\ chain' = chain /\ sent' = sent
    BY <1>l, <2>2 DEF signalVars
  <2> QED  BY <2>1, <2>2, <2>3 DEF LineMove
<1> QED  BY <1>1, <1>2, <1>3 DEF LineStep

(* So does a change of the line, *)
LEMMA LineParking ==
  ASSUME BarrierInv, NEW p \in Procs, LineMove(p)
  PROVE  ParkingInv' /\ Frame(p)
<1>1. PICK to :
        /\ Locked(p, to)
        /\ \/ /\ pc[p] = "fresh" /\ line' = Append(line, p) /\ chain' = chain /\ sent' = sent
              /\ to = (IF p \in Threads THEN "swap" ELSE "pending")
           \/ /\ pc[p] = "drain" /\ to = "signal" /\ sent' = [sent EXCEPT ![p] = "all"]
              /\ \E k \in 0 .. Len(line) : /\ chain' = [chain EXCEPT ![p] = SubSeq(line, 1, k)]
                                           /\ line' = SubSeq(line, k + 1, Len(line))
           \/ /\ pc[p] = "remove" /\ chain' = chain /\ sent' = sent
              /\ \/ Position(p) = {} /\ line' = line /\ to = "await"
                 \/ (\E k \in Position(p) : line' = Without(line, k)) /\ to = "removed"
  BY DEF LineMove
<1>2. CASE pc[p] = "fresh"
  <2>1. Prepared(p) /\ ~Parked(p) /\ ~Signaling(p)
    BY <1>2 DEF BarrierInv, Local, Parked, At, Signaling
  <2> QED  BY <1>1, <1>2, <2>1, PushMove DEF BarrierInv
<1>3. CASE pc[p] = "drain"
  <2>1. ~Parked(p) /\ ~Signaling(p)
    BY <1>3 DEF Parked, At, Signaling
  <2>2. PICK signal \in Signals : Delivered(signal) /\ sent' = [sent EXCEPT ![p] = signal]
    BY <1>1, <1>3 DEF Signals, Delivered
  <2>3. PICK k \in 0 .. Len(line) : /\ chain' = [chain EXCEPT ![p] = SubSeq(line, 1, k)]
                                    /\ line' = SubSeq(line, k + 1, Len(line))
    BY <1>1, <1>3
  <2>4. Locked(p, "signal")
    BY <1>1, <1>3
  <2> QED  BY <2>1, <2>2, <2>3, <2>4, PopMove DEF BarrierInv
<1>4. CASE pc[p] = "remove"
  BY <1>1, <1>4, RemoveMove DEF BarrierInv
<1> QED  BY <1>1, <1>2, <1>3, <1>4

(* and every step of Parking. *)
LEMMA SleepParking ==
  ASSUME BarrierInv, NEW p \in Procs, SleepStep(p)
  PROVE  ParkingInv' /\ Frame(p)
BY ParkingKeeps, ParkingFrame DEF BarrierInv, SleepStep

(* All the steps. *)
LEMMA StepParking ==
  ASSUME BarrierInv, NEW p \in Procs, BarrierStep(p)
  PROVE  ParkingInv' /\ Frame(p)
BY PlainFacts, EndFacts, LineFacts, PlainParking, EndParking, LineParking, SleepParking
   DEF BarrierStep

-----------------------------------------------------------------------------
(* What others know about themselves stays true. *)
LEMMA OthersLocal ==
  ASSUME BarrierInv, NEW p \in Procs, Frame(p), NEW r \in Procs \ {p}
  PROVE  Local(r)'
<1>1. Local(r) /\ NoProc \notin Procs
  BY ProcsAssumption DEF BarrierInv
<1>2. Busy(r) => Parked(r)
  BY DEF BarrierInv, ParkingInv, AliveInv
<1>3. /\ pc'[r] = pc[r] /\ ret'[r] = ret[r]
      /\ ~Busy(r) => value'[r] = value[r] /\ slot'[r] = slot[r]
      /\ holder' = holder \/ holder = NoProc \/ holder = p
  BY DEF Frame
<1>4. /\ At(r)' = At(r) /\ (Parked(r)' <=> Parked(r))
      /\ (HasNode(r)' <=> HasNode(r)) /\ (Locking(r)' <=> Locking(r))
  <2>1. At(r)' = At(r) /\ (Parked(r)' <=> Parked(r))
    BY <1>3, SamePoint
  <2> QED  BY <1>3, <2>1 DEF HasNode, Locking
<1>5. Locking(r) => holder' = r
  BY <1>1, <1>3 DEF Local
<1>6. pc[r] \in {"enqueue", "fresh"} => Prepared(r)'
  <2>1. pc[r] \in {"enqueue", "fresh"} => ~Parked(r)
    BY DEF Parked, At
  <2> QED  BY <1>1, <1>2, <1>3, <2>1 DEF Local, Prepared, Tasks
<1>7. ~HasNode(r) => value'[r] = "uninit"
  BY <1>1, <1>2, <1>3 DEF Local, HasNode
<1> QED  BY <1>1, <1>3, <1>4, <1>5, <1>6, <1>7 DEF Local

(* So does what a process knows about itself when it moves: on the word, *)
LEMMA PlainLocal ==
  ASSUME BarrierInv, NEW p \in Procs, PlainMove(p)
  PROVE  Local(p)'
<1>t. ParkingTypeOK /\ Local(p)
  BY DEF BarrierInv, ParkingInv
<1>1. /\ pc[p] \in {"idle", "release", "enqueue"}
      /\ pc'[p] \in {"idle", "release", "drain", "enqueue", "fresh"}
      /\ pc'[p] \in {"drain", "fresh"} => holder' = p
      /\ \/ pc[p] \in {"idle", "release"} /\ pc'[p] \in {"idle", "release", "drain"} /\ UNCHANGED nodeVars
         \/ pc'[p] = "enqueue" /\ PrepareNode(p)
         \/ pc[p] = "enqueue" /\ pc'[p] = "fresh" /\ UNCHANGED nodeVars
  BY DEF PlainMove
<1>2. /\ At(p) = pc[p] /\ At(p)' = pc'[p] /\ ~Parked(p) /\ ~Parked(p)'
      /\ HasNode(p) <=> pc[p] = "enqueue"
      /\ HasNode(p)' <=> pc'[p] \in {"enqueue", "fresh"}
      /\ Locking(p)' <=> pc'[p] \in {"drain", "fresh"}
  BY <1>1 DEF At, Parked, HasNode, Locking
<1>3. pc'[p] \in {"enqueue", "fresh"} => Prepared(p)'
  <2>1. CASE PrepareNode(p)
    BY <1>t, <2>1, NodeFacts
  <2>2. CASE pc[p] = "enqueue" /\ UNCHANGED nodeVars
    BY <1>t, <2>2 DEF Local, Prepared, nodeVars
  <2> QED  BY <1>1, <2>1, <2>2
<1>4. ~HasNode(p)' => value'[p] = "uninit"
  BY <1>t, <1>1, <1>2 DEF Local, nodeVars
<1> QED  BY <1>1, <1>2, <1>3, <1>4 DEF Local

(* ... at the end of a wait, *)
LEMMA EndLocal ==
  ASSUME BarrierInv, NEW p \in Procs, EndMove(p)
  PROVE  Local(p)'
<1>t. ParkingTypeOK /\ PointsOK /\ Local(p)
  BY DEF BarrierInv, ParkingInv
<1>1. /\ holder' = holder
      /\ \/ pc[p] = "fresh" /\ pc'[p] = "unlock" /\ ret'[p] = "idle" /\ FreeNode(p)
         \/ pc'[p] = "idle" /\ FreeNode(p)
         \/ pc'[p] \in {"withdraw", "leave", "await"} /\ UNCHANGED nodeVars
  BY <1>t DEF EndMove, PointsOK
<1>2. /\ Locking(p)' => pc[p] = "fresh"
      /\ pc'[p] \in {"withdraw", "leave", "await"} => HasNode(p)'
  BY <1>1 DEF Locking, At, HasNode, Parked
<1>3. Locking(p)' => holder' = p
  BY <1>t, <1>1, <1>2 DEF Local, Locking
<1>4. pc'[p] \notin {"withdraw", "leave", "await"} => value'[p] = "uninit"
  BY <1>t, <1>1, NodeFacts
<1> QED  BY <1>1, <1>2, <1>3, <1>4 DEF Local

(* ... under the lock, *)
LEMMA LineLocal ==
  ASSUME BarrierInv, NEW p \in Procs, LineMove(p)
  PROVE  Local(p)'
<1>t. ParkingTypeOK /\ PointsOK /\ Local(p)
  BY DEF BarrierInv, ParkingInv
<1>1. PICK to : /\ Locked(p, to) /\ pc'[p] = "unlock"
                /\ \/ pc[p] = "fresh" /\ to \in {"swap", "pending"}
                   \/ pc[p] = "drain" /\ to = "signal"
                   \/ pc[p] = "remove" /\ to \in {"await", "removed"}
  BY DEF LineMove
<1>2. /\ ret'[p] = to /\ holder' = p /\ value' = value
  BY <1>t, <1>1 DEF Locked, nodeVars, PointsOK
<1>3. At(p)' = to /\ At(p) = pc[p]
  BY <1>1, <1>2 DEF At
<1>4. /\ ~HasNode(p)' <=> to = "signal"
      /\ to = "signal" => ~HasNode(p)
  BY <1>1, <1>3 DEF HasNode, Parked
<1>5. to \in {"idle", "swap", "pending", "signal", "await", "removed"}
  BY <1>1
<1>6. ~HasNode(p)' => value'[p] = "uninit"
  BY <1>t, <1>2, <1>4 DEF Local
<1> QED  BY <1>1, <1>2, <1>5, <1>6 DEF Local

(* ... and when it unlocks, waits or signals. *)
LEMMA SleepLocal ==
  ASSUME BarrierInv, NEW p \in Procs, SleepStep(p)
  PROVE  Local(p)'
<1>t. ParkingTypeOK /\ PointsOK /\ Local(p)
  BY DEF BarrierInv, ParkingInv
<1>2. CASE WaitMove(p)
  <2>1. /\ pc[p] \in {"swap", "check", "pending", "reload", "await", "park", "rearm", "leave"}
        /\ \/ pc'[p] \in {"woken", "awaited", "park", "check", "pending", "rearm", "reload", "await"}
           \/ pc'[p] = "remove" /\ holder' = p
    BY <1>2 DEF WaitMove
  <2>2. At(p)' = pc'[p] /\ HasNode(p)' /\ (Locking(p)' <=> pc'[p] = "remove")
    BY <2>1 DEF At, HasNode, Parked, Locking
  <2> QED  BY <2>1, <2>2 DEF Local
<1>3. CASE UnlockMove(p)
  <2>1. pc[p] = "unlock" /\ pc'[p] = ret[p] /\ ret[p] # "signal" /\ value' = value
    BY <1>3 DEF UnlockMove, nodeVars
  <2>2. ret[p] \in {"idle", "swap", "pending", "await", "removed"}
    BY <1>t, <2>1 DEF Local
  <2>3. At(p)' = ret[p] /\ At(p) = ret[p] /\ ~Locking(p)' /\ (HasNode(p)' <=> HasNode(p))
    BY <2>1, <2>2 DEF At, HasNode, Parked, Locking
  <2> QED  BY <1>t, <2>1, <2>2, <2>3 DEF Local
<1>4. CASE SignalMove(p)
  <2>1. /\ pc[p] \in {"take", "store", "storeWake", "wake"} \/ (pc[p] = "unlock" /\ ret[p] = "signal")
        /\ pc'[p] \in {"take", "store", "storeWake", "wake", "idle"}
        /\ value'[p] = value[p]
    BY <1>4 DEF SignalMove, Signaling
  <2>2. ~HasNode(p) /\ ~HasNode(p)' /\ ~Locking(p)' /\ At(p)' = pc'[p]
    BY <2>1 DEF At, HasNode, Parked, Locking
  <2> QED  BY <1>t, <2>1, <2>2 DEF Local
<1> QED  BY <1>2, <1>3, <1>4, SleepFacts DEF SleepStep, SleepMove, BarrierInv

(* No step makes anybody's knowledge about themselves wrong. *)
LEMMA StepLocal ==
  ASSUME BarrierInv, NEW p \in Procs, BarrierStep(p)
  PROVE  \A r \in Procs : Local(r)'
<1>1. Local(p)'
  BY PlainFacts, EndFacts, LineFacts, PlainLocal, EndLocal, LineLocal, SleepLocal DEF BarrierStep
<1>2. \A r \in Procs \ {p} : Local(r)'
  BY OthersLocal, StepParking
<1> QED  BY <1>1, <1>2

-----------------------------------------------------------------------------
(* Every step is one of these. *)
LEMMA NextSteps ==
  ASSUME Next
  PROVE  \E p \in Procs : BarrierStep(p)
BY DEF Next, Step, BarrierStep, PlainStep, EndStep, LineStep, SleepStep, Fresh

(* The initial state. *)
LEMMA StartsWell == Init => BarrierInv
<1> SUFFICES ASSUME Init PROVE BarrierInv
  OBVIOUS
<1>1. ParkingInv
  BY ParkingStart DEF Init
<1>2. /\ pc = [r \in Procs |-> "idle"] /\ value = [r \in Procs |-> "uninit"]
      /\ chain = [r \in Procs |-> <<>>] /\ behind = [r \in Procs |-> 0] /\ arrived = 0
  BY DEF Init, ParkingInit
<1>3. ASSUME NEW p \in Procs PROVE pc[p] = "idle" /\ value[p] = "uninit" /\ At(p) = "idle"
  BY <1>2 DEF At
<1>4. ASSUME NEW p \in Procs PROVE Local(p) /\ ~Arrived(p)
  BY <1>3 DEF Local, Locking, HasNode, Arrived
<1>5. ASSUME NEW p \in Procs PROVE ~Completed(p)
  <2>1. ~Parked(p)
    BY <1>3 DEF Parked
  <2>2. ~Busy(p)
    BY <1>1, <2>1 DEF ParkingInv, AliveInv
  <2> QED  BY <1>3, <2>2 DEF Completed, Delivered, Busy
<1>6. OldInv
  <2>1. behind \in [Procs -> Nat]
    BY <1>2, SMT
  <2> QED  BY <1>5, <2>1 DEF OldInv
<1>7. CountInv
  <2>1. Current = {}
    BY <1>4 DEF Current
  <2> QED  BY <1>2, <2>1, FS_EmptySet DEF CountInv
<1> QED  BY <1>1, <1>4, <1>6, <1>7 DEF BarrierInv

-----------------------------------------------------------------------------
(* Who has left, or never came, is owed nothing. *)
LEMMA IdleNew ==
  ASSUME BarrierInv, NEW r \in Procs, pc[r] = "idle"
  PROVE  ~Completed(r) /\ ~Arrived(r) /\ ~Busy(r) /\ value[r] = "uninit"
<1>1. At(r) = "idle"
  BY DEF At
<1>2. ~Parked(r) /\ ~HasNode(r) /\ ~Arrived(r)
  BY <1>1 DEF Parked, HasNode, Arrived
<1>3. ~Busy(r)
  BY <1>2 DEF BarrierInv, ParkingInv, AliveInv
<1>4. value[r] = "uninit"
  BY <1>2 DEF BarrierInv, Local
<1> QED  BY <1>2, <1>3, <1>4 DEF Completed, Busy, Delivered

(* An arrival completes the generation, or joins it. *)
ArriveMove(p) ==
    /\ pc[p] = "idle" /\ UNCHANGED signalVars
    /\ pc' = [r \in Procs |-> pc'[r]] /\ (\A r \in Procs \ {p} : pc'[r] = pc[r]) /\ ret' = ret
    /\ \/ pc'[p] = "release" /\ NobodyLapped /\ NextGeneration(p) /\ arrived' = 0 /\ value' = value
       \/ /\ pc'[p] = "enqueue" /\ behind' = [behind EXCEPT ![p] = 0] /\ arrived' = arrived + 1
          /\ value' = [value EXCEPT ![p] = IF p \in Tasks THEN "waiting" ELSE "uninit"]

(* It does no more. *)
LEMMA ArriveFacts ==
  ASSUME BarrierInv, NEW p \in Procs, Arrive(p)
  PROVE  ArriveMove(p)
<1>p. pc = [r \in Procs |-> pc[r]]
  BY DEF BarrierInv, ParkingInv, PointsOK
<1> QED  BY <1>p DEF Arrive, Goto, PrepareNode, nodeVars, ArriveMove

(* The nodes that are popped stay the same. *)
LEMMA ArrivePopped ==
  ASSUME BarrierInv, NEW p \in Procs, ArriveMove(p), NEW n \in Procs, NEW r \in Procs
  PROVE  Popped(n, r)' <=> Popped(n, r)
<1>1. chain' = chain /\ node' = node
  BY DEF ArriveMove, signalVars
<1>2. pc'[r] \in {"store", "storeWake"} <=> pc[r] \in {"store", "storeWake"}
  BY DEF ArriveMove
<1> QED  BY <1>1, <1>2 DEF Popped, InChain, Storing

(* A completing arrival makes the generation of everybody in it an old one. *)
LEMMA Completing ==
  ASSUME BarrierInv, NEW p \in Procs, ArriveMove(p), NextGeneration(p), NobodyLapped
  PROVE  /\ behind' \in [Procs -> Nat]
         /\ \A r \in Procs : InCurrent(r)' => r # p /\ pc[r] = "idle"
<1>1. behind \in [Procs -> Nat]
  BY DEF BarrierInv, OldInv
<1>2. ASSUME NEW r \in Procs, pc[r] # "idle"
      PROVE  (behind[r] + 1) % Wrap \in Nat /\ (behind[r] + 1) % Wrap # 0
  <2>1. behind[r] \in Nat /\ behind[r] + 1 < Wrap /\ Wrap \in Nat
    BY <1>1, <1>2, SizeAssumption DEF NobodyLapped
  <2> QED  BY <2>1, SMT
<1>3. \A r \in Procs : behind'[r] = IF r = p THEN 1 ELSE IF pc[r] = "idle" THEN 0 ELSE (behind[r] + 1) % Wrap
  BY DEF NextGeneration
<1>4. \A r \in Procs : behind'[r] \in Nat
  BY <1>2, <1>3, SMT
<1>5. behind' \in [Procs -> Nat]
  <2>1. behind' = [r \in Procs |-> behind'[r]]
    BY DEF NextGeneration
  <2> QED  BY <1>4, <2>1
<1>6. 1 # 0
  BY SMT
<1> QED  BY <1>2, <1>3, <1>5, <1>6 DEF InCurrent

(* An arrival keeps the completed generations apart from the current one, *)
LEMMA ArriveOld ==
  ASSUME BarrierInv, NEW p \in Procs, ArriveMove(p)
  PROVE  OldInv'
<1>o. behind \in [Procs -> Nat] /\ value \in [Procs -> Signals] /\ \A r \in Procs : Completed(r) => ~InCurrent(r)
  BY DEF BarrierInv, OldInv, ParkingInv, ParkingTypeOK
<1>p. pc[p] = "idle"
  BY DEF ArriveMove
<1>1. ASSUME NEW r \in Procs \ {p}, Completed(r)' PROVE Completed(r)
  <2>1. pc'[r] = pc[r] /\ value'[r] = value[r]
    BY <1>o DEF ArriveMove
  <2> QED  BY <1>1, <2>1, ArrivePopped DEF Completed
<1>2. CASE pc'[p] = "release"
  <2>1. NobodyLapped /\ NextGeneration(p)
    BY <1>2 DEF ArriveMove
  <2>2. /\ behind' \in [Procs -> Nat]
        /\ \A r \in Procs : InCurrent(r)' => r # p /\ pc[r] = "idle"
    BY <2>1, Completing
  <2>3. ASSUME NEW r \in Procs, Completed(r)', InCurrent(r)' PROVE FALSE
    <3>1. r \in Procs \ {p} /\ pc[r] = "idle"
      BY <2>2, <2>3
    <3> QED  BY <1>1, <2>3, <3>1, IdleNew
  <2> QED  BY <2>2, <2>3 DEF OldInv
<1>3. CASE pc'[p] = "enqueue"
  <2>1. /\ behind' = [behind EXCEPT ![p] = 0]
        /\ value' = [value EXCEPT ![p] = IF p \in Tasks THEN "waiting" ELSE "uninit"]
    BY <1>3 DEF ArriveMove
  <2>2. behind' \in [Procs -> Nat]
    BY <1>o, <2>1, SMT
  <2>3. ~Completed(p)'
    <3>1. value'[p] \in {"waiting", "uninit"}
      BY <1>o, <2>1
    <3>2. ASSUME NEW r \in Procs PROVE ~Popped(p, r)'
      BY <1>p, IdleNew, ArrivePopped DEF Busy
    <3> QED  BY <1>3, <3>1, <3>2 DEF Completed, Delivered
  <2>4. \A r \in Procs \ {p} : InCurrent(r)' => InCurrent(r)
    BY <1>o, <2>1 DEF InCurrent
  <2> QED  BY <1>o, <1>1, <2>2, <2>3, <2>4 DEF OldInv
<1> QED  BY <1>2, <1>3 DEF ArriveMove

(* ... and the count exact. *)
LEMMA ArriveCount ==
  ASSUME BarrierInv, NEW p \in Procs, ArriveMove(p)
  PROVE  CountInv'
<1>p. pc[p] = "idle" /\ \A r \in Procs \ {p} : pc'[r] = pc[r] /\ ret'[r] = ret[r]
  BY DEF ArriveMove
<1>a. ASSUME NEW r \in Procs \ {p} PROVE Arrived(r)' <=> Arrived(r)
  BY <1>p DEF Arrived, At
<1>1. CASE pc'[p] = "release"
  <2>1. NobodyLapped /\ NextGeneration(p) /\ arrived' = 0
    BY <1>1 DEF ArriveMove
  <2>2. ASSUME NEW r \in Procs, Arrived(r)', InCurrent(r)' PROVE FALSE
    <3>1. r \in Procs \ {p} /\ pc[r] = "idle"
      BY <2>1, <2>2, Completing
    <3> QED  BY <1>a, <2>2, <3>1, IdleNew
  <2>3. Current' = {}
    BY <2>2 DEF Current
  <2> QED  BY <2>1, <2>3, FS_EmptySet DEF CountInv
<1>2. CASE pc'[p] = "enqueue"
  <2>1. behind' = [behind EXCEPT ![p] = 0] /\ arrived' = arrived + 1 /\ behind \in [Procs -> Nat]
    BY <1>2 DEF ArriveMove, BarrierInv, OldInv
  <2>2. Arrived(p)' /\ InCurrent(p)' /\ ~Arrived(p)
    <3>1. Arrived(p)'
      BY <1>2 DEF Arrived, At
    <3> QED  BY <1>p, <2>1, <3>1, IdleNew DEF InCurrent
  <2>3. \A r \in Procs \ {p} : InCurrent(r)' <=> InCurrent(r)
    BY <2>1 DEF InCurrent
  <2>4. Current' = Current \cup {p} /\ p \notin Current
    BY <1>a, <2>2, <2>3 DEF Current
  <2>5. IsFiniteSet(Current) /\ arrived = Cardinality(Current)
    BY DEF BarrierInv, CountInv
  <2> QED  BY <2>1, <2>4, <2>5, FS_AddElement DEF CountInv
<1> QED  BY <1>1, <1>2 DEF ArriveMove

-----------------------------------------------------------------------------
(* Between arrivals a generation is acted on only when it is complete... *)
LEMMA QuietOld ==
  ASSUME BarrierInv, behind' = behind,
         \A r \in Procs : Completed(r)' => Completed(r) \/ ~InCurrent(r)
  PROVE  OldInv'
BY DEF BarrierInv, OldInv, InCurrent

(* ... and the count follows the one who moves. *)
LEMMA QuietCount ==
  ASSUME BarrierInv, NEW p \in Procs, Frame(p), behind' = behind, arrived' = arrived,
         InCurrent(p) => (Arrived(p)' <=> Arrived(p))
  PROVE  CountInv'
<1>1. ASSUME NEW r \in Procs \ {p} PROVE Arrived(r)' <=> Arrived(r)
  BY DEF Frame, Arrived, At
<1>2. ASSUME NEW r \in Procs PROVE InCurrent(r)' <=> InCurrent(r)
  BY DEF InCurrent
<1>3. Current' = Current
  BY <1>1, <1>2 DEF Current
<1> QED  BY <1>3 DEF BarrierInv, CountInv

(* Locking the queue. *)
LEMMA LockKeeps ==
  ASSUME BarrierInv, NEW p \in Procs, Release(p) \/ Enqueue(p)
  PROVE  OldInv' /\ CountInv'
<1>p. pc = [r \in Procs |-> pc[r]]
  BY DEF BarrierInv, ParkingInv, PointsOK
<1>1. /\ \/ pc[p] = "release" /\ pc'[p] \in {"drain", "idle"}
         \/ pc[p] = "enqueue" /\ pc'[p] = "fresh"
      /\ \A r \in Procs \ {p} : pc'[r] = pc[r]
      /\ chain' = chain /\ node' = node /\ value' = value /\ arrived' = arrived /\ behind' = behind
  BY <1>p DEF Release, Enqueue, Goto, nodeVars, signalVars, bvars
<1>2. ASSUME NEW r \in Procs, Completed(r)' PROVE Completed(r)
  <2>1. ASSUME NEW s \in Procs PROVE Popped(r, s)' <=> Popped(r, s)
    <3>1. pc'[s] \in {"store", "storeWake"} <=> pc[s] \in {"store", "storeWake"}
      BY <1>1
    <3> QED  BY <1>1, <3>1 DEF Popped, InChain, Storing
  <2>2. pc'[r] \in {"release", "drain", "woken", "awaited"} => pc[r] \in {"release", "drain", "woken", "awaited"}
    BY <1>1
  <2> QED  BY <1>1, <1>2, <2>1, <2>2 DEF Completed
<1>3. Arrived(p)' <=> Arrived(p)
  BY <1>1 DEF Arrived, At
<1>4. Frame(p)
  BY PlainFacts, PlainParking DEF PlainStep
<1> QED  BY <1>1, <1>2, <1>3, <1>4, QuietOld, QuietCount

(* The end of a wait: it was for a completed generation, or is withdrawn. *)
LEMMA EndOld ==
  ASSUME BarrierInv, NEW p \in Procs, EndMove(p)
  PROVE  OldInv'
<1>t. ParkingTypeOK /\ PointsOK
  BY DEF BarrierInv, ParkingInv
<1>1. /\ pc'[p] \in {"unlock", "idle", "withdraw", "leave", "await"}
      /\ pc[p] \in {"fresh", "woken", "awaited", "removed", "pending", "withdraw"}
      /\ \A r \in Procs \ {p} : pc'[r] = pc[r]
      /\ chain' = chain /\ node' = node /\ behind' = behind
      /\ FreeNode(p) \/ UNCHANGED nodeVars
  BY DEF EndMove, signalVars
<1>2. \A r \in Procs : value'[r] = value[r] \/ value'[r] = "uninit"
  BY <1>t, <1>1, NodeFacts DEF nodeVars
<1>3. ASSUME NEW r \in Procs, Completed(r)' PROVE Completed(r)
  <2>1. ASSUME NEW s \in Procs PROVE Popped(r, s)' <=> Popped(r, s)
    <3>1. pc'[s] \in {"store", "storeWake"} <=> pc[s] \in {"store", "storeWake"}
      BY <1>1
    <3> QED  BY <1>1, <3>1 DEF Popped, InChain, Storing
  <2>2. pc'[r] \in {"release", "drain", "woken", "awaited"} => pc[r] \in {"release", "drain", "woken", "awaited"}
    BY <1>1
  <2>3. Delivered(value'[r]) => Delivered(value[r])
    BY <1>2 DEF Delivered
  <2> QED  BY <1>3, <2>1, <2>2, <2>3 DEF Completed
<1> QED  BY <1>1, <1>3, QuietOld

(* A withdrawn arrival leaves one place, and only in its own generation. *)
LEMMA EndCount ==
  ASSUME BarrierInv, NEW p \in Procs, EndStep(p)
  PROVE  CountInv'
<1>t. ParkingTypeOK /\ PointsOK
  BY DEF BarrierInv, ParkingInv
<1>e. EndMove(p)
  BY EndFacts
<1>f. Frame(p) /\ behind' = behind
  BY <1>e, EndParking DEF EndMove
<1>c. Completed(p) => ~InCurrent(p)
  BY DEF BarrierInv, OldInv
<1>1. CASE Withdraw(p) /\ InCurrent(p)
  <2>1. pc[p] = "withdraw" /\ pc'[p] = "leave" /\ arrived' = arrived - 1
    BY <1>t, <1>1 DEF Withdraw, Goto, PointsOK
  <2>2. Arrived(p) /\ ~Arrived(p)'
    BY <2>1 DEF Arrived, At
  <2>3. ASSUME NEW r \in Procs \ {p} PROVE Arrived(r)' <=> Arrived(r)
    BY <1>f DEF Frame, Arrived, At
  <2>4. ASSUME NEW r \in Procs PROVE InCurrent(r)' <=> InCurrent(r)
    BY <1>f DEF InCurrent
  <2>5. Current' = Current \ {p} /\ p \in Current
    BY <1>1, <2>2, <2>3, <2>4 DEF Current
  <2>6. IsFiniteSet(Current) /\ arrived = Cardinality(Current)
    BY DEF BarrierInv, CountInv
  <2> QED  BY <2>1, <2>5, <2>6, FS_RemoveElement DEF CountInv
<1>2. CASE ~(Withdraw(p) /\ InCurrent(p))
  <2>1. arrived' = arrived
    BY <1>2 DEF EndStep, Fresh, Return, Drop, Withdraw, bvars
  <2>2. pc[p] # "withdraw" \/ ~InCurrent(p)
    BY <1>2 DEF EndStep, Fresh, Return, Drop
  <2>3. pc[p] = "pending" /\ value[p] # "waiting" => Delivered(value[p])
    <3>1. pc[p] = "pending" => value[p] # "uninit"
      BY DEF BarrierInv, ParkingInv, WaiterInv, Parked, At
    <3> QED  BY <1>t, <3>1 DEF ParkingTypeOK, Signals, Delivered
  <2>4. InCurrent(p) => \/ pc[p] = "removed" /\ pc'[p] = "idle"
                        \/ pc[p] = "pending" /\ pc'[p] = "withdraw"
    BY <1>e, <1>c, <2>2, <2>3 DEF EndMove, Completed
  <2>5. InCurrent(p) => (Arrived(p)' <=> Arrived(p))
    BY <2>4 DEF Arrived, At
  <2> QED  BY <1>f, <2>1, <2>5, QuietCount
<1> QED  BY <1>1, <1>2

(* Only nodes of the completed generation are popped. *)
LEMMA LineOld ==
  ASSUME BarrierInv, NEW p \in Procs, LineMove(p)
  PROVE  OldInv'
<1>t. ParkingTypeOK /\ PointsOK
  BY DEF BarrierInv, ParkingInv
<1>1. /\ pc'[p] = "unlock" /\ node' = node /\ value' = value /\ behind' = behind
      /\ pc[p] \in {"fresh", "drain", "remove"} /\ \A r \in Procs \ {p} : pc'[r] = pc[r]
  BY DEF LineMove, Locked, nodeVars, bvars
<1>2. ASSUME NEW n \in Procs, NEW s \in Procs, Popped(n, s)' PROVE Popped(n, s) \/ ~InCurrent(n)
  <2>1. CASE pc[p] # "drain"
    <3>1. chain' = chain
      BY <2>1 DEF LineMove
    <3> QED  BY <1>1, <1>2, <3>1 DEF Popped, InChain, Storing
  <2>2. CASE pc[p] = "drain"
    <3>1. PICK k \in 0 .. Len(line) : Leading(p, k) /\ chain' = [chain EXCEPT ![p] = SubSeq(line, 1, k)]
      BY <2>2 DEF LineMove
    <3>2. CASE s # p
      BY <1>t, <1>1, <1>2, <3>1, <3>2 DEF Popped, InChain, Storing, ParkingTypeOK
    <3>3. CASE s = p
      <4>1. chain'[p] = SubSeq(line, 1, k) /\ line \in Seq(Procs)
        BY <1>t, <3>1 DEF ParkingTypeOK
      <4>2. PICK i \in 1 .. Len(chain'[p]) : chain'[p][i] = n
        BY <1>1, <1>2, <3>3 DEF Popped, InChain, Storing, Among
      <4>3. i \in 1 .. k /\ line[i] = n
        BY <4>1, <4>2, SMT
      <4>4. behind[n] = behind[p]
        BY <3>1, <4>3 DEF Leading
      <4>5. ~InCurrent(p)
        BY <2>2 DEF BarrierInv, OldInv, Completed
      <4> QED  BY <4>4, <4>5 DEF InCurrent
    <3> QED  BY <3>2, <3>3
  <2> QED  BY <2>1, <2>2
<1>3. ASSUME NEW r \in Procs, Completed(r)' PROVE Completed(r) \/ ~InCurrent(r)
  <2>1. pc'[r] \in {"release", "drain", "woken", "awaited"} => pc[r] \in {"release", "drain", "woken", "awaited"}
    BY <1>1
  <2> QED  BY <1>1, <1>2, <1>3, <2>1 DEF Completed
<1> QED  BY <1>1, <1>3, QuietOld

(* Nobody in the queue stops counting. *)
LEMMA LineCount ==
  ASSUME BarrierInv, NEW p \in Procs, LineMove(p)
  PROVE  CountInv'
<1>1. PICK to : /\ Locked(p, to) /\ pc'[p] = "unlock" /\ UNCHANGED bvars
                /\ \/ pc[p] = "fresh" /\ to \in {"swap", "pending"}
                   \/ pc[p] = "drain" /\ to = "signal"
                   \/ pc[p] = "remove" /\ to \in {"await", "removed"}
  BY DEF LineMove
<1>2. ret'[p] = to
  BY <1>1 DEF Locked, BarrierInv, ParkingInv, PointsOK
<1>3. At(p)' = to /\ At(p) = pc[p]
  BY <1>1, <1>2 DEF At
<1>4. Arrived(p)' <=> Arrived(p)
  BY <1>1, <1>3 DEF Arrived
<1> QED  BY <1>1, <1>4, LineParking, QuietCount DEF bvars

(* A signal comes only to nodes that were popped. *)
LEMMA SleepOld ==
  ASSUME BarrierInv, NEW p \in Procs, SleepStep(p)
  PROVE  OldInv'
<1>s. ParkingInv /\ (ParkingStep(p) \/ Rouse(p)) /\ behind' = behind /\ Local(p)
  BY DEF BarrierInv, SleepStep, bvars
<1>f. SleepMove(p) /\ \A r \in Procs \ {p} : pc'[r] = pc[r]
  BY <1>s, SleepFacts, ParkingFrame DEF Frame
<1>1. pc'[p] \in {"woken", "awaited"} => Delivered(value[p])
  <2>1. CASE WaitMove(p)
    BY <2>1 DEF WaitMove
  <2>2. CASE UnlockMove(p)
    <3>1. pc'[p] \in {"idle", "swap", "pending", "signal", "await", "removed"}
      BY <1>s, <2>2 DEF UnlockMove, Local
    <3> QED  BY <3>1
  <2>3. CASE SignalMove(p)
    BY <2>3 DEF SignalMove, Signaling
  <2> QED  BY <1>f, <2>1, <2>2, <2>3 DEF SleepMove
<1>2. pc'[p] \notin {"release", "drain"}
  <2>1. CASE WaitMove(p)
    BY <2>1 DEF WaitMove
  <2>2. CASE UnlockMove(p)
    BY <1>s, <2>2 DEF UnlockMove, Local
  <2>3. CASE SignalMove(p)
    BY <2>3 DEF SignalMove, Signaling
  <2> QED  BY <1>f, <2>1, <2>2, <2>3 DEF SleepMove
<1>3. ASSUME NEW r \in Procs, Completed(r)' PROVE Completed(r)
  <2>1. CASE pc'[r] \in {"release", "drain", "woken", "awaited"}
    BY <1>f, <1>1, <1>2, <2>1 DEF Completed
  <2>2. CASE Delivered(value'[r])
    <3>1. value'[r] = value[r] \/ value'[r] = "waiting" \/ Popped(r, p)
      BY <1>s, SignalFacts
    <3> QED  BY <2>2, <3>1 DEF Completed, Delivered
  <2>3. CASE \E s \in Procs : Popped(r, s)'
    BY <1>s, <2>3, SignalFacts DEF Completed
  <2> QED  BY <1>3, <2>1, <2>2, <2>3 DEF Completed
<1> QED  BY <1>s, <1>3, QuietOld

(* Asleep or awake, an arrival counts. *)
LEMMA SleepCount ==
  ASSUME BarrierInv, NEW p \in Procs, SleepStep(p)
  PROVE  CountInv'
<1>s. ParkingInv /\ (ParkingStep(p) \/ Rouse(p)) /\ behind' = behind /\ arrived' = arrived
  BY DEF BarrierInv, SleepStep, bvars
<1>p. pc = [r \in Procs |-> pc[r]]
  BY <1>s DEF ParkingInv, PointsOK
<1>f. SleepMove(p) /\ Frame(p)
  BY <1>s, SleepFacts, ParkingFrame
<1>1. CASE Swap(p) \/ CheckSignal(p) \/ Rearm(p) \/ Reload(p) \/ ParkReturn(p) \/ Poll(p)
  <2>1. /\ pc[p] \in {"swap", "check", "rearm", "reload", "park", "pending"}
        /\ pc'[p] \in {"woken", "park", "pending", "reload", "check", "rearm"}
    BY <1>p, <1>1 DEF Swap, CheckSignal, Rearm, Reload, ParkReturn, Poll, Goto
  <2>2. Arrived(p) /\ Arrived(p)'
    BY <2>1 DEF Arrived, At
  <2> QED  BY <1>s, <1>f, <2>2, QuietCount
<1>2. CASE Leave(p) \/ AwaitSignal(p)
  <2>1. pc[p] \in {"leave", "await"} /\ pc'[p] \in {"remove", "await", "awaited"}
    BY <1>p, <1>2 DEF Leave, AwaitSignal, Goto
  <2>2. ~Arrived(p) /\ ~Arrived(p)'
    BY <2>1 DEF Arrived, At
  <2> QED  BY <1>s, <1>f, <2>2, QuietCount
<1>3. CASE UnlockMove(p)
  <2>1. pc[p] = "unlock" /\ pc'[p] = ret[p] /\ ret[p] \notin {"clear", "unlock"}
    BY <1>s, <1>3 DEF UnlockMove, ParkingInv, PointsOK
  <2>2. At(p)' = At(p)
    BY <2>1 DEF At
  <2> QED  BY <1>s, <1>f, <2>2, QuietCount DEF Arrived
<1>4. CASE SignalMove(p)
  <2>1. /\ pc[p] \in {"take", "store", "storeWake", "wake"} \/ (pc[p] = "unlock" /\ ret[p] = "signal")
        /\ pc'[p] \in {"take", "store", "storeWake", "wake", "idle"}
    BY <1>4 DEF SignalMove, Signaling
  <2>2. ~Arrived(p) /\ ~Arrived(p)'
    BY <2>1 DEF Arrived, At
  <2> QED  BY <1>s, <1>f, <2>2, QuietCount
<1>5. CASE WaitMove(p)
  <2>1. pc[p] \notin {"unlock", "take", "store", "storeWake", "wake"}
    BY <1>5 DEF WaitMove
  <2>2. ~(Unlock(p) \/ TakeWaker(p) \/ StoreSignal(p) \/ Wake(p))
    BY <2>1 DEF Unlock, TakeWaker, StoreSignal, Wake
  <2> QED  BY <1>s, <1>1, <1>2, <2>2 DEF ParkingStep, Rouse
<1> QED  BY <1>f, <1>3, <1>4, <1>5 DEF SleepMove

(* Every step keeps the invariant. *)
LEMMA BarrierStepKeeps ==
  ASSUME BarrierInv, NEW p \in Procs, BarrierStep(p)
  PROVE  BarrierInv'
<1>1. ParkingInv' /\ \A r \in Procs : Local(r)'
  BY StepParking, StepLocal
<1>2. CASE Arrive(p)
  BY <1>1, <1>2, ArriveFacts, ArriveOld, ArriveCount DEF BarrierInv
<1>3. CASE Release(p) \/ Enqueue(p)
  BY <1>1, <1>3, LockKeeps DEF BarrierInv
<1>4. CASE EndStep(p)
  BY <1>1, <1>4, EndFacts, EndOld, EndCount DEF BarrierInv
<1>5. CASE LineStep(p)
  BY <1>1, <1>5, LineFacts, LineOld, LineCount DEF BarrierInv
<1>6. CASE SleepStep(p)
  BY <1>1, <1>6, SleepOld, SleepCount DEF BarrierInv
<1> QED  BY <1>2, <1>3, <1>4, <1>5, <1>6 DEF BarrierStep, PlainStep

(* So does doing nothing. *)
LEMMA StutterKeeps ==
  ASSUME BarrierInv, UNCHANGED vars
  PROVE  BarrierInv'
<1>1. /\ UNCHANGED <<holder, line, pc, value, slot, awake, seen, ret, chain, sent, node, arrived, behind>>
  BY DEF vars, pvars, qvars, nodeVars, signalVars, bvars
<1>2. ParkingInv'
  BY ParkingUnchanged DEF BarrierInv, vars
<1>3. ASSUME NEW r \in Procs PROVE At(r)' = At(r) /\ (Parked(r)' <=> Parked(r))
  BY <1>1, SamePoint
<1>4. ASSUME NEW r \in Procs PROVE Local(r)'
  BY <1>1, <1>3 DEF BarrierInv, Local, Locking, HasNode, Prepared
<1>5. OldInv'
  BY <1>1 DEF BarrierInv, OldInv, Completed, InCurrent, Popped, InChain, Storing
<1>6. CountInv'
  <2>1. Current' = Current
    BY <1>1, <1>3 DEF Current, Arrived, InCurrent
  <2> QED  BY <1>1, <2>1 DEF BarrierInv, CountInv
<1> QED  BY <1>2, <1>4, <1>5, <1>6 DEF BarrierInv

-----------------------------------------------------------------------------
(* The invariant holds whatever the number of processes, the size of the    *)
(* barrier and the number of generations its word can tell apart.            *)
THEOREM BarrierInvariance == Spec => []BarrierInv
<1>1. Init => BarrierInv
  BY StartsWell
<1>2. BarrierInv /\ [Next]_vars => BarrierInv'
  BY NextSteps, BarrierStepKeeps, StutterKeeps
<1> QED  BY <1>1, <1>2, PTL DEF Spec

(* The count in the state word is the number of those who wait for the       *)
(* generation that is forming.                                               *)
THEOREM CountsArrivalsHolds == Spec => []CountsArrivals
<1>1. BarrierInv => CountsArrivals
  BY DEF BarrierInv, CountInv, Current, CountsArrivals
<1> QED  BY <1>1, BarrierInvariance, PTL

(* Nobody is signaled, and no wait returns, before the generation of the     *)
(* waiter is complete.                                                       *)
THEOREM ReleasedWhenCompleteHolds == Spec => []ReleasedWhenComplete
<1>1. BarrierInv => ReleasedWhenComplete
  <2> SUFFICES ASSUME BarrierInv, NEW p \in Procs
               PROVE  /\ pc[p] \in {"woken", "awaited"} => ~InCurrent(p)
                      /\ \A i \in 1 .. Len(chain[p]) : ~InCurrent(chain[p][i])
    BY DEF ReleasedWhenComplete
  <2>1. \A r \in Procs : Completed(r) => ~InCurrent(r)
    BY DEF BarrierInv, OldInv
  <2>2. pc[p] \in {"woken", "awaited"} => ~InCurrent(p)
    BY <2>1 DEF Completed
  <2>3. ASSUME NEW i \in 1 .. Len(chain[p]) PROVE ~InCurrent(chain[p][i])
    <3>1. PICK n : n = chain[p][i]
      OBVIOUS
    <3>2. n \in Procs
      <4>1. chain[p] \in Seq(Procs)
        BY DEF BarrierInv, ParkingInv, ParkingTypeOK
      <4> QED  BY <3>1, <4>1, SMT
    <3>3. Popped(n, p)
      BY <3>1 DEF Popped, InChain, Among
    <3> QED  BY <2>1, <3>1, <3>2, <3>3 DEF Completed
  <2> QED  BY <2>2, <2>3
<1> QED  BY <1>1, BarrierInvariance, PTL

(* Signaling is safe for those who wait at the barrier. *)
THEOREM BarrierWaitersSafe == Spec => []WaitersSafe
<1>1. BarrierInv => WaitersSafe
  BY InvSafe DEF BarrierInv
<1> QED  BY <1>1, BarrierInvariance, PTL
=============================================================================
