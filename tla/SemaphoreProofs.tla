-------------------------- MODULE SemaphoreProofs ---------------------------
(***************************************************************************)
(* The semaphore and the reader-writer lock for any number of threads,     *)
(* tasks and permits: permits are conserved, HAS_QUEUE tells the truth,    *)
(* nobody waits in line for nothing, nobody barges, and a writer is alone. *)
(* First the inductive invariant, and what the steps do to the line, to    *)
(* the permits and to those who serve the line; then the sums of permits,  *)
(* and the theorems.                                                       *)
(***************************************************************************)
EXTENDS RwLock, ParkingProofs, FiniteSetTheorems

(* Zenon is tried on every leaf that names no other prover. *)
USE Zenon

(* Points where a process holds the lock of the queue. *)
Locking(p) == pc[p] \in {"flag", "grab", "collect", "grant", "expel", "remove", "clear", "unlock"}

(* The request of p has a Signal. *)
HasNode(p) ==
    \/ Parked(p)
    \/ At(p) \in {"enqueue", "flag", "grab", "woken", "awaited", "giveback", "cancelledHead",
                  "cancelled"}

Requesting(p) == HasNode(p) \/ pc[p] = "retry"

(* What each process knows about itself... *)
Local(p) ==
    /\ pc[p] \in {"clear", "unlock"} =>
          ret[p] \in {"idle", "swap", "pending", "signal", "await", "giveback", "cancelledHead",
                      "cancelled"}
    /\ Locking(p) => holder = p
    /\ pc[p] \in {"enqueue", "flag", "grab"} => Prepared(p)
    /\ ~HasNode(p) => value[p] = "uninit" /\ seen[p] = "uninit"
    /\ At(p) \in {"woken", "awaited"} => Delivered(seen[p])
    /\ pc[p] = "grab" => hasQueue = TRUE
    /\ pc[p] = "clear" => line = <<>>
    /\ pc[p] = "unlock" /\ line = <<>> => hasQueue = FALSE

(* ... about its permits... *)
Account(p) ==
    /\ ~Requesting(p) => need[p] = 0 /\ aux[p] = 0
    /\ Requesting(p) => held[p] = 0
    /\ At(p) \in {"retry", "enqueue", "flag", "grab", "cancelledHead", "cancelled"} =>
          aux[p] = need[p]
    /\ At(p) = "giveback" => aux[p] < need[p]
    /\ pc[p] # "grant" => avail[p] = 0

(* ... and what a signal tells it: SIGNALED comes with all it asked for. *)
SemSignals == {"uninit", "waiting", "signaled", "closed"}

Promise(p) ==
    /\ value[p] \in SemSignals /\ seen[p] \in SemSignals /\ sent[p] \in SemSignals
    /\ "signaled" \in {value[p], seen[p]} => aux[p] = 0
    /\ sent[p] = "signaled" => \A n \in Procs : Popped(n, p) => aux[n] = 0

(* p is about to serve the line, or to empty it. *)
Serving(p) ==
    pc[p] \in {"drain", "collect", "close", "expel"} \/ At(p) \in {"giveback", "cancelledHead"}

(* A drain at work has emptied the pool: what is in it came later. *)
StuckInv ==
    line # <<>> =>
        /\ (IF \E p \in Procs : pc[p] = "grant" THEN permits > 0 ELSE aux[Head(line)] <= permits) =>
              \E p \in Procs : Serving(p)
        /\ closed = TRUE => \E p \in Procs : pc[p] \in {"close", "expel"}

(* What is missed in line can be compared with what there is. *)
MissingOK == \A k \in 0 .. Len(line) : Missing(k) \in Nat

SemInv ==
    /\ ParkingInv /\ TypeOK /\ PermitsConserved
    /\ (\A p \in Procs : Local(p) /\ Account(p) /\ Promise(p))
    /\ FlagMeansLine /\ StuckInv /\ MissingOK

-----------------------------------------------------------------------------
(* Steps on the pool, before waiting or after it. *)
WordStep(p) ==
    \/ \E n \in Nat : Acquire(p, n) \/ Release(p, n) \/ AddPermits(p, n) \/ ForgetPermits(p, n)
    \/ Forget(p) \/ Close(p) \/ Retry(p) \/ Enqueue(p) \/ (Flag(p) /\ MayGrab(p))
    \/ Drain(p) \/ Collect(p) \/ CloseLock(p)

(* The end of a wait, or of the attempt to begin one. *)
EndStep(p) ==
    \/ (Flag(p) \/ Grab(p)) /\ GiveUp(p)
    \/ Grab(p) /\ MayGrab(p)
    \/ Finish(p) \/ Drop(p) \/ Cancelled(p) \/ Return(p)

LineStep(p) == ((Flag(p) \/ Grab(p)) /\ Push(p)) \/ Grant(p) \/ Expel(p) \/ Remove(p)

ClearStep(p) == Clear(p) /\ UNCHANGED others

SleepStep(p) == (ParkingStep(p) \/ Rouse(p)) /\ UNCHANGED svars

SemStep(p) == WordStep(p) \/ EndStep(p) \/ LineStep(p) \/ ClearStep(p) \/ SleepStep(p)

(* Where the steps on the pool lead. *)
WordMove(p) ==
    /\ pc[p] \in {"idle", "retry", "enqueue", "flag", "drain", "collect", "close"}
    /\ pc'[p] \in {"idle", "retry", "enqueue", "flag", "grab", "drain", "collect", "grant",
                   "close", "expel"}
    /\ \A r \in Procs \ {p} : pc'[r] = pc[r]
    /\ pc' = [r \in Procs |-> pc'[r]]
    /\ line' = line /\ UNCHANGED <<ret, signalVars>>
    /\ \/ UNCHANGED nodeVars /\ pc'[p] # "enqueue"
       \/ PrepareNode(p) /\ pc[p] = "retry" /\ pc'[p] = "enqueue"
    /\ holder' = holder \/ (holder = NoProc /\ holder' = p)
    /\ pc'[p] \in {"flag", "collect", "expel"} => holder' = p
    /\ pc'[p] \in {"grab", "grant"} => holder' = holder /\ pc[p] \in {"flag", "collect"}
    /\ pc'[p] = "flag" <=> pc[p] = "enqueue"
    /\ pc'[p] = "grab" <=> pc[p] = "flag"
    /\ pc'[p] = "retry" => pc[p] = "idle"
    /\ hasQueue' = hasQueue \/ (hasQueue' = TRUE /\ pc[p] = "flag")
    /\ pc'[p] = "grab" => hasQueue' = TRUE

(* They lead where WordMove says. *)
LEMMA WordFacts ==
  ASSUME SemInv, NEW p \in Procs, WordStep(p)
  PROVE  WordMove(p)
<1>t. PointsOK
  BY DEF SemInv, ParkingInv
<1>p. pc = [r \in Procs |-> pc[r]]
  BY <1>t DEF PointsOK
<1> USE <1>p
<1>1. ASSUME NEW n \in Nat, Acquire(p, n) PROVE WordMove(p)
  <2>1. /\ pc[p] = "idle" /\ pc'[p] \in {"idle", "retry"} /\ hasQueue' = hasQueue
        /\ \A r \in Procs \ {p} : pc'[r] = pc[r]
        /\ pc' = [r \in Procs |-> pc'[r]]
        /\ UNCHANGED <<holder, line, nodeVars, ret, signalVars>>
    BY <1>1 DEF Acquire, TakePermits, Goto, qvars, word
  <2> QED  BY <2>1 DEF WordMove
<1>2. ASSUME NEW n, AddPermits(p, n) \/ ForgetPermits(p, n) \/ Release(p, n) \/ Forget(p) PROVE WordMove(p)
  <2>1. /\ pc[p] = "idle" /\ pc'[p] \in {"idle", "drain"} /\ hasQueue' = hasQueue
        /\ \A r \in Procs \ {p} : pc'[r] = pc[r]
        /\ pc' = [r \in Procs |-> pc'[r]]
        /\ UNCHANGED <<holder, line, nodeVars, ret, signalVars>>
    BY <1>2 DEF AddPermits, ForgetPermits, Release, Forget, PutBack, Goto, qvars, pvars, word
  <2> QED  BY <2>1 DEF WordMove
<1>3. CASE Close(p) \/ Collect(p)
  <2>1. /\ pc[p] \in {"idle", "collect"} /\ pc'[p] \in {"idle", "close", "grant"} /\ hasQueue' = hasQueue
        /\ pc'[p] = "grant" => pc[p] = "collect"
        /\ \A r \in Procs \ {p} : pc'[r] = pc[r]
        /\ pc' = [r \in Procs |-> pc'[r]]
        /\ UNCHANGED <<holder, line, nodeVars, ret, signalVars>>
    BY <1>3 DEF Close, Collect, Goto, qvars
  <2> QED  BY <2>1 DEF WordMove
<1>4. CASE Retry(p)
  <2>1. /\ pc[p] = "retry" /\ pc'[p] \in {"idle", "enqueue"} /\ hasQueue' = hasQueue
        /\ \A r \in Procs \ {p} : pc'[r] = pc[r]
        /\ pc' = [r \in Procs |-> pc'[r]]
        /\ UNCHANGED <<holder, line, ret, signalVars>>
        /\ \/ UNCHANGED nodeVars /\ pc'[p] # "enqueue"
           \/ PrepareNode(p) /\ pc'[p] = "enqueue"
    BY <1>4 DEF Retry, TakePermits, Goto, qvars, word
  <2> QED  BY <2>1 DEF WordMove
<1>5. CASE Enqueue(p) \/ Drain(p) \/ CloseLock(p)
  <2>1. /\ pc[p] \in {"enqueue", "drain", "close"} /\ hasQueue' = hasQueue
        /\ pc'[p] \in {"flag", "collect", "expel", "idle"}
        /\ pc'[p] = "flag" <=> pc[p] = "enqueue"
        /\ \A r \in Procs \ {p} : pc'[r] = pc[r]
        /\ pc' = [r \in Procs |-> pc'[r]]
        /\ UNCHANGED <<line, nodeVars, ret, signalVars>>
        /\ \/ holder = NoProc /\ holder' = p
           \/ pc'[p] = "idle" /\ holder' = holder
    BY <1>5 DEF Enqueue, Drain, CloseLock, LockExisting, LockQueue, Goto, qvars, svars
  <2> QED  BY <2>1 DEF WordMove
<1>6. CASE Flag(p) /\ MayGrab(p)
  <2>1. /\ pc[p] = "flag" /\ pc'[p] = "grab" /\ hasQueue' = TRUE
        /\ \A r \in Procs \ {p} : pc'[r] = pc[r]
        /\ pc' = [r \in Procs |-> pc'[r]]
        /\ UNCHANGED <<holder, line, nodeVars, ret, signalVars>>
    BY <1>6 DEF Flag, MayGrab, GiveUp, Push, Goto
  <2> QED  BY <2>1 DEF WordMove
<1> QED  BY <1>1, <1>2, <1>3, <1>4, <1>5, <1>6 DEF WordStep

(* They keep the invariant of waiting, and out of the way of others. *)
LEMMA WordParking ==
  ASSUME SemInv, NEW p \in Procs, WordMove(p)
  PROVE  ParkingInv' /\ Frame(p)
<1>1. /\ pc[p] \in {"idle", "retry", "enqueue", "flag", "drain", "collect", "close"}
      /\ pc'[p] \in {"idle", "retry", "enqueue", "flag", "grab", "drain", "collect", "grant",
                     "close", "expel"}
      /\ ret' = ret
  BY DEF WordMove
<1>2. /\ ~Parked(p) /\ ~Parked(p)' /\ ~Asleep(p)' /\ ~Signaling(p) /\ ~Signaling(p)'
      /\ At(p)' # "signal"
  BY <1>1 DEF Parked, Asleep, Signaling, At
<1>3. ~Busy(p)
  BY <1>2 DEF SemInv, ParkingInv, AliveInv
<1> QED  BY <1>1, <1>2, <1>3, OwnMove DEF WordMove, SemInv

(* How a request ends. *)
EndMove(p) ==
    /\ \/ /\ pc[p] \in {"flag", "grab"} /\ pc'[p] = (IF line = <<>> THEN "clear" ELSE "unlock")
          /\ ret' = [ret EXCEPT ![p] = "idle"] /\ FreeNode(p)
       \/ /\ pc[p] \in {"woken", "awaited", "giveback", "cancelledHead", "cancelled"}
          /\ pc'[p] \in {"idle", "drain"} /\ ret' = ret /\ FreeNode(p)
       \/ /\ pc[p] = "pending" /\ value[p] # "waiting"
          /\ pc'[p] \in {"idle", "drain"} /\ ret' = ret /\ FreeNode(p)
       \/ /\ pc[p] = "pending" /\ value[p] = "waiting"
          /\ pc'[p] = "leave" /\ ret' = ret /\ UNCHANGED nodeVars
    /\ \A r \in Procs \ {p} : pc'[r] = pc[r]
    /\ pc' = [r \in Procs |-> pc'[r]]
    /\ UNCHANGED <<holder, line, signalVars>>
    /\ hasQueue' = hasQueue \/ (hasQueue' = TRUE /\ pc[p] = "flag")

(* As EndMove says. *)
LEMMA EndFacts ==
  ASSUME SemInv, NEW p \in Procs, EndStep(p)
  PROVE  EndMove(p)
<1>t. PointsOK
  BY DEF SemInv, ParkingInv
<1>p. pc = [r \in Procs |-> pc[r]]
  BY <1>t DEF PointsOK
<1> USE <1>p
<1>1. CASE (Flag(p) \/ Grab(p)) /\ GiveUp(p)
  <2>1. /\ pc[p] \in {"flag", "grab"} /\ line' = line /\ FreeNode(p)
        /\ pc' = [pc EXCEPT ![p] = IF line' = <<>> THEN "clear" ELSE "unlock"]
        /\ ret' = [ret EXCEPT ![p] = "idle"] /\ UNCHANGED <<holder, signalVars>>
        /\ hasQueue' = hasQueue \/ (hasQueue' = TRUE /\ pc[p] = "flag")
    BY <1>1 DEF Flag, Grab, GiveUp, Push, MayGrab, ThenClear, Goto
  <2> QED  BY <2>1 DEF EndMove
<1>2. CASE Grab(p) /\ MayGrab(p)
  <2>1. /\ pc[p] = "grab" /\ line' = line /\ FreeNode(p)
        /\ pc' = [pc EXCEPT ![p] = IF line' = <<>> THEN "clear" ELSE "unlock"]
        /\ ret' = [ret EXCEPT ![p] = "idle"] /\ UNCHANGED <<holder, signalVars, hasQueue>>
    BY <1>2 DEF Grab, GiveUp, Push, MayGrab, ThenClear, Goto, TakePermits
  <2> QED  BY <2>1 DEF EndMove
<1>3. CASE Finish(p) \/ Cancelled(p) \/ Return(p)
  <2>1. /\ pc[p] \in {"woken", "awaited", "giveback", "cancelledHead", "cancelled"}
        /\ pc'[p] \in {"idle", "drain"} /\ ret' = ret /\ FreeNode(p)
        /\ \A r \in Procs \ {p} : pc'[r] = pc[r]
        /\ pc' = [r \in Procs |-> pc'[r]]
        /\ UNCHANGED <<holder, line, signalVars, hasQueue>>
    BY <1>3 DEF Finish, Cancelled, Return, PutBack, Goto, qvars, word
  <2> QED  BY <2>1 DEF EndMove
<1>4. CASE Drop(p)
  <2>1. /\ pc[p] = "pending" /\ ret' = ret
        /\ IF value[p] = "waiting" THEN pc'[p] = "leave" /\ UNCHANGED nodeVars
                                   ELSE pc'[p] \in {"idle", "drain"} /\ FreeNode(p)
        /\ \A r \in Procs \ {p} : pc'[r] = pc[r]
        /\ pc' = [r \in Procs |-> pc'[r]]
        /\ UNCHANGED <<holder, line, signalVars, hasQueue>>
    BY <1>4 DEF Drop, PutBack, Goto, qvars, word
  <2> QED  BY <2>1 DEF EndMove
<1> QED  BY <1>1, <1>2, <1>3, <1>4 DEF EndStep

(* So does the end of a request. *)
LEMMA EndParking ==
  ASSUME SemInv, NEW p \in Procs, EndMove(p)
  PROVE  ParkingInv' /\ Frame(p)
<1>t. ParkingTypeOK /\ PointsOK
  BY DEF SemInv, ParkingInv
<1> USE <1>t
<1>1. \/ /\ pc[p] \in {"flag", "grab"} /\ pc'[p] \in {"clear", "unlock"} /\ ret'[p] = "idle"
      \/ pc[p] \in {"woken", "awaited", "giveback", "cancelledHead", "cancelled"} /\ pc'[p] \in {"idle", "drain"}
      \/ pc[p] = "pending" /\ value[p] # "waiting" /\ pc'[p] \in {"idle", "drain"}
      \/ pc[p] = "pending" /\ value[p] = "waiting" /\ pc'[p] = "leave"
  BY DEF EndMove, PointsOK
<1>2. /\ ~Asleep(p)' /\ ~Signaling(p) /\ ~Signaling(p)' /\ At(p)' # "signal" /\ At(p) # "swap"
      /\ Parked(p)' <=> pc'[p] = "leave"
      /\ Parked(p) <=> pc[p] = "pending"
  BY <1>1 DEF Parked, Asleep, Signaling, At
<1> USE <1>2
<1>3. Busy(p) => value[p] = "waiting"
  <2>1. Busy(p) => Parked(p) /\ ~Delivered(value[p])
    BY DEF SemInv, ParkingInv, AliveInv
  <2>2. pc[p] = "pending" => value[p] # "uninit"
    BY DEF SemInv, ParkingInv, WaiterInv, Parked, At
  <2>3. value[p] \in {"uninit", "waiting"} \/ Delivered(value[p])
    BY DEF ParkingTypeOK, Signals, Delivered
  <2> QED  BY <2>1, <2>2, <2>3
<1>4. Busy(p) => Parked(p)
  BY DEF SemInv, ParkingInv, AliveInv
<1>5. pc'[p] = "leave" => UNCHANGED nodeVars
  BY DEF EndMove
<1>6. Busy(p) \/ Parked(p)' => Parked(p) /\ Parked(p)' /\ At(p) # "swap" /\ UNCHANGED nodeVars
  BY <1>1, <1>3, <1>4, <1>5
<1>7. /\ FreeNode(p) \/ UNCHANGED nodeVars
      /\ ret' = ret \/ ret' = [ret EXCEPT ![p] = "idle"]
  BY DEF EndMove
<1>8. \A r \in Procs \ {p} : ret'[r] = ret[r]
  BY <1>7 DEF PointsOK
<1> QED  BY <1>6, <1>7, <1>8, OwnMove DEF EndMove, SemInv

(* Pushes, pops and removals. *)
LineMove(p) ==
    \E to :
        /\ Locked(p, to)
        /\ \/ /\ pc[p] \in {"flag", "grab"} /\ line' = Append(line, p) /\ chain' = chain /\ sent' = sent
              /\ to = (IF p \in Threads THEN "swap" ELSE "pending")
           \/ /\ pc[p] \in {"grant", "expel"} /\ to = "signal"
              /\ \E k \in 0 .. Len(line) : /\ chain' = [chain EXCEPT ![p] = SubSeq(line, 1, k)]
                                           /\ line' = SubSeq(line, k + 1, Len(line))
              /\ sent' = [sent EXCEPT ![p] = IF pc[p] = "grant" THEN "signaled" ELSE "closed"]
           \/ /\ pc[p] = "remove" /\ chain' = chain /\ sent' = sent
              /\ \/ Position(p) = {} /\ line' = line /\ to = "await"
                 \/ /\ \E k \in Position(p) : line' = Without(line, k)
                    /\ to = IF Granted(p) > 0 THEN "giveback"
                            ELSE IF Head(line) = p /\ Len(line) > 1 THEN "cancelledHead"
                            ELSE "cancelled"
        /\ pc'[p] = (IF line' = <<>> THEN "clear" ELSE "unlock")
        /\ hasQueue' = hasQueue \/ (hasQueue' = TRUE /\ pc[p] = "flag")

(* No other changes of the line. *)
LEMMA LineFacts ==
  ASSUME SemInv, NEW p \in Procs, LineStep(p)
  PROVE  LineMove(p)
<1>t. PointsOK /\ line \in Seq(Procs) /\ Len(line) \in Nat /\ Local(p)
  BY SMT DEF SemInv, ParkingInv, ParkingTypeOK
<1> USE <1>t
<1>p. pc = [r \in Procs |-> pc[r]]
  BY DEF PointsOK
<1>h. pc[p] \in {"flag", "grab", "grant", "expel", "remove"} => holder = p
  BY DEF Local, Locking
<1>l. ASSUME NEW to, ThenClear(p, to), pc[p] \in {"flag", "grab", "grant", "expel", "remove"},
             UNCHANGED <<holder, nodeVars, node>>
      PROVE  Locked(p, to) /\ pc'[p] = (IF line' = <<>> THEN "clear" ELSE "unlock")
  <2>1. /\ pc' = [pc EXCEPT ![p] = IF line' = <<>> THEN "clear" ELSE "unlock"]
        /\ ret' = [ret EXCEPT ![p] = to]
    BY <1>l DEF ThenClear, Goto
  <2>2. /\ pc'[p] = (IF line' = <<>> THEN "clear" ELSE "unlock")
        /\ pc' = [r \in Procs |-> pc'[r]] /\ \A r \in Procs \ {p} : pc'[r] = pc[r]
    BY <1>p, <2>1
  <2> QED  BY <1>h, <1>l, <2>1, <2>2 DEF Locked
<1> USE <1>l
<1>1. CASE (Flag(p) \/ Grab(p)) /\ Push(p)
  <2>1. PICK to : to = IF p \in Threads THEN "swap" ELSE "pending"
    OBVIOUS
  <2>2. /\ pc[p] \in {"flag", "grab"} /\ line' = Append(line, p) /\ UNCHANGED <<holder, nodeVars, signalVars>>
        /\ ThenClear(p, to)
        /\ hasQueue' = hasQueue \/ (hasQueue' = TRUE /\ pc[p] = "flag")
    BY <1>1, <2>1 DEF Flag, Grab, GiveUp, Push, PushNode, MayGrab
  <2>3. Locked(p, to) /\ pc'[p] = (IF line' = <<>> THEN "clear" ELSE "unlock")
    BY <2>2 DEF signalVars
  <2> QED  BY <2>1, <2>2, <2>3 DEF LineMove, signalVars
<1>2. CASE Grant(p)
  <2>1. PICK k \in 0 .. Len(line) : Serves(p, k)
    BY <1>2 DEF Grant
  <2>2. /\ chain' = [chain EXCEPT ![p] = SubSeq(line, 1, k)]
        /\ line' = SubSeq(line, k + 1, Len(line))
    BY <2>1 DEF Serves, PopNodes
  <2>3. /\ pc[p] = "grant" /\ sent' = [sent EXCEPT ![p] = "signaled"] /\ hasQueue' = hasQueue
        /\ ThenClear(p, "signal") /\ UNCHANGED <<holder, nodeVars, node>>
    BY <1>2 DEF Grant
  <2>4. Locked(p, "signal") /\ pc'[p] = (IF line' = <<>> THEN "clear" ELSE "unlock")
    BY <2>3
  <2> QED  BY <2>2, <2>3, <2>4 DEF LineMove
<1>3. CASE Expel(p)
  <2>1. /\ pc[p] = "expel" /\ sent' = [sent EXCEPT ![p] = "closed"] /\ hasQueue' = hasQueue
        /\ chain' = [chain EXCEPT ![p] = line] /\ line' = SubSeq(line, Len(line) + 1, Len(line))
        /\ ThenClear(p, "signal") /\ UNCHANGED <<holder, nodeVars, node>>
    BY <1>3 DEF Expel, PopNodes, word
  <2>2. SubSeq(line, 1, Len(line)) = line /\ Len(line) \in 0 .. Len(line)
    BY SMT
  <2>3. Locked(p, "signal") /\ pc'[p] = (IF line' = <<>> THEN "clear" ELSE "unlock")
    BY <2>1
  <2> QED  BY <2>1, <2>2, <2>3 DEF LineMove
<1>4. CASE Remove(p)
  <2>1. PICK to : to = IF Position(p) = {} THEN "await"
                       ELSE IF Granted(p) > 0 THEN "giveback"
                       ELSE IF Head(line) = p /\ Len(line) > 1 THEN "cancelledHead"
                       ELSE "cancelled"
    OBVIOUS
  <2>2. /\ pc[p] = "remove" /\ UNCHANGED <<holder, nodeVars, signalVars, hasQueue>>
        /\ ThenClear(p, to)
        /\ \/ \E k \in Position(p) : line' = Without(line, k)
           \/ Position(p) = {} /\ line' = line
    BY <1>4, <2>1 DEF Remove, RemoveNode, Without, word
  <2>3. Locked(p, to) /\ pc'[p] = (IF line' = <<>> THEN "clear" ELSE "unlock")
    BY <2>2 DEF signalVars
  <2> QED  BY <2>1, <2>2, <2>3 DEF LineMove, signalVars
<1> QED  BY <1>1, <1>2, <1>3, <1>4 DEF LineStep

(* So does a change of the line, *)
LEMMA LineParking ==
  ASSUME SemInv, NEW p \in Procs, LineMove(p)
  PROVE  ParkingInv' /\ Frame(p)
<1>1. PICK to :
        /\ Locked(p, to)
        /\ \/ /\ pc[p] \in {"flag", "grab"} /\ line' = Append(line, p) /\ chain' = chain /\ sent' = sent
              /\ to = (IF p \in Threads THEN "swap" ELSE "pending")
           \/ /\ pc[p] \in {"grant", "expel"} /\ to = "signal"
              /\ \E k \in 0 .. Len(line) : /\ chain' = [chain EXCEPT ![p] = SubSeq(line, 1, k)]
                                           /\ line' = SubSeq(line, k + 1, Len(line))
              /\ sent' = [sent EXCEPT ![p] = IF pc[p] = "grant" THEN "signaled" ELSE "closed"]
           \/ /\ pc[p] = "remove" /\ chain' = chain /\ sent' = sent
              /\ \/ Position(p) = {} /\ line' = line /\ to = "await"
                 \/ /\ \E k \in Position(p) : line' = Without(line, k)
                    /\ to \in {"giveback", "cancelledHead", "cancelled"}
  BY DEF LineMove
<1> USE <1>1
<1>2. CASE pc[p] \in {"flag", "grab"}
  <2>1. Prepared(p) /\ ~Parked(p) /\ ~Signaling(p)
    BY <1>2 DEF SemInv, Local, Parked, At, Signaling
  <2> QED  BY <1>2, <2>1, PushMove DEF SemInv
<1>3. CASE pc[p] \in {"grant", "expel"}
  <2>1. ~Parked(p) /\ ~Signaling(p)
    BY <1>3 DEF Parked, At, Signaling
  <2>2. PICK signal \in Signals : Delivered(signal) /\ sent' = [sent EXCEPT ![p] = signal]
    BY <1>3 DEF Signals, Delivered
  <2>3. PICK k \in 0 .. Len(line) : /\ chain' = [chain EXCEPT ![p] = SubSeq(line, 1, k)]
                                    /\ line' = SubSeq(line, k + 1, Len(line))
    BY <1>3
  <2>4. Locked(p, "signal")
    BY <1>3
  <2> QED  BY <2>1, <2>2, <2>3, <2>4, PopMove DEF SemInv
<1>4. CASE pc[p] = "remove"
  BY <1>4, RemoveMove DEF SemInv
<1> QED  BY <1>2, <1>3, <1>4

(* unlocking, *)
LEMMA ClearParking ==
  ASSUME SemInv, NEW p \in Procs, ClearStep(p)
  PROVE  ParkingInv' /\ Frame(p)
BY ClearMove DEF SemInv, ClearStep, Clear, Goto

(* and every other step of Parking. *)
LEMMA SleepParking ==
  ASSUME SemInv, NEW p \in Procs, SleepStep(p)
  PROVE  ParkingInv' /\ Frame(p)
BY ParkingKeeps, ParkingFrame DEF SemInv, SleepStep

(* All the steps. *)
LEMMA StepParking ==
  ASSUME SemInv, NEW p \in Procs, SemStep(p)
  PROVE  ParkingInv' /\ Frame(p)
BY WordFacts, EndFacts, LineFacts, WordParking, EndParking, LineParking, ClearParking, SleepParking
   DEF SemStep

-----------------------------------------------------------------------------
(* HAS_QUEUE changes only under the lock. *)
LEMMA StepFlag ==
  ASSUME SemInv, NEW p \in Procs, SemStep(p)
  PROVE  (hasQueue' = hasQueue \/ holder = p) /\ hasQueue' \in {hasQueue, TRUE, FALSE}
<1>t. Local(p)
  BY DEF SemInv
<1>1. pc[p] \in {"flag", "clear"} => holder = p
  BY <1>t DEF Local, Locking
<1> USE <1>1
<1>2. CASE WordStep(p)
  BY <1>2, WordFacts DEF WordMove
<1>3. CASE EndStep(p)
  BY <1>3, EndFacts DEF EndMove
<1>4. CASE LineStep(p)
  BY <1>4, LineFacts DEF LineMove
<1>5. CASE ClearStep(p) \/ SleepStep(p)
  BY <1>5 DEF ClearStep, Clear, SleepStep, svars
<1> QED  BY <1>2, <1>3, <1>4, <1>5 DEF SemStep

(* What others know about themselves stays true. *)
LEMMA OthersLocal ==
  ASSUME SemInv, NEW p \in Procs, SemStep(p), NEW r \in Procs \ {p}
  PROVE  Local(r)'
<1>1. Local(r) /\ NoProc \notin Procs
  BY ProcsAssumption DEF SemInv
<1> USE <1>1
<1>2. Busy(r) => Parked(r)
  BY DEF SemInv, ParkingInv, AliveInv
<1>3. /\ pc'[r] = pc[r] /\ ret'[r] = ret[r] /\ seen'[r] = seen[r]
      /\ ~Busy(r) => value'[r] = value[r] /\ slot'[r] = slot[r]
      /\ holder' = holder \/ holder = NoProc \/ holder = p
      /\ line' = line \/ holder = p
  BY StepParking DEF Frame
<1> USE <1>3
<1>4. /\ At(r)' = At(r) /\ (Parked(r)' <=> Parked(r))
      /\ (HasNode(r)' <=> HasNode(r)) /\ (Locking(r)' <=> Locking(r))
  <2>1. At(r)' = At(r) /\ (Parked(r)' <=> Parked(r))
    BY SamePoint
  <2> QED  BY <2>1 DEF HasNode, Locking
<1>5. Locking(r) => holder = r
  BY DEF Local
<1>6. Locking(r) => holder' = r /\ line' = line /\ hasQueue' = hasQueue
  BY <1>5, StepFlag
<1>7. pc[r] \in {"enqueue", "flag", "grab"} => Prepared(r)'
  <2>1. pc[r] \in {"enqueue", "flag", "grab"} => ~Parked(r)
    BY DEF Parked, At
  <2> QED  BY <1>2, <2>1 DEF Local, Prepared, Tasks
<1>8. ~HasNode(r) => value'[r] = "uninit" /\ seen'[r] = "uninit"
  BY <1>2 DEF Local, HasNode
<1>9. pc[r] \in {"grab", "clear", "unlock"} => Locking(r)
  BY DEF Locking
<1> QED  BY <1>4, <1>6, <1>7, <1>8, <1>9 DEF Local

(* So does what a process knows about itself when it moves: on the pool, *)
LEMMA WordLocal ==
  ASSUME SemInv, NEW p \in Procs, WordMove(p)
  PROVE  Local(p)'
<1>t. ParkingTypeOK /\ Local(p)
  BY DEF SemInv, ParkingInv
<1> USE <1>t
<1>1. /\ pc[p] \in {"idle", "retry", "enqueue", "flag", "drain", "collect", "close"}
      /\ pc'[p] \in {"idle", "retry", "enqueue", "flag", "grab", "drain", "collect", "grant",
                     "close", "expel"}
      /\ \/ UNCHANGED nodeVars /\ pc'[p] # "enqueue"
         \/ PrepareNode(p) /\ pc[p] = "retry" /\ pc'[p] = "enqueue"
      /\ holder' = holder \/ holder' = p
      /\ pc'[p] \in {"flag", "collect", "expel"} => holder' = p
      /\ pc'[p] \in {"grab", "grant"} => holder' = holder /\ pc[p] \in {"flag", "collect"}
      /\ pc'[p] = "flag" <=> pc[p] = "enqueue"
      /\ pc'[p] = "grab" <=> pc[p] = "flag"
      /\ pc'[p] = "grab" => hasQueue' = TRUE
  BY DEF WordMove
<1> USE <1>1
<1>2. /\ At(p) = pc[p] /\ At(p)' = pc'[p] /\ ~Parked(p) /\ ~Parked(p)'
      /\ HasNode(p) <=> pc[p] \in {"enqueue", "flag"}
      /\ HasNode(p)' <=> pc'[p] \in {"enqueue", "flag", "grab"}
  BY DEF At, Parked, HasNode
<1>3. Locking(p)' => holder' = p
  BY DEF Local, Locking
<1>4. pc'[p] \in {"enqueue", "flag", "grab"} => Prepared(p)'
  <2>1. CASE PrepareNode(p)
    BY <2>1, NodeFacts
  <2>2. CASE UNCHANGED nodeVars /\ pc'[p] # "enqueue"
    BY <2>2 DEF Local, Prepared, nodeVars
  <2> QED  BY <2>1, <2>2
<1>5. ~HasNode(p)' => value'[p] = "uninit" /\ seen'[p] = "uninit"
  BY <1>2 DEF Local, nodeVars
<1>6. ~Locking(p)' \/ pc'[p] \in {"flag", "collect", "expel", "grab", "grant"}
  BY DEF Locking
<1> QED  BY <1>2, <1>3, <1>4, <1>5 DEF Local

(* ... at the end of a request, *)
LEMMA EndLocal ==
  ASSUME SemInv, NEW p \in Procs, EndMove(p)
  PROVE  Local(p)'
<1>t. ParkingTypeOK /\ PointsOK /\ Local(p)
  BY DEF SemInv, ParkingInv
<1> USE <1>t
<1>1. /\ line' = line /\ holder' = holder
      /\ \/ /\ pc[p] \in {"flag", "grab"} /\ pc'[p] = (IF line = <<>> THEN "clear" ELSE "unlock")
            /\ ret'[p] = "idle" /\ FreeNode(p)
         \/ pc'[p] \in {"idle", "drain"} /\ FreeNode(p)
         \/ pc'[p] = "leave" /\ UNCHANGED nodeVars
  BY DEF EndMove, PointsOK
<1> USE <1>1
<1>2. /\ Locking(p)' => pc[p] \in {"flag", "grab"}
      /\ At(p)' = (IF pc'[p] \in {"clear", "unlock"} THEN "idle" ELSE pc'[p])
      /\ pc'[p] = "leave" => HasNode(p)'
  BY DEF Locking, At, HasNode, Parked
<1>3. Locking(p)' => holder' = p
  BY <1>2 DEF Local, Locking
<1>4. pc'[p] # "leave" => value'[p] = "uninit" /\ seen'[p] = "uninit"
  BY NodeFacts
<1> QED  BY <1>2, <1>3, <1>4 DEF Local

(* ... under the lock, *)
LEMMA LineLocal ==
  ASSUME SemInv, NEW p \in Procs, LineMove(p)
  PROVE  Local(p)'
<1>t. ParkingTypeOK /\ PointsOK /\ Local(p)
  BY DEF SemInv, ParkingInv
<1>1. PICK to : /\ Locked(p, to)
                /\ \/ pc[p] \in {"flag", "grab"} /\ to \in {"swap", "pending"}
                   \/ pc[p] \in {"grant", "expel"} /\ to = "signal"
                   \/ pc[p] = "remove" /\ to \in {"await", "giveback", "cancelledHead", "cancelled"}
                /\ pc'[p] = (IF line' = <<>> THEN "clear" ELSE "unlock")
  BY DEF LineMove
<1> USE <1>1
<1>2. /\ ret'[p] = to /\ holder' = p /\ value' = value /\ seen' = seen
  BY <1>t DEF Locked, nodeVars, PointsOK
<1> USE <1>2
<1>3. At(p)' = to /\ At(p) = pc[p]
  BY DEF At
<1>4. /\ ~HasNode(p)' <=> to = "signal"
      /\ to = "signal" => ~HasNode(p)
  BY <1>3 DEF HasNode, Parked
<1>5. /\ to \in {"idle", "swap", "pending", "signal", "await", "giveback", "cancelledHead", "cancelled"}
      /\ to \notin {"woken", "awaited"}
  OBVIOUS
<1>6. pc'[p] = "clear" => line' = <<>>
  OBVIOUS
<1>7. ~(pc'[p] = "unlock" /\ line' = <<>>)
  OBVIOUS
<1>8. pc'[p] \notin {"enqueue", "flag", "grab"}
  OBVIOUS
<1>9. ~HasNode(p)' => value'[p] = "uninit" /\ seen'[p] = "uninit"
  BY <1>t, <1>4 DEF Local
<1> QED  BY <1>3, <1>5, <1>6, <1>7, <1>8, <1>9 DEF Local

(* ... and when it unlocks, waits or signals. *)
LEMMA SleepLocal ==
  ASSUME SemInv, NEW p \in Procs, ClearStep(p) \/ SleepStep(p)
  PROVE  Local(p)'
<1>t. ParkingTypeOK /\ PointsOK /\ Local(p)
  BY DEF SemInv, ParkingInv
<1> USE <1>t
<1>1. CASE ClearStep(p)
  <2>1. /\ pc[p] = "clear" /\ pc'[p] = "unlock" /\ ret' = ret /\ holder' = holder /\ line' = line
        /\ value' = value /\ seen' = seen /\ hasQueue' = FALSE
    BY <1>1 DEF ClearStep, Clear, Goto, qvars, nodeVars, PointsOK
  <2>2. At(p)' = At(p) /\ (HasNode(p)' <=> HasNode(p)) /\ Locking(p)
    BY <2>1 DEF At, HasNode, Parked, Locking
  <2> QED  BY <2>1, <2>2 DEF Local
<1>2. CASE SleepStep(p) /\ WaitMove(p)
  <2>1. /\ pc[p] \in {"swap", "check", "pending", "reload", "await", "park", "rearm", "leave"}
        /\ \/ pc'[p] \in {"woken", "awaited"} /\ Delivered(seen'[p])
           \/ pc'[p] \in {"park", "check", "pending", "rearm", "reload", "await"}
           \/ pc'[p] = "remove" /\ holder' = p
    BY <1>2 DEF WaitMove
  <2>2. At(p)' = pc'[p] /\ HasNode(p)' /\ (Locking(p)' <=> pc'[p] = "remove")
    BY <2>1 DEF At, HasNode, Parked, Locking
  <2> QED  BY <2>1, <2>2 DEF Local
<1>3. CASE SleepStep(p) /\ UnlockMove(p)
  <2>1. /\ pc[p] = "unlock" /\ pc'[p] = ret[p] /\ ret[p] # "signal"
        /\ value' = value /\ seen' = seen
    BY <1>3 DEF UnlockMove, nodeVars
  <2> USE <2>1
  <2>2. ret[p] \in {"idle", "swap", "pending", "await", "giveback", "cancelledHead", "cancelled"}
    BY DEF Local
  <2>3. At(p)' = ret[p] /\ At(p) = ret[p] /\ ~Locking(p)' /\ (HasNode(p)' <=> HasNode(p))
    BY <2>2 DEF At, HasNode, Parked, Locking
  <2> QED  BY <2>2, <2>3 DEF Local
<1>4. CASE SleepStep(p) /\ SignalMove(p)
  <2>1. /\ pc[p] \in {"take", "store", "storeWake", "wake"} \/ (pc[p] = "unlock" /\ ret[p] = "signal")
        /\ pc'[p] \in {"take", "store", "storeWake", "wake", "idle"}
        /\ seen' = seen /\ value'[p] = value[p]
    BY <1>4 DEF SignalMove, Signaling
  <2>2. ~HasNode(p) /\ ~HasNode(p)' /\ ~Locking(p)' /\ At(p)' = pc'[p]
    BY <2>1 DEF At, HasNode, Parked, Locking
  <2> QED  BY <2>1, <2>2 DEF Local
<1> QED  BY <1>1, <1>2, <1>3, <1>4, SleepFacts DEF SleepStep, SleepMove, SemInv

(* No step makes anybody's knowledge about themselves wrong. *)
LEMMA StepLocal ==
  ASSUME SemInv, NEW p \in Procs, SemStep(p)
  PROVE  \A r \in Procs : Local(r)'
<1>1. Local(p)'
  BY WordFacts, EndFacts, LineFacts, WordLocal, EndLocal, LineLocal, SleepLocal DEF SemStep
<1>2. \A r \in Procs \ {p} : Local(r)'
  BY OthersLocal
<1> QED  BY <1>1, <1>2

(* The flag follows the line. *)
LEMMA StepFlagMeansLine ==
  ASSUME SemInv, NEW p \in Procs, SemStep(p)
  PROVE  FlagMeansLine'
<1>t. /\ hasQueue \in BOOLEAN /\ NoProc \notin Procs /\ Local(p)
      /\ line # <<>> => hasQueue = TRUE
      /\ holder = NoProc /\ line = <<>> => hasQueue = FALSE
  BY ProcsAssumption DEF SemInv, TypeOK, FlagMeansLine
<1> USE <1>t
<1> SUFFICES /\ line' # <<>> => hasQueue' = TRUE
             /\ holder' = NoProc /\ line' = <<>> => hasQueue' = FALSE
  BY DEF FlagMeansLine
<1>g. pc[p] \in {"flag", "grab", "clear"} => holder = p
  BY DEF Local, Locking
<1>1. CASE WordStep(p)
  <2>1. /\ line' = line /\ (hasQueue' = hasQueue \/ (hasQueue' = TRUE /\ pc[p] = "flag"))
        /\ holder' = holder \/ holder' = p
    BY <1>1, WordFacts DEF WordMove
  <2> QED  BY <1>g, <2>1
<1>2. CASE EndStep(p)
  <2>1. /\ line' = line /\ (hasQueue' = hasQueue \/ (hasQueue' = TRUE /\ pc[p] = "flag"))
        /\ holder' = holder
    BY <1>2, EndFacts DEF EndMove
  <2> QED  BY <1>g, <2>1
<1>3. CASE LineStep(p)
  <2>0. line \in Seq(Procs) /\ Distinct(line)
    BY DEF SemInv, ParkingInv, ParkingTypeOK, PlacesInv
  <2>1. /\ holder' = p /\ (hasQueue' = hasQueue \/ (hasQueue' = TRUE /\ pc[p] = "flag"))
        /\ \/ pc[p] \in {"flag", "grab"}
           \/ \E k \in 0 .. Len(line) : line' = SubSeq(line, k + 1, Len(line))
           \/ line' = line
           \/ Position(p) # {}
    BY <1>3, LineFacts DEF LineMove, Locked
  <2>2. pc[p] = "grab" => hasQueue = TRUE
    BY DEF Local
  <2>3. Position(p) # {} => line # <<>>
    BY <2>0, SMT DEF Position
  <2>4. line = <<>> => \A k \in 0 .. Len(line) : SubSeq(line, k + 1, Len(line)) = <<>>
    BY <2>0, SMT
  <2>5. line = <<>> /\ line' # <<>> => pc[p] \in {"flag", "grab"}
    BY <2>1, <2>3, <2>4
  <2>6. pc[p] = "flag" => hasQueue' = TRUE
    BY <1>3 DEF LineStep, Flag, Grab, Grant, Expel, Remove
  <2> QED  BY <2>1, <2>2, <2>5, <2>6
<1>4. CASE ClearStep(p)
  <2>1. line = <<>> /\ line' = line /\ hasQueue' = FALSE
    BY <1>4 DEF ClearStep, Clear, qvars, Local
  <2> QED  BY <2>1
<1>5. CASE SleepStep(p)
  <2>1. hasQueue' = hasQueue /\ line' = line
    BY <1>5, ParkingFrame DEF SleepStep, svars, SemInv
  <2>2. holder' = holder \/ holder' = p \/ pc[p] = "unlock"
    BY <1>5, SleepFacts DEF SleepStep, SemInv, SleepMove, WaitMove, UnlockMove, SignalMove
  <2>3. pc[p] = "unlock" /\ line = <<>> => hasQueue = FALSE
    BY DEF Local
  <2> QED  BY <2>1, <2>2, <2>3
<1> QED  BY <1>1, <1>2, <1>3, <1>4, <1>5 DEF SemStep

-----------------------------------------------------------------------------
(* The steps a scheduled process takes are among them. *)
LEMMA StepSteps ==
  ASSUME NEW p \in Procs, Step(p)
  PROVE  SemStep(p)
<1>1. Flag(p) => SemStep(p)
  <2>1. Flag(p) => GiveUp(p) \/ Push(p) \/ MayGrab(p)
    BY DEF Flag
  <2> QED  BY <2>1 DEF SemStep, WordStep, EndStep, LineStep
<1>2. Grab(p) => SemStep(p)
  <2>1. Grab(p) => GiveUp(p) \/ Push(p) \/ MayGrab(p)
    BY DEF Grab
  <2> QED  BY <2>1 DEF SemStep, EndStep, LineStep
<1>3. Retry(p) \/ Enqueue(p) \/ Drain(p) \/ Collect(p) \/ CloseLock(p) => SemStep(p)
  BY DEF SemStep, WordStep
<1>4. Grant(p) \/ Expel(p) \/ Remove(p) => SemStep(p)
  BY DEF SemStep, LineStep
<1>5. Finish(p) \/ Cancelled(p) \/ Return(p) => SemStep(p)
  BY DEF SemStep, EndStep
<1>6. QueueStep(p) /\ UNCHANGED others => SemStep(p)
  BY DEF QueueStep, SemStep, ClearStep, SleepStep, svars
<1> QED  BY <1>1, <1>2, <1>3, <1>4, <1>5, <1>6 DEF Step

(* And there are no other steps, of a semaphore *)
LEMMA NextSteps ==
  ASSUME Next
  PROVE  \E p \in Procs : SemStep(p)
<1>1. PICK p \in Procs :
        \/ \E n \in Sizes :
              Acquire(p, n) \/ Release(p, n) \/ AddPermits(p, n) \/ ForgetPermits(p, n)
        \/ Forget(p) \/ Close(p) \/ Drop(p)
        \/ Step(p) \/ (Rouse(p) /\ UNCHANGED svars)
  BY DEF Next
<1>2. Step(p) => SemStep(p)
  BY StepSteps
<1>3. (Forget(p) \/ Close(p) \/ Drop(p) \/ (Rouse(p) /\ UNCHANGED svars)) => SemStep(p)
  BY DEF SemStep, WordStep, EndStep, SleepStep
<1>4. ASSUME NEW n \in Sizes, Acquire(p, n) \/ Release(p, n) \/ AddPermits(p, n) \/ ForgetPermits(p, n)
      PROVE  SemStep(p)
  BY <1>4, PermitsAssumption DEF SemStep, WordStep
<1> QED  BY <1>1, <1>2, <1>3, <1>4

-----------------------------------------------------------------------------
(* What a step of p other than a drain does to the numbers: it touches none *)
(* but its own and the pool, and what leaves the one enters the other.      *)
Ledger(p) ==
    /\ permits' \in Nat /\ total' \in Int /\ total' <= MaxPermits
    /\ closed' = closed \/ closed' = TRUE
    /\ need' \in [Procs -> Nat]
    /\ aux' \in [Procs -> Nat] /\ held' \in [Procs -> Nat] /\ avail' \in [Procs -> Nat]
    /\ \A r \in Procs \ {p} : /\ need'[r] = need[r] /\ aux'[r] = aux[r]
                              /\ held'[r] = held[r] /\ avail'[r] = avail[r]
    /\ aux'[p] <= need'[p]
    /\ total' - permits' - held'[p] - avail'[p] - need'[p] + aux'[p]
          = total - permits - held[p] - avail[p] - need[p] + aux[p]

(* The numbers. *)
LEMMA Numbers ==
  ASSUME SemInv, NEW p \in Procs
  PROVE  /\ permits \in Nat /\ total \in Nat /\ MaxPermits \in Nat /\ total <= MaxPermits
         /\ need \in [Procs -> Nat] /\ aux \in [Procs -> Nat] /\ held \in [Procs -> Nat]
         /\ avail \in [Procs -> Nat]
         /\ need[p] \in Nat /\ aux[p] \in Nat /\ held[p] \in Nat
         /\ avail[p] \in Nat /\ aux[p] <= need[p] /\ closed \in BOOLEAN
<1>1. /\ permits \in 0 .. MaxPermits /\ total \in 0 .. MaxPermits /\ closed \in BOOLEAN
      /\ need \in [Procs -> Nat]
      /\ aux \in [Procs -> Nat] /\ held \in [Procs -> Nat] /\ avail \in [Procs -> Nat]
  BY DEF SemInv, TypeOK
<1> USE <1>1
<1>2. aux[p] <= need[p]
  BY DEF SemInv, PermitsConserved
<1>3. MaxPermits \in Nat
  BY PermitsAssumption
<1>4. permits \in Nat /\ total \in Nat /\ total <= MaxPermits
  BY <1>3, SMT
<1>5. need[p] \in Nat /\ aux[p] \in Nat /\ held[p] \in Nat /\ avail[p] \in Nat
  OBVIOUS
<1> QED  BY <1>2, <1>3, <1>4, <1>5

(* A step that leaves the numbers alone. *)
LEMMA SameNumbers ==
  ASSUME SemInv, NEW p \in Procs, UNCHANGED <<permits, closed, requests, avail, total>>
  PROVE  Ledger(p)
BY Numbers, SMT DEF Ledger, requests

(* Who is in a request. *)
LEMMA PointFacts ==
  ASSUME NEW p \in Procs
  PROVE  /\ pc[p] \in {"idle", "drain", "collect", "grant", "close", "expel"} => ~Requesting(p)
         /\ pc[p] \in {"retry", "enqueue", "flag", "grab", "pending", "woken", "awaited",
                       "giveback", "cancelledHead", "cancelled", "leave"} => Requesting(p)
         /\ pc[p] \notin {"clear", "unlock"} => At(p) = pc[p]
         /\ pc[p] \in {"clear", "unlock"} => At(p) = ret[p]
BY DEF Requesting, HasNode, Parked, At

(* The permits of a process that is in no request. *)
LEMMA OutsideAccount ==
  ASSUME NEW p \in Procs, pc'[p] \in {"idle", "drain", "collect", "close", "expel"},
         need'[p] = 0, aux'[p] = 0, avail'[p] = 0
  PROVE  Account(p)'
<1>1. ~Requesting(p)' /\ At(p)' = pc'[p]
  BY PointFacts DEF Requesting, HasNode, Parked, At
<1> QED  BY <1>1 DEF Account

(* The books balance: on the pool, before waiting or after it, *)
LEMMA WordLedger ==
  ASSUME SemInv, NEW p \in Procs, WordStep(p)
  PROVE  Ledger(p) /\ Account(p)'
<1>n. /\ permits \in Nat /\ total \in Nat /\ MaxPermits \in Nat /\ total <= MaxPermits
      /\ need \in [Procs -> Nat] /\ aux \in [Procs -> Nat] /\ held \in [Procs -> Nat]
      /\ avail \in [Procs -> Nat]
      /\ need[p] \in Nat /\ aux[p] \in Nat /\ held[p] \in Nat
      /\ avail[p] \in Nat /\ aux[p] <= need[p] /\ closed \in BOOLEAN
  BY Numbers
<1> USE <1>n
<1>a. /\ pc[p] \in {"idle", "drain", "collect", "close"} => need[p] = 0 /\ aux[p] = 0
      /\ pc[p] \in {"retry", "enqueue", "flag"} => held[p] = 0 /\ aux[p] = need[p]
      /\ pc[p] # "grant" => avail[p] = 0
  <2>1. Account(p)
    BY DEF SemInv
  <2> QED  BY <2>1, PointFacts DEF Account
<1> USE <1>a
<1>p. pc = [r \in Procs |-> pc[r]]
  BY DEF SemInv, ParkingInv, PointsOK
<1> USE <1>p
<1>1. ASSUME NEW n \in Nat, Acquire(p, n) PROVE Ledger(p) /\ Account(p)'
  <2>0. n \in Nat /\ pc[p] = "idle" /\ held[p] = 0
    BY <1>1 DEF Acquire
  <2> USE <2>0
  <2>1. CASE TryAcquire(n)
    <3>1. /\ permits >= n /\ permits' = permits - n /\ held' = [held EXCEPT ![p] = @ + n]
          /\ UNCHANGED <<closed, need, aux, pc, avail, total>>
      BY <1>1, <2>1 DEF Acquire, TakePermits, TryAcquire
    <3>2. Ledger(p)
      BY <3>1, SMT DEF Ledger
    <3>3. Account(p)'
      BY <3>1, OutsideAccount
    <3> QED  BY <3>2, <3>3
  <2>2. CASE ~TryAcquire(n)
    <3>1. /\ need' = [need EXCEPT ![p] = n] /\ aux' = [aux EXCEPT ![p] = n]
          /\ pc' = [pc EXCEPT ![p] = "retry"] /\ UNCHANGED <<permits, closed, held, avail, total>>
      BY <1>1, <2>2 DEF Acquire, Goto, word
    <3> USE <3>1
    <3>2. Ledger(p)
      BY SMT DEF Ledger
    <3>3. pc'[p] = "retry" /\ At(p)' = "retry" /\ need'[p] = n /\ aux'[p] = n
      BY DEF At
    <3>4. Account(p)'
      BY <3>3 DEF Account, Requesting
    <3> QED  BY <3>2, <3>4
  <2> QED  BY <2>1, <2>2
<1>2. ASSUME NEW n \in Nat, AddPermits(p, n) PROVE Ledger(p) /\ Account(p)'
  <2>1. /\ pc[p] = "idle" /\ n \in Nat /\ total + n <= MaxPermits
        /\ total' = total + n /\ permits' = permits + n /\ pc'[p] \in {"idle", "drain"}
        /\ UNCHANGED <<closed, need, aux, held, avail>>
    BY <1>2 DEF AddPermits, PutBack, Goto, requests
  <2>2. Ledger(p)
    BY <2>1, SMT DEF Ledger
  <2>3. Account(p)'
    BY <2>1, OutsideAccount
  <2> QED  BY <2>2, <2>3
<1>3. ASSUME NEW n \in Nat, ForgetPermits(p, n) PROVE Ledger(p) /\ Account(p)'
  <2>1. PICK k : k = IF permits < n THEN permits ELSE n
    OBVIOUS
  <2>2. k \in Nat /\ k <= permits
    BY <2>1, SMT
  <2>3. /\ pc[p] = "idle" /\ permits' = permits - k /\ total' = total - k
        /\ pc'[p] = "idle" /\ UNCHANGED <<closed, need, aux, held, avail>>
    BY <1>3, <2>1 DEF ForgetPermits, pvars, requests
  <2>4. Ledger(p)
    BY <2>2, <2>3, SMT DEF Ledger
  <2>5. Account(p)'
    BY <2>3, OutsideAccount
  <2> QED  BY <2>4, <2>5
<1>4. ASSUME NEW n \in Nat, Release(p, n) PROVE Ledger(p) /\ Account(p)'
  <2>1. /\ pc[p] = "idle" /\ n \in 1 .. held[p] /\ held' = [held EXCEPT ![p] = @ - n]
        /\ permits' = permits + n /\ pc'[p] \in {"idle", "drain"}
        /\ UNCHANGED <<closed, need, aux, avail, total>>
    BY <1>4 DEF Release, PutBack, Goto
  <2>2. Ledger(p)
    BY <2>1, SMT DEF Ledger
  <2>3. Account(p)'
    BY <2>1, OutsideAccount
  <2> QED  BY <2>2, <2>3
<1>5. CASE Forget(p)
  <2>1. /\ pc[p] = "idle" /\ held' = [held EXCEPT ![p] = 0]
        /\ total' = total - held[p] /\ pc'[p] = "idle"
        /\ UNCHANGED <<permits, closed, need, aux, avail>>
    BY <1>5 DEF Forget, pvars, word
  <2>2. Ledger(p)
    BY <2>1, SMT DEF Ledger
  <2>3. Account(p)'
    BY <2>1, OutsideAccount
  <2> QED  BY <2>2, <2>3
<1>6. CASE Close(p)
  <2>1. /\ pc[p] = "idle" /\ closed' = TRUE /\ pc'[p] \in {"idle", "close"}
        /\ UNCHANGED <<permits, need, aux, held, avail, total>>
    BY <1>6 DEF Close, Goto, requests
  <2>2. Ledger(p)
    BY <2>1, SMT DEF Ledger
  <2>3. Account(p)'
    BY <2>1, OutsideAccount
  <2> QED  BY <2>2, <2>3
<1>7. CASE Retry(p)
  <2>1. CASE closed = TRUE
    <3>1. /\ pc[p] = "retry" /\ need' = [need EXCEPT ![p] = 0] /\ aux' = [aux EXCEPT ![p] = 0]
          /\ pc'[p] = "idle" /\ UNCHANGED <<permits, closed, held, avail, total>>
      BY <1>7, <2>1 DEF Retry, ForgetRequest, Goto, word
    <3> USE <3>1
    <3>2. need'[p] = 0 /\ aux'[p] = 0
      OBVIOUS
    <3>3. Ledger(p)
      BY <3>2, SMT DEF Ledger
    <3>4. Account(p)'
      BY <3>2, OutsideAccount
    <3> QED  BY <3>3, <3>4
  <2>2. CASE closed = FALSE /\ TryAcquire(need[p])
    <3>1. /\ pc[p] = "retry" /\ need' = [need EXCEPT ![p] = 0] /\ aux' = [aux EXCEPT ![p] = 0]
          /\ permits >= need[p] /\ permits' = permits - need[p]
          /\ held' = [held EXCEPT ![p] = @ + need[p]]
          /\ pc'[p] = "idle" /\ UNCHANGED <<closed, avail, total>>
      BY <1>7, <2>2 DEF Retry, ForgetRequest, TakePermits, TryAcquire, Goto
    <3> USE <3>1
    <3>2. need'[p] = 0 /\ aux'[p] = 0
      OBVIOUS
    <3>3. Ledger(p)
      BY <3>2, SMT DEF Ledger
    <3>4. Account(p)'
      BY <3>2, OutsideAccount
    <3> QED  BY <3>3, <3>4
  <2>3. CASE closed = FALSE /\ ~TryAcquire(need[p])
    <3>1. /\ pc[p] = "retry" /\ pc'[p] = "enqueue"
          /\ UNCHANGED <<permits, closed, need, aux, held, avail, total>>
      BY <1>7, <2>3 DEF Retry, Goto, word, requests
    <3>2. Ledger(p)
      BY <3>1, SameNumbers DEF requests
    <3>3. Account(p)'
      BY <3>1 DEF Account, Requesting, HasNode, At
    <3> QED  BY <3>2, <3>3
  <2> QED  BY <2>1, <2>2, <2>3
<1>8. CASE Enqueue(p) \/ (Flag(p) /\ MayGrab(p))
  <2>1. /\ pc[p] \in {"enqueue", "flag"} /\ pc'[p] \in {"flag", "grab"}
        /\ UNCHANGED <<permits, closed, need, aux, held, avail, total>>
    BY <1>8 DEF Enqueue, Flag, MayGrab, GiveUp, Push, Goto, svars, others, requests
  <2>2. Ledger(p)
    BY <2>1, SameNumbers DEF requests
  <2>3. Account(p)'
    BY <2>1 DEF Account, Requesting, HasNode, At
  <2> QED  BY <2>2, <2>3
<1>9. CASE Drain(p) \/ CloseLock(p)
  <2>1. /\ pc[p] \in {"drain", "close"} /\ pc'[p] \in {"collect", "expel", "idle"}
        /\ UNCHANGED <<permits, closed, need, aux, held, avail, total>>
    BY <1>9 DEF Drain, CloseLock, Goto, svars, others, requests
  <2>2. Ledger(p)
    BY <2>1, SameNumbers DEF requests
  <2>3. Account(p)'
    BY <2>1, OutsideAccount
  <2> QED  BY <2>2, <2>3
<1>10. CASE Collect(p)
  <2>1. /\ pc[p] = "collect" /\ avail' = [avail EXCEPT ![p] = permits] /\ permits' = 0
        /\ pc'[p] = "grant" /\ UNCHANGED <<closed, need, aux, held, total>>
    BY <1>10 DEF Collect, Goto, requests
  <2> USE <2>1
  <2>2. Ledger(p)
    BY SMT DEF Ledger
  <2>3. ~Requesting(p)' /\ At(p)' = "grant"
    BY DEF Requesting, HasNode, Parked, At
  <2>4. Account(p)'
    BY <2>3 DEF Account
  <2> QED  BY <2>2, <2>4
<1> QED  BY <1>1, <1>2, <1>3, <1>4, <1>5, <1>6, <1>7, <1>8, <1>9, <1>10 DEF WordStep

(* ... at the end of a request, *)
LEMMA EndLedger ==
  ASSUME SemInv, NEW p \in Procs, EndStep(p)
  PROVE  Ledger(p) /\ Account(p)'
<1>n. /\ permits \in Nat /\ total \in Nat /\ MaxPermits \in Nat /\ total <= MaxPermits
      /\ need \in [Procs -> Nat] /\ aux \in [Procs -> Nat] /\ held \in [Procs -> Nat]
      /\ avail \in [Procs -> Nat]
      /\ need[p] \in Nat /\ aux[p] \in Nat /\ held[p] \in Nat
      /\ avail[p] \in Nat /\ aux[p] <= need[p] /\ closed \in BOOLEAN
  BY Numbers
<1> USE <1>n
<1>m. pc[p] \in {"flag", "grab", "woken", "awaited", "giveback", "cancelledHead", "cancelled", "pending"}
  BY EndFacts DEF EndMove
<1>a. /\ held[p] = 0 /\ avail[p] = 0
      /\ pc[p] \in {"flag", "grab", "cancelledHead", "cancelled"} => aux[p] = need[p]
  <2>1. Account(p)
    BY DEF SemInv
  <2> QED  BY <1>m, <2>1, PointFacts DEF Account
<1> USE <1>a
<1>p. PointsOK
  BY DEF SemInv, ParkingInv
<1>q. pc = [r \in Procs |-> pc[r]] /\ ret = [r \in Procs |-> ret[r]]
  BY <1>p DEF PointsOK
<1> USE <1>q
<1>z. ForgetRequest(p) => /\ need' = [need EXCEPT ![p] = 0] /\ aux' = [aux EXCEPT ![p] = 0]
                          /\ need'[p] = 0 /\ aux'[p] = 0
  BY DEF ForgetRequest
<1> USE <1>z
<1>b. ASSUME NEW k \in Nat, PutBack(p, k), k = need[p] - aux[p], ForgetRequest(p),
             UNCHANGED <<held, avail, total>>
      PROVE  Ledger(p) /\ Account(p)'
  <2>1. permits' = permits + k /\ pc'[p] \in {"idle", "drain"} /\ closed' = closed
    BY <1>b DEF PutBack, Goto
  <2> USE <2>1
  <2>2. /\ need' \in [Procs -> Nat] /\ aux' \in [Procs -> Nat]
        /\ \A r \in Procs \ {p} : need'[r] = need[r] /\ aux'[r] = aux[r]
    BY <1>b, SMT
  <2>3. /\ permits' \in Nat
        /\ total - permits' - held[p] - avail[p] - 0 + 0 = total - permits - held[p] - avail[p] - need[p] + aux[p]
    BY <1>b, SMT
  <2>4. Ledger(p)
    BY <1>b, <2>2, <2>3, SMT DEF Ledger
  <2>5. Account(p)'
    BY <1>b, OutsideAccount
  <2> QED  BY <2>4, <2>5
<1> USE <1>b
<1>c. ASSUME pc'[p] \in {"clear", "unlock"}, ret'[p] = "idle", need'[p] = 0, aux'[p] = 0, avail' = avail
      PROVE  Account(p)'
  <2>1. ~Requesting(p)' /\ At(p)' = "idle"
    BY <1>c DEF Requesting, HasNode, Parked, At
  <2> QED  BY <1>c, <2>1 DEF Account
<1>1. CASE (Flag(p) \/ Grab(p)) /\ GiveUp(p)
  <2>1. /\ pc[p] \in {"flag", "grab"} /\ ForgetRequest(p) /\ ThenClear(p, "idle")
        /\ UNCHANGED <<permits, closed, held, avail, total>>
    BY <1>1 DEF Flag, Grab, GiveUp, MayGrab, Push
  <2> USE <2>1
  <2>2. Ledger(p)
    BY SMT DEF Ledger
  <2>3. pc'[p] \in {"clear", "unlock"} /\ ret'[p] = "idle"
    BY DEF ThenClear, Goto
  <2> QED  BY <1>c, <2>2, <2>3
<1>2. CASE Grab(p) /\ MayGrab(p)
  <2>1. /\ pc[p] = "grab" /\ ForgetRequest(p) /\ ThenClear(p, "idle")
        /\ permits >= need[p] /\ permits' = permits - need[p]
        /\ held' = [held EXCEPT ![p] = @ + need[p]]
        /\ UNCHANGED <<closed, avail, total>>
    BY <1>2 DEF Grab, GiveUp, MayGrab, Push, TakePermits
  <2> USE <2>1
  <2>2. Ledger(p)
    BY SMT DEF Ledger
  <2>3. pc'[p] \in {"clear", "unlock"} /\ ret'[p] = "idle"
    BY DEF ThenClear, Goto
  <2> QED  BY <1>c, <2>2, <2>3
<1>3. CASE Finish(p)
  <2>1. CASE seen[p] = "signaled"
    <3>1. aux[p] = 0
      BY <2>1 DEF SemInv, Promise
    <3>2. /\ ForgetRequest(p) /\ held' = [held EXCEPT ![p] = need[p]]
          /\ pc'[p] = "idle" /\ UNCHANGED <<permits, closed, avail, total>>
      BY <1>3, <2>1 DEF Finish, Goto, word
    <3>3. Ledger(p)
      BY <3>1, <3>2, SMT DEF Ledger
    <3>4. Account(p)'
      BY <3>2, OutsideAccount
    <3> QED  BY <3>3, <3>4
  <2>2. CASE seen[p] # "signaled"
    <3>1. Granted(p) \in Nat /\ Granted(p) = need[p] - aux[p]
      BY SMT DEF Granted
    <3>2. ForgetRequest(p) /\ PutBack(p, Granted(p)) /\ UNCHANGED <<held, avail, total>>
      BY <1>3, <2>2 DEF Finish
    <3> QED  BY <3>1, <3>2
  <2> QED  BY <2>1, <2>2
<1>4. CASE Drop(p)
  <2>1. CASE value[p] = "waiting"
    <3>1. pc'[p] = "leave" /\ UNCHANGED <<permits, closed, need, aux, held, avail, total>>
      BY <1>4, <2>1 DEF Drop, Goto, word
    <3> USE <3>1
    <3>2. Ledger(p)
      BY SameNumbers DEF requests
    <3>3. Requesting(p)' /\ At(p)' = "leave"
      BY DEF Requesting, HasNode, Parked, At
    <3>4. Account(p)'
      BY <3>3 DEF Account
    <3> QED  BY <3>2, <3>4
  <2>2. CASE value[p] # "waiting"
    <3>1. Granted(p) \in Nat /\ Granted(p) = need[p] - aux[p]
      BY SMT DEF Granted
    <3>2. ForgetRequest(p) /\ PutBack(p, Granted(p)) /\ UNCHANGED <<held, avail, total>>
      BY <1>4, <2>2 DEF Drop
    <3> QED  BY <3>1, <3>2
  <2> QED  BY <2>1, <2>2
<1>5. CASE Cancelled(p)
  <2>1. CASE pc[p] = "giveback"
    <3>1. Granted(p) \in Nat /\ Granted(p) = need[p] - aux[p]
      BY SMT DEF Granted
    <3>2. ForgetRequest(p) /\ PutBack(p, Granted(p)) /\ UNCHANGED <<held, avail, total>>
      BY <1>5, <2>1 DEF Cancelled
    <3> QED  BY <3>1, <3>2
  <2>2. CASE pc[p] # "giveback"
    <3>1. /\ ForgetRequest(p) /\ pc[p] \in {"cancelledHead", "cancelled"}
          /\ pc'[p] \in {"idle", "drain"} /\ UNCHANGED <<permits, closed, held, avail, total>>
      BY <1>5, <2>2 DEF Cancelled, Goto, word
    <3>2. Ledger(p)
      BY <3>1, SMT DEF Ledger
    <3>3. Account(p)'
      BY <3>1, OutsideAccount
    <3> QED  BY <3>2, <3>3
  <2> QED  BY <2>1, <2>2
<1>6. CASE Return(p)
  <2>1. PICK k : k = IF seen[p] = "closed" THEN Granted(p) ELSE need[p]
    OBVIOUS
  <2>2. seen[p] = "closed" \/ aux[p] = 0
    <3>1. Delivered(seen[p]) /\ seen[p] \in SemSignals
      <4>1. pc[p] = "awaited"
        BY <1>6 DEF Return
      <4> QED  BY <4>1 DEF SemInv, Local, Promise, At
    <3>2. seen[p] \in {"closed", "signaled"}
      BY <3>1 DEF SemSignals, Delivered
    <3> QED  BY <3>2 DEF SemInv, Promise
  <2>3. k \in Nat /\ k = need[p] - aux[p]
    BY <2>1, <2>2, SMT DEF Granted
  <2>4. ForgetRequest(p) /\ PutBack(p, k) /\ UNCHANGED <<held, avail, total>>
    BY <1>6, <2>1 DEF Return
  <2> QED  BY <2>3, <2>4
<1> QED  BY <1>1, <1>2, <1>3, <1>4, <1>5, <1>6 DEF EndStep

-----------------------------------------------------------------------------
(* Steps that leave the numbers alone. *)
QuietStep(p) == (LineStep(p) /\ pc[p] # "grant") \/ ClearStep(p) \/ SleepStep(p)

(* They are. *)
LEMMA QuietFacts ==
  ASSUME SemInv, NEW p \in Procs, QuietStep(p)
  PROVE  UNCHANGED <<permits, closed, need, aux, held, avail, total>>
<1>1. CASE (Flag(p) \/ Grab(p)) /\ Push(p)
  BY <1>1 DEF Flag, Grab, GiveUp, MayGrab, Push, requests
<1>2. CASE Expel(p) \/ Remove(p)
  BY <1>2 DEF Expel, Remove, word, requests
<1>3. CASE ClearStep(p) \/ SleepStep(p)
  BY <1>3 DEF ClearStep, SleepStep, svars, others, requests
<1> QED  BY <1>1, <1>2, <1>3 DEF QuietStep, LineStep, Grant

(* And the permits a process has still match where it is. *)
LEMMA QuietLedger ==
  ASSUME SemInv, NEW p \in Procs, QuietStep(p)
  PROVE  Ledger(p) /\ Account(p)'
<1>n. UNCHANGED <<permits, closed, need, aux, held, avail, total>>
  BY QuietFacts
<1> USE <1>n
<1>t. Local(p) /\ Account(p) /\ PointsOK
  BY DEF SemInv, ParkingInv
<1> USE <1>t
<1>q. pc = [r \in Procs |-> pc[r]] /\ ret = [r \in Procs |-> ret[r]]
  BY DEF PointsOK
<1>1. Ledger(p)
  BY SameNumbers DEF requests
<1> USE <1>1
<1>g. pc[p] # "grant" => avail'[p] = 0
  BY DEF Account
<1> USE <1>g
<1>2. CASE LineStep(p) /\ pc[p] # "grant"
  <2>1. PICK to : /\ ret'[p] = to /\ pc'[p] \in {"clear", "unlock"}
                  /\ \/ pc[p] \in {"flag", "grab"} /\ to \in {"swap", "pending"}
                     \/ pc[p] = "expel" /\ to = "signal"
                     \/ /\ pc[p] = "remove" /\ to \in {"await", "giveback", "cancelledHead", "cancelled"}
                        /\ to = "giveback" => Granted(p) > 0
                        /\ to \in {"cancelledHead", "cancelled"} => ~(Granted(p) > 0)
    <3>1. PICK to : /\ Locked(p, to)
                    /\ \/ pc[p] \in {"flag", "grab"} /\ to \in {"swap", "pending"}
                       \/ pc[p] = "expel" /\ to = "signal"
                       \/ /\ pc[p] = "remove" /\ to \in {"await", "giveback", "cancelledHead", "cancelled"}
                          /\ to = "giveback" => Granted(p) > 0
                          /\ to \in {"cancelledHead", "cancelled"} => ~(Granted(p) > 0)
      BY <1>2, LineFacts DEF LineMove
    <3>2. ret'[p] = to /\ pc'[p] \in {"clear", "unlock"}
      BY <1>q, <3>1 DEF Locked
    <3> QED  BY <3>1, <3>2
  <2> USE <2>1
  <2>2. At(p)' = to /\ At(p) = pc[p]
    BY DEF At
  <2>3. (Requesting(p)' <=> Requesting(p))
    BY <2>2 DEF Requesting, HasNode, Parked
  <2>4. need[p] \in Nat /\ aux[p] \in Nat /\ aux[p] <= need[p]
    BY Numbers
  <2>5. /\ to = "giveback" => aux[p] < need[p]
        /\ to \in {"cancelledHead", "cancelled"} => aux[p] = need[p]
    BY <2>4, SMT DEF Granted
  <2>6. to \notin {"retry", "enqueue", "flag", "grab"}
    OBVIOUS
  <2>7. Account(p)'
    BY <1>2, <2>2, <2>3, <2>5, <2>6 DEF Account
  <2> QED  BY <2>7
<1>3. CASE ClearStep(p)
  <2>1. pc[p] = "clear" /\ pc'[p] = "unlock" /\ ret' = ret
    BY <1>3, <1>q DEF ClearStep, Clear, Goto
  <2>2. At(p)' = At(p) /\ (Requesting(p)' <=> Requesting(p))
    BY <2>1 DEF At, Requesting, HasNode, Parked
  <2>3. Account(p)'
    BY <2>1, <2>2 DEF Account
  <2> QED  BY <2>3
<1>4. CASE SleepStep(p)
  <2>1. SleepMove(p)
    BY <1>4, SleepFacts DEF SleepStep, SemInv
  <2>2. CASE WaitMove(p)
    <3>1. /\ pc[p] \in {"swap", "check", "pending", "reload", "await", "park", "rearm", "leave"}
          /\ pc'[p] \in {"woken", "awaited", "park", "check", "pending", "rearm", "reload", "await", "remove"}
      BY <2>2 DEF WaitMove
    <3>2. At(p)' = pc'[p] /\ Requesting(p) /\ Requesting(p)'
      BY <3>1 DEF At, Requesting, HasNode, Parked
    <3> QED  BY <3>1, <3>2 DEF Account
  <2>3. CASE UnlockMove(p)
    <3>1. pc[p] = "unlock" /\ pc'[p] = ret[p] /\ ret[p] # "signal"
      BY <2>3 DEF UnlockMove
    <3> USE <3>1
    <3>2. ret[p] \in {"idle", "swap", "pending", "await", "giveback", "cancelledHead", "cancelled"}
      BY DEF Local
    <3>3. At(p)' = ret[p] /\ At(p) = ret[p] /\ (Requesting(p)' <=> Requesting(p))
      BY <3>2 DEF At, Requesting, HasNode, Parked
    <3> QED  BY <3>3 DEF Account
  <2>4. CASE SignalMove(p)
    <3>1. /\ pc[p] \in {"take", "store", "storeWake", "wake"} \/ (pc[p] = "unlock" /\ ret[p] = "signal")
          /\ pc'[p] \in {"take", "store", "storeWake", "wake", "idle"}
      BY <2>4 DEF SignalMove, Signaling
    <3>2. ~Requesting(p) /\ ~Requesting(p)' /\ At(p)' = pc'[p] /\ pc[p] # "grant"
      BY <3>1 DEF At, Requesting, HasNode, Parked
    <3> QED  BY <3>1, <3>2 DEF Account
  <2> QED  BY <2>1, <2>2, <2>3, <2>4 DEF SleepMove
<1> QED  BY <1>2, <1>3, <1>4 DEF QuietStep

(* Who gets what from a drain. *)
LEMMA ServesFacts ==
  ASSUME SemInv, NEW p \in Procs, NEW k \in 0 .. Len(line), Serves(p, k)
  PROVE  /\ aux' \in [Procs -> Nat] /\ \A q \in Procs : aux'[q] <= aux[q]
         /\ \A q \in Procs : ~InLine(q) => aux'[q] = aux[q]
         /\ \A q \in Procs : (\E i \in 1 .. k : line[i] = q) => aux'[q] = 0
         /\ k < Len(line) => aux'[line[k + 1]] > 0 /\ permits' = permits
<1>t. /\ line \in Seq(Procs) /\ Len(line) \in Nat /\ aux \in [Procs -> Nat] /\ avail[p] \in Nat
      /\ Distinct(line)
  BY Numbers, SMT DEF SemInv, ParkingInv, ParkingTypeOK, PlacesInv
<1> USE <1>t
<1>1. PICK rest : rest = avail[p] - Missing(k)
  OBVIOUS
<1> USE <1>1
<1>2. rest \in Nat
  <2>1. Missing(k) \in Nat
    BY DEF SemInv, MissingOK
  <2>2. rest >= 0
    BY DEF Serves
  <2> QED  BY <2>1, <2>2, SMT
<1>3. \A q \in Procs : aux'[q] = IF \E i \in 1 .. k : line[i] = q THEN 0
                                 ELSE IF k < Len(line) /\ line[k + 1] = q THEN aux[q] - rest ELSE aux[q]
  BY DEF Serves
<1> USE <1>3
<1>4. aux' = [q \in Procs |-> aux'[q]]
  BY DEF Serves
<1>5. k < Len(line) => /\ line[k + 1] \in Procs /\ rest < aux[line[k + 1]]
                       /\ ~\E i \in 1 .. k : line[i] = line[k + 1]
  <2> SUFFICES ASSUME k < Len(line)
               PROVE  /\ line[k + 1] \in Procs /\ rest < aux[line[k + 1]]
                      /\ ~\E i \in 1 .. k : line[i] = line[k + 1]
    OBVIOUS
  <2>1. k + 1 \in 1 .. Len(line) /\ line[k + 1] \in Procs
    BY SMT
  <2> USE <2>1
  <2>2. \A q \in Procs : k < Len(line) /\ line[k + 1] = q => rest < aux[q]
    BY DEF Serves
  <2>5. rest < aux[line[k + 1]]
    BY <2>2
  <2>6. ~\E i \in 1 .. k : line[i] = line[k + 1]
    BY SMT DEF Distinct
  <2> QED  BY <2>5, <2>6
<1> USE <1>5
<1>6. ASSUME NEW q \in Procs PROVE aux'[q] \in Nat /\ aux'[q] <= aux[q]
  <2>1. aux[q] \in Nat
    OBVIOUS
  <2> USE <2>1
  <2>2. CASE \E i \in 1 .. k : line[i] = q
    BY <2>2, SMT
  <2>3. CASE ~(\E i \in 1 .. k : line[i] = q) /\ k < Len(line) /\ line[k + 1] = q
    <3>1. aux'[q] = aux[q] - rest /\ rest < aux[q]
      BY <2>3
    <3> QED  BY <1>2, <3>1, SMT
  <2>4. CASE ~(\E i \in 1 .. k : line[i] = q) /\ ~(k < Len(line) /\ line[k + 1] = q)
    BY <2>4, SMT
  <2> QED  BY <2>2, <2>3, <2>4
<1>7. aux' \in [Procs -> Nat]
  BY <1>4, <1>6
<1>8. ASSUME NEW q \in Procs, ~InLine(q) PROVE aux'[q] = aux[q]
  <2>1. ~(\E i \in 1 .. k : line[i] = q) /\ ~(k < Len(line) /\ line[k + 1] = q)
    BY <1>8, SMT DEF InLine, Among
  <2> QED  BY <2>1
<1>9. ASSUME k < Len(line) PROVE aux'[line[k + 1]] > 0 /\ permits' = permits
  <2>1. PICK n \in Procs : n = line[k + 1]
    BY <1>9
  <2>2. aux'[n] = aux[n] - rest /\ rest < aux[n] /\ aux[n] \in Nat
    BY <1>9, <2>1
  <2>3. permits' = permits
    BY <1>9, SMT DEF Serves
  <2> QED  BY <1>2, <2>1, <2>2, <2>3, SMT
<1> QED  BY <1>6, <1>7, <1>8, <1>9

(* The permits of the others are left as they match. *)
LEMMA OthersAccount ==
  ASSUME SemInv, NEW p \in Procs, Frame(p), NEW r \in Procs \ {p},
         need'[r] = need[r], held'[r] = held[r], avail'[r] = avail[r],
         aux'[r] = aux[r] \/ InLine(r)
  PROVE  Account(r)'
<1>1. Account(r) /\ pc'[r] = pc[r] /\ ret'[r] = ret[r]
  BY DEF SemInv, Frame
<1> USE <1>1
<1>2. At(r)' = At(r) /\ (Parked(r)' <=> Parked(r))
  BY SamePoint
<1>3. Requesting(r)' <=> Requesting(r)
  BY <1>2 DEF Requesting, HasNode
<1>4. InLine(r) => Parked(r)
  BY DEF SemInv, ParkingInv, AliveInv, Busy
<1>5. Parked(r) => Requesting(r) /\ At(r) \notin {"retry", "enqueue", "flag", "grab", "cancelledHead",
                                                  "cancelled", "giveback"}
  BY DEF Parked, Requesting, HasNode
<1> QED  BY <1>2, <1>3, <1>4, <1>5 DEF Account

(* A step of p is a drain serving the line, or balances the books of p. *)
LEMMA StepKinds ==
  ASSUME SemInv, NEW p \in Procs, SemStep(p)
  PROVE  \/ Grant(p)
         \/ Ledger(p) /\ Account(p)' /\ (WordStep(p) \/ EndStep(p) \/ QuietStep(p))
<1>1. LineStep(p) => Grant(p) \/ QuietStep(p)
  BY DEF LineStep, QuietStep, Flag, Grab, Expel, Remove
<1>2. WordStep(p) \/ EndStep(p) \/ Grant(p) \/ QuietStep(p)
  BY <1>1 DEF SemStep, QuietStep
<1> QED  BY <1>2, WordLedger, EndLedger, QuietLedger

-----------------------------------------------------------------------------
(* Whoever misses nothing keeps missing nothing until it asks again. *)
LEMMA NothingMissing ==
  ASSUME SemInv, NEW p \in Procs, SemStep(p), NEW n \in Procs, aux[n] = 0, n # p \/ pc[p] # "idle"
  PROVE  aux'[n] = 0
<1>1. CASE Grant(p)
  <2>1. PICK k \in 0 .. Len(line) : Serves(p, k)
    BY <1>1 DEF Grant
  <2>2. aux' \in [Procs -> Nat] /\ aux'[n] <= aux[n]
    BY <2>1, ServesFacts
  <2> QED  BY <2>2, SMT
<1>2. CASE Ledger(p) /\ n # p
  BY <1>2 DEF Ledger
<1>3. CASE n = p /\ pc[p] # "idle" /\ (WordStep(p) \/ EndStep(p) \/ QuietStep(p))
  <2>1. aux \in [Procs -> Nat]
    BY Numbers
  <2>2. ForgetRequest(p) => aux'[p] = 0
    BY <2>1 DEF ForgetRequest
  <2>3. CASE QuietStep(p)
    BY <1>3, <2>3, QuietFacts
  <2>4. CASE WordStep(p)
    <3>1. CASE Retry(p)
      BY <1>3, <2>2, <3>1 DEF Retry, requests
    <3>2. CASE Enqueue(p) \/ Drain(p) \/ CloseLock(p) \/ Collect(p)
      BY <1>3, <3>2 DEF Enqueue, Drain, CloseLock, Collect, svars, others, requests
    <3>3. CASE Flag(p) /\ MayGrab(p)
      BY <1>3, <3>3 DEF Flag, MayGrab, GiveUp, Push, requests
    <3>4. ASSUME NEW m, Acquire(p, m) \/ AddPermits(p, m) \/ ForgetPermits(p, m) \/ Release(p, m)
                        \/ Forget(p) \/ Close(p)
          PROVE  FALSE
      BY <1>3, <3>4 DEF Acquire, AddPermits, ForgetPermits, Release, Forget, Close
    <3> QED  BY <2>4, <3>1, <3>2, <3>3, <3>4 DEF WordStep
  <2>5. CASE EndStep(p)
    <3>1. ForgetRequest(p) \/ aux' = aux
      BY <2>5 DEF EndStep, Flag, Grab, GiveUp, Push, MayGrab, Finish, Drop, Cancelled, Return, requests
    <3> QED  BY <1>3, <2>2, <3>1
  <2> QED  BY <1>3, <2>3, <2>4, <2>5
<1> QED  BY <1>1, <1>2, <1>3, StepKinds

(* How signals travel from a chain to its nodes, and from a node to its     *)
(* owner.                                                                   *)
Delivery(p, n) ==
    /\ value'[n] \in {value[n], "waiting", "uninit"} \/ (Popped(n, p) /\ value'[n] = sent[p])
    /\ seen'[n] \in {seen[n], "uninit", value[n]}
    /\ sent'[n] \in {sent[n], "uninit", "signaled", "closed"}
    /\ \A r \in Procs : Popped(n, r)' /\ sent'[r] = "signaled" =>
          (Popped(n, r) /\ sent[r] = "signaled") \/ aux'[n] = 0

(* A step of a process that signals nobody. *)
LEMMA NoDelivery ==
  ASSUME SemInv, NEW p \in Procs, pc'[p] \notin {"store", "storeWake"},
         \A r \in Procs \ {p} : pc'[r] = pc[r], UNCHANGED signalVars,
         PrepareNode(p) \/ FreeNode(p) \/ UNCHANGED nodeVars, NEW n \in Procs
  PROVE  Delivery(p, n)
<1>t. ParkingTypeOK
  BY DEF SemInv, ParkingInv
<1>1. value'[n] \in {value[n], "waiting", "uninit"} /\ seen'[n] \in {seen[n], "uninit"}
  BY <1>t DEF PrepareNode, FreeNode, nodeVars, ParkingTypeOK
<1>2. \A r \in Procs : Popped(n, r)' => Popped(n, r)
  BY DEF Popped, InChain, Storing, signalVars
<1>3. sent' = sent
  BY DEF signalVars
<1> QED  BY <1>1, <1>2, <1>3 DEF Delivery

(* They travel that way. *)
LEMMA StepDelivery ==
  ASSUME SemInv, NEW p \in Procs, SemStep(p), NEW n \in Procs
  PROVE  Delivery(p, n)
<1>t. ParkingInv /\ ParkingTypeOK /\ PointsOK
  BY DEF SemInv, ParkingInv
<1> USE <1>t
<1>1. CASE WordStep(p)
  BY <1>1, WordFacts, NoDelivery DEF WordMove
<1>2. CASE EndStep(p)
  <2>1. EndMove(p)
    BY <1>2, EndFacts
  <2>2. pc'[p] \notin {"store", "storeWake"}
    BY <2>1 DEF EndMove
  <2> QED  BY <2>1, <2>2, NoDelivery DEF EndMove
<1>3. CASE ClearStep(p)
  <2>1. /\ pc'[p] = "unlock" /\ (\A r \in Procs \ {p} : pc'[r] = pc[r])
        /\ UNCHANGED signalVars /\ UNCHANGED nodeVars
    BY <1>3 DEF ClearStep, Clear, Goto, PointsOK
  <2> QED  BY <2>1, NoDelivery
<1>4. CASE SleepStep(p)
  <2>1. ParkingStep(p) \/ Rouse(p)
    BY <1>4 DEF SleepStep
  <2>2. SleepMove(p) /\ Frame(p)
    BY <2>1, SleepFacts, ParkingFrame
  <2>3. /\ value'[n] \in {value[n], "waiting"} \/ (Popped(n, p) /\ value'[n] = sent[p])
        /\ \A r \in Procs : Popped(n, r)' => Popped(n, r)
    BY <2>1, SignalFacts
  <2>4. \A r \in Procs : seen'[r] \in {seen[r], value[r]} /\ sent'[r] \in {sent[r], "uninit"}
    <3>1. seen'[p] \in {seen[p], value[p]} /\ sent'[p] \in {sent[p], "uninit"}
      BY <2>2 DEF SleepMove, WaitMove, UnlockMove, SignalMove, nodeVars
    <3> QED  BY <2>2, <3>1 DEF Frame
  <2> QED  BY <2>3, <2>4 DEF Delivery
<1>5. CASE LineStep(p)
  <2>1. PICK to : /\ Locked(p, to)
                  /\ \/ chain' = chain /\ sent' = sent
                     \/ /\ pc[p] \in {"grant", "expel"}
                        /\ sent' = [sent EXCEPT ![p] = IF pc[p] = "grant" THEN "signaled" ELSE "closed"]
    BY <1>5, LineFacts DEF LineMove
  <2>2. /\ UNCHANGED nodeVars /\ node' = node /\ pc'[p] \in {"clear", "unlock"}
        /\ \A r \in Procs \ {p} : pc'[r] = pc[r]
    BY <2>1 DEF Locked
  <2> USE <2>2
  <2>3. CASE chain' = chain /\ sent' = sent
    BY <2>3, NoDelivery DEF signalVars
  <2>4. CASE /\ pc[p] \in {"grant", "expel"}
             /\ sent' = [sent EXCEPT ![p] = IF pc[p] = "grant" THEN "signaled" ELSE "closed"]
    <3>1. value'[n] = value[n] /\ seen'[n] = seen[n]
      BY DEF nodeVars
    <3>2. sent'[n] \in {sent[n], "signaled", "closed"} /\ (pc[p] = "expel" => sent'[p] = "closed")
      BY <2>4 DEF ParkingTypeOK
    <3>3. Frame(p)
      BY StepParking
    <3>4. ASSUME NEW r \in Procs \ {p} PROVE Popped(n, r)' => Popped(n, r) /\ sent'[r] = sent[r]
      BY <3>3 DEF Frame, Popped, InChain, Storing
    <3>5. pc[p] = "grant" => (Popped(n, p)' => aux'[n] = 0)
      <4> SUFFICES ASSUME pc[p] = "grant", Popped(n, p)' PROVE aux'[n] = 0
        OBVIOUS
      <4>1. Grant(p)
        BY <1>5 DEF LineStep, Flag, Grab, Expel, Remove
      <4>2. PICK k \in 0 .. Len(line) : Serves(p, k)
        BY <4>1 DEF Grant
      <4>3. chain'[p] = SubSeq(line, 1, k) /\ line \in Seq(Procs)
        BY <4>2 DEF Serves, ParkingTypeOK
      <4>4. Among(n, SubSeq(line, 1, k))
        BY <4>3 DEF Popped, InChain, Storing
      <4>5. \E i \in 1 .. k : line[i] = n
        BY <4>3, <4>4, SMT DEF Among
      <4> QED  BY <4>2, <4>5, ServesFacts
    <3> QED  BY <2>4, <3>1, <3>2, <3>4, <3>5 DEF Delivery
  <2> QED  BY <2>1, <2>3, <2>4
<1> QED  BY <1>1, <1>2, <1>3, <1>4, <1>5 DEF SemStep

(* And what they promise stays true. *)
LEMMA StepPromise ==
  ASSUME SemInv, NEW p \in Procs, SemStep(p)
  PROVE  \A n \in Procs : Promise(n)'
<1>1. ASSUME NEW n \in Procs
      PROVE  /\ value[n] \in SemSignals /\ seen[n] \in SemSignals /\ sent[n] \in SemSignals
             /\ value[n] = "signaled" \/ seen[n] = "signaled" => aux[n] = 0
             /\ \A r \in Procs : Popped(n, r) /\ sent[r] = "signaled" => aux[n] = 0
  BY DEF SemInv, Promise
<1>2. ASSUME pc[p] = "idle"
      PROVE  value[p] = "uninit" /\ seen[p] = "uninit" /\ \A r \in Procs : ~Popped(p, r)
  <2>1. ~HasNode(p) /\ ~Parked(p)
    BY <1>2 DEF HasNode, Parked, At
  <2>2. ~Busy(p) /\ Local(p)
    BY <2>1 DEF SemInv, ParkingInv, AliveInv
  <2> QED  BY <2>1, <2>2 DEF Local, Busy
<1>3. ASSUME NEW n \in Procs
      PROVE  /\ value'[n] \in SemSignals /\ seen'[n] \in SemSignals /\ sent'[n] \in SemSignals
             /\ value'[n] = "signaled" \/ seen'[n] = "signaled" => aux'[n] = 0
             /\ \A r \in Procs : Popped(n, r)' /\ sent'[r] = "signaled" => aux'[n] = 0
  <2>1. Delivery(p, n)
    BY StepDelivery
  <2> USE <2>1
  <2>2. value'[n] \in SemSignals /\ seen'[n] \in SemSignals /\ sent'[n] \in SemSignals
    BY <1>1 DEF Delivery, SemSignals
  <2>3. value'[n] = "signaled" \/ seen'[n] = "signaled" =>
           \/ value[n] = "signaled" \/ seen[n] = "signaled"
           \/ Popped(n, p) /\ sent[p] = "signaled"
    BY DEF Delivery
  <2>4. ASSUME \/ value[n] = "signaled" \/ seen[n] = "signaled"
               \/ \E r \in Procs : Popped(n, r) /\ sent[r] = "signaled"
        PROVE  aux'[n] = 0
    <3>1. aux[n] = 0
      BY <1>1, <2>4
    <3>2. n # p \/ pc[p] # "idle"
      BY <1>2, <2>4
    <3> QED  BY <3>1, <3>2, NothingMissing
  <2>5. \A r \in Procs : Popped(n, r)' /\ sent'[r] = "signaled" => aux'[n] = 0
    BY <2>4 DEF Delivery
  <2> QED  BY <2>2, <2>3, <2>4, <2>5
<1> QED  BY <1>3 DEF Promise

-----------------------------------------------------------------------------
(* What a step that leaves a line alone does to the service of it. *)
Service(p) ==
    /\ line' = line /\ aux'[Head(line)] = aux[Head(line)]
    /\ permits' <= permits \/ pc'[p] = "drain"
    /\ pc[p] # "grant" /\ (pc'[p] = "grant" => permits' = 0)
    /\ Serving(p) => Serving(p)' \/ pc'[p] = "grant"
    /\ pc[p] \in {"close", "expel"} => pc'[p] \in {"close", "expel"}
    /\ closed' = closed \/ pc'[p] = "close"

(* Permits are never put back behind the back of a line. *)
LEMMA PutBackFacts ==
  ASSUME SemInv, line # <<>>, NEW p \in Procs, NEW n \in Nat, PutBack(p, n)
  PROVE  /\ (permits' = permits /\ n = 0) \/ pc'[p] = "drain"
         /\ n > 0 => pc'[p] = "drain"
         /\ closed' = closed
<1>1. hasQueue /\ permits \in Nat /\ pc = [r \in Procs |-> pc[r]]
  BY Numbers DEF SemInv, FlagMeansLine, ParkingInv, PointsOK
<1> QED  BY <1>1, SMT DEF PutBack, Goto

(* Steps on the pool, *)
LEMMA WordService ==
  ASSUME SemInv, line # <<>>, NEW p \in Procs, WordStep(p)
  PROVE  Service(p)
<1>n. /\ permits \in Nat /\ need[p] \in Nat /\ aux[p] \in Nat /\ held[p] \in Nat
  BY Numbers
<1> USE <1>n
<1>q. /\ hasQueue /\ pc = [r \in Procs |-> pc[r]] /\ line \in Seq(Procs)
  BY DEF SemInv, FlagMeansLine, ParkingInv, PointsOK, ParkingTypeOK
<1> USE <1>q
<1>m. WordMove(p)
  BY WordFacts
<1>1. line' = line /\ pc[p] # "grant" /\ pc[p] # "expel" /\ ~Parked(p)
  BY <1>m DEF WordMove, Parked, At
<1>2. aux'[Head(line)] = aux[Head(line)]
  <2>1. Head(line) \in Procs /\ InLine(Head(line))
    BY HeadFacts DEF InLine
  <2>2. Head(line) # p
    BY <1>1, <2>1 DEF SemInv, ParkingInv, AliveInv, Busy
  <2> QED  BY <2>1, <2>2, WordLedger DEF Ledger
<1>s. At(p) = pc[p] /\ pc[p] \notin {"giveback", "cancelledHead", "expel"}
  BY <1>m DEF WordMove, At
<1>3. /\ permits' <= permits \/ pc'[p] = "drain"
      /\ pc'[p] = "grant" => permits' = 0
      /\ pc[p] = "drain" => pc'[p] = "collect"
      /\ pc[p] = "collect" => pc'[p] = "grant"
      /\ pc[p] = "close" => pc'[p] = "expel"
      /\ closed' = closed \/ pc'[p] = "close"
  <2>1. ASSUME NEW n \in Nat, Acquire(p, n) PROVE <1>3!:
    BY <2>1, SMT DEF Acquire, TakePermits, TryAcquire, Goto, word
  <2>2. ASSUME NEW n \in Nat, AddPermits(p, n) \/ Release(p, n) PROVE <1>3!:
    <3>1. pc[p] = "idle" /\ PutBack(p, n)
      BY <2>2 DEF AddPermits, Release
    <3> USE <3>1
    <3>2. permits' = permits \/ pc'[p] = "drain"
      BY PutBackFacts
    <3>3. closed' = closed /\ pc'[p] \in {"idle", "drain"}
      BY DEF PutBack, Goto
    <3> QED  BY <3>2, <3>3, SMT
  <2>3. ASSUME NEW n \in Nat, ForgetPermits(p, n) PROVE <1>3!:
    <3>1. PICK k : k = IF permits < n THEN permits ELSE n
      OBVIOUS
    <3>2. k \in Nat /\ k <= permits
      BY <3>1, SMT
    <3>3. pc[p] = "idle" /\ pc' = pc /\ permits' = permits - k /\ closed' = closed
      BY <2>3, <3>1 DEF ForgetPermits, pvars
    <3> QED  BY <3>2, <3>3, SMT
  <2>4. CASE Forget(p) \/ Close(p)
    <3>1. CASE Forget(p)
      <4>1. pc[p] = "idle" /\ pc' = pc /\ UNCHANGED <<permits, closed>>
        BY <3>1 DEF Forget, word, pvars
      <4> QED  BY <4>1, SMT
    <3>2. CASE Close(p)
      <4>1. pc[p] = "idle" /\ pc' = [pc EXCEPT ![p] = "close"] /\ permits' = permits
        BY <3>2 DEF Close, Goto
      <4> QED  BY <4>1, SMT
    <3> QED  BY <2>4, <3>1, <3>2
  <2>5. CASE Retry(p)
    <3>1. /\ pc[p] = "retry" /\ (UNCHANGED word \/ TakePermits(p, need[p]))
          /\ pc' = [pc EXCEPT ![p] = "idle"] \/ pc' = [pc EXCEPT ![p] = "enqueue"]
      BY <2>5 DEF Retry, Goto
    <3> USE <3>1
    <3>2. permits' \in {permits, permits - need[p]} /\ closed' = closed
      BY DEF TakePermits, word
    <3>3. pc'[p] \in {"idle", "enqueue"}
      OBVIOUS
    <3> QED  BY <3>2, <3>3, SMT
  <2>6. CASE Enqueue(p) \/ Drain(p) \/ CloseLock(p)
    <3>1. UNCHANGED <<permits, closed>>
      BY <2>6 DEF Enqueue, Drain, CloseLock, svars, others
    <3>2. \/ pc[p] = "enqueue" /\ pc' = [pc EXCEPT ![p] = "flag"]
          \/ pc[p] = "drain" /\ pc' = [pc EXCEPT ![p] = "collect"]
          \/ pc[p] = "close" /\ pc' = [pc EXCEPT ![p] = "expel"]
      BY <2>6 DEF Enqueue, Drain, CloseLock, NobodyInLine, Goto
    <3>3. pc'[p] = IF pc[p] = "enqueue" THEN "flag" ELSE IF pc[p] = "drain" THEN "collect" ELSE "expel"
      BY <3>2
    <3> QED  BY <3>1, <3>2, <3>3, SMT
  <2>7. CASE Collect(p)
    BY <2>7, SMT DEF Collect, Goto
  <2>8. CASE Flag(p) /\ MayGrab(p)
    BY <2>8 DEF MayGrab
  <2> QED  BY <2>1, <2>2, <2>3, <2>4, <2>5, <2>6, <2>7, <2>8 DEF WordStep
<1> QED  BY <1>1, <1>2, <1>3, <1>s DEF Service, Serving

(* the ends of requests, *)
LEMMA EndService ==
  ASSUME SemInv, line # <<>>, NEW p \in Procs, EndStep(p)
  PROVE  Service(p)
<1>n. /\ permits \in Nat /\ need[p] \in Nat /\ aux[p] \in Nat /\ aux[p] <= need[p]
  BY Numbers
<1> USE <1>n
<1>q. /\ hasQueue /\ pc = [r \in Procs |-> pc[r]] /\ line \in Seq(Procs)
  BY DEF SemInv, FlagMeansLine, ParkingInv, PointsOK, ParkingTypeOK
<1>m. EndMove(p)
  BY EndFacts
<1>1. line' = line
  BY <1>m DEF EndMove
<1>s. /\ pc[p] \in {"flag", "grab", "woken", "awaited", "giveback", "cancelledHead", "cancelled", "pending"}
      /\ pc'[p] \in {"clear", "unlock", "idle", "drain", "leave"}
      /\ At(p) = pc[p]
  BY <1>m DEF EndMove, At
<1> USE <1>s
<1>g. Granted(p) \in Nat /\ (pc[p] = "giveback" => Granted(p) > 0)
  <2>1. pc[p] = "giveback" => aux[p] < need[p]
    BY DEF SemInv, Account
  <2> QED  BY <2>1, SMT DEF Granted
<1> USE <1>g
<1>2. aux'[Head(line)] = aux[Head(line)]
  <2>1. Head(line) \in Procs /\ InLine(Head(line))
    BY <1>q, HeadFacts DEF InLine
  <2>2. CASE Head(line) # p
    BY <2>1, <2>2, EndLedger DEF Ledger
  <2>3. CASE Head(line) = p
    <3>1. Parked(p) /\ ~Delivered(value[p]) /\ (At(p) = "swap" \/ value[p] # "uninit")
      BY <2>1, <2>3 DEF SemInv, ParkingInv, AliveInv, WaiterInv, Busy
    <3>2. value[p] \in SemSignals
      BY DEF SemInv, Promise
    <3>3. pc[p] = "pending" /\ value[p] = "waiting"
      BY <3>1, <3>2 DEF Parked, Delivered, SemSignals
    <3>4. aux' = aux
      BY <3>3 DEF EndStep, Flag, Grab, Finish, Drop, Cancelled, Return
    <3> QED  BY <3>4
  <2> QED  BY <2>2, <2>3
<1>3. /\ permits' <= permits \/ pc'[p] = "drain"
      /\ pc[p] \in {"giveback", "cancelledHead"} => pc'[p] = "drain"
      /\ closed' = closed
  <2>1. CASE (Flag(p) \/ Grab(p)) /\ GiveUp(p)
    <3>1. UNCHANGED <<permits, closed>> /\ pc[p] \in {"flag", "grab"}
      BY <2>1 DEF Flag, Grab, GiveUp
    <3> QED  BY <3>1, SMT
  <2>2. CASE Grab(p) /\ MayGrab(p)
    BY <2>2 DEF MayGrab
  <2>3. CASE Finish(p)
    <3>1. pc[p] = "woken" /\ (UNCHANGED word \/ PutBack(p, Granted(p)))
      BY <2>3 DEF Finish
    <3> QED  BY <3>1, PutBackFacts, SMT DEF word
  <2>4. CASE Drop(p)
    <3>1. pc[p] = "pending" /\ (UNCHANGED word \/ PutBack(p, Granted(p)))
      BY <2>4 DEF Drop
    <3> QED  BY <3>1, PutBackFacts, SMT DEF word
  <2>5. CASE Cancelled(p)
    <3>1. CASE pc[p] = "giveback"
      <4>1. PutBack(p, Granted(p))
        BY <2>5, <3>1 DEF Cancelled
      <4> QED  BY <3>1, <4>1, PutBackFacts
    <3>2. CASE pc[p] # "giveback"
      BY <1>q, <2>5, <3>2, SMT DEF Cancelled, Goto, word
    <3> QED  BY <3>1, <3>2
  <2>6. CASE Return(p)
    <3>1. PICK k : k = IF seen[p] = "closed" THEN Granted(p) ELSE need[p]
      OBVIOUS
    <3>2. k \in Nat
      BY <3>1
    <3>3. pc[p] = "awaited" /\ PutBack(p, k)
      BY <2>6, <3>1 DEF Return
    <3> QED  BY <3>2, <3>3, PutBackFacts, SMT
  <2> QED  BY <2>1, <2>2, <2>3, <2>4, <2>5, <2>6 DEF EndStep
<1> QED  BY <1>1, <1>2, <1>3 DEF Service, Serving

(* and what goes on while waiting. *)
LEMMA SleepService ==
  ASSUME SemInv, line # <<>>, NEW p \in Procs, ClearStep(p) \/ SleepStep(p)
  PROVE  Service(p)
<1>n. UNCHANGED <<permits, closed, aux>> /\ permits \in Nat
  BY QuietFacts, Numbers DEF QuietStep
<1>1. ~ClearStep(p)
  BY DEF SemInv, Local, ClearStep, Clear
<1>2. line' = line /\ SleepMove(p)
  BY <1>1, ParkingFrame, SleepFacts DEF SemInv, SleepStep
<1> USE <1>2
<1>3. /\ pc[p] \notin {"grant", "drain", "collect", "close", "expel", "giveback", "cancelledHead"}
      /\ pc[p] = "unlock" => At(p) = ret[p] /\ (ret[p] \in {"giveback", "cancelledHead"} => pc'[p] = ret[p])
      /\ pc[p] \notin {"clear", "unlock"} => At(p) = pc[p]
      /\ pc[p] # "clear"
  BY DEF SleepMove, WaitMove, UnlockMove, SignalMove, Signaling, At
<1>4. pc'[p] # "grant"
  <2>1. pc[p] = "unlock" => ret[p] # "grant"
    BY DEF SemInv, Local
  <2> QED  BY <2>1 DEF SleepMove, WaitMove, UnlockMove, SignalMove, Signaling
<1>5. Serving(p) => Serving(p)'
  BY <1>3 DEF Serving, At
<1> QED  BY <1>n, <1>3, <1>4, <1>5, SMT DEF Service

(* The others go on serving. *)
LEMMA OthersServe ==
  ASSUME NEW p \in Procs, Frame(p), NEW r \in Procs \ {p}
  PROVE  pc'[r] = pc[r] /\ (Serving(r)' <=> Serving(r))
<1>1. pc'[r] = pc[r] /\ ret'[r] = ret[r]
  BY DEF Frame
<1>2. At(r)' = At(r)
  BY <1>1, SamePoint
<1> QED  BY <1>1, <1>2 DEF Serving

(* Such steps leave nobody behind. *)
LEMMA ServiceStuck ==
  ASSUME SemInv, line # <<>>, NEW p \in Procs, Frame(p), Service(p), permits' \in Nat, aux'[Head(line)] \in Nat
  PROVE  StuckInv'
<1>s. /\ line' = line /\ aux'[Head(line)] = aux[Head(line)]
      /\ permits' <= permits \/ pc'[p] = "drain"
      /\ pc[p] # "grant" /\ (pc'[p] = "grant" => permits' = 0)
      /\ Serving(p) => Serving(p)' \/ pc'[p] = "grant"
      /\ pc[p] \in {"close", "expel"} => pc'[p] \in {"close", "expel"}
      /\ closed' = closed \/ pc'[p] = "close"
  BY DEF Service
<1> USE <1>s
<1>o. \A r \in Procs \ {p} : pc'[r] = pc[r] /\ (Serving(r)' <=> Serving(r))
  BY OthersServe
<1> USE <1>o
<1>n. permits \in Nat
  BY Numbers
<1>i. /\ (IF \E r \in Procs : pc[r] = "grant" THEN permits > 0 ELSE aux[Head(line)] <= permits) =>
            \E r \in Procs : Serving(r)
      /\ closed = TRUE => \E r \in Procs : pc[r] \in {"close", "expel"}
  BY DEF SemInv, StuckInv
<1> USE <1>i
<1>1. closed' = TRUE => \E r \in Procs : pc'[r] \in {"close", "expel"}
  OBVIOUS
<1>2. ASSUME IF \E r \in Procs : pc'[r] = "grant" THEN permits' > 0 ELSE aux'[Head(line)] <= permits'
      PROVE  \E r \in Procs : Serving(r)'
  <2>1. CASE pc'[p] = "drain"
    BY <2>1 DEF Serving
  <2>2. CASE pc'[p] # "drain"
    <3>1. permits' <= permits
      BY <2>2
    <3>2. pc'[p] # "grant"
      BY <1>2, SMT
    <3>3. (\E r \in Procs : pc'[r] = "grant") <=> (\E r \in Procs : pc[r] = "grant")
      BY <3>2
    <3>4. \E r \in Procs : Serving(r)
      <4>1. CASE \E r \in Procs : pc[r] = "grant"
        <5>1. permits > 0
          BY <1>2, <1>n, <3>1, <3>3, <4>1, SMT
        <5> QED  BY <4>1, <5>1
      <4>2. CASE ~(\E r \in Procs : pc[r] = "grant")
        <5>1. aux'[Head(line)] <= permits'
          BY <1>2, <3>3, <4>2
        <5>2. aux[Head(line)] <= permits
          BY <1>n, <3>1, <5>1, SMT
        <5> QED  BY <4>2, <5>2
      <4> QED  BY <4>1, <4>2
    <3> QED  BY <3>2, <3>4
  <2> QED  BY <2>1, <2>2
<1> QED  BY <1>1, <1>2 DEF StuckInv

(* Neither does a change of the line. *)
LEMMA LineStuck ==
  ASSUME SemInv, NEW p \in Procs, LineStep(p), line' # <<>>
  PROVE  StuckInv'
<1>t. line \in Seq(Procs) /\ Distinct(line) /\ Len(line) \in Nat /\ closed \in BOOLEAN
  BY SMT DEF SemInv, ParkingInv, ParkingTypeOK, PlacesInv, TypeOK
<1>n. permits \in Nat /\ need[p] \in Nat /\ aux[p] \in Nat /\ aux \in [Procs -> Nat]
  BY Numbers
<1>f. Frame(p)
  BY StepParking DEF SemStep
<1>m. PICK to :
        /\ Locked(p, to)
        /\ pc[p] \in {"flag", "grab", "grant", "expel", "remove"}
        /\ pc[p] \in {"flag", "grab"} => line' = Append(line, p)
        /\ pc[p] = "remove" =>
              \/ Position(p) = {} /\ line' = line
              \/ /\ \E k \in Position(p) : line' = Without(line, k)
                 /\ Head(line) = p /\ Len(line) > 1 => to \in {"giveback", "cancelledHead"}
  <2>1. LineMove(p)
    BY LineFacts
  <2> QED  BY <2>1 DEF LineMove
<1>1. /\ holder = p /\ pc'[p] \in {"clear", "unlock"} /\ ret'[p] = to
  BY <1>m DEF Locked, SemInv, ParkingInv, PointsOK
<1>o. \A r \in Procs \ {p} : pc'[r] = pc[r] /\ pc[r] # "grant" /\ (Serving(r)' <=> Serving(r))
  <2>1. \A r \in Procs \ {p} : pc[r] # "grant"
    BY <1>1 DEF SemInv, Local, Locking
  <2> QED  BY <1>f, <2>1, OthersServe
<1>g. ~(\E r \in Procs : pc'[r] = "grant")
  BY <1>1, <1>o
<1>i. line # <<>> =>
        /\ (IF \E r \in Procs : pc[r] = "grant" THEN permits > 0 ELSE aux[Head(line)] <= permits) =>
              \E r \in Procs : Serving(r)
        /\ closed = TRUE => \E r \in Procs : pc[r] \in {"close", "expel"}
  BY DEF SemInv, StuckInv
<1> SUFFICES /\ aux'[Head(line')] <= permits' => \E r \in Procs : Serving(r)'
             /\ closed' = TRUE => \E r \in Procs : pc'[r] \in {"close", "expel"}
  BY <1>g DEF StuckInv
<1>s. pc[p] # "expel" => ~Serving(p)
  BY <1>m DEF Serving, At
<1>h. ASSUME line # <<>>, pc[p] \in {"flag", "grab", "remove"}, aux' = aux, permits' = permits, closed' = closed,
             Head(line') = Head(line)
      PROVE  /\ aux'[Head(line')] <= permits' => \E r \in Procs : Serving(r)'
             /\ closed' = TRUE => \E r \in Procs : pc'[r] \in {"close", "expel"}
  <2>1. ~(\E r \in Procs : pc[r] = "grant")
    BY <1>h, <1>o
  <2>2. ~Serving(p) /\ pc[p] \notin {"close", "expel"}
    BY <1>h, <1>s
  <2>3. aux[Head(line)] <= permits => \E r \in Procs : Serving(r)
    BY <1>h, <1>i, <2>1
  <2> QED  BY <1>h, <1>i, <1>o, <2>2, <2>3
<1>2. CASE pc[p] \in {"flag", "grab"}
  <2>1. /\ closed = FALSE /\ ~MayGrab(p) /\ UNCHANGED <<permits, closed, aux>>
    BY <1>t, <1>2 DEF LineStep, Flag, Grab, GiveUp, MayGrab, Push, Grant, Expel, Remove, requests
  <2>2. CASE line = <<>>
    <3>1. Head(line') = p
      BY <1>m, <1>2, <2>2, SMT
    <3>2. aux[p] = need[p]
      BY <1>2 DEF SemInv, Account, At
    <3>3. permits < need[p]
      BY <1>n, <2>1, <2>2, SMT DEF MayGrab
    <3> QED  BY <1>n, <2>1, <3>1, <3>2, <3>3, SMT
  <2>3. CASE line # <<>>
    <3>1. Head(line') = Head(line)
      BY <1>t, <1>m, <1>2, <2>3, SMT
    <3> QED  BY <1>2, <1>h, <2>1, <2>3, <3>1
  <2> QED  BY <2>2, <2>3
<1>3. CASE pc[p] = "grant"
  <2>0. Grant(p)
    BY <1>3 DEF LineStep, Flag, Grab, Expel, Remove
  <2>1. PICK k \in 0 .. Len(line) : Serves(p, k)
    BY <2>0 DEF Grant
  <2>2. line' = SubSeq(line, k + 1, Len(line))
    BY <2>1 DEF Serves, PopNodes
  <2>3. k < Len(line)
    BY <1>t, <2>2, SMT
  <2>4. Head(line') = line[k + 1] /\ line[k + 1] \in Procs
    BY <1>t, <2>2, <2>3, SMT
  <2>5. aux'[Head(line')] > 0 /\ permits' = permits /\ aux' \in [Procs -> Nat]
    BY <2>1, <2>3, <2>4, ServesFacts
  <2>6. closed' = closed
    BY <2>0 DEF Grant
  <2>7. line # <<>>
    BY <1>t, <2>3, SMT
  <2>8. ASSUME aux'[Head(line')] <= permits' PROVE \E r \in Procs : Serving(r)'
    <3>1. aux'[Head(line')] \in Nat
      BY <2>4, <2>5
    <3>2. permits > 0
      BY <1>n, <2>5, <2>8, <3>1, SMT
    <3>3. \E r \in Procs : Serving(r)
      BY <1>3, <1>i, <2>7, <3>2
    <3> QED  BY <1>3, <1>o, <1>s, <3>3
  <2>9. closed' = TRUE => \E r \in Procs : pc'[r] \in {"close", "expel"}
    BY <1>3, <1>i, <1>o, <2>6, <2>7
  <2> QED  BY <2>8, <2>9
<1>4. CASE pc[p] = "expel"
  <2>1. line' = SubSeq(line, Len(line) + 1, Len(line))
    BY <1>4 DEF LineStep, Flag, Grab, Grant, Remove, Expel, PopNodes
  <2> QED  BY <1>t, <2>1, SMT
<1>5. CASE pc[p] = "remove"
  <2>1. UNCHANGED <<permits, closed, aux>>
    BY <1>5, QuietFacts DEF QuietStep
  <2>2. CASE line' = line
    BY <1>5, <1>h, <2>1, <2>2
  <2>3. CASE \E k \in Position(p) : line' = Without(line, k)
    <3>1. PICK k \in 1 .. Len(line) : line[k] = p /\ line' = Without(line, k)
      BY <2>3 DEF Position
    <3>2. /\ Len(Without(line, k)) = Len(line) - 1
          /\ \A i \in 1 .. Len(line) - 1 : Without(line, k)[i] = IF i < k THEN line[i] ELSE line[i + 1]
      BY <1>t, <3>1, WithoutFacts
    <3>3. line' \in Seq(Procs) /\ Len(line') = Len(line) - 1 /\ Len(line) > 1 /\ line # <<>>
      <4>1. line' \in Seq(Procs)
        BY <1>t, <3>1, RemoveFacts
      <4>2. Len(line') > 0
        BY <4>1, SMT
      <4> QED  BY <1>t, <3>1, <3>2, <4>1, <4>2, SMT
    <3>4. CASE Head(line) = p
      <4>1. to \in {"giveback", "cancelledHead"}
        BY <1>m, <1>5, <3>1, <3>3, <3>4 DEF Position
      <4>2. Serving(p)'
        BY <1>1, <4>1 DEF Serving, At
      <4>3. closed' = TRUE => \E r \in Procs : pc'[r] \in {"close", "expel"}
        BY <1>5, <1>i, <1>o, <2>1, <3>3
      <4> QED  BY <4>2, <4>3
    <3>5. CASE Head(line) # p
      <4>1. k # 1
        BY <1>t, <3>1, <3>3, <3>5, SMT
      <4>2. line'[1] = line[1]
        BY <1>t, <3>1, <3>2, <3>3, <4>1, SMT
      <4>3. Head(line') = Head(line)
        BY <3>3, <4>2, SMT
      <4> QED  BY <1>5, <1>h, <2>1, <3>3, <4>3
    <3> QED  BY <3>4, <3>5
  <2> QED  BY <1>m, <1>5, <2>2, <2>3
<1> QED  BY <1>m, <1>2, <1>3, <1>4, <1>5

(* No step does. *)
LEMMA StepStuck ==
  ASSUME SemInv, NEW p \in Procs, SemStep(p), TypeOK'
  PROVE  StuckInv'
<1> SUFFICES ASSUME line' # <<>> PROVE StuckInv'
  BY DEF StuckInv
<1>1. CASE LineStep(p)
  BY <1>1, LineStuck
<1>2. CASE ~LineStep(p)
  <2>0. WordStep(p) \/ EndStep(p) \/ ClearStep(p) \/ SleepStep(p)
    BY <1>2 DEF SemStep
  <2>1. line' = line /\ Frame(p)
    <3>1. WordStep(p) => line' = line
      BY WordFacts DEF WordMove
    <3>2. EndStep(p) => line' = line
      BY EndFacts DEF EndMove
    <3>3. ClearStep(p) => line' = line
      BY DEF ClearStep, Clear, qvars
    <3>4. SleepStep(p) => line' = line
      BY ParkingFrame DEF SemInv, SleepStep
    <3> QED  BY <2>0, <3>1, <3>2, <3>3, <3>4, StepParking
  <2> USE <2>1
  <2>2. Service(p)
    BY <2>0, WordService, EndService, SleepService
  <2>3. permits' \in Nat /\ aux' \in [Procs -> Nat] /\ Head(line) \in Procs
    <3>1. permits' \in 0 .. MaxPermits /\ aux' \in [Procs -> Nat]
      BY DEF TypeOK
    <3>2. line \in Seq(Procs)
      BY DEF SemInv, ParkingInv, ParkingTypeOK
    <3> QED  BY <3>1, <3>2, PermitsAssumption, HeadFacts, SMT
  <2> QED  BY <2>2, <2>3, ServiceStuck
<1> QED  BY <1>1, <1>2

(* A head that could be served, or a line that should be gone, has somebody *)
(* on the way to it.                                                        *)
LEMMA InvStuck == SemInv => NobodyStuck
<1> SUFFICES ASSUME SemInv, holder = NoProc, line # <<>>
             PROVE  /\ aux[Head(line)] <= permits =>
                          \E p \in Procs : pc[p] \in {"drain", "giveback", "cancelledHead", "close"}
                    /\ closed => \E p \in Procs : pc[p] = "close"
  BY DEF NobodyStuck
<1>1. \A p \in Procs : ~Locking(p)
  BY ProcsAssumption DEF SemInv, Local
<1>2. \A p \in Procs : pc[p] \notin {"grant", "collect", "expel", "clear", "unlock"}
  BY <1>1 DEF Locking
<1> USE <1>2
<1>3. \A p \in Procs : At(p) = pc[p]
  BY DEF At
<1>4. /\ aux[Head(line)] <= permits => \E p \in Procs : Serving(p)
      /\ closed = TRUE => \E p \in Procs : pc[p] \in {"close", "expel"}
  BY DEF SemInv, StuckInv
<1>5. aux[Head(line)] <= permits =>
        \E p \in Procs : pc[p] \in {"drain", "giveback", "cancelledHead", "close"}
  BY <1>3, <1>4 DEF Serving
<1>6. closed => \E p \in Procs : pc[p] = "close"
  BY <1>4 DEF SemInv, TypeOK
<1> QED  BY <1>5, <1>6

-----------------------------------------------------------------------------
(* Whoever takes from the pool finds nobody in line. *)
LEMMA TakesAlone ==
  ASSUME SemInv, NEW p \in Procs, SemStep(p), NEW q \in Procs,
         pc[q] \in {"idle", "retry", "grab"}, held'[q] > held[q]
  PROVE  line = <<>>
<1>n. held[q] \in Nat /\ held \in [Procs -> Nat]
  BY Numbers
<1> USE <1>n
<1>e. held' # held
  BY SMT
<1> USE <1>e
<1>f. ~hasQueue => line = <<>>
  BY DEF SemInv, FlagMeansLine
<1>g. ~Grant(p) /\ ~QuietStep(p)
  <2>1. Grant(p) => held' = held
    BY DEF Grant
  <2> QED  BY <2>1, QuietFacts
<1>1. q = p
  <2>1. Ledger(p)
    BY <1>g, StepKinds
  <2>2. q # p => held'[q] = held[q]
    BY <2>1 DEF Ledger
  <2> QED  BY <2>2, SMT
<1> USE <1>1
<1>2. CASE WordStep(p)
  <2>1. ASSUME NEW m, Release(p, m) PROVE FALSE
    BY <2>1, SMT DEF Release
  <2>2. CASE Forget(p)
    BY <2>2, SMT DEF Forget
  <2>3. ASSUME NEW m, Acquire(p, m) PROVE line = <<>>
    BY <1>f, <2>3 DEF Acquire, TryAcquire, word
  <2>4. CASE Retry(p)
    BY <1>f, <2>4 DEF Retry, TryAcquire, requests
  <2>5. ASSUME NEW m, AddPermits(p, m) \/ ForgetPermits(p, m) \/ Close(p) \/ Collect(p) PROVE FALSE
    BY <2>5 DEF AddPermits, ForgetPermits, Close, Collect, requests
  <2>6. CASE Enqueue(p) \/ Drain(p) \/ CloseLock(p)
    BY <2>6 DEF Enqueue, Drain, CloseLock, svars, others, requests
  <2> QED  BY <1>2, <2>1, <2>2, <2>3, <2>4, <2>5, <2>6 DEF WordStep, MayGrab
<1>3. CASE EndStep(p)
  <2>1. ~Finish(p)
    BY DEF Finish
  <2>2. CASE (Flag(p) \/ Grab(p)) /\ GiveUp(p)
    BY <2>2 DEF GiveUp
  <2>3. CASE Drop(p) \/ Cancelled(p) \/ Return(p)
    BY <2>3 DEF Drop, Cancelled, Return
  <2> QED  BY <1>3, <2>1, <2>2, <2>3 DEF EndStep, MayGrab
<1> QED  BY <1>g, <1>2, <1>3, StepKinds

-----------------------------------------------------------------------------
(* The units of f over S are the pairs it is named after. *)
LEMMA UnitsFacts ==
  ASSUME NEW f, NEW S
  PROVE  \A u : u \in Units(f, S) <=> \E x \in S, i \in Int : i \in 1 .. f[x] /\ u = <<x, i>>
<1>1. ASSUME NEW u, u \in Units(f, S) PROVE \E x \in S, i \in Int : i \in 1 .. f[x] /\ u = <<x, i>>
  BY <1>1, SMT DEF Units
<1>2. ASSUME NEW x \in S, NEW i \in 1 .. f[x] PROVE <<x, i>> \in Units(f, S)
  <2>1. <<x, i>> \in {x} \X (1 .. f[x])
    OBVIOUS
  <2> QED  BY <2>1 DEF Units
<1> QED  BY <1>1, <1>2

(* An interval has as many members as its upper bound says. *)
LEMMA Interval ==
  ASSUME NEW n \in Nat
  PROVE  IsFiniteSet(1 .. n) /\ Cardinality(1 .. n) = n
<1>1. 1 \in Int /\ n \in Int
  BY SMT
<1>2. IsFiniteSet(1 .. n) /\ Cardinality(1 .. n) = IF 1 > n THEN 0 ELSE n - 1 + 1
  BY <1>1, FS_Interval
<1> QED  BY <1>2, SMT

(* A sum over a finite set is a number. *)
LEMMA UnitsFinite ==
  ASSUME NEW S, IsFiniteSet(S), NEW f, \A x \in S : f[x] \in Nat
  PROVE  IsFiniteSet(Units(f, S)) /\ Sum(f, S) \in Nat
<1> DEFINE T == {{x} \X (1 .. f[x]) : x \in S}
           g == [x \in S |-> {x} \X (1 .. f[x])]
<1>1. g \in Surjection(S, T)
  BY DEF Surjection
<1> HIDE DEF g
<1>2. IsFiniteSet(T)
  <2> HIDE DEF T
  <2> QED  BY <1>1, FS_Surjection
<1>3. ASSUME NEW x \in S PROVE IsFiniteSet({x} \X (1 .. f[x]))
  <2>1. IsFiniteSet({x}) /\ IsFiniteSet(1 .. f[x])
    BY FS_Singleton, Interval
  <2> QED  BY <2>1, FS_Product
<1>4. IsFiniteSet(UNION T)
  <2>1. \A t \in T : IsFiniteSet(t)
    BY <1>3
  <2> HIDE DEF T
  <2> QED  BY <1>2, <2>1, FS_UNION
<1> QED  BY <1>4, FS_CardinalityType DEF Sum, Units

(* It depends on the values of f on S only. *)
LEMMA SumSame ==
  ASSUME NEW S, NEW f, NEW g, \A x \in S : f[x] = g[x]
  PROVE  Sum(f, S) = Sum(g, S)
<1>1. \A u : u \in Units(f, S) <=> u \in Units(g, S)
  BY UnitsFacts, SMT
<1>2. Units(f, S) = Units(g, S)
  BY <1>1
<1> QED  BY <1>2 DEF Sum

(* A sum of nothing. *)
LEMMA SumZero ==
  ASSUME NEW f, NEW S, \A x \in S : f[x] = 0
  PROVE  Sum(f, S) = 0
<1>1. Units(f, S) = {}
  <2>1. ASSUME NEW u, u \in Units(f, S) PROVE FALSE
    <3>1. PICK x \in S, i \in Int : i \in 1 .. f[x] /\ u = <<x, i>>
      BY <2>1, UnitsFacts, SMT
    <3> QED  BY <3>1, SMT
  <2> QED  BY <2>1
<1> QED  BY <1>1, FS_EmptySet DEF Sum

(* over one process it is the value there, *)
LEMMA SumSingle ==
  ASSUME NEW f, NEW x, f[x] \in Nat
  PROVE  Sum(f, {x}) = f[x]
<1>1. Units(f, {x}) = {x} \X (1 .. f[x])
  BY UnitsFacts, SMT
<1>2. IsFiniteSet(1 .. f[x]) /\ Cardinality(1 .. f[x]) = f[x]
  BY Interval
<1>3. IsFiniteSet({x}) /\ Cardinality({x}) = 1
  BY FS_Singleton
<1>4. Cardinality({x} \X (1 .. f[x])) = Cardinality({x}) * Cardinality(1 .. f[x])
  BY <1>2, <1>3, FS_Product
<1>5. 1 * f[x] = f[x]
  BY SMT
<1>6. Cardinality({x} \X (1 .. f[x])) = f[x]
  BY <1>2, <1>3, <1>4, <1>5
<1> QED  BY <1>1, <1>6 DEF Sum

(* over two disjoint sets the sum of the two, *)
LEMMA SumSplit ==
  ASSUME NEW f, NEW A, IsFiniteSet(A), NEW B, IsFiniteSet(B), A \cap B = {},
         \A x \in A \cup B : f[x] \in Nat
  PROVE  Sum(f, A \cup B) = Sum(f, A) + Sum(f, B)
<1>1. /\ IsFiniteSet(Units(f, A)) /\ Sum(f, A) \in Nat
      /\ IsFiniteSet(Units(f, B)) /\ Sum(f, B) \in Nat
  BY UnitsFinite
<1>2. Units(f, A \cup B) = Units(f, A) \cup Units(f, B)
  <2>1. \A u : u \in Units(f, A \cup B) <=> u \in Units(f, A) \/ u \in Units(f, B)
    BY UnitsFacts, SMT
  <2> QED  BY <2>1
<1>3. Units(f, A) \cap Units(f, B) = {}
  <2>1. ASSUME NEW u \in Units(f, A), u \in Units(f, B) PROVE FALSE
    <3>1. PICK x \in A, i \in Int : i \in 1 .. f[x] /\ u = <<x, i>>
      BY UnitsFacts, SMT
    <3>2. PICK y \in B, j \in Int : j \in 1 .. f[y] /\ u = <<y, j>>
      BY <2>1, UnitsFacts, SMT
    <3> QED  BY <3>1, <3>2, SMT
  <2> QED  BY <2>1
<1>4. Cardinality(Units(f, A) \cup Units(f, B)) = Cardinality(Units(f, A)) + Cardinality(Units(f, B)) - Cardinality({})
  BY <1>1, <1>3, FS_Union, SMT
<1>5. Cardinality({}) = 0
  BY FS_EmptySet
<1>6. Cardinality(Units(f, A) \cup Units(f, B)) = Sum(f, A) + Sum(f, B)
  <2>1. Cardinality(Units(f, A) \cup Units(f, B)) = Sum(f, A) + Sum(f, B) - 0
    BY <1>4, <1>5 DEF Sum
  <2> QED  BY <1>1, <2>1, SMT
<1> QED  BY <1>2, <1>6 DEF Sum

(* so that any one process can be split off. *)
LEMMA SumOne ==
  ASSUME NEW f, NEW S, IsFiniteSet(S), NEW x \in S, \A y \in S : f[y] \in Nat
  PROVE  /\ Sum(f, S) = Sum(f, S \ {x}) + f[x]
         /\ Sum(f, S \ {x}) \in Nat /\ IsFiniteSet(S \ {x})
<1>1. IsFiniteSet(S \ {x}) /\ IsFiniteSet({x})
  BY FS_RemoveElement, FS_Singleton
<1> USE <1>1
<1>2. (S \ {x}) \cup {x} = S /\ (S \ {x}) \cap {x} = {}
  OBVIOUS
<1>3. Sum(f, (S \ {x}) \cup {x}) = Sum(f, S \ {x}) + Sum(f, {x})
  BY <1>2, SumSplit
<1>4. Sum(f, {x}) = f[x]
  BY SumSingle
<1>5. Sum(f, S \ {x}) \in Nat
  BY UnitsFinite
<1> QED  BY <1>2, <1>3, <1>4, <1>5

(* When one value changes, the sum changes by as much. *)
LEMMA SumChange ==
  ASSUME NEW f, NEW g, NEW S, IsFiniteSet(S), NEW x \in S,
         \A y \in S : f[y] \in Nat /\ g[y] \in Nat,
         \A y \in S \ {x} : g[y] = f[y]
  PROVE  Sum(g, S) = Sum(f, S) - f[x] + g[x] /\ Sum(f, S) \in Nat /\ f[x] <= Sum(f, S)
<1>1. Sum(f, S) = Sum(f, S \ {x}) + f[x] /\ Sum(f, S \ {x}) \in Nat
  BY SumOne
<1>2. Sum(g, S) = Sum(g, S \ {x}) + g[x]
  BY SumOne
<1>3. Sum(g, S \ {x}) = Sum(f, S \ {x})
  BY SumSame
<1> QED  BY <1>1, <1>2, <1>3, SMT

(* Values are added up process by process. *)
LEMMA SumPlus ==
  ASSUME NEW f, NEW g, NEW h, NEW S, IsFiniteSet(S),
         \A x \in S : f[x] \in Nat /\ g[x] \in Nat /\ h[x] = f[x] + g[x]
  PROVE  Sum(h, S) = Sum(f, S) + Sum(g, S)
<1> DEFINE U == Units(f, S)
           V == Units(g, S)
           W == {<<u[1], f[u[1]] + u[2]>> : u \in V}
           b == [u \in V |-> <<u[1], f[u[1]] + u[2]>>]
<1>1. /\ IsFiniteSet(U) /\ Sum(f, S) \in Nat /\ IsFiniteSet(V) /\ Sum(g, S) \in Nat
  BY UnitsFinite
<1> USE <1>1
<1>2. \A u \in V : \E x \in S, i \in Int : i \in 1 .. g[x] /\ u = <<x, i>> /\ u[1] = x /\ u[2] = i
  BY UnitsFacts, SMT
<1> USE <1>2
<1>3. b \in Bijection(V, W)
  <2>1. b \in Surjection(V, W)
    BY DEF Surjection
  <2>2. ASSUME NEW u \in V, NEW v \in V, b[u] = b[v] PROVE u = v
    <3> HIDE DEF U, V, W
    <3>1. PICK x \in S, i \in Int : i \in 1 .. g[x] /\ u = <<x, i>> /\ u[1] = x /\ u[2] = i
      OBVIOUS
    <3>2. PICK y \in S, j \in Int : j \in 1 .. g[y] /\ v = <<y, j>> /\ v[1] = y /\ v[2] = j
      OBVIOUS
    <3>3. <<x, f[x] + i>> = <<y, f[y] + j>>
      BY <2>2, <3>1, <3>2
    <3>4. x = y
      BY <3>3
    <3> QED  BY <3>1, <3>2, <3>3, <3>4, SMT
  <2> QED  BY <2>1, <2>2 DEF Bijection, Injection, IsInjective, Surjection
<1>4. IsFiniteSet(W) /\ Cardinality(W) = Sum(g, S)
  <2>1. ExistsBijection(V, W)
    BY <1>3 DEF ExistsBijection
  <2> HIDE DEF W
  <2> QED  BY <2>1, FS_Bijection DEF Sum
<1>5. ASSUME NEW w PROVE w \in W <=> \E x \in S, i \in Int : i \in 1 .. g[x] /\ w = <<x, f[x] + i>>
  <2>1. ASSUME w \in W PROVE \E x \in S, i \in Int : i \in 1 .. g[x] /\ w = <<x, f[x] + i>>
    <3>1. PICK u \in V : w = <<u[1], f[u[1]] + u[2]>>
      BY <2>1
    <3> QED  BY <3>1
  <2>2. ASSUME NEW x \in S, NEW i \in 1 .. g[x], w = <<x, f[x] + i>> PROVE w \in W
    <3>1. <<x, i>> \in V
      BY UnitsFacts, SMT
    <3> QED  BY <2>2, <3>1, SMT
  <2> QED  BY <2>1, <2>2
<1> USE <1>5
<1> HIDE DEF W, b
<1>6. Units(h, S) = U \cup W
  <2> SUFFICES ASSUME NEW u PROVE u \in Units(h, S) <=> u \in U \/ u \in W
    OBVIOUS
  <2>1. ASSUME u \in Units(h, S) PROVE u \in U \/ u \in W
    <3>1. PICK x \in S, i \in Int : i \in 1 .. h[x] /\ u = <<x, i>>
      BY <2>1, UnitsFacts, SMT
    <3> USE <3>1
    <3>2. CASE i <= f[x]
      <4>1. i \in 1 .. f[x]
        BY <3>2, SMT
      <4> QED  BY <4>1, UnitsFacts
    <3>3. CASE ~(i <= f[x])
      <4>1. i - f[x] \in 1 .. g[x] /\ f[x] + (i - f[x]) = i
        BY <3>3, SMT
      <4> QED  BY <4>1, SMT
    <3> QED  BY <3>2, <3>3
  <2>2. ASSUME u \in U PROVE u \in Units(h, S)
    <3>1. PICK x \in S, i \in Int : i \in 1 .. f[x] /\ u = <<x, i>>
      BY <2>2, UnitsFacts, SMT
    <3>2. i \in 1 .. h[x]
      BY <3>1, SMT
    <3> QED  BY <3>1, <3>2, UnitsFacts
  <2>3. ASSUME u \in W PROVE u \in Units(h, S)
    <3>1. PICK x \in S, i \in Int : i \in 1 .. g[x] /\ u = <<x, f[x] + i>>
      BY <2>3
    <3>2. f[x] + i \in 1 .. h[x]
      BY <3>1, SMT
    <3> QED  BY <3>1, <3>2, UnitsFacts, SMT
  <2> QED  BY <2>1, <2>2, <2>3
<1>7. U \cap W = {}
  <2> SUFFICES ASSUME NEW u \in U, u \in W PROVE FALSE
    OBVIOUS
  <2>1. PICK x \in S, i \in Int : i \in 1 .. f[x] /\ u = <<x, i>>
    BY UnitsFacts, SMT
  <2>2. PICK y \in S, j \in Int : j \in 1 .. g[y] /\ u = <<y, f[y] + j>>
    OBVIOUS
  <2>3. x = y /\ i = f[y] + j
    BY <2>1, <2>2, SMT
  <2> QED  BY <2>1, <2>2, <2>3, SMT
<1>8. Cardinality(U \cup W) = Cardinality(U) + Cardinality(W) - Cardinality({})
  <2> HIDE DEF U
  <2> QED  BY <1>4, <1>7, FS_Union, SMT
<1>9. Cardinality({}) = 0
  BY FS_EmptySet
<1> QED  BY <1>4, <1>6, <1>8, <1>9, SMT DEF Sum

-----------------------------------------------------------------------------
(* What the first k in line miss. *)
LEMMA MissingFacts ==
  ASSUME NEW f \in [Procs -> Nat], NEW s \in Seq(Procs), NEW k \in 0 .. Len(s)
  PROVE  IsFiniteSet({s[i] : i \in 1 .. k}) /\ Sum(f, {s[i] : i \in 1 .. k}) \in Nat
<1>1. PICK S : S = {s[i] : i \in 1 .. k}
  OBVIOUS
<1>2. S \subseteq Procs
  BY <1>1, SMT
<1>3. IsFiniteSet(S)
  BY <1>2, FiniteAssumption, FS_Subset
<1>4. \A x \in S : f[x] \in Nat
  BY <1>2
<1>5. Sum(f, S) \in Nat
  BY <1>3, <1>4, UnitsFinite
<1> QED  BY <1>1, <1>3, <1>5

(* Balanced books conserve the permits. *)
LEMMA LedgerKeeps ==
  ASSUME SemInv, NEW p \in Procs, Ledger(p), hasQueue' \in BOOLEAN
  PROVE  TypeOK' /\ PermitsConserved'
<1>1. /\ \A q \in Procs : /\ held[q] \in Nat /\ avail[q] \in Nat /\ need[q] \in Nat /\ aux[q] \in Nat
                          /\ aux[q] <= need[q]
      /\ permits \in Nat /\ total \in Nat /\ closed \in BOOLEAN /\ MaxPermits \in Nat
  BY Numbers
<1> USE <1>1
<1>2. /\ permits' \in Nat /\ total' \in Int /\ total' <= MaxPermits
      /\ closed' = closed \/ closed' = TRUE
      /\ need' \in [Procs -> Nat]
      /\ aux' \in [Procs -> Nat] /\ held' \in [Procs -> Nat] /\ avail' \in [Procs -> Nat]
      /\ \A r \in Procs \ {p} : /\ need'[r] = need[r] /\ aux'[r] = aux[r]
                                /\ held'[r] = held[r] /\ avail'[r] = avail[r]
      /\ aux'[p] <= need'[p]
      /\ total' - permits' - held'[p] - avail'[p] - need'[p] + aux'[p]
            = total - permits - held[p] - avail[p] - need[p] + aux[p]
  BY DEF Ledger
<1> USE <1>2
<1>3. /\ held'[p] \in Nat /\ avail'[p] \in Nat /\ need'[p] \in Nat /\ aux'[p] \in Nat
  BY PermitsAssumption
<1>4. PICK f : f = Out
  OBVIOUS
<1>5. PICK g : g = Out'
  OBVIOUS
<1>6. \A q \in Procs : f[q] = held[q] + avail[q] + (need[q] - aux[q]) /\ f[q] \in Nat
  BY <1>4, SMT DEF Out, Granted
<1> USE <1>6
<1>7. \A q \in Procs : g[q] = held'[q] + avail'[q] + (need'[q] - aux'[q])
  BY <1>5 DEF Out, Granted
<1> USE <1>7
<1>8. g[p] \in Nat
  BY <1>3, SMT
<1>9. \A q \in Procs \ {p} : g[q] = f[q]
  OBVIOUS
<1>10. \A q \in Procs : f[q] \in Nat /\ g[q] \in Nat
  BY <1>8, <1>9
<1>11. Sum(g, Procs) = Sum(f, Procs) - f[p] + g[p] /\ Sum(f, Procs) \in Nat
  BY <1>9, <1>10, FiniteAssumption, SumChange, SMT
<1>12. Sum(g, Procs) \in Nat
  BY <1>10, FiniteAssumption, UnitsFinite
<1>13. total = permits + Sum(f, Procs)
  BY <1>4 DEF SemInv, PermitsConserved
<1>14. f[p] = held[p] + avail[p] + (need[p] - aux[p]) /\ g[p] = held'[p] + avail'[p] + (need'[p] - aux'[p])
  OBVIOUS
<1>15. total' = permits' + Sum(g, Procs)
  BY <1>3, <1>11, <1>13, <1>14, SMT
<1>16. permits' \in 0 .. MaxPermits /\ total' \in 0 .. MaxPermits
  BY <1>12, <1>15, SMT
<1>17. \A q \in Procs : aux'[q] <= need'[q]
  OBVIOUS
<1>18. TypeOK'
  BY <1>16 DEF TypeOK
<1>19. PermitsConserved'
  BY <1>5, <1>15, <1>17 DEF PermitsConserved
<1> QED  BY <1>18, <1>19

(* A drain hands out all it has, or puts the rest back. *)
LEMMA GrantSum ==
  ASSUME SemInv, NEW p \in Procs, NEW k \in 0 .. Len(line), Serves(p, k), NEW d,
         \A q \in Procs : d[q] = aux[q] - aux'[q]
  PROVE  permits' = permits + (avail[p] - Sum(d, Procs)) /\ permits' \in Nat /\ Sum(d, Procs) \in Nat
<1>t. /\ line \in Seq(Procs) /\ Len(line) \in Nat /\ aux \in [Procs -> Nat] /\ avail[p] \in Nat
      /\ Distinct(line) /\ permits \in Nat
  BY Numbers, SMT DEF SemInv, ParkingInv, ParkingTypeOK, PlacesInv
<1>1. PICK rest : rest = avail[p] - Missing(k)
  OBVIOUS
<1>m. Missing(k) \in Nat /\ IsFiniteSet({line[i] : i \in 1 .. k})
  BY <1>t, MissingFacts DEF Missing
<1>2. rest \in Nat
  <2>1. rest >= 0
    BY <1>1 DEF Serves
  <2> QED  BY <1>t, <1>1, <1>m, <2>1, SMT
<1>3. \A q \in Procs : aux'[q] = IF \E i \in 1 .. k : line[i] = q THEN 0
                                 ELSE IF k < Len(line) /\ line[k + 1] = q THEN aux[q] - rest ELSE aux[q]
  BY <1>1 DEF Serves
<1>4. \A q \in Procs : d[q] \in Nat
  <2>1. aux' \in [Procs -> Nat] /\ \A q \in Procs : aux'[q] <= aux[q]
    BY ServesFacts
  <2> QED  BY <1>t, <2>1, SMT
<1>5. PICK S : S = {line[i] : i \in 1 .. k}
  OBVIOUS
<1>6. S \subseteq Procs /\ IsFiniteSet(S) /\ \A q \in Procs : q \in S <=> \E i \in 1 .. k : line[i] = q
  BY <1>t, <1>m, <1>5, SMT
<1>7. PICK T : T = Procs \ S
  OBVIOUS
<1>8. IsFiniteSet(T) /\ S \cap T = {} /\ S \cup T = Procs /\ T \subseteq Procs
  <2>1. T \subseteq Procs
    BY <1>7
  <2>2. IsFiniteSet(T)
    BY <2>1, FiniteAssumption, FS_Subset
  <2> QED  BY <1>6, <1>7, <2>1, <2>2
<1>9. Sum(d, Procs) = Sum(d, S) + Sum(d, T)
  <2>1. Sum(d, S \cup T) = Sum(d, S) + Sum(d, T)
    BY <1>4, <1>6, <1>8, SumSplit, SMT
  <2> QED  BY <1>8, <2>1
<1>10. Sum(d, S) = Missing(k)
  <2>1. \A q \in S : d[q] = aux[q]
    BY <1>t, <1>3, <1>6, SMT
  <2>2. Sum(d, S) = Sum(aux, S)
    BY <2>1, SumSame
  <2> QED  BY <1>5, <2>2 DEF Missing
<1>11. CASE k = Len(line)
  <2>1. \A q \in T : d[q] = 0
    <3> SUFFICES ASSUME NEW q \in T PROVE d[q] = 0
      OBVIOUS
    <3>1. q \in Procs /\ ~\E i \in 1 .. k : line[i] = q
      BY <1>6, <1>7
    <3>2. aux'[q] = aux[q] /\ aux[q] \in Nat
      BY <1>t, <1>3, <1>11, <3>1, SMT
    <3> QED  BY <3>1, <3>2, SMT
  <2>2. Sum(d, T) = 0
    BY <2>1, SumZero
  <2>3. permits' = permits + rest
    BY <1>1, <1>11 DEF Serves
  <2> QED  BY <1>t, <1>1, <1>2, <1>m, <1>9, <1>10, <2>2, <2>3, SMT
<1>12. CASE k < Len(line)
  <2>1. PICK n \in Procs : n = line[k + 1]
    BY <1>t, <1>12, SMT
  <2>2. n \in T
    <3>1. ~\E i \in 1 .. k : line[i] = n
      BY <1>t, <1>12, <2>1, SMT DEF Distinct
    <3> QED  BY <1>6, <1>7, <3>1
  <2>3. d[n] = rest
    <3>1. aux'[n] = aux[n] - rest /\ aux[n] \in Nat
      BY <1>t, <1>3, <1>6, <1>7, <1>12, <2>1, <2>2
    <3> QED  BY <1>2, <3>1, SMT
  <2>4. \A q \in T \ {n} : d[q] = 0
    <3> SUFFICES ASSUME NEW q \in T \ {n} PROVE d[q] = 0
      OBVIOUS
    <3>1. q \in Procs /\ ~\E i \in 1 .. k : line[i] = q
      BY <1>6, <1>7
    <3>2. aux'[q] = aux[q] /\ aux[q] \in Nat
      BY <1>t, <1>3, <2>1, <3>1
    <3> QED  BY <3>1, <3>2, SMT
  <2>5. Sum(d, T) = Sum(d, T \ {n}) + d[n]
    BY <1>4, <1>8, <2>2, SumOne
  <2>6. Sum(d, T \ {n}) = 0
    BY <2>4, SumZero
  <2>7. permits' = permits
    BY <1>t, <1>12, SMT DEF Serves
  <2> QED  BY <1>t, <1>1, <1>2, <1>m, <1>9, <1>10, <2>3, <2>5, <2>6, <2>7, SMT
<1> QED  BY <1>t, <1>11, <1>12, SMT

(* So a drain conserves the permits. *)
LEMMA GrantKeeps ==
  ASSUME SemInv, NEW p \in Procs, Grant(p)
  PROVE  TypeOK' /\ PermitsConserved' /\ Account(p)'
<1>n. /\ \A q \in Procs : /\ held[q] \in Nat /\ avail[q] \in Nat /\ need[q] \in Nat /\ aux[q] \in Nat
                          /\ aux[q] <= need[q]
      /\ permits \in Nat /\ total \in Nat /\ MaxPermits \in Nat /\ total <= MaxPermits
  BY Numbers
<1>v. avail \in [Procs -> Nat]
  BY Numbers
<1>t. TypeOK /\ PointsOK
  BY DEF SemInv, ParkingInv
<1>1. /\ UNCHANGED <<hasQueue, closed, need, held, total>> /\ pc[p] = "grant"
      /\ avail' = [avail EXCEPT ![p] = 0] /\ ThenClear(p, "signal")
  BY DEF Grant
<1>2. PICK k \in 0 .. Len(line) : Serves(p, k)
  BY DEF Grant
<1>3. /\ aux' \in [Procs -> Nat] /\ \A q \in Procs : aux'[q] <= aux[q]
      /\ ~InLine(p) => aux'[p] = aux[p]
  BY <1>2, ServesFacts
<1>4. avail' \in [Procs -> Nat] /\ avail'[p] = 0 /\ \A q \in Procs \ {p} : avail'[q] = avail[q]
  BY <1>v, <1>1
<1>5. aux'[p] = aux[p]
  <2>1. ~Parked(p)
    BY <1>1 DEF Parked, At
  <2>2. ~InLine(p)
    BY <2>1 DEF SemInv, ParkingInv, AliveInv, Busy
  <2> QED  BY <1>3, <2>2
<1>6. PICK d : d = [q \in Procs |-> aux[q] - aux'[q]]
  OBVIOUS
<1>7. \A q \in Procs : d[q] = aux[q] - aux'[q] /\ d[q] \in Nat
  BY <1>n, <1>3, <1>6, SMT
<1>8. /\ permits' = permits + (avail[p] - Sum(d, Procs)) /\ permits' \in Nat /\ Sum(d, Procs) \in Nat
  BY <1>2, <1>7, GrantSum
<1>9. PICK f : f = Out
  OBVIOUS
<1>10. PICK g : g = Out'
  OBVIOUS
<1>11. PICK h : h = [q \in Procs |-> f[q] + d[q]]
  OBVIOUS
<1>12. \A q \in Procs : f[q] = held[q] + avail[q] + (need[q] - aux[q]) /\ f[q] \in Nat
  <2>1. \A q \in Procs : f[q] = held[q] + avail[q] + (need[q] - aux[q])
    BY <1>9 DEF Out, Granted
  <2>2. ASSUME NEW q \in Procs PROVE f[q] \in Nat
    <3>1. /\ held[q] \in Nat /\ avail[q] \in Nat /\ need[q] \in Nat /\ aux[q] \in Nat
          /\ aux[q] <= need[q] /\ f[q] = held[q] + avail[q] + (need[q] - aux[q])
      BY <1>n, <2>1
    <3> QED  BY <3>1, SMT
  <2> QED  BY <2>1, <2>2
<1>13. \A q \in Procs : h[q] = held[q] + avail[q] + (need[q] - aux'[q]) /\ h[q] \in Nat
  <2> SUFFICES ASSUME NEW q \in Procs
               PROVE  h[q] = held[q] + avail[q] + (need[q] - aux'[q]) /\ h[q] \in Nat
    OBVIOUS
  <2>1. h[q] = f[q] + d[q] /\ aux'[q] \in Nat /\ aux'[q] <= aux[q]
    BY <1>3, <1>11
  <2>2. /\ held[q] \in Nat /\ avail[q] \in Nat /\ need[q] \in Nat /\ aux[q] \in Nat
        /\ aux[q] <= need[q]
    BY <1>n
  <2>3. d[q] = aux[q] - aux'[q] /\ f[q] = held[q] + avail[q] + (need[q] - aux[q])
    BY <1>7, <1>12
  <2> QED  BY <2>1, <2>2, <2>3, SMT
<1>14. \A q \in Procs : g[q] = held[q] + avail'[q] + (need[q] - aux'[q])
  BY <1>1, <1>10 DEF Out, Granted
<1>15. \A q \in Procs \ {p} : g[q] = h[q]
  BY <1>4, <1>13, <1>14
<1>16. g[p] = h[p] - avail[p] /\ g[p] \in Nat
  <2>1. h[p] = held[p] + avail[p] + (need[p] - aux[p]) /\ g[p] = held[p] + 0 + (need[p] - aux[p])
    BY <1>4, <1>5, <1>13, <1>14
  <2> QED  BY <1>n, <2>1, SMT
<1>17. \A q \in Procs : h[q] \in Nat /\ g[q] \in Nat
  BY <1>13, <1>15, <1>16
<1>18. Sum(h, Procs) = Sum(f, Procs) + Sum(d, Procs)
  <2>1. \A q \in Procs : f[q] \in Nat /\ d[q] \in Nat /\ h[q] = f[q] + d[q]
    BY <1>7, <1>11, <1>12
  <2> QED  BY <2>1, FiniteAssumption, SumPlus, SMT
<1>19. Sum(g, Procs) = Sum(h, Procs) - h[p] + g[p] /\ Sum(h, Procs) \in Nat
  BY <1>15, <1>17, FiniteAssumption, SumChange, SMT
<1>20. Sum(f, Procs) \in Nat /\ Sum(g, Procs) \in Nat
  BY <1>12, <1>17, FiniteAssumption, UnitsFinite
<1>21. total = permits + Sum(f, Procs)
  BY <1>9 DEF SemInv, PermitsConserved
<1>22. h[p] \in Nat /\ g[p] \in Nat /\ avail[p] \in Nat /\ permits \in Nat
  BY <1>n, <1>17
<1>24. total = permits' + Sum(g, Procs)
  <2>1. PICK sf \in Nat : sf = Sum(f, Procs)
    BY <1>20
  <2>2. PICK sg \in Nat : sg = Sum(g, Procs)
    BY <1>20
  <2>3. PICK sh \in Nat : sh = Sum(h, Procs)
    BY <1>19
  <2>4. PICK sd \in Nat : sd = Sum(d, Procs)
    BY <1>8
  <2>5. PICK a \in Nat : a = avail[p]
    BY <1>22
  <2>6. PICK hp \in Nat : hp = h[p]
    BY <1>22
  <2>7. PICK gp \in Nat : gp = g[p]
    BY <1>22
  <2>8. permits' = permits + (a - sd) /\ sh = sf + sd /\ gp = hp - a /\ sg = sh - hp + gp
    BY <1>8, <1>16, <1>18, <1>19, <2>1, <2>2, <2>3, <2>4, <2>5, <2>6, <2>7
  <2>9. permits + sf = permits' + sg
    BY <1>22, <2>8, SMT
  <2> QED  BY <1>21, <2>1, <2>2, <2>9
<1>25. permits' \in 0 .. MaxPermits
  <2>1. permits' \in Nat /\ Sum(g, Procs) \in Nat /\ total \in Nat /\ total <= MaxPermits /\ MaxPermits \in Nat
    BY <1>n, <1>8, <1>20
  <2> QED  BY <1>24, <2>1, SMT
<1>26. TypeOK'
  <2>1. /\ hasQueue' \in BOOLEAN /\ closed' \in BOOLEAN /\ need' \in [Procs -> Nat]
        /\ held' \in [Procs -> Nat] /\ total' \in 0 .. MaxPermits
    BY <1>t, <1>1 DEF TypeOK
  <2> QED  BY <1>3, <1>4, <1>25, <2>1 DEF TypeOK
<1>27. PermitsConserved'
  <2>1. ASSUME NEW q \in Procs PROVE aux'[q] <= need'[q]
    <3>1. aux'[q] \in Nat /\ aux'[q] <= aux[q]
      BY <1>3
    <3>2. aux[q] \in Nat /\ need[q] \in Nat /\ aux[q] <= need[q] /\ need' = need
      BY <1>n, <1>1
    <3> QED  BY <3>1, <3>2, SMT
  <2> QED  BY <1>1, <1>10, <1>24, <2>1 DEF PermitsConserved
<1>28. Account(p)'
  <2>1. pc'[p] \in {"clear", "unlock"} /\ ret'[p] = "signal"
    BY <1>t, <1>1 DEF ThenClear, Goto, PointsOK
  <2>2. ~Requesting(p) /\ ~Requesting(p)' /\ At(p)' = "signal"
    BY <1>1, <2>1 DEF Requesting, HasNode, Parked, At
  <2>3. Account(p)
    BY DEF SemInv
  <2> QED  BY <1>1, <1>4, <1>5, <2>2, <2>3 DEF Account
<1> QED  BY <1>26, <1>27, <1>28

(* All the steps keep the numbers right. *)
LEMMA StepNumbers ==
  ASSUME SemInv, NEW p \in Procs, SemStep(p)
  PROVE  TypeOK' /\ PermitsConserved' /\ \A r \in Procs : Account(r)'
<1>f. Frame(p)
  BY StepParking
<1>1. CASE Grant(p)
  <2>1. PICK k \in 0 .. Len(line) : Serves(p, k)
    BY <1>1 DEF Grant
  <2>2. \A q \in Procs : ~InLine(q) => aux'[q] = aux[q]
    BY <2>1, ServesFacts
  <2>3. UNCHANGED <<need, held>> /\ avail' = [avail EXCEPT ![p] = 0]
    BY <1>1 DEF Grant
  <2>4. \A r \in Procs \ {p} : avail'[r] = avail[r]
    BY <2>3, Numbers
  <2>5. \A r \in Procs \ {p} : Account(r)'
    BY <1>f, <2>2, <2>3, <2>4, OthersAccount
  <2> QED  BY <1>1, <2>5, GrantKeeps
<1>2. CASE Ledger(p) /\ Account(p)'
  <2>1. hasQueue' \in BOOLEAN
    BY StepFlag DEF SemInv, TypeOK
  <2>2. TypeOK' /\ PermitsConserved'
    BY <1>2, <2>1, LedgerKeeps
  <2>3. \A r \in Procs \ {p} : Account(r)'
    BY <1>f, <1>2, OthersAccount DEF Ledger
  <2> QED  BY <1>2, <2>2, <2>3
<1> QED  BY <1>1, <1>2, StepKinds

-----------------------------------------------------------------------------
(* So every step keeps the invariant. *)
LEMMA StepKeeps ==
  ASSUME SemInv, NEW p \in Procs, SemStep(p)
  PROVE  SemInv'
<1>1. ParkingInv' /\ (\A r \in Procs : Local(r)') /\ FlagMeansLine'
  BY StepParking, StepLocal, StepFlagMeansLine
<1>2. TypeOK' /\ PermitsConserved' /\ \A r \in Procs : Account(r)'
  BY StepNumbers
<1> USE <1>2
<1>3. (\A r \in Procs : Promise(r)') /\ StuckInv'
  BY StepPromise, StepStuck
<1>4. MissingOK'
  <2>1. aux' \in [Procs -> Nat] /\ line' \in Seq(Procs)
    BY <1>1 DEF ParkingInv, ParkingTypeOK, TypeOK
  <2> QED  BY <2>1, MissingFacts DEF MissingOK, Missing
<1> QED  BY <1>1, <1>3, <1>4 DEF SemInv

(* A new semaphore satisfies the invariant. *)
LEMMA SemStart == Init => SemInv
<1> SUFFICES ASSUME Init PROVE SemInv
  OBVIOUS
<1>1. ParkingInv
  BY ParkingStart DEF Init
<1>2. /\ permits = Initial /\ hasQueue = FALSE /\ closed = FALSE /\ total = Initial /\ line = <<>>
      /\ need = [p \in Procs |-> 0] /\ aux = [p \in Procs |-> 0]
      /\ held = [p \in Procs |-> 0] /\ avail = [p \in Procs |-> 0]
  BY DEF Init, ParkingInit, QueueInit
<1> USE <1>2
<1>3. /\ \A p \in Procs : pc[p] = "idle" /\ value[p] = "uninit" /\ seen[p] = "uninit" /\ sent[p] = "uninit"
  BY DEF Init, ParkingInit
<1> USE <1>3
<1>4. TypeOK
  BY PermitsAssumption DEF TypeOK
<1>5. PermitsConserved
  <2>1. PICK f : f = Out
    OBVIOUS
  <2>0. ASSUME NEW p \in Procs PROVE need[p] = 0 /\ aux[p] = 0 /\ held[p] = 0 /\ avail[p] = 0
    OBVIOUS
  <2>2. ASSUME NEW p \in Procs PROVE f[p] = 0
    <3>1. f[p] = held[p] + avail[p] + (need[p] - aux[p])
      BY <2>1 DEF Out, Granted
    <3>2. need[p] = 0 /\ aux[p] = 0 /\ held[p] = 0 /\ avail[p] = 0
      BY <2>0
    <3> QED  BY <3>1, <3>2, SMT
  <2>3. Sum(f, Procs) = 0
    BY <2>2, SumZero
  <2>4. total = permits + Sum(f, Procs)
    BY <2>3, PermitsAssumption, SMT
  <2>5. ASSUME NEW p \in Procs PROVE aux[p] <= need[p]
    BY <2>0, SMT
  <2> QED  BY <2>1, <2>4, <2>5 DEF PermitsConserved
<1>6. ASSUME NEW p \in Procs PROVE Local(p) /\ Account(p) /\ Promise(p)
  <2>1. At(p) = "idle" /\ ~HasNode(p) /\ ~Requesting(p) /\ ~Locking(p)
    BY DEF At, HasNode, Requesting, Parked, Locking
  <2>2. Local(p)
    BY <2>1 DEF Local
  <2>3. Account(p)
    BY <2>1 DEF Account
  <2>4. Promise(p)
    BY DEF Promise, SemSignals
  <2> QED  BY <2>2, <2>3, <2>4
<1>7. FlagMeansLine /\ StuckInv
  BY DEF FlagMeansLine, StuckInv
<1>8. MissingOK
  <2>1. aux \in [Procs -> Nat] /\ line \in Seq(Procs)
    BY SMT
  <2> QED  BY <2>1, MissingFacts DEF MissingOK, Missing
<1> QED  BY <1>1, <1>4, <1>5, <1>6, <1>7, <1>8 DEF SemInv

(* Steps that change nothing keep it. *)
LEMMA SemUnchanged ==
  ASSUME SemInv, UNCHANGED vars
  PROVE  SemInv'
<1>1. /\ UNCHANGED pvars
      /\ UNCHANGED <<hasQueue, permits, closed, need, aux, held, avail, total>>
  BY DEF vars, svars, others, requests
<1> USE <1>1
<1>2. ParkingInv'
  BY ParkingUnchanged DEF SemInv
<1>3. UNCHANGED <<holder, line, pc, value, slot, seen, ret, chain, sent, node>>
  BY DEF pvars, qvars, nodeVars, signalVars
<1> USE <1>3
<1>4. TypeOK'
  BY DEF SemInv, TypeOK
<1>5. PermitsConserved'
  <2>1. Out' = Out
    BY DEF Out, Granted
  <2> QED  BY <2>1 DEF SemInv, PermitsConserved
<1>6. ASSUME NEW p \in Procs PROVE Local(p)' /\ Account(p)' /\ Promise(p)'
  <2>1. At(p)' = At(p)
    BY DEF At
  <2> USE <2>1
  <2>2. (Parked(p)' <=> Parked(p)) /\ (HasNode(p)' <=> HasNode(p)) /\ (Requesting(p)' <=> Requesting(p))
    BY DEF Parked, HasNode, Requesting
  <2>3. Local(p)'
    BY <2>2 DEF SemInv, Local, Locking, Prepared
  <2>4. Account(p)'
    BY <2>2 DEF SemInv, Account
  <2>5. Promise(p)'
    BY DEF SemInv, Promise, Popped, InChain, Storing
  <2> QED  BY <2>3, <2>4, <2>5
<1>7. FlagMeansLine'
  BY DEF SemInv, FlagMeansLine
<1>8. StuckInv'
  <2>1. \A p \in Procs : At(p)' = At(p)
    BY DEF At
  <2>2. \A p \in Procs : Serving(p)' <=> Serving(p)
    BY <2>1 DEF Serving
  <2> QED  BY <2>2 DEF SemInv, StuckInv
<1>9. MissingOK'
  BY DEF SemInv, MissingOK, Missing
<1> QED  BY <1>2, <1>4, <1>5, <1>6, <1>7, <1>8, <1>9 DEF SemInv

(* SemInv holds of every behaviour of a semaphore, whatever the number of   *)
(* processes, of permits and the size of the requests.                      *)
THEOREM SemInvariance == Spec => []SemInv
<1>1. SemInv /\ [Next]_vars => SemInv'
  BY NextSteps, StepKeeps, SemUnchanged
<1> QED  BY <1>1, SemStart, PTL DEF Spec

(* The pool never underflows nor grows beyond the permits there are.        *)
THEOREM TypeOKHolds == Spec => []TypeOK
<1>1. SemInv => TypeOK
  BY DEF SemInv
<1> QED  BY <1>1, SemInvariance, PTL

(* No permit is lost or made up by acquire, release, drain, close or any    *)
(* cancellation.                                                            *)
THEOREM PermitsConservedHolds == Spec => []PermitsConserved
<1>1. SemInv => PermitsConserved
  BY DEF SemInv
<1> QED  BY <1>1, SemInvariance, PTL

(* HAS_QUEUE is set exactly as long as it has to be.                        *)
THEOREM FlagMeansLineHolds == Spec => []FlagMeansLine
<1>1. SemInv => FlagMeansLine
  BY DEF SemInv
<1> QED  BY <1>1, SemInvariance, PTL

(* Signaling is safe for the waiters of a semaphore.                        *)
THEOREM SemaphoreWaitersSafe == Spec => []WaitersSafe
<1>1. SemInv => WaitersSafe
  BY InvSafe DEF SemInv
<1> QED  BY <1>1, SemInvariance, PTL

(* Nobody waits in line for nothing: no wake-up of the head is lost between *)
(* release, close, enqueue and cancellation.                                *)
THEOREM NobodyStuckHolds == Spec => []NobodyStuck
BY InvStuck, SemInvariance, PTL

(* Permits are taken past a waiting line by nobody: neither by try_acquire  *)
(* nor by a request that is about to queue up.                              *)
THEOREM NoBargingHolds == Spec => NoBarging
<1>1. SemInv /\ Next =>
        \A p \in Procs : pc[p] \in {"idle", "retry", "grab"} /\ held'[p] > held[p] => line = <<>>
  BY NextSteps, TakesAlone
<1>2. SemInv /\ [Next]_vars =>
        [\A p \in Procs : pc[p] \in {"idle", "retry", "grab"} /\ held'[p] > held[p] => line = <<>>]_vars
  BY <1>1
<1> QED  BY <1>2, SemInvariance, PTL DEF Spec, NoBarging

-----------------------------------------------------------------------------
(* Every step of the lock is one of its semaphore, and forgets no permit. *)
LEMMA RwSteps ==
  ASSUME SemInv, RwNext
  PROVE  (\E p \in Procs : SemStep(p)) /\ total' = total
<1>1. PICK p \in Procs : RwStep(p) \/ Woken(p)
  BY DEF RwNext
<1>s. max_readers \in Nat
  BY PermitsAssumption, SMT DEF max_readers
<1>2. CASE Read(p) \/ Write(p)
  <2>1. PICK n \in Nat : Acquire(p, n)
    BY <1>2, <1>s DEF Read, Write
  <2> QED  BY <2>1 DEF SemStep, WordStep, Acquire
<1>3. CASE Downgrade(p) \/ DropGuard(p)
  <2>1. PICK n : Release(p, n)
    BY <1>3 DEF Downgrade, DropGuard
  <2>2. n \in Nat
    BY <2>1, SMT DEF Release
  <2> QED  BY <2>1, <2>2 DEF SemStep, WordStep, Release
<1>4. CASE Drop(p)
  BY <1>4 DEF SemStep, EndStep, Drop
<1>5. CASE Step(p)
  <2>1. total' = total
    <3>1. Retry(p) \/ Collect(p) \/ Finish(p) \/ Remove(p) \/ Cancelled(p) \/ Return(p) \/ Expel(p)
             => total' = total
      BY DEF Retry, Collect, Finish, Remove, Cancelled, Return, Expel
    <3>2. Enqueue(p) \/ Drain(p) \/ CloseLock(p) \/ (QueueStep(p) /\ UNCHANGED others) => total' = total
      BY DEF Enqueue, Drain, CloseLock, svars, others
    <3>3. Flag(p) \/ Grab(p) => total' = total
      BY DEF Flag, Grab
    <3>4. Grant(p) => total' = total
      BY DEF Grant
    <3> QED  BY <1>5, <3>1, <3>2, <3>3, <3>4 DEF Step
  <2> QED  BY <1>5, <2>1, StepSteps
<1>6. CASE Woken(p)
  BY <1>6 DEF Woken, SemStep, SleepStep, svars, others
<1> QED  BY <1>1, <1>2, <1>3, <1>4, <1>5, <1>6 DEF RwStep

(* All of the permits a writer needs stay in existence, on top of what      *)
(* holds of every semaphore.                                                *)
THEOREM RwInvariance == RwFairSpec => [](SemInv /\ total = max_readers)
<1>1. Init => SemInv /\ total = max_readers
  BY SemStart DEF Init, max_readers
<1>2. SemInv /\ total = max_readers /\ [RwNext]_vars => SemInv' /\ (total = max_readers)'
  <2>1. SemInv /\ total = max_readers /\ RwNext => SemInv' /\ (total = max_readers)'
    BY RwSteps, StepKeeps DEF max_readers
  <2>2. SemInv /\ total = max_readers /\ UNCHANGED vars => SemInv' /\ (total = max_readers)'
    BY SemUnchanged DEF vars, svars, others, max_readers
  <2> QED  BY <2>1, <2>2
<1> QED  BY <1>1, <1>2, PTL DEF RwFairSpec

(* A guard of max_readers permits leaves none to anybody else. *)
LEMMA InvAlone ==
  ASSUME SemInv, total = max_readers
  PROVE  WriterAlone
<1> SUFFICES ASSUME NEW p \in Procs, NEW q \in Procs, p # q, held[p] = Initial, held[q] > 0
             PROVE  FALSE
  BY DEF WriterAlone, Writing, max_readers
<1>1. PICK f : f = Out
  OBVIOUS
<1>2. ASSUME NEW r \in Procs PROVE f[r] \in Nat /\ f[r] >= held[r]
  <2>1. /\ held[r] \in Nat /\ avail[r] \in Nat /\ need[r] \in Nat /\ aux[r] \in Nat /\ aux[r] <= need[r]
    BY Numbers
  <2>2. f[r] = held[r] + avail[r] + (need[r] - aux[r])
    BY <1>1 DEF Out, Granted
  <2> QED  BY <2>1, <2>2, SMT
<1> USE <1>2
<1>3. /\ Sum(f, Procs) = Sum(f, Procs \ {p}) + f[p]
      /\ Sum(f, Procs \ {p}) \in Nat /\ IsFiniteSet(Procs \ {p})
  BY FiniteAssumption, SumOne
<1>4. Sum(f, Procs \ {p}) = Sum(f, (Procs \ {p}) \ {q}) + f[q] /\ Sum(f, (Procs \ {p}) \ {q}) \in Nat
  <2>1. q \in Procs \ {p} /\ \A r \in Procs \ {p} : f[r] \in Nat
    OBVIOUS
  <2> QED  BY <1>3, <2>1, SumOne
<1>5. total = permits + Sum(f, Procs)
  BY <1>1 DEF SemInv, PermitsConserved
<1>6. total = Initial /\ Initial \in Nat /\ permits \in Nat /\ held[q] \in Nat
  BY Numbers, PermitsAssumption DEF max_readers
<1>7. f[p] \in Nat /\ f[p] >= held[p] /\ f[q] \in Nat /\ f[q] >= held[q]
  OBVIOUS
<1> QED  BY <1>3, <1>4, <1>5, <1>6, <1>7, SMT

(* Readers and other writers are kept out as long as there is a writer,     *)
(* through every downgrade, cancellation and hand-over.                     *)
THEOREM WriterAloneHolds == RwFairSpec => []WriterAlone
<1>1. SemInv /\ total = max_readers => WriterAlone
  BY InvAlone
<1> QED  BY <1>1, RwInvariance, PTL
=============================================================================
