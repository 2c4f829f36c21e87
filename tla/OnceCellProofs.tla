--------------------------- MODULE OnceCellProofs ---------------------------
(***************************************************************************)
(* The once-cell for any number of threads and tasks: one initializer at a *)
(* time, SIGNALED only for a value that is there, and nobody left behind   *)
(* by an initializer that is gone.                                         *)
(***************************************************************************)
EXTENDS OnceCell, ParkingProofs

(* Zenon is tried on every leaf that names no other prover. *)
USE Zenon

(* Points where a process holds the lock of the queue. *)
Locking(p) == pc[p] \in {"fresh", "drain", "retry", "remove", "unlock"}

(* The request of p has a Signal. *)
HasNode(p) == Parked(p) \/ At(p) \in {"enqueue", "fresh", "woken", "removed", "awaited"}

Received(p) == At(p) \in {"woken", "awaited"}

(* What each process knows about itself. *)
Local(p) ==
    /\ pc[p] # "clear"
    /\ pc[p] = "unlock" => ret[p] \in {"swap", "pending", "inspect", "await", "removed", "signal"}
    /\ Locking(p) => holder = p
    /\ pc[p] \in {"drain", "retry"} => line # <<>>
    /\ pc[p] \in {"enqueue", "fresh"} => Prepared(p)
    /\ At(p) = "removed" => ~Delivered(value[p])
    /\ ~HasNode(p) => value[p] = "uninit"
    /\ IF Received(p) THEN Delivered(seen[p]) ELSE seen[p] = "uninit"
    /\ ~Signaling(p) /\ At(p) # "signal" => sent[p] = "uninit"
    /\ At(p) = "signal" => chain[p] # <<>>

(* The cell has no signals but these. *)
CellSignals == {"uninit", "waiting", "signaled", "retry"}

SignalsInv == \A p \in Procs : {value[p], seen[p], sent[p]} \subseteq CellSignals

CellInv ==
    /\ state \in {"empty", "running", "ready"} /\ content \in Procs \cup {NoProc}
    /\ \A p \in Procs : pc[p] \in {"drainLock", "drain"} => state = "ready"
    /\ \A p \in Procs : pc[p] = "complete" => content # NoProc

(* p looks at the state again, or passes the role on. *)
Reviving(p) ==
    \/ At(p) \in {"retryLock", "retry", "inspect", "begin", "enqueue", "fresh", "signal",
                  "woken", "awaited"}
    \/ pc[p] \in {"take", "storeWake"} \/ chain[p] # <<>>
    \/ Delivered(value[p])

Draining(p) == pc[p] \in {"drainLock", "drain"}

LineInv ==
    line # <<>> =>
        \/ state = "running"
        \/ state = "ready" /\ \E p \in Procs : Draining(p)
        \/ state = "empty" /\ \E p \in Procs : Reviving(p)

OnceInv ==
    /\ ParkingInv /\ (\A p \in Procs : Local(p)) /\ SignalsInv /\ CellInv
    /\ OneInitializer /\ SignaledMeansReady /\ LineInv

-----------------------------------------------------------------------------
(* Steps on the state word, before or after waiting. *)
PlainStep(p) ==
    \/ Get(p) \/ Inspect(p) \/ Begin(p) \/ Set(p) \/ Initialize(p) \/ Write(p) \/ Complete(p)
    \/ Abort(p) \/ LockLine(p) \/ Enqueue(p)

(* The end of a wait, or of the attempt to begin one. *)
EndStep(p) == (Fresh(p) /\ state # "running") \/ Finish(p) \/ Drop(p) \/ Return(p)

LineStep(p) == (Fresh(p) /\ state = "running") \/ Drain(p) \/ Retry(p) \/ Remove(p)

SleepStep(p) == (ParkingStep(p) \/ Rouse(p)) /\ UNCHANGED ovars

CellStep(p) == PlainStep(p) \/ EndStep(p) \/ LineStep(p) \/ SleepStep(p)

(* Where the steps on the state word lead. *)
LEMMA PlainFacts ==
  ASSUME OnceInv, NEW p \in Procs, PlainStep(p)
  PROVE  /\ pc[p] \in {"idle", "inspect", "begin", "init", "write", "complete", "abort",
                       "drainLock", "retryLock", "enqueue"}
         /\ pc'[p] \in {"idle", "inspect", "begin", "init", "write", "complete", "abort",
                        "drainLock", "retryLock", "enqueue", "drain", "retry", "fresh"}
         /\ \A r \in Procs \ {p} : pc'[r] = pc[r]
         /\ pc' = [r \in Procs |-> pc'[r]]
         /\ line' = line /\ UNCHANGED <<ret, signalVars>>
         /\ \/ UNCHANGED nodeVars /\ pc'[p] # "enqueue"
            \/ PrepareNode(p) /\ pc'[p] = "enqueue" /\ pc[p] = "inspect"
         /\ holder' = holder \/ (holder = NoProc /\ holder' = p)
<1>t. PointsOK
  BY DEF OnceInv, ParkingInv
<1>s. state \in {"empty", "running", "ready"}
  BY DEF OnceInv, CellInv
<1> USE <1>t DEF PointsOK, Goto
<1>1. CASE Get(p) \/ Begin(p) \/ Set(p) \/ Initialize(p) \/ Write(p) \/ Complete(p) \/ Abort(p)
  BY <1>1 DEF Get, Begin, Set, Initialize, Write, Complete, Abort, qvars
<1>2. CASE Inspect(p)
  BY <1>s, <1>2 DEF Inspect, qvars
<1>3. CASE LockLine(p) \/ Enqueue(p)
  BY <1>3 DEF LockLine, Enqueue, LockExisting, LockQueue, qvars
<1> QED  BY <1>1, <1>2, <1>3 DEF PlainStep

(* They keep the invariant of waiting, and out of the way of others. *)
LEMMA PlainParking ==
  ASSUME OnceInv, NEW p \in Procs, PlainStep(p)
  PROVE  ParkingInv' /\ Frame(p)
<1>t. ParkingTypeOK /\ PointsOK
  BY DEF OnceInv, ParkingInv
<1>1. /\ pc[p] \in {"idle", "inspect", "begin", "init", "write", "complete", "abort",
                    "drainLock", "retryLock", "enqueue"}
      /\ pc'[p] \in {"idle", "inspect", "begin", "init", "write", "complete", "abort",
                     "drainLock", "retryLock", "enqueue", "drain", "retry", "fresh"}
      /\ \A r \in Procs \ {p} : pc'[r] = pc[r]
      /\ pc' = [r \in Procs |-> pc'[r]]
      /\ line' = line /\ ret' = ret /\ chain' = chain /\ sent' = sent /\ node' = node
      /\ UNCHANGED nodeVars \/ PrepareNode(p)
      /\ holder' = holder \/ (holder = NoProc /\ holder' = p)
  BY PlainFacts DEF signalVars
<1>2. /\ value' \in [Procs -> Signals] /\ seen' \in [Procs -> Signals]
      /\ slot' \in [Procs -> BOOLEAN] /\ awake' = awake
      /\ \A r \in Procs \ {p} : value'[r] = value[r] /\ slot'[r] = slot[r] /\ seen'[r] = seen[r]
  BY <1>t, <1>1, NodeFacts
<1>3. ParkingTypeOK' /\ PointsOK'
  BY <1>t, <1>1, <1>2 DEF ParkingTypeOK, PointsOK
<1>4. /\ ~Parked(p) /\ ~Parked(p)' /\ ~Asleep(p)' /\ ~Signaling(p) /\ ~Signaling(p)'
      /\ At(p)' # "signal"
  BY <1>1 DEF Parked, Asleep, Signaling, At
<1>5. ~Busy(p)
  BY <1>4 DEF OnceInv, ParkingInv, AliveInv
<1>6. ParkingInv'
  BY <1>1, <1>2, <1>3, <1>4, <1>5, OwnStep DEF OnceInv
<1>7. Frame(p)
  BY <1>1, <1>2 DEF Frame
<1> QED  BY <1>6, <1>7

(* How a wait ends. *)
LEMMA EndFacts ==
  ASSUME OnceInv, NEW p \in Procs, EndStep(p)
  PROVE  /\ \/ pc[p] = "fresh" /\ pc'[p] = "unlock" /\ ret'[p] = "inspect" /\ FreeNode(p)
            \/ /\ pc[p] \in {"woken", "removed", "awaited"} /\ pc'[p] \in {"idle", "inspect", "retryLock"}
               /\ ret' = ret /\ FreeNode(p)
            \/ /\ pc[p] = "pending" /\ value[p] # "waiting" /\ pc'[p] \in {"idle", "retryLock"}
               /\ ret' = ret /\ FreeNode(p)
            \/ /\ pc[p] = "pending" /\ value[p] = "waiting" /\ pc'[p] = "leave"
               /\ ret' = ret /\ UNCHANGED nodeVars
         /\ \A r \in Procs \ {p} : pc'[r] = pc[r] /\ ret'[r] = ret[r]
         /\ pc' = [r \in Procs |-> pc'[r]] /\ ret' = [r \in Procs |-> ret'[r]]
         /\ line' = line /\ holder' = holder /\ UNCHANGED <<signalVars, ovars>>
<1>t. PointsOK
  BY DEF OnceInv, ParkingInv
<1> USE <1>t DEF PointsOK, Goto
<1>1. CASE Fresh(p) /\ state # "running"
  BY <1>1 DEF Fresh, ThenUnlock
<1>2. CASE Finish(p) \/ Return(p)
  BY <1>2 DEF Finish, Return, qvars
<1>3. CASE Drop(p)
  BY <1>3 DEF Drop, qvars
<1> QED  BY <1>1, <1>2, <1>3 DEF EndStep

(* So does the end of a wait. *)
LEMMA EndParking ==
  ASSUME OnceInv, NEW p \in Procs, EndStep(p)
  PROVE  ParkingInv' /\ Frame(p)
<1>t. ParkingTypeOK /\ PointsOK
  BY DEF OnceInv, ParkingInv
<1>1. /\ \/ pc[p] = "fresh" /\ pc'[p] = "unlock" /\ ret'[p] = "inspect" /\ FreeNode(p)
         \/ /\ pc[p] \in {"woken", "removed", "awaited"} /\ pc'[p] \in {"idle", "inspect", "retryLock"}
            /\ ret' = ret /\ FreeNode(p)
         \/ /\ pc[p] = "pending" /\ value[p] # "waiting" /\ pc'[p] \in {"idle", "retryLock"}
            /\ ret' = ret /\ FreeNode(p)
         \/ /\ pc[p] = "pending" /\ value[p] = "waiting" /\ pc'[p] = "leave"
            /\ ret' = ret /\ UNCHANGED nodeVars
      /\ \A r \in Procs \ {p} : pc'[r] = pc[r] /\ ret'[r] = ret[r]
      /\ pc' = [r \in Procs |-> pc'[r]] /\ ret' = [r \in Procs |-> ret'[r]]
      /\ line' = line /\ holder' = holder
      /\ chain' = chain /\ sent' = sent /\ node' = node
  BY EndFacts DEF signalVars
<1>2. /\ value' \in [Procs -> Signals] /\ seen' \in [Procs -> Signals]
      /\ slot' \in [Procs -> BOOLEAN] /\ awake' = awake
      /\ \A r \in Procs \ {p} : value'[r] = value[r] /\ slot'[r] = slot[r] /\ seen'[r] = seen[r]
  BY <1>t, <1>1, NodeFacts
<1>3. ParkingTypeOK' /\ PointsOK'
  BY <1>t, <1>1, <1>2 DEF ParkingTypeOK, PointsOK
<1>4. /\ ~Asleep(p)' /\ ~Signaling(p) /\ ~Signaling(p)' /\ At(p)' # "signal"
      /\ Parked(p)' <=> pc'[p] = "leave"
  BY <1>1 DEF Parked, Asleep, Signaling, At
<1>5. Busy(p) => value[p] = "waiting" /\ pc[p] = "pending"
  <2>1. Busy(p) => Parked(p) /\ ~Delivered(value[p])
    BY DEF OnceInv, ParkingInv, AliveInv
  <2>2. pc[p] = "pending" => value[p] # "uninit"
    BY DEF OnceInv, ParkingInv, WaiterInv, Parked, At
  <2>3. value[p] \in {"uninit", "waiting"} \/ Delivered(value[p])
    BY <1>t DEF ParkingTypeOK, Signals, Delivered
  <2>4. Parked(p) => pc[p] = "pending"
    BY <1>1 DEF Parked, At
  <2> QED  BY <2>1, <2>2, <2>3, <2>4
<1>6. Busy(p) => Parked(p)' /\ ~Delivered(value'[p]) /\ (slot[p] = TRUE => slot'[p] = TRUE)
  <2>1. ~Delivered("waiting")
    BY DEF Delivered
  <2> QED  BY <1>1, <1>4, <1>5, <2>1 DEF nodeVars
<1>7. Parked(p)' => value'[p] # "uninit"
  BY <1>1, <1>4 DEF nodeVars
<1>8. ParkingInv'
  BY <1>1, <1>2, <1>3, <1>4, <1>6, <1>7, OwnStep DEF OnceInv
<1>9. Frame(p)
  BY <1>1, <1>2 DEF Frame
<1> QED  BY <1>8, <1>9

(* Pushes, pops and removals. *)
LEMMA LineFacts ==
  ASSUME OnceInv, NEW p \in Procs, LineStep(p)
  PROVE  /\ pc'[p] = "unlock" /\ pc[p] \in {"fresh", "drain", "retry", "remove"} /\ holder = p
         /\ \/ /\ pc[p] = "fresh" /\ state = "running" /\ line' = Append(line, p)
               /\ ret'[p] = (IF p \in Threads THEN "swap" ELSE "pending")
               /\ UNCHANGED signalVars
            \/ /\ pc[p] \in {"drain", "retry"} /\ ret'[p] = "signal" /\ node' = node
               /\ \E k \in 1 .. Len(line) :
                     /\ chain' = [chain EXCEPT ![p] = SubSeq(line, 1, k)]
                     /\ line' = SubSeq(line, k + 1, Len(line))
                     /\ pc[p] = "drain" => k = Len(line)
               /\ sent' = [sent EXCEPT ![p] = IF pc[p] = "drain" THEN "signaled" ELSE "retry"]
            \/ /\ pc[p] = "remove" /\ UNCHANGED signalVars
               /\ \/ Position(p) = {} /\ line' = line /\ ret'[p] = "await"
                  \/ (\E k \in Position(p) : line' = Without(line, k)) /\ ret'[p] = "removed"
         /\ \A r \in Procs \ {p} : pc'[r] = pc[r] /\ ret'[r] = ret[r]
         /\ pc' = [r \in Procs |-> pc'[r]] /\ ret' = [r \in Procs |-> ret'[r]]
         /\ holder' = holder /\ UNCHANGED <<nodeVars, ovars>>
<1>t. PointsOK /\ line \in Seq(Procs)
  BY DEF OnceInv, ParkingInv, ParkingTypeOK
<1>l. pc[p] \in {"drain", "retry"} => line # <<>>
  BY DEF OnceInv, Local
<1>n. line # <<>> => Len(line) \in Nat /\ Len(line) >= 1
  BY <1>t, SMT
<1> USE <1>t DEF PointsOK, Goto, ThenUnlock
<1>1. CASE Fresh(p) /\ state = "running"
  BY <1>1 DEF Fresh, Push, PushNode
<1>2. CASE Drain(p)
  <2>1. Len(line) \in 1 .. Len(line)
    BY <1>l, <1>n, <1>2, SMT DEF Drain
  <2> QED  BY <1>2, <2>1 DEF Drain, PopAndSignal, PopNodes
<1>3. CASE Retry(p)
  <2>1. 1 \in 1 .. Len(line)
    BY <1>l, <1>n, <1>3, SMT DEF Retry
  <2> QED  BY <1>3, <2>1 DEF Retry, PopAndSignal, PopNodes
<1>4. CASE Remove(p)
  BY <1>4 DEF Remove, RemoveNode, Without
<1> QED  BY <1>1, <1>2, <1>3, <1>4 DEF LineStep

(* So does a change of the line. *)
LEMMA LineParking ==
  ASSUME OnceInv, NEW p \in Procs, LineStep(p)
  PROVE  ParkingInv' /\ Frame(p)
<1>t. ParkingInv /\ ParkingTypeOK /\ PointsOK
  BY DEF OnceInv, ParkingInv
<1>1. /\ pc'[p] = "unlock" /\ pc[p] \in {"fresh", "drain", "retry", "remove"} /\ holder = p
      /\ \A r \in Procs \ {p} : pc'[r] = pc[r] /\ ret'[r] = ret[r]
      /\ pc' = [r \in Procs |-> pc'[r]] /\ ret' = [r \in Procs |-> ret'[r]]
      /\ holder' = holder /\ UNCHANGED nodeVars
  BY LineFacts
<1>c. \/ /\ pc[p] = "fresh" /\ line' = Append(line, p)
         /\ ret'[p] = (IF p \in Threads THEN "swap" ELSE "pending")
         /\ chain' = chain /\ sent' = sent /\ node' = node
      \/ /\ pc[p] \in {"drain", "retry"} /\ ret'[p] = "signal" /\ node' = node
         /\ \E k \in 1 .. Len(line) : /\ chain' = [chain EXCEPT ![p] = SubSeq(line, 1, k)]
                                      /\ line' = SubSeq(line, k + 1, Len(line))
         /\ sent' = [sent EXCEPT ![p] = IF pc[p] = "drain" THEN "signaled" ELSE "retry"]
      \/ /\ pc[p] = "remove" /\ chain' = chain /\ sent' = sent /\ node' = node
         /\ \/ Position(p) = {} /\ line' = line /\ ret'[p] = "await"
            \/ (\E k \in Position(p) : line' = Without(line, k)) /\ ret'[p] = "removed"
  BY LineFacts DEF signalVars
<1>2. At(p) = pc[p] /\ At(p)' = ret'[p]
  BY <1>1 DEF At
<1>3. /\ Parked(p) <=> pc[p] = "remove"
      /\ Parked(p)' <=> ret'[p] \in {"swap", "pending", "await"}
      /\ Asleep(p)' <=> ret'[p] = "pending"
  BY <1>1, <1>2, <1>c DEF Parked, Asleep
<1>4. PointsOK'
  BY <1>t, <1>1, <1>c DEF PointsOK
<1>m. line' \in Seq(Procs) /\ chain' \in [Procs -> Seq(Procs)] /\ sent' \in [Procs -> Signals]
  <2>t. line \in Seq(Procs) /\ chain \in [Procs -> Seq(Procs)] /\ sent \in [Procs -> Signals]
    BY <1>t DEF ParkingTypeOK
  <2>1. CASE pc[p] = "fresh"
    <3>1. line' = Append(line, p) /\ chain' = chain /\ sent' = sent
      BY <1>c, <2>1
    <3> QED  BY <2>t, <3>1, SMT
  <2>2. CASE pc[p] \in {"drain", "retry"}
    <3>1. PICK k \in 1 .. Len(line) : /\ chain' = [chain EXCEPT ![p] = SubSeq(line, 1, k)]
                                      /\ line' = SubSeq(line, k + 1, Len(line))
      BY <1>c, <2>2
    <3>2. SubSeq(line, 1, k) \in Seq(Procs) /\ SubSeq(line, k + 1, Len(line)) \in Seq(Procs)
      BY <2>t, SplitFacts, SMT
    <3>3. "signaled" \in Signals /\ "retry" \in Signals
      BY DEF Signals
    <3> QED  BY <1>c, <2>t, <2>2, <3>1, <3>2, <3>3
  <2>3. CASE pc[p] = "remove"
    <3>1. Distinct(line)
      BY <1>t DEF ParkingInv, PlacesInv
    <3>2. \A k \in Position(p) : Without(line, k) \in Seq(Procs)
      BY <2>t, <3>1, RemoveFacts DEF Position
    <3> QED  BY <1>c, <2>t, <2>3, <3>2
  <2> QED  BY <1>1, <2>1, <2>2, <2>3
<1>s. \A r \in Procs \ {p} : sent'[r] = sent[r]
  BY <1>t, <1>c DEF ParkingTypeOK
<1>5. LinedUp(p)
  <2>1. ParkingTypeOK'
    BY <1>t, <1>1, <1>c, <1>m DEF ParkingTypeOK, nodeVars
  <2> QED  BY <1>1, <1>4, <1>c, <1>s, <2>1 DEF LinedUp, Signaling
<1>6. CASE pc[p] = "fresh"
  <2>1. Prepared(p)
    BY <1>6 DEF OnceInv, Local
  <2>2. /\ slot[p] = TRUE /\ ~Delivered(value[p])
        /\ ret'[p] = "swap" \/ value[p] # "uninit"
    BY <1>6, <1>c, <2>1 DEF Prepared, Delivered, Tasks
  <2>3. ParkingInv'
    BY <1>t, <1>2, <1>3, <1>5, <1>6, <1>c, <2>2, PushStep
  <2> QED  BY <1>1, <1>6, <1>c, <2>3 DEF Frame, nodeVars
<1>7. CASE pc[p] \in {"drain", "retry"}
  <2>1. PICK k \in 1 .. Len(line) : /\ chain' = [chain EXCEPT ![p] = SubSeq(line, 1, k)]
                                    /\ line' = SubSeq(line, k + 1, Len(line))
    BY <1>7, <1>c
  <2>2. k \in 0 .. Len(line)
    BY SMT
  <2>3. Delivered(sent'[p]) /\ \A r \in Procs \ {p} : sent'[r] = sent[r] /\ chain'[r] = chain[r]
    BY <1>t, <1>7, <1>c, <2>1 DEF ParkingTypeOK, Delivered
  <2>4. ParkingInv'
    BY <1>t, <1>3, <1>5, <1>7, <1>c, <2>1, <2>2, <2>3, PopStep
  <2> QED  BY <1>1, <2>3, <2>4 DEF Frame, nodeVars
<1>8. CASE pc[p] = "remove"
  <2>1. \/ (\E k \in Position(p) : line' = Without(line, k)) /\ ~Parked(p)'
        \/ Position(p) = {} /\ line' = line /\ Parked(p)'
    BY <1>3, <1>8, <1>c
  <2>2. At(p)' # "signal" /\ At(p) # "swap" /\ ~Asleep(p)' /\ Parked(p)
    BY <1>2, <1>3, <1>8, <1>c
  <2>3. ParkingInv'
    BY <1>t, <1>5, <1>8, <1>c, <2>1, <2>2, RemoveStep
  <2> QED  BY <1>1, <1>8, <1>c, <2>3 DEF Frame, nodeVars
<1> QED  BY <1>1, <1>6, <1>7, <1>8

(* So does a step of Parking. *)
LEMMA SleepParking ==
  ASSUME OnceInv, NEW p \in Procs, SleepStep(p)
  PROVE  ParkingInv' /\ Frame(p)
BY ParkingKeeps, ParkingFrame DEF OnceInv, SleepStep

(* Every step keeps the invariant of waiting, and out of the way of others. *)
LEMMA StepParking ==
  ASSUME OnceInv, NEW p \in Procs, CellStep(p)
  PROVE  ParkingInv' /\ Frame(p)
BY PlainParking, EndParking, LineParking, SleepParking DEF CellStep

-----------------------------------------------------------------------------
(* What others know about themselves stays true. *)
LEMMA OthersLocal ==
  ASSUME OnceInv, NEW p \in Procs, Frame(p), NEW r \in Procs \ {p}
  PROVE  Local(r)'
<1>1. Local(r) /\ Local(p) /\ NoProc \notin Procs
  BY ProcsAssumption DEF OnceInv
<1>2. Busy(r) => Parked(r) /\ ~Delivered(value[r])
  BY DEF OnceInv, ParkingInv, AliveInv
<1>3. /\ pc'[r] = pc[r] /\ ret'[r] = ret[r] /\ seen'[r] = seen[r] /\ sent'[r] = sent[r]
      /\ chain'[r] = chain[r]
      /\ ~Busy(r) => value'[r] = value[r] /\ slot'[r] = slot[r]
      /\ holder' = holder \/ holder = NoProc \/ holder = p
      /\ line' = line \/ holder = p
  BY DEF Frame
<1>4. /\ At(r)' = At(r) /\ (Parked(r)' <=> Parked(r)) /\ (Signaling(r)' <=> Signaling(r))
      /\ (HasNode(r)' <=> HasNode(r)) /\ (Received(r)' <=> Received(r))
      /\ (Locking(r)' <=> Locking(r))
  <2>1. At(r)' = At(r) /\ (Parked(r)' <=> Parked(r)) /\ (Signaling(r)' <=> Signaling(r))
    BY <1>3, SamePoint
  <2> QED  BY <1>3, <2>1 DEF HasNode, Received, Locking
<1>5. Locking(r) => holder' = r /\ line' = line
  BY <1>1, <1>3 DEF Local
<1>6. pc[r] \in {"drain", "retry"} => line' # <<>>
  BY <1>1, <1>5 DEF Local, Locking
<1>7. pc[r] \in {"enqueue", "fresh"} \/ At(r) = "removed" => ~Parked(r)
  BY <1>1 DEF Parked, At
<1>8. pc[r] \in {"enqueue", "fresh"} => Prepared(r)'
  BY <1>1, <1>2, <1>3, <1>7 DEF Local, Prepared, Tasks
<1>9. At(r) = "removed" => ~Delivered(value'[r])
  BY <1>1, <1>2, <1>3, <1>7 DEF Local
<1>10. ~HasNode(r) => value'[r] = "uninit"
  BY <1>1, <1>2, <1>3 DEF Local, HasNode
<1> QED  BY <1>1, <1>3, <1>4, <1>5, <1>6, <1>8, <1>9, <1>10 DEF Local

(* So does what a process knows about itself when it moves: on the word, *)
LEMMA PlainLocal ==
  ASSUME OnceInv, NEW p \in Procs, PlainStep(p)
  PROVE  Local(p)'
<1>t. ParkingTypeOK /\ PointsOK /\ Local(p)
  BY DEF OnceInv, ParkingInv
<1>1. /\ pc[p] \in {"idle", "inspect", "begin", "init", "write", "complete", "abort",
                    "drainLock", "retryLock", "enqueue"}
      /\ pc'[p] \in {"idle", "inspect", "begin", "init", "write", "complete", "abort",
                     "drainLock", "retryLock", "enqueue", "drain", "retry", "fresh"}
      /\ line' = line /\ ret' = ret /\ chain' = chain /\ sent' = sent
      /\ \/ UNCHANGED nodeVars /\ pc'[p] # "enqueue"
         \/ PrepareNode(p) /\ pc'[p] = "enqueue"
  BY PlainFacts DEF signalVars
<1>2. /\ pc'[p] \in {"drain", "retry", "fresh"} => holder' = p
      /\ pc'[p] \in {"drain", "retry"} => line # <<>>
      /\ pc'[p] = "fresh" <=> pc[p] = "enqueue"
  <2>1. CASE LockLine(p) \/ Enqueue(p)
    BY <1>t, <2>1 DEF LockLine, Enqueue, LockExisting, LockQueue, Goto, PointsOK
  <2>2. CASE ~(LockLine(p) \/ Enqueue(p))
    <3>1. pc'[p] \notin {"drain", "retry", "fresh"} /\ pc[p] # "enqueue"
      <4>1. state \in {"empty", "running", "ready"}
        BY DEF OnceInv, CellInv
      <4> QED  BY <1>t, <2>2, <4>1 DEF PlainStep, Get, Inspect, Begin, Set, Initialize, Write, Complete,
                  Abort, Goto, PointsOK
    <3> QED  BY <3>1
  <2> QED  BY <2>1, <2>2
<1>3. /\ ~Parked(p) /\ ~Parked(p)' /\ ~Signaling(p) /\ ~Signaling(p)'
      /\ At(p) = pc[p] /\ At(p)' = pc'[p]
  BY <1>1 DEF Parked, Signaling, At
<1>4. seen'[p] = "uninit"
  <2>1. seen[p] = "uninit"
    BY <1>t, <1>1, <1>3 DEF Local, Received
  <2> QED  BY <1>1, <2>1 DEF nodeVars, PrepareNode
<1>5. sent'[p] = "uninit"
  BY <1>t, <1>1, <1>3 DEF Local
<1>6. pc'[p] \in {"enqueue", "fresh"} => Prepared(p)'
  <2>1. CASE pc'[p] = "enqueue"
    BY <1>t, <1>1, <2>1, NodeFacts
  <2>2. CASE pc'[p] = "fresh"
    <3>1. Prepared(p) /\ UNCHANGED nodeVars
      BY <1>t, <1>1, <1>2, <2>2 DEF Local
    <3> QED  BY <3>1 DEF Prepared, nodeVars
  <2> QED  BY <2>1, <2>2
<1>7. ~HasNode(p)' => value'[p] = "uninit"
  <2>1. ~HasNode(p)' => pc'[p] \notin {"enqueue", "fresh"}
    BY <1>3 DEF HasNode
  <2>2. pc[p] # "enqueue" => ~HasNode(p)
    BY <1>1, <1>3 DEF HasNode
  <2> QED  BY <1>t, <1>1, <1>2, <2>1, <2>2 DEF Local, nodeVars
<1>8. ~Received(p)' /\ At(p)' \notin {"removed", "signal"} /\ (Locking(p)' => holder' = p)
  BY <1>1, <1>2, <1>3 DEF Received, Locking
<1> QED  BY <1>1, <1>2, <1>4, <1>5, <1>6, <1>7, <1>8 DEF Local

(* ... when a wait ends. *)
LEMMA EndLocal ==
  ASSUME OnceInv, NEW p \in Procs, EndStep(p)
  PROVE  Local(p)'
<1>t. ParkingTypeOK /\ PointsOK /\ Local(p)
  BY DEF OnceInv, ParkingInv
<1>1. /\ \/ pc[p] = "fresh" /\ pc'[p] = "unlock" /\ ret'[p] = "inspect" /\ FreeNode(p)
         \/ /\ pc[p] \in {"woken", "removed", "awaited"} /\ pc'[p] \in {"idle", "inspect", "retryLock"}
            /\ ret' = ret /\ FreeNode(p)
         \/ /\ pc[p] = "pending" /\ value[p] # "waiting" /\ pc'[p] \in {"idle", "retryLock"}
            /\ ret' = ret /\ FreeNode(p)
         \/ /\ pc[p] = "pending" /\ value[p] = "waiting" /\ pc'[p] = "leave"
            /\ ret' = ret /\ UNCHANGED nodeVars
      /\ line' = line /\ holder' = holder /\ chain' = chain /\ sent' = sent
  BY EndFacts DEF signalVars
<1>2. FreeNode(p) => value'[p] = "uninit" /\ seen'[p] = "uninit"
  BY <1>t, NodeFacts
<1>3. /\ At(p) = pc[p] /\ At(p)' = (IF pc'[p] = "unlock" THEN "inspect" ELSE pc'[p])
      /\ ~Signaling(p) /\ ~Signaling(p)'
  BY <1>1 DEF At, Signaling
<1>4. /\ pc'[p] = "leave" => HasNode(p)' /\ ~Received(p)
      /\ ~Received(p)' /\ At(p)' \notin {"removed", "signal"}
  BY <1>1, <1>3 DEF HasNode, Received, Parked
<1>5. seen'[p] = "uninit" /\ (pc'[p] # "leave" => value'[p] = "uninit")
  BY <1>t, <1>1, <1>2, <1>4 DEF nodeVars, Local
<1>6. sent'[p] = "uninit"
  BY <1>t, <1>1, <1>3 DEF Local
<1>7. Locking(p)' => holder' = p
  BY <1>t, <1>1, SMTT(20) DEF Locking, Local
<1> QED  BY <1>1, <1>3, <1>4, <1>5, <1>6, <1>7 DEF Local

(* ... when the line changes. *)
LEMMA LineLocal ==
  ASSUME OnceInv, NEW p \in Procs, LineStep(p)
  PROVE  Local(p)'
<1>t. ParkingTypeOK /\ PointsOK /\ Local(p)
  BY DEF OnceInv, ParkingInv
<1>1. /\ pc'[p] = "unlock" /\ pc[p] \in {"fresh", "drain", "retry", "remove"}
      /\ holder = p /\ holder' = holder /\ value' = value /\ seen' = seen
  BY LineFacts DEF nodeVars
<1>2. \/ /\ pc[p] = "fresh" /\ ret'[p] \in {"swap", "pending"} /\ chain' = chain /\ sent' = sent
      \/ /\ pc[p] \in {"drain", "retry"} /\ ret'[p] = "signal"
         /\ \E k \in 1 .. Len(line) : chain' = [chain EXCEPT ![p] = SubSeq(line, 1, k)]
      \/ /\ pc[p] = "remove" /\ chain' = chain /\ sent' = sent
         /\ ret'[p] = "await" \/ (ret'[p] = "removed" /\ Position(p) # {})
  BY LineFacts DEF signalVars
<1>3. At(p) = pc[p] /\ At(p)' = ret'[p] /\ ~Signaling(p)
  BY <1>1 DEF At, Signaling
<1>4. /\ ~Received(p) /\ ~Received(p)'
      /\ ~HasNode(p)' => pc[p] \in {"drain", "retry"}
      /\ pc[p] \in {"drain", "retry"} => ~HasNode(p)
  BY <1>1, <1>2, <1>3 DEF Received, HasNode, Parked
<1>5. At(p)' = "removed" => ~Delivered(value'[p])
  <2>1. Position(p) # {} => Busy(p)
    BY DEF Position, Busy, InLine, Among
  <2>2. Busy(p) => ~Delivered(value[p])
    BY DEF OnceInv, ParkingInv, AliveInv
  <2> QED  BY <1>1, <1>2, <1>3, <2>1, <2>2
<1>6. At(p)' = "signal" => chain'[p] # <<>>
  <2> SUFFICES ASSUME pc[p] \in {"drain", "retry"} PROVE chain'[p] # <<>>
    BY <1>2, <1>3
  <2>1. PICK k \in 1 .. Len(line) : chain' = [chain EXCEPT ![p] = SubSeq(line, 1, k)]
    BY <1>2
  <2>2. line \in Seq(Procs) /\ chain'[p] = SubSeq(line, 1, k)
    BY <1>t, <2>1 DEF ParkingTypeOK
  <2>3. Len(SubSeq(line, 1, k)) = k /\ k \in Nat /\ k >= 1
    BY <2>2, SMT
  <2>4. SubSeq(line, 1, k) # <<>>
    BY <2>3, SMT
  <2> QED  BY <2>2, <2>4
<1>7. At(p)' # "signal" => sent'[p] = "uninit"
  BY <1>t, <1>1, <1>2, <1>3 DEF Local
<1>8. ret'[p] \in {"swap", "pending", "inspect", "await", "removed", "signal"}
  BY <1>1, <1>2
<1> QED  BY <1>t, <1>1, <1>3, <1>4, <1>5, <1>6, <1>7, <1>8 DEF Local

(* ... in a step of Parking. *)
LEMMA SleepLocal ==
  ASSUME OnceInv, NEW p \in Procs, SleepStep(p)
  PROVE  Local(p)'
<1>t. ParkingTypeOK /\ PointsOK /\ Local(p) /\ NoProc \notin Procs
  BY ProcsAssumption DEF OnceInv, ParkingInv
<1>p. pc = [r \in Procs |-> pc[r]] /\ ret = [r \in Procs |-> ret[r]]
  BY <1>t DEF PointsOK
<1>1. CASE \/ Swap(p) \/ CheckSignal(p) \/ Poll(p) \/ Reload(p) \/ AwaitSignal(p)
           \/ ParkReturn(p) \/ Rearm(p)
  <2>1. /\ pc[p] \in {"swap", "check", "pending", "reload", "await", "park", "rearm"}
        /\ \/ /\ pc'[p] \in {"woken", "awaited"} /\ Delivered(value[p]) /\ seen'[p] = value[p]
           \/ /\ pc'[p] \in {"park", "check", "pending", "rearm", "reload"} /\ seen'[p] = seen[p]
        /\ chain' = chain /\ sent' = sent
    BY <1>1, <1>t, <1>p DEF Swap, CheckSignal, Poll, Reload, AwaitSignal, ParkReturn, Rearm, Receive,
       Goto, signalVars, ParkingTypeOK
  <2>2. At(p) = pc[p] /\ At(p)' = pc'[p] /\ ~Signaling(p) /\ ~Signaling(p)'
    BY <2>1 DEF At, Signaling
  <2>3. HasNode(p)' /\ ~Received(p) /\ (Received(p)' <=> pc'[p] \in {"woken", "awaited"})
    BY <2>1, <2>2 DEF HasNode, Parked, Received
  <2>4. seen[p] = "uninit" /\ sent'[p] = "uninit"
    BY <1>t, <2>1, <2>2, <2>3 DEF Local
  <2>5. ~Locking(p)'
    BY <2>1 DEF Locking
  <2> QED  BY <2>1, <2>2, <2>3, <2>4, <2>5 DEF Local
<1>2. CASE Leave(p)
  <2>1. /\ pc[p] = "leave" /\ (pc'[p] = "await" \/ (pc'[p] = "remove" /\ holder' = p))
        /\ value' = value /\ seen' = seen /\ chain' = chain /\ sent' = sent
    BY <1>2, <1>p DEF Leave, LockExisting, LockQueue, Goto, nodeVars, signalVars
  <2>2. At(p) = pc[p] /\ At(p)' = pc'[p] /\ ~Signaling(p) /\ ~Signaling(p)'
    BY <2>1 DEF At, Signaling
  <2>3. HasNode(p)' /\ ~Received(p) /\ ~Received(p)'
    BY <2>1, <2>2 DEF HasNode, Parked, Received
  <2>4. Locking(p)' => holder' = p
    BY <2>1 DEF Locking
  <2> QED  BY <1>t, <2>1, <2>2, <2>3, <2>4 DEF Local
<1>3. CASE Unlock(p) /\ ret[p] # "signal"
  <2>1. /\ pc[p] = "unlock" /\ pc'[p] = ret[p]
        /\ value' = value /\ seen' = seen /\ chain' = chain /\ sent' = sent
    BY <1>3, <1>p DEF Unlock, Goto, nodeVars
  <2>2. ret[p] \in {"swap", "pending", "inspect", "await", "removed"}
    BY <1>3, <1>t, <2>1 DEF Local
  <2>3. At(p) = ret[p] /\ At(p)' = ret[p] /\ ~Signaling(p) /\ ~Signaling(p)'
    BY <2>1, <2>2 DEF At, Signaling
  <2>4. (HasNode(p)' <=> HasNode(p)) /\ (Received(p)' <=> Received(p)) /\ ~Locking(p)'
    BY <2>1, <2>2, <2>3 DEF HasNode, Parked, Received, Locking
  <2> QED  BY <1>t, <2>1, <2>2, <2>3, <2>4 DEF Local
<1>4. CASE (Unlock(p) /\ ret[p] = "signal") \/ TakeWaker(p) \/ StoreSignal(p) \/ Wake(p)
  <2>1. /\ Signaling(p) \/ At(p) = "signal"
        /\ Signaling(p)' \/ (pc'[p] = "idle" /\ sent'[p] = "uninit")
        /\ seen' = seen
    <3>1. SignalNext(p) => pc'[p] = "take" \/ (pc'[p] = "idle" /\ sent'[p] = "uninit")
      BY <1>t, <1>p DEF SignalNext, Goto, ParkingTypeOK
    <3>2. CASE TakeWaker(p)
      BY <1>p, <3>2 DEF TakeWaker, Goto, Signaling
    <3>3. CASE StoreSignal(p)
      BY <1>p, <3>1, <3>3 DEF StoreSignal, Goto, Signaling
    <3>4. CASE Wake(p) \/ (Unlock(p) /\ ret[p] = "signal")
      BY <1>p, <3>1, <3>4 DEF Wake, Unlock, Signaling, At, nodeVars
    <3> QED  BY <1>4, <3>2, <3>3, <3>4
  <2>2. ~HasNode(p) /\ ~Received(p)
    <3>1. pc[p] \in {"take", "store", "storeWake", "wake"} \/ At(p) = "signal"
      BY <2>1 DEF Signaling
    <3> QED  BY <3>1 DEF HasNode, Parked, Received, At
  <2>3. value'[p] = value[p]
    <3>1. ~Busy(p)
      BY <2>2 DEF OnceInv, ParkingInv, AliveInv, HasNode
    <3>2. StoreSignal(p) => value'[p] = value[p]
      BY <3>1, StoreStep DEF OnceInv
    <3> QED  BY <1>4, <3>2 DEF Unlock, TakeWaker, Wake, nodeVars
  <2>4. value'[p] = "uninit" /\ seen'[p] = "uninit"
    BY <1>t, <2>1, <2>2, <2>3 DEF Local
  <2>5. /\ At(p)' = pc'[p] /\ pc'[p] \in {"take", "store", "storeWake", "wake", "idle"}
        /\ ~Received(p)' /\ ~Locking(p)'
    BY <2>1 DEF Signaling, At, Received, Locking
  <2> QED  BY <2>1, <2>4, <2>5 DEF Local
<1> QED  BY <1>1, <1>2, <1>3, <1>4 DEF SleepStep, ParkingStep, Rouse

(* No step makes anybody's knowledge about themselves wrong. *)
LEMMA StepLocal ==
  ASSUME OnceInv, NEW p \in Procs, CellStep(p)
  PROVE  \A r \in Procs : Local(r)'
<1>1. Local(p)'
  BY PlainLocal, EndLocal, LineLocal, SleepLocal DEF CellStep
<1>2. \A r \in Procs \ {p} : Local(r)'
  BY StepParking, OthersLocal
<1> QED  BY <1>1, <1>2

-----------------------------------------------------------------------------
(* Where signals come from. *)
LEMMA StepSignals ==
  ASSUME OnceInv, NEW p \in Procs, CellStep(p)
  PROVE  /\ value'[p] \in {value[p], "uninit", "waiting"}
         /\ seen'[p] \in {seen[p], value[p], "uninit"}
         /\ \/ sent'[p] \in {sent[p], "uninit", "retry"}
            \/ sent'[p] = "signaled" /\ pc[p] = "drain"
<1>t. ParkingInv /\ ParkingTypeOK
  BY DEF OnceInv, ParkingInv
<1>n. ASSUME PrepareNode(p) \/ FreeNode(p) \/ UNCHANGED nodeVars
      PROVE  value'[p] \in {value[p], "uninit", "waiting"} /\ seen'[p] \in {seen[p], value[p], "uninit"}
  BY <1>t, <1>n DEF PrepareNode, FreeNode, nodeVars, ParkingTypeOK
<1>1. CASE PlainStep(p) \/ EndStep(p)
  <2>1. sent' = sent /\ (PrepareNode(p) \/ FreeNode(p) \/ UNCHANGED nodeVars)
    BY <1>1, PlainFacts, EndFacts DEF signalVars
  <2> QED  BY <1>n, <2>1
<1>2. CASE LineStep(p)
  <2>1. UNCHANGED nodeVars
    BY <1>2, LineFacts
  <2>2. \/ sent' = sent
        \/ sent' = [sent EXCEPT ![p] = IF pc[p] = "drain" THEN "signaled" ELSE "retry"]
    BY <1>2, LineFacts DEF signalVars
  <2>3. \/ sent'[p] \in {sent[p], "uninit", "retry"}
        \/ sent'[p] = "signaled" /\ pc[p] = "drain"
    BY <1>t, <2>2 DEF ParkingTypeOK
  <2> QED  BY <1>n, <2>1, <2>3
<1>3. CASE SleepStep(p)
  <2>1. CASE StoreSignal(p)
    <3>1. ~Busy(p)
      <4>1. ~Parked(p)
        BY <2>1 DEF StoreSignal, Parked, At
      <4> QED  BY <4>1 DEF OnceInv, ParkingInv, AliveInv
    <3>2. value'[p] = value[p]
      BY <1>t, <2>1, <3>1, StoreStep
    <3> QED  BY <1>t, <2>1, <3>2 DEF StoreSignal, SignalNext, ParkingTypeOK
  <2>2. CASE Unlock(p) \/ TakeWaker(p) \/ Wake(p)
    BY <1>t, <2>2 DEF Unlock, TakeWaker, Wake, SignalNext, nodeVars, ParkingTypeOK
  <2>3. CASE \/ Swap(p) \/ CheckSignal(p) \/ Poll(p) \/ Reload(p) \/ AwaitSignal(p)
             \/ ParkReturn(p) \/ Rearm(p) \/ Leave(p)
    BY <1>t, <2>3 DEF Swap, CheckSignal, Poll, Reload, AwaitSignal, ParkReturn, Rearm, Leave, Receive,
       nodeVars, signalVars, ParkingTypeOK
  <2> QED  BY <1>3, <2>1, <2>2, <2>3 DEF SleepStep, ParkingStep, Rouse
<1> QED  BY <1>1, <1>2, <1>3 DEF CellStep

(* How the state word and the slot change. *)
Unmoved(p) ==
    /\ state' = state /\ (Initializing(p)' <=> Initializing(p))
    /\ content' = content \/ content' = p
    /\ pc'[p] = "complete" => content' = p
    /\ pc'[p] \in {"drainLock", "drain"} => pc[p] = "drainLock"

(* A step leaves the word alone, or begins, completes or aborts. *)
LEMMA StepState ==
  ASSUME OnceInv, NEW p \in Procs, CellStep(p)
  PROVE  \/ Unmoved(p)
         \/ /\ state = "empty" /\ state' = "running" /\ content' = content
            /\ pc'[p] \in {"init", "write"}
         \/ pc[p] = "complete" /\ state' = "ready" /\ content' = content /\ pc'[p] = "drainLock"
         \/ pc[p] = "abort" /\ state' = "empty" /\ content' = content /\ pc'[p] = "retryLock"
<1>t. PointsOK /\ Local(p) /\ state \in {"empty", "running", "ready"}
  BY DEF OnceInv, ParkingInv, CellInv
<1>p. pc = [r \in Procs |-> pc[r]]
  BY <1>t DEF PointsOK
<1>1. CASE Begin(p) \/ Set(p) \/ Complete(p) \/ Abort(p)
  BY <1>1, <1>p DEF Begin, Set, Complete, Abort, Goto, Unmoved, Initializing
<1>2. CASE Get(p) \/ Inspect(p) \/ Initialize(p) \/ Write(p) \/ LockLine(p) \/ Enqueue(p)
  BY <1>2, <1>p, <1>t DEF Get, Inspect, Initialize, Write, LockLine, Enqueue, Goto, Unmoved,
     Initializing, ovars
<1>3. CASE EndStep(p)
  BY <1>3, EndFacts DEF Unmoved, Initializing, ovars
<1>4. CASE LineStep(p)
  <2>1. pc'[p] = "unlock" /\ pc[p] \in {"fresh", "drain", "retry", "remove"} /\ UNCHANGED ovars
    BY <1>4, LineFacts, SMTT(20)
  <2> QED  BY <2>1 DEF Unmoved, Initializing, ovars
<1>5. CASE SleepStep(p)
  <2>1. pc[p] = "unlock" => ret[p] \in {"swap", "pending", "inspect", "await", "removed", "signal"}
    BY <1>t DEF Local
  <2>2. /\ pc[p] \in {"swap", "check", "pending", "reload", "await", "park", "rearm", "leave",
                      "unlock", "take", "store", "storeWake", "wake"}
        /\ pc'[p] \in {"swap", "check", "pending", "reload", "await", "park", "rearm", "remove",
                       "take", "store", "storeWake", "wake", "woken", "awaited", "idle",
                       "inspect", "removed"}
    BY <1>5, <1>p, <2>1 DEF SleepStep, ParkingStep, Rouse, Swap, ParkReturn, CheckSignal, Poll, Rearm,
       Reload, Leave, AwaitSignal, Unlock, TakeWaker, StoreSignal, Wake, SignalNext, Goto
  <2> QED  BY <1>5, <2>2 DEF SleepStep, Unmoved, Initializing, ovars
<1> QED  BY <1>1, <1>2, <1>3, <1>4, <1>5 DEF CellStep, PlainStep

(* At most one initializer, and SIGNALED only for a value that is there. *)
LEMMA StepCell ==
  ASSUME OnceInv, NEW p \in Procs, CellStep(p)
  PROVE  SignalsInv' /\ CellInv' /\ OneInitializer' /\ SignaledMeansReady'
<1>t. /\ SignalsInv /\ CellInv /\ OneInitializer /\ SignaledMeansReady /\ NoProc \notin Procs
  BY ProcsAssumption DEF OnceInv
<1>f. \A r \in Procs \ {p} :
         /\ pc'[r] = pc[r] /\ seen'[r] = seen[r] /\ sent'[r] = sent[r]
         /\ value'[r] = value[r] \/ value'[r] = sent[p]
  BY StepParking DEF Frame
<1>o. \A r \in Procs \ {p} : Initializing(r)' <=> Initializing(r)
  BY <1>f DEF Initializing
<1>s. /\ value'[p] \in {value[p], "uninit", "waiting"}
      /\ seen'[p] \in {seen[p], value[p], "uninit"}
      /\ \/ sent'[p] \in {sent[p], "uninit", "retry"}
         \/ sent'[p] = "signaled" /\ pc[p] = "drain"
  BY StepSignals
<1>1. SignalsInv'
  <2> SUFFICES ASSUME NEW r \in Procs
               PROVE  value'[r] \in CellSignals /\ seen'[r] \in CellSignals /\ sent'[r] \in CellSignals
    BY DEF SignalsInv, CellSignals
  <2>1. \A q \in Procs : value[q] \in CellSignals /\ seen[q] \in CellSignals /\ sent[q] \in CellSignals
    BY <1>t DEF SignalsInv
  <2>2. CASE r = p
    BY <1>s, <2>1, <2>2 DEF CellSignals
  <2>3. CASE r # p
    BY <1>f, <2>1, <2>3
  <2> QED  BY <2>2, <2>3
<1>2. ASSUME NEW r \in Procs, "signaled" \in {value'[r], seen'[r], sent'[r]} PROVE state = "ready"
  <2>1. \A q \in Procs : "signaled" \in {value[q], seen[q], sent[q]} \/ pc[q] = "drain" => state = "ready"
    BY <1>t DEF SignaledMeansReady, CellInv
  <2>2. CASE r = p
    BY <1>2, <1>s, <2>1, <2>2
  <2>3. CASE r # p
    BY <1>2, <1>f, <2>1, <2>3
  <2> QED  BY <2>2, <2>3
<1>i. Initializing(p) => state = "running"
  BY <1>t DEF OneInitializer
<1>3. CASE Unmoved(p)
  <2>1. state' = state /\ \A r \in Procs : Initializing(r)' <=> Initializing(r)
    BY <1>3, <1>o DEF Unmoved
  <2>2. OneInitializer'
    BY <1>t, <2>1 DEF OneInitializer
  <2>3. CellInv'
    <3>1. content' \in Procs \cup {NoProc}
      BY <1>3, <1>t DEF Unmoved, CellInv
    <3>2. ASSUME NEW r \in Procs, pc'[r] \in {"drainLock", "drain"} PROVE state' = "ready"
      <4>1. pc[r] \in {"drainLock", "drain"}
        BY <1>3, <1>f, <3>2 DEF Unmoved
      <4> QED  BY <1>t, <2>1, <4>1 DEF CellInv
    <3>3. ASSUME NEW r \in Procs, pc'[r] = "complete" PROVE content' # NoProc
      BY <1>3, <1>t, <1>f, <3>3 DEF Unmoved, CellInv
    <3> QED  BY <1>t, <2>1, <3>1, <3>2, <3>3 DEF CellInv
  <2>4. SignaledMeansReady'
    BY <1>2, <1>3, <1>t, <2>1 DEF SignaledMeansReady, Unmoved
  <2> QED  BY <1>1, <2>2, <2>3, <2>4
<1>4. CASE state = "empty" /\ state' = "running" /\ content' = content /\ pc'[p] \in {"init", "write"}
  <2>1. Initializing(p)' /\ \A r \in Procs : ~Initializing(r)
    BY <1>4, <1>t DEF Initializing, OneInitializer
  <2>2. OneInitializer'
    BY <1>4, <1>o, <2>1 DEF OneInitializer
  <2>3. \A r \in Procs : pc'[r] \notin {"drainLock", "drain", "complete"}
    BY <1>4, <1>f, <1>t, <2>1 DEF CellInv, Initializing
  <2>4. CellInv'
    BY <1>4, <1>t, <2>3 DEF CellInv
  <2>5. SignaledMeansReady'
    BY <1>2, <1>4, <1>t DEF SignaledMeansReady
  <2> QED  BY <1>1, <2>2, <2>4, <2>5
<1>5. CASE /\ content' = content
           /\ \/ pc[p] = "complete" /\ state' = "ready" /\ pc'[p] = "drainLock"
              \/ pc[p] = "abort" /\ state' = "empty" /\ pc'[p] = "retryLock"
  <2>1. Initializing(p) /\ ~Initializing(p)' /\ state = "running"
    BY <1>5, <1>i DEF Initializing
  <2>2. \A r \in Procs : ~Initializing(r)'
    BY <1>o, <1>t, <2>1 DEF OneInitializer
  <2>3. OneInitializer'
    BY <1>5, <2>2 DEF OneInitializer
  <2>4. \A r \in Procs : pc'[r] \in {"drainLock", "drain"} => state' = "ready"
    BY <1>5, <1>f, <1>t, <2>1 DEF CellInv
  <2>5. \A r \in Procs : pc'[r] # "complete"
    BY <2>2 DEF Initializing
  <2>6. CellInv'
    BY <1>5, <1>t, <2>4, <2>5 DEF CellInv
  <2>7. state' = "ready" => content' # NoProc
    BY <1>5, <1>t DEF CellInv
  <2>8. SignaledMeansReady'
    BY <1>2, <2>1, <2>7 DEF SignaledMeansReady
  <2> QED  BY <1>1, <2>3, <2>6, <2>8
<1> QED  BY <1>3, <1>4, <1>5, StepState

(* As long as the cell is empty and has waiters, whoever revives it goes on *)
(* or passes the role to a waiter.                                          *)
LEMMA ReviverGoesOn ==
  ASSUME OnceInv, NEW p \in Procs, CellStep(p), Reviving(p),
         state = "empty", state' = "empty", line # <<>>
  PROVE  \E r \in Procs : Reviving(r)'
<1>t. ParkingTypeOK /\ PointsOK /\ Local(p)
  BY DEF OnceInv, ParkingInv
<1>p. pc = [r \in Procs |-> pc[r]]
  BY <1>t DEF PointsOK
<1>s. /\ value[p] \in {"uninit", "waiting", "retry"} /\ seen[p] \in {"uninit", "waiting", "retry"}
      /\ ~Initializing(p) /\ pc[p] \notin {"drainLock", "drain"}
  BY DEF OnceInv, SignalsInv, CellSignals, SignaledMeansReady, OneInitializer, CellInv
<1>a. pc'[p] \notin {"clear", "unlock"} => At(p)' = pc'[p]
  BY DEF At
<1>1. CASE PlainStep(p)
  <2>1. pc'[p] \in {"inspect", "begin", "enqueue", "fresh", "retry"}
    <3>1. CASE Get(p) \/ Begin(p) \/ Set(p)
      BY <1>p, <3>1 DEF Get, Begin, Set, Goto
    <3>2. CASE Inspect(p) \/ Enqueue(p)
      BY <1>p, <3>2 DEF Inspect, Enqueue, Goto
    <3>3. CASE LockLine(p)
      BY <1>p, <1>s, <3>3 DEF LockLine, NobodyInLine, Goto
    <3> QED  BY <1>1, <1>s, <3>1, <3>2, <3>3 DEF PlainStep, Initialize, Write, Complete, Abort,
                Initializing
  <2> QED  BY <1>a, <2>1 DEF Reviving
<1>2. CASE EndStep(p)
  <2>1. chain' = chain
    BY <1>2, EndFacts DEF signalVars
  <2>2. CASE Fresh(p)
    <3>1. At(p)' = "inspect"
      BY <1>2, <2>2, EndFacts DEF Fresh, At
    <3> QED  BY <3>1 DEF Reviving
  <2>3. CASE Finish(p)
    BY <1>a, <1>p, <1>s, <2>3 DEF Finish, Goto, Reviving
  <2>4. CASE Drop(p)
    <3>1. value[p] = "retry" => pc'[p] = "retryLock"
      BY <1>p, <2>4 DEF Drop, Goto
    <3>2. value[p] # "retry" => chain[p] # <<>>
      BY <1>s, <2>4 DEF Drop, Reviving, At, Delivered
    <3> QED  BY <1>a, <2>1, <3>1, <3>2 DEF Reviving
  <2>5. CASE Return(p)
    <3>1. seen[p] = "retry" => pc'[p] = "retryLock"
      BY <1>p, <2>5, SMTT(20) DEF Return, Goto
    <3>2. pc[p] = "awaited" => seen[p] = "retry"
      BY <1>s, <1>t, SMTT(20) DEF Local, Received, At, Delivered
    <3>3. pc[p] = "removed" => chain[p] # <<>>
      BY <1>t DEF Local, At, Reviving
    <3> QED  BY <1>a, <2>1, <2>5, <3>1, <3>2, <3>3 DEF Return, Reviving
  <2> QED  BY <1>2, <2>2, <2>3, <2>4, <2>5 DEF EndStep
<1>3. CASE LineStep(p)
  <2>1. CASE pc[p] = "remove"
    <3>1. chain' = chain /\ value' = value
      BY <1>3, <2>1, LineFacts DEF signalVars, nodeVars
    <3>2. chain[p] # <<>> \/ Delivered(value[p])
      BY <2>1 DEF Reviving, At
    <3> QED  BY <3>1, <3>2 DEF Reviving
  <2>2. CASE pc[p] # "remove"
    <3>1. pc'[p] = "unlock" /\ ret'[p] = "signal"
      BY <1>3, <1>s, <2>2, LineFacts
    <3>2. At(p)' = "signal"
      BY <3>1 DEF At
    <3> QED  BY <3>2 DEF Reviving
  <2> QED  BY <2>1, <2>2
<1>4. CASE SleepStep(p)
  <2>1. CASE \/ Swap(p) \/ CheckSignal(p) \/ Poll(p) \/ Reload(p) \/ AwaitSignal(p)
             \/ ParkReturn(p) \/ Rearm(p) \/ Leave(p)
    <3>1. pc[p] \in {"swap", "check", "pending", "reload", "await", "park", "rearm", "leave"}
      BY <2>1 DEF Swap, CheckSignal, Poll, Reload, AwaitSignal, ParkReturn, Rearm, Leave
    <3>2. chain[p] # <<>> \/ Delivered(value[p])
      BY <3>1 DEF Reviving, At
    <3>3. chain' = chain
      BY <2>1 DEF Swap, CheckSignal, Poll, Reload, AwaitSignal, ParkReturn, Rearm, Leave, signalVars
    <3>4. Delivered(value[p]) => pc'[p] = "woken" \/ value'[p] = value[p]
      BY <1>p, <2>1 DEF Swap, CheckSignal, Poll, Reload, AwaitSignal, ParkReturn, Rearm, Leave,
         nodeVars, Goto
    <3> QED  BY <1>a, <3>2, <3>3, <3>4 DEF Reviving
  <2>2. CASE Unlock(p)
    <3>1. CASE ret[p] = "signal"
      <4>1. pc[p] = "unlock" /\ SignalNext(p) /\ chain[p] # <<>>
        BY <1>t, <2>2, <3>1 DEF Unlock, Local, At
      <4> QED  BY <1>p, <4>1 DEF SignalNext, Goto, Reviving
    <3>2. CASE ret[p] # "signal"
      <4>1. /\ pc[p] = "unlock" /\ pc'[p] = ret[p] /\ value' = value /\ chain' = chain
        BY <1>p, <2>2, <3>2 DEF Unlock, Goto, nodeVars
      <4>2. At(p) = ret[p] /\ At(p)' = ret[p]
        BY <1>a, <1>t, <4>1 DEF At, PointsOK
      <4> QED  BY <4>1, <4>2 DEF Reviving
    <3> QED  BY <3>1, <3>2
  <2>3. CASE TakeWaker(p)
    <3>1. pc'[p] \in {"store", "storeWake"}
      BY <1>p, <2>3 DEF TakeWaker, Goto
    <3>2. pc'[p] # "store"
      BY StepParking DEF ParkingInv, SignalerInv
    <3> QED  BY <3>1, <3>2 DEF Reviving
  <2>4. CASE StoreSignal(p)
    <3>1. node[p] \in Procs /\ Delivered(sent[p])
      BY <2>4 DEF StoreSignal, OnceInv, ParkingInv, SignalerInv, Signaling
    <3>2. Delivered(value'[node[p]])
      BY <1>t, <2>4, <3>1 DEF StoreSignal, ParkingTypeOK
    <3> QED  BY <3>1, <3>2 DEF Reviving
  <2>5. CASE Wake(p)
    <3>1. chain[p] # <<>> \/ Delivered(value[p])
      BY <2>5 DEF Wake, Reviving, At
    <3>2. chain' = chain /\ value' = value
      BY <2>5 DEF Wake
    <3> QED  BY <3>1, <3>2 DEF Reviving
  <2> QED  BY <1>4, <2>1, <2>2, <2>3, <2>4, <2>5 DEF SleepStep, ParkingStep, Rouse
<1> QED  BY <1>1, <1>2, <1>3, <1>4 DEF CellStep

(* Waiters keep an initializer, a drain or a reviver. *)
LEMMA StepLine ==
  ASSUME OnceInv, NEW p \in Procs, CellStep(p)
  PROVE  LineInv'
<1> SUFFICES ASSUME line' # <<>>
             PROVE  \/ state' = "running"
                    \/ state' = "ready" /\ \E r \in Procs : Draining(r)'
                    \/ state' = "empty" /\ \E r \in Procs : Reviving(r)'
  BY DEF LineInv
<1>f. Frame(p)
  BY StepParking
<1>l. LineInv
  BY DEF OnceInv
<1>1. CASE pc'[p] = "drainLock" /\ state' = "ready"
  BY <1>1 DEF Draining
<1>2. CASE pc'[p] = "retryLock" /\ state' = "empty"
  BY <1>2 DEF Reviving, At
<1>3. CASE Unmoved(p) /\ state # "running"
  <2>1. state' = state /\ state \in {"empty", "ready"}
    BY <1>3 DEF Unmoved, OnceInv, CellInv
  <2>2. line # <<>> /\ ~Drain(p)
    <3>1. CASE LineStep(p)
      <4>1. line # <<>> \/ (pc[p] = "remove" /\ line' = line)
        <5>1. ASSUME NEW k \in 1 .. Len(line) PROVE line # <<>>
          BY SMT
        <5> QED  BY <1>3, <3>1, <5>1, LineFacts DEF Position
      <4>2. Drain(p) => line' = <<>>
        <5>1. line \in Seq(Procs)
          BY DEF OnceInv, ParkingInv, ParkingTypeOK
        <5>2. SubSeq(line, Len(line) + 1, Len(line)) = <<>>
          BY <5>1, SMT
        <5> QED  BY <5>2 DEF Drain, PopAndSignal, PopNodes
      <4> QED  BY <4>1, <4>2
    <3>2. CASE ~LineStep(p)
      <4>1. line' = line
        BY <3>2, PlainFacts, EndFacts DEF CellStep, SleepStep, ParkingStep, Rouse, Swap, ParkReturn,
           CheckSignal, Poll, Rearm, Reload, Leave, AwaitSignal, Unlock, TakeWaker, StoreSignal, Wake,
           LockExisting, LockQueue, UnlockQueue, qvars
      <4> QED  BY <3>2, <4>1 DEF LineStep
    <3> QED  BY <3>1, <3>2
  <2>3. CASE state = "ready"
    <3>1. PICK r \in Procs : Draining(r)
      BY <1>l, <2>2, <2>3 DEF LineInv
    <3>2. CASE r # p
      BY <1>f, <2>1, <2>3, <3>1, <3>2 DEF Frame, Draining
    <3>3. CASE r = p
      <4>1. pc[p] \in {"drainLock", "drain"} /\ pc = [q \in Procs |-> pc[q]]
        BY <3>1, <3>3 DEF Draining, OnceInv, ParkingInv, PointsOK
      <4>2. LockLine(p)
        BY <2>2, <4>1 DEF CellStep, PlainStep, Get, Inspect, Begin, Set, Initialize, Write, Complete,
           Abort, Enqueue, EndStep, Fresh, Finish, Drop, Return, LineStep, Retry, Remove, SleepStep,
           ParkingStep, Rouse, Swap, ParkReturn, CheckSignal, Poll, Rearm, Reload, Leave, AwaitSignal,
           Unlock, TakeWaker, StoreSignal, Wake
      <4>3. pc'[p] = "drain"
        BY <2>2, <4>1, <4>2 DEF LockLine, NobodyInLine, Goto
      <4> QED  BY <2>1, <2>3, <4>3 DEF Draining
    <3> QED  BY <3>2, <3>3
  <2>4. CASE state = "empty"
    <3>1. PICK r \in Procs : Reviving(r)
      BY <1>l, <2>2, <2>4 DEF LineInv
    <3>2. CASE r # p
      <4>1. pc'[r] = pc[r] /\ ret'[r] = ret[r] /\ chain'[r] = chain[r]
        BY <1>f, <3>2 DEF Frame
      <4>2. At(r)' = At(r)
        BY <4>1 DEF At
      <4>3. Delivered(value[r]) => value'[r] = value[r]
        <5>1. Delivered(value[r]) => ~Busy(r)
          BY DEF OnceInv, ParkingInv, AliveInv
        <5> QED  BY <1>f, <3>2, <5>1 DEF Frame
      <4> QED  BY <2>1, <2>4, <3>1, <4>1, <4>2, <4>3 DEF Reviving
    <3>3. CASE r = p
      BY <2>1, <2>2, <2>4, <3>1, <3>3, ReviverGoesOn
    <3> QED  BY <3>2, <3>3
  <2> QED  BY <2>1, <2>3, <2>4
<1> QED  BY <1>1, <1>2, <1>3, StepState DEF Unmoved

(* A step of one process keeps the invariant. *)
LEMMA CellStepKeeps ==
  ASSUME OnceInv, NEW p \in Procs, CellStep(p)
  PROVE  OnceInv'
BY StepParking, StepLocal, StepCell, StepLine DEF OnceInv

(* take finds nobody at the cell, and the line empty. *)
LEMMA TakeKeeps ==
  ASSUME OnceInv, Take
  PROVE  OnceInv'
<1>1. /\ UNCHANGED <<holder, line, pc, value, slot, awake, seen, ret, chain, sent, node>>
      /\ state = "ready" /\ state' = "empty" /\ content' = NoProc
      /\ \A p \in Procs : pc[p] = "idle"
  BY DEF Take, pvars, qvars, nodeVars, signalVars
<1>2. ParkingInv'
  BY ParkingUnchanged DEF OnceInv, Take
<1>3. \A p \in Procs : Local(p)'
  BY <1>1, SMT DEF OnceInv, Local, Locking, Prepared, HasNode, Received, Parked, Signaling, At
<1>4. SignalsInv'
  BY <1>1 DEF OnceInv, SignalsInv
<1>5. CellInv' /\ OneInitializer'
  BY <1>1 DEF OnceInv, CellInv, OneInitializer, Initializing
<1>6. \A p \in Procs : value[p] = "uninit" /\ seen[p] = "uninit" /\ sent[p] = "uninit"
  BY <1>1 DEF OnceInv, Local, HasNode, Received, Parked, Signaling, At
<1>7. SignaledMeansReady'
  BY <1>1, <1>6 DEF SignaledMeansReady
<1>8. line = <<>>
  <2> SUFFICES ASSUME line # <<>> PROVE FALSE
    OBVIOUS
  <2>1. line[1] \in Procs /\ InLine(line[1])
    BY SMT DEF OnceInv, ParkingInv, ParkingTypeOK, InLine, Among
  <2>2. Parked(line[1])
    BY <2>1 DEF OnceInv, ParkingInv, AliveInv, Busy
  <2> QED  BY <1>1, <2>1, <2>2 DEF Parked, At
<1>9. LineInv'
  BY <1>1, <1>8 DEF LineInv
<1> QED  BY <1>2, <1>3, <1>4, <1>5, <1>7, <1>9 DEF OnceInv

(* Nothing happens to the cell. *)
LEMMA StutterKeeps ==
  ASSUME OnceInv, UNCHANGED vars
  PROVE  OnceInv'
<1>1. UNCHANGED <<holder, line, pc, value, slot, awake, seen, ret, chain, sent, node, state, content>>
  BY DEF vars, pvars, qvars, nodeVars, signalVars, ovars
<1>2. ParkingInv'
  BY ParkingUnchanged DEF OnceInv, vars
<1>3. \A p \in Procs : Local(p)'
  BY <1>1, SMT DEF OnceInv, Local, Locking, Prepared, HasNode, Received, Parked, Signaling, At
<1>4. SignalsInv' /\ CellInv' /\ OneInitializer' /\ SignaledMeansReady'
  BY <1>1 DEF OnceInv, SignalsInv, CellInv, OneInitializer, SignaledMeansReady, Initializing
<1>5. LineInv'
  BY <1>1 DEF OnceInv, LineInv, Draining, Reviving, At
<1> QED  BY <1>2, <1>3, <1>4, <1>5 DEF OnceInv

(* A new cell, empty or with a value. *)
LEMMA StartsWell == Init => OnceInv
<1> SUFFICES ASSUME Init PROVE OnceInv
  OBVIOUS
<1>1. /\ ParkingInit /\ line = <<>> /\ state \in {"empty", "ready"}
      /\ content \in Procs \cup {NoProc} /\ (state = "ready" => content # NoProc)
  BY ProcsAssumption DEF Init, ParkingInit, QueueInit
<1>2. ParkingInv
  BY <1>1, ParkingStart
<1>3. \A p \in Procs : /\ pc[p] = "idle" /\ value[p] = "uninit" /\ seen[p] = "uninit"
                       /\ sent[p] = "uninit" /\ ret[p] = "idle"
  BY <1>1 DEF ParkingInit
<1>4. \A p \in Procs : Local(p)
  BY <1>3 DEF Local, Locking, HasNode, Received, Parked, Signaling, At
<1>5. SignalsInv /\ CellInv /\ OneInitializer /\ SignaledMeansReady
  BY <1>1, <1>3 DEF SignalsInv, CellSignals, CellInv, OneInitializer, SignaledMeansReady, Initializing
<1>6. LineInv
  BY <1>1 DEF LineInv
<1> QED  BY <1>2, <1>4, <1>5, <1>6 DEF OnceInv

(* Whatever the callers of get_or_init, set and take do, and whichever      *)
(* initializers fail and futures are dropped, OnceInv holds.                *)
THEOREM OnceInvariance == Spec => []OnceInv
<1>1. Init => OnceInv
  BY StartsWell
<1>2. OnceInv /\ [Next]_vars => OnceInv'
  <2> SUFFICES ASSUME OnceInv, [Next]_vars PROVE OnceInv'
    OBVIOUS
  <2>1. CASE \E p \in Procs : CellStep(p)
    BY <2>1, CellStepKeeps
  <2>2. CASE Take
    BY <2>2, TakeKeeps
  <2>3. CASE UNCHANGED vars
    BY <2>3, StutterKeeps
  <2>4. Next => Take \/ \E p \in Procs : CellStep(p)
    BY DEF Next, Step, CellStep, PlainStep, EndStep, LineStep, SleepStep
  <2> QED  BY <2>1, <2>2, <2>3, <2>4
<1> QED  BY <1>1, <1>2, PTL DEF Spec

(* try_begin_init against complete, abort and take: RUNNING always has      *)
(* exactly one owner.                                                       *)
THEOREM OneInitializerHolds == Spec => []OneInitializer
<1>1. OnceInv => OneInitializer
  BY DEF OnceInv
<1> QED  BY <1>1, OnceInvariance, PTL

(* A waiter that is told SIGNALED finds the value written.                  *)
THEOREM SignaledMeansReadyHolds == Spec => []SignaledMeansReady
<1>1. OnceInv => SignaledMeansReady
  BY DEF OnceInv
<1> QED  BY <1>1, OnceInvariance, PTL

(* The once-cell signals no Signal that is gone, none twice, and wakes      *)
(* whoever sleeps on its signal.                                            *)
THEOREM WaitersSafeHolds == Spec => []WaitersSafe
<1>1. OnceInv => WaitersSafe
  BY InvSafe DEF OnceInv
<1> QED  BY <1>1, OnceInvariance, PTL

(* Nobody is left in line by an initializer that failed, panicked or was    *)
(* dropped (abort, wake_one_retry and cancel_wait).                         *)
THEOREM NobodyStrandedHolds == Spec => []NobodyStranded
<1>1. OnceInv => NobodyStranded
  <2> SUFFICES ASSUME OnceInv, line # <<>>, state # "running" PROVE \E p \in Procs : OnTheWay(p)
    BY DEF NobodyStranded
  <2>1. PICK p \in Procs : Draining(p) \/ Reviving(p)
    BY DEF OnceInv, LineInv
  <2>2. pc[p] = "take" => chain[p] # <<>>
    BY DEF OnceInv, ParkingInv, SignalerInv
  <2>3. pc[p] = "storeWake" => node[p] # NoProc
    BY ProcsAssumption DEF OnceInv, ParkingInv, SignalerInv
  <2>4. Draining(p) => At(p) \in {"drainLock", "drain"}
    BY DEF Draining, At
  <2> QED  BY <2>1, <2>2, <2>3, <2>4 DEF Reviving, OnTheWay
<1> QED  BY <1>1, OnceInvariance, PTL
=============================================================================
