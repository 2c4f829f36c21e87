---------------------------- MODULE NotifyProofs ----------------------------
(***************************************************************************)
(* The notifier for any number of threads and tasks: every notify_one that *)
(* is not absorbed completes exactly one wait, nobody sleeps beside a      *)
(* permit, and a generation that is over leaves the line.                  *)
(***************************************************************************)
EXTENDS Notify, ParkingProofs, FiniteSetTheorems

(* Zenon is tried on every leaf that names no other prover. *)
USE Zenon

(* Points where a process holds the lock of the queue. *)
Locking(p) == pc[p] \in {"flag", "grab", "pop", "select", "remove", "clear", "unlock"}

(* The wait of p has a Signal. *)
HasNode(p) == Parked(p) \/ At(p) \in {"enqueue", "flag", "grab", "woken", "removed", "awaited"}

Received(p) == At(p) \in {"woken", "awaited"}

(* What each process knows about itself. *)
Local(p) ==
    /\ pc[p] \in {"clear", "unlock"} =>
          ret[p] \in {"idle", "swap", "pending", "signal", "await", "removed"}
    /\ Locking(p) => holder = p
    /\ pc[p] = "pop" => line # <<>>
    /\ pc[p] \in {"enqueue", "flag", "grab"} => Prepared(p)
    /\ At(p) = "removed" => ~Delivered(value[p])
    /\ ~HasNode(p) => value[p] = "uninit"
    /\ IF Received(p) THEN Delivered(seen[p]) /\ (Delivered(value[p]) => value[p] = seen[p])
                      ELSE seen[p] = "uninit"
    /\ ~Signaling(p) /\ At(p) # "signal" => sent[p] = "uninit"
    /\ pc[p] = "grab" => hasQueue = TRUE
    /\ pc[p] = "clear" => line = <<>>
    /\ pc[p] = "unlock" /\ line = <<>> => hasQueue = FALSE

WordInv ==
    /\ hasQueue \in BOOLEAN /\ permit \in BOOLEAN /\ behind \in [Procs -> Nat]
    /\ FlagMeansLine /\ NobodySleepsOnPermit

(* Those who deliver a notification of notify_one, or have got one. *)
Carriers == {p \in Procs : Carries(p)}

CountInv ==
    /\ IsFiniteSet(Carriers)
    /\ owed = Cardinality(Carriers) + (IF permit THEN 1 ELSE 0)

NotifyInv ==
    /\ ParkingInv /\ (\A p \in Procs : Local(p))
    /\ WordInv /\ OldOnesReleased /\ CountInv

-----------------------------------------------------------------------------
(* Steps on the state word, and the way to the lock of the queue. *)
WordStep(p) ==
    \/ Wait(p) \/ TryComplete(p) \/ Disarm(p) \/ Enqueue(p) \/ (Flag(p) /\ InCurrent(p) /\ permit)
    \/ NotifyOne(p) \/ Notify(p) \/ NotifyLock(p) \/ NotifyWaiters(p) \/ Sweep(p)

(* The end of a wait, or of the attempt to begin one. *)
EndStep(p) ==
    \/ (Flag(p) /\ ~InCurrent(p)) \/ (Grab(p) /\ Finished(p))
    \/ Finish(p) \/ Drop(p) \/ Return(p)

LineStep(p) ==
    \/ (Flag(p) /\ InCurrent(p) /\ ~permit) \/ (Grab(p) /\ Push(p))
    \/ Pop(p) \/ Select(p) \/ Remove(p)

ClearStep(p) == Clear(p) /\ UNCHANGED others

SleepStep(p) == (ParkingStep(p) \/ Rouse(p)) /\ UNCHANGED nvars

NotifyStep(p) == WordStep(p) \/ EndStep(p) \/ LineStep(p) \/ ClearStep(p) \/ SleepStep(p)

(* Points outside the queue, without a Signal. *)
Outside(at) == at \in {"idle", "armed", "again", "notify", "notifyLock", "sweep"}

(* Where the steps on the state word lead. *)
WordMove(p) ==
    /\ \/ Outside(pc[p]) /\ Outside(pc'[p]) /\ UNCHANGED nodeVars /\ holder' = holder
       \/ pc[p] \in {"armed", "again"} /\ pc'[p] = "enqueue" /\ PrepareNode(p) /\ holder' = holder
       \/ pc[p] = "enqueue" /\ pc'[p] = "flag" /\ UNCHANGED nodeVars /\ holder = NoProc /\ holder' = p
       \/ /\ pc[p] = "notifyLock" /\ pc'[p] = "pop" /\ line # <<>>
          /\ UNCHANGED nodeVars /\ holder = NoProc /\ holder' = p
       \/ pc[p] = "sweep" /\ pc'[p] = "select" /\ UNCHANGED nodeVars /\ holder = NoProc /\ holder' = p
       \/ pc[p] = "flag" /\ pc'[p] = "grab" /\ UNCHANGED nodeVars /\ holder' = holder
    /\ \A r \in Procs \ {p} : pc'[r] = pc[r]
    /\ pc' = [r \in Procs |-> pc'[r]]
    /\ line' = line /\ UNCHANGED <<ret, signalVars>>
    /\ IF pc[p] = "flag" THEN hasQueue' = TRUE ELSE hasQueue' = hasQueue

(* They lead where WordMove says. *)
LEMMA WordFacts ==
  ASSUME NotifyInv, NEW p \in Procs, WordStep(p)
  PROVE  WordMove(p)
<1>p. pc = [r \in Procs |-> pc[r]]
  BY DEF NotifyInv, ParkingInv, PointsOK
<1>1. CASE Wait(p) \/ Disarm(p) \/ NotifyOne(p) \/ NotifyWaiters(p)
  BY <1>p, <1>1 DEF Wait, Disarm, NotifyOne, NotifyWaiters, Goto, qvars, nvars, WordMove, Outside
<1>2. CASE TryComplete(p)
  BY <1>p, <1>2 DEF TryComplete, Goto, qvars, WordMove, Outside
<1>3. CASE Notify(p)
  BY <1>p, <1>3 DEF Notify, Store, Goto, qvars, WordMove, Outside
<1>4. CASE Enqueue(p) \/ NotifyLock(p) \/ Sweep(p)
  BY <1>p, <1>4 DEF Enqueue, NotifyLock, Sweep, LockExisting, LockQueue, Goto, qvars, nvars, WordMove, Outside
<1>5. CASE Flag(p) /\ InCurrent(p) /\ permit
  BY <1>p, <1>5 DEF Flag, Push, Goto, WordMove
<1> QED  BY <1>1, <1>2, <1>3, <1>4, <1>5 DEF WordStep

(* They keep the invariant of waiting, and out of the way of others. *)
LEMMA WordParking ==
  ASSUME NotifyInv, NEW p \in Procs, WordMove(p)
  PROVE  ParkingInv' /\ Frame(p)
<1>1. /\ Outside(pc[p]) \/ pc[p] \in {"enqueue", "flag"}
      /\ Outside(pc'[p]) \/ pc'[p] \in {"enqueue", "flag", "grab", "pop", "select"}
      /\ holder' = holder \/ (holder = NoProc /\ holder' = p)
  BY DEF WordMove, Outside
<1>2. /\ ~Parked(p) /\ ~Parked(p)' /\ ~Asleep(p)' /\ ~Signaling(p) /\ ~Signaling(p)'
      /\ At(p)' # "signal"
  BY <1>1 DEF Parked, Asleep, Signaling, At, Outside
<1>3. ~Busy(p)
  BY <1>2 DEF NotifyInv, ParkingInv, AliveInv
<1>4. /\ \A r \in Procs \ {p} : pc'[r] = pc[r] /\ ret'[r] = ret[r]
      /\ pc' = [r \in Procs |-> pc'[r]] /\ ret' = ret /\ UNCHANGED <<line, signalVars>>
  BY DEF WordMove
<1>5. PrepareNode(p) \/ UNCHANGED nodeVars
  BY DEF WordMove
<1> QED  BY <1>1, <1>2, <1>3, <1>4, <1>5, OwnMove DEF NotifyInv

(* How a wait ends. *)
EndMove(p) ==
    /\ \/ /\ pc[p] \in {"flag", "grab"} /\ pc'[p] = (IF line = <<>> THEN "clear" ELSE "unlock")
          /\ ret' = [ret EXCEPT ![p] = "idle"] /\ FreeNode(p) /\ Complete(p) /\ hasQueue' = TRUE
       \/ /\ pc[p] = "woken" /\ pc'[p] = "idle" /\ ret' = ret /\ FreeNode(p)
          /\ owed' = (IF seen[p] = "signaled" THEN owed - 1 ELSE owed) /\ UNCHANGED <<hasQueue, permit>>
       \/ /\ pc[p] \in {"awaited", "removed"} /\ pc'[p] = (IF seen[p] = "signaled" THEN "notify" ELSE "idle")
          /\ ret' = ret /\ FreeNode(p) /\ UNCHANGED nvars
       \/ /\ pc[p] = "pending" /\ value[p] # "waiting"
          /\ pc'[p] = (IF value[p] = "signaled" THEN "notify" ELSE "idle")
          /\ ret' = ret /\ FreeNode(p) /\ UNCHANGED nvars
       \/ /\ pc[p] = "pending" /\ value[p] = "waiting" /\ pc'[p] = "leave"
          /\ ret' = ret /\ UNCHANGED nodeVars /\ UNCHANGED nvars
    /\ \A r \in Procs \ {p} : pc'[r] = pc[r]
    /\ pc' = [r \in Procs |-> pc'[r]]
    /\ UNCHANGED <<holder, line, signalVars, behind>>

(* As EndMove says. *)
LEMMA EndFacts ==
  ASSUME NotifyInv, NEW p \in Procs, EndStep(p)
  PROVE  EndMove(p)
<1>p. pc = [r \in Procs |-> pc[r]]
  BY DEF NotifyInv, ParkingInv, PointsOK
<1>1. CASE (Flag(p) /\ ~InCurrent(p)) \/ (Grab(p) /\ Finished(p))
  <2>1. /\ pc[p] \in {"flag", "grab"} /\ Finished(p) /\ hasQueue' = TRUE
        /\ UNCHANGED <<holder, signalVars, behind>>
    <3>1. pc[p] = "grab" => hasQueue = TRUE
      BY DEF NotifyInv, Local
    <3> QED  BY <1>1, <3>1 DEF Flag, Push, Grab
  <2> QED  BY <1>p, <2>1 DEF Finished, ThenClear, Goto, EndMove
<1>2. CASE Finish(p)
  BY <1>p, <1>2 DEF Finish, Goto, qvars, EndMove
<1>3. CASE Return(p)
  BY <1>p, <1>3 DEF Return, Goto, qvars, nvars, others, EndMove
<1>4. CASE Drop(p)
  BY <1>p, <1>4 DEF Drop, Goto, qvars, nvars, others, EndMove
<1> QED  BY <1>1, <1>2, <1>3, <1>4 DEF EndStep

(* The end of a wait keeps the invariant of waiting too, *)
LEMMA EndParking ==
  ASSUME NotifyInv, NEW p \in Procs, EndMove(p)
  PROVE  ParkingInv' /\ Frame(p)
<1>t. ParkingTypeOK /\ PointsOK
  BY DEF NotifyInv, ParkingInv
<1>1. /\ pc[p] \in {"flag", "grab", "woken", "awaited", "removed", "pending"}
      /\ \/ pc'[p] \in {"clear", "unlock"} /\ ret' = [ret EXCEPT ![p] = "idle"] /\ FreeNode(p)
         \/ pc'[p] \in {"idle", "notify"} /\ ret' = ret /\ FreeNode(p)
         \/ pc[p] = "pending" /\ pc'[p] = "leave" /\ ret' = ret /\ UNCHANGED nodeVars
      /\ \A r \in Procs \ {p} : pc'[r] = pc[r] /\ ret'[r] = ret[r]
  BY <1>t DEF EndMove, PointsOK
<1>2. /\ ~Signaling(p) /\ ~Signaling(p)' /\ ~Asleep(p)' /\ At(p)' # "signal" /\ At(p) = pc[p]
      /\ Parked(p) <=> pc[p] = "pending"
      /\ Parked(p)' <=> pc'[p] = "leave"
  <2>1. pc'[p] \in {"clear", "unlock"} => ret'[p] = "idle"
    BY <1>t, <1>1 DEF PointsOK
  <2> QED  BY <1>1, <2>1 DEF Parked, Asleep, Signaling, At
<1>3. Busy(p) => pc'[p] = "leave"
  <2>1. Busy(p) => Parked(p) /\ ~Delivered(value[p])
    BY DEF NotifyInv, ParkingInv, AliveInv
  <2>2. pc[p] = "pending" => value[p] # "uninit"
    BY <1>2 DEF NotifyInv, ParkingInv, WaiterInv
  <2>3. value[p] \in {"uninit", "waiting"} \/ Delivered(value[p])
    BY <1>t DEF ParkingTypeOK, Signals, Delivered
  <2>4. pc[p] = "pending" /\ value[p] = "waiting" => pc'[p] = "leave"
    BY DEF EndMove
  <2> QED  BY <1>2, <2>1, <2>2, <2>3, <2>4
<1>4. pc'[p] = "leave" => Parked(p) /\ At(p) # "swap" /\ UNCHANGED nodeVars
  BY <1>1, <1>2
<1>5. PrepareNode(p) \/ FreeNode(p) \/ UNCHANGED nodeVars
  BY <1>1
<1>6. ret' = ret \/ ret' = [ret EXCEPT ![p] = "idle"]
  BY <1>1
<1>7. /\ holder' = holder /\ UNCHANGED <<line, signalVars>>
      /\ pc' = [r \in Procs |-> pc'[r]]
  BY DEF EndMove
<1> QED  BY <1>1, <1>2, <1>3, <1>4, <1>5, <1>6, <1>7, OwnMove DEF NotifyInv

(* Pushes, pops and removals. *)
LineMove(p) ==
    \E to :
        /\ Locked(p, to) /\ UNCHANGED others
        /\ pc'[p] = (IF line' = <<>> THEN "clear" ELSE "unlock")
        /\ \/ /\ pc[p] \in {"flag", "grab"} /\ InCurrent(p) /\ ~permit
              /\ line' = Append(line, p) /\ chain' = chain /\ sent' = sent /\ hasQueue' = TRUE
              /\ to = (IF p \in Threads THEN "swap" ELSE "pending")
           \/ /\ pc[p] = "pop" /\ to = "signal" /\ sent' = [sent EXCEPT ![p] = "signaled"]
              /\ chain' = [chain EXCEPT ![p] = <<Head(line)>>]
              /\ line' = SubSeq(line, 1 + 1, Len(line)) /\ hasQueue' = hasQueue
           \/ /\ pc[p] = "select" /\ to = "signal" /\ sent' = [sent EXCEPT ![p] = "all"]
              /\ \E k \in 0 .. Len(line) : /\ Leading(k)
                                           /\ chain' = [chain EXCEPT ![p] = SubSeq(line, 1, k)]
                                           /\ line' = SubSeq(line, k + 1, Len(line))
              /\ hasQueue' = hasQueue
           \/ /\ pc[p] = "remove" /\ chain' = chain /\ sent' = sent /\ hasQueue' = hasQueue
              /\ \/ Position(p) = {} /\ line' = line /\ to = "await"
                 \/ (\E k \in Position(p) : line' = Without(line, k)) /\ to = "removed"

(* They happen under the lock. *)
LEMMA LineFacts ==
  ASSUME NotifyInv, NEW p \in Procs, LineStep(p)
  PROVE  LineMove(p)
<1>p. pc = [r \in Procs |-> pc[r]]
  BY DEF NotifyInv, ParkingInv, PointsOK
<1>l. ASSUME NEW to, holder = p, ThenClear(p, to), UNCHANGED <<holder, nodeVars, node>>
      PROVE  Locked(p, to) /\ pc'[p] = (IF line' = <<>> THEN "clear" ELSE "unlock")
  BY <1>p, <1>l DEF Locked, ThenClear, Goto
<1>1. CASE (Flag(p) /\ InCurrent(p) /\ ~permit) \/ (Grab(p) /\ Push(p))
  <2>1. PICK to : to = IF p \in Threads THEN "swap" ELSE "pending"
    OBVIOUS
  <2>2. pc[p] \in {"flag", "grab"} /\ Push(p) /\ hasQueue' = TRUE /\ UNCHANGED <<holder, signalVars, behind>>
    <3>1. pc[p] = "grab" => hasQueue = TRUE
      BY DEF NotifyInv, Local
    <3> QED  BY <1>1, <3>1 DEF Flag, Grab
  <2>3. /\ InCurrent(p) /\ ~permit /\ holder = p /\ line' = Append(line, p) /\ ThenClear(p, to)
        /\ UNCHANGED <<holder, nodeVars, node, others>> /\ chain' = chain /\ sent' = sent
    BY <2>1, <2>2 DEF Push, PushNode, signalVars, others
  <2>4. Locked(p, to) /\ pc'[p] = (IF line' = <<>> THEN "clear" ELSE "unlock")
    BY <1>l, <2>3
  <2> QED  BY <2>1, <2>2, <2>3, <2>4 DEF LineMove
<1>2. CASE Pop(p)
  <2>1. /\ pc[p] = "pop" /\ sent' = [sent EXCEPT ![p] = "signaled"] /\ holder = p
        /\ ThenClear(p, "signal") /\ UNCHANGED <<holder, nodeVars, node, others>> /\ hasQueue' = hasQueue
        /\ chain' = [chain EXCEPT ![p] = <<Head(line)>>] /\ line' = SubSeq(line, 1 + 1, Len(line))
    BY <1>2 DEF Pop, PopNodes, nvars
  <2>2. Locked(p, "signal") /\ pc'[p] = (IF line' = <<>> THEN "clear" ELSE "unlock")
    BY <1>l, <2>1
  <2> QED  BY <2>1, <2>2 DEF LineMove
<1>3. CASE Select(p)
  <2>1. /\ pc[p] = "select" /\ sent' = [sent EXCEPT ![p] = "all"] /\ holder = p
        /\ ThenClear(p, "signal") /\ UNCHANGED <<holder, nodeVars, node, others>> /\ hasQueue' = hasQueue
        /\ \E k \in 0 .. Len(line) : /\ Leading(k)
                                     /\ chain' = [chain EXCEPT ![p] = SubSeq(line, 1, k)]
                                     /\ line' = SubSeq(line, k + 1, Len(line))
    BY <1>3 DEF Select, PopNodes, nvars
  <2>2. Locked(p, "signal") /\ pc'[p] = (IF line' = <<>> THEN "clear" ELSE "unlock")
    BY <1>l, <2>1
  <2> QED  BY <2>1, <2>2 DEF LineMove
<1>4. CASE Remove(p)
  <2>1. PICK to : to = IF Position(p) = {} THEN "await" ELSE "removed"
    OBVIOUS
  <2>2. /\ pc[p] = "remove" /\ holder = p /\ UNCHANGED <<holder, nodeVars, node, others>>
        /\ ThenClear(p, to) /\ chain' = chain /\ sent' = sent /\ hasQueue' = hasQueue
        /\ \/ \E k \in Position(p) : line' = Without(line, k)
           \/ Position(p) = {} /\ line' = line
    BY <1>4, <2>1 DEF Remove, RemoveNode, Without, nvars, signalVars
  <2>3. Locked(p, to) /\ pc'[p] = (IF line' = <<>> THEN "clear" ELSE "unlock")
    BY <1>l, <2>2
  <2> QED  BY <2>1, <2>2, <2>3 DEF LineMove
<1> QED  BY <1>1, <1>2, <1>3, <1>4 DEF LineStep

(* So does a change of the line, *)
LEMMA LineParking ==
  ASSUME NotifyInv, NEW p \in Procs, LineMove(p)
  PROVE  ParkingInv' /\ Frame(p)
<1>1. PICK to :
        /\ Locked(p, to)
        /\ \/ /\ pc[p] \in {"flag", "grab"} /\ line' = Append(line, p) /\ chain' = chain /\ sent' = sent
              /\ to = (IF p \in Threads THEN "swap" ELSE "pending")
           \/ /\ pc[p] = "pop" /\ to = "signal" /\ sent' = [sent EXCEPT ![p] = "signaled"]
              /\ chain' = [chain EXCEPT ![p] = <<Head(line)>>]
              /\ line' = SubSeq(line, 1 + 1, Len(line))
           \/ /\ pc[p] = "select" /\ to = "signal" /\ sent' = [sent EXCEPT ![p] = "all"]
              /\ \E k \in 0 .. Len(line) : /\ chain' = [chain EXCEPT ![p] = SubSeq(line, 1, k)]
                                           /\ line' = SubSeq(line, k + 1, Len(line))
           \/ /\ pc[p] = "remove" /\ chain' = chain /\ sent' = sent
              /\ \/ Position(p) = {} /\ line' = line /\ to = "await"
                 \/ (\E k \in Position(p) : line' = Without(line, k)) /\ to = "removed"
  BY DEF LineMove
<1>2. CASE pc[p] \in {"flag", "grab"}
  <2>1. Prepared(p) /\ ~Parked(p) /\ ~Signaling(p)
    BY <1>2 DEF NotifyInv, Local, Parked, At, Signaling
  <2> QED  BY <1>1, <1>2, <2>1, PushMove DEF NotifyInv
<1>3. CASE pc[p] \in {"pop", "select"}
  <2>1. ~Parked(p) /\ ~Signaling(p)
    BY <1>3 DEF Parked, At, Signaling
  <2>2. PICK signal \in Signals : Delivered(signal) /\ sent' = [sent EXCEPT ![p] = signal]
    BY <1>1, <1>3 DEF Signals, Delivered
  <2>3. PICK k \in 0 .. Len(line) : /\ chain' = [chain EXCEPT ![p] = SubSeq(line, 1, k)]
                                    /\ line' = SubSeq(line, k + 1, Len(line))
    <3>1. CASE pc[p] = "pop"
      <4>1. line \in Seq(Procs) /\ line # <<>>
        BY <3>1 DEF NotifyInv, Local, ParkingInv, ParkingTypeOK
      <4>2. 1 \in 0 .. Len(line) /\ Head(line) = line[1] /\ Head(line) \in Procs
        BY <4>1, SMT
      <4>3. /\ SubSeq(line, 1, 1) \in Seq(Procs) /\ Len(SubSeq(line, 1, 1)) = 1
            /\ SubSeq(line, 1, 1)[1] = line[1]
        BY <4>1, <4>2, SMT
      <4>4. SubSeq(line, 1, 1) = <<Head(line)>>
        <5>1. <<Head(line)>> \in Seq(Procs) /\ Len(<<Head(line)>>) = 1 /\ <<Head(line)>>[1] = line[1]
          BY <4>2, SMT
        <5>2. ASSUME NEW s \in Seq(Procs), Len(s) = 1, s[1] = line[1] PROVE s = [i \in 1 .. 1 |-> line[1]]
          <6>1. s = [i \in 1 .. 1 |-> s[i]]
            BY <5>2, SMT
          <6>2. \A i \in 1 .. 1 : i = 1
            BY SMT
          <6> QED  BY <5>2, <6>1, <6>2
        <5> QED  BY <4>3, <5>1, <5>2
      <4> QED  BY <1>1, <3>1, <4>2, <4>4
    <3> QED  BY <1>1, <1>3, <3>1
  <2>4. Locked(p, "signal")
    BY <1>1, <1>3
  <2> QED  BY <2>1, <2>2, <2>3, <2>4, PopMove DEF NotifyInv
<1>4. CASE pc[p] = "remove"
  BY <1>1, <1>4, RemoveMove DEF NotifyInv
<1> QED  BY <1>1, <1>2, <1>3, <1>4

(* ... clearing the flag, and every step of Parking. *)
LEMMA QueueParking ==
  ASSUME NotifyInv, NEW p \in Procs, ClearStep(p) \/ SleepStep(p)
  PROVE  ParkingInv' /\ Frame(p) /\ line' = line
<1>1. CASE ClearStep(p)
  BY <1>1, ClearMove DEF ClearStep, Clear, Goto, NotifyInv, qvars
<1>2. CASE SleepStep(p)
  BY <1>2, ParkingKeeps, ParkingFrame DEF NotifyInv, SleepStep
<1> QED  BY <1>1, <1>2

(* All the steps. *)
LEMMA StepParking ==
  ASSUME NotifyInv, NEW p \in Procs, NotifyStep(p)
  PROVE  ParkingInv' /\ Frame(p)
BY WordFacts, EndFacts, LineFacts, WordParking, EndParking, LineParking, QueueParking
   DEF NotifyStep

-----------------------------------------------------------------------------
(* Only who has the lock sets or clears HAS_QUEUE. *)
LEMMA FlagFrame ==
  ASSUME NotifyInv, NEW p \in Procs, NotifyStep(p)
  PROVE  hasQueue' = hasQueue \/ holder = p
<1>l. pc[p] \in {"flag", "grab", "clear"} => holder = p
  BY DEF NotifyInv, Local, Locking
<1>1. CASE WordStep(p)
  BY <1>1, <1>l, WordFacts DEF WordMove
<1>2. CASE EndStep(p)
  BY <1>2, <1>l, EndFacts DEF EndMove, nvars
<1>3. CASE LineStep(p)
  BY <1>3, LineFacts DEF LineMove, Locked
<1>4. CASE ClearStep(p) \/ SleepStep(p)
  BY <1>4, <1>l DEF ClearStep, Clear, SleepStep, nvars
<1> QED  BY <1>1, <1>2, <1>3, <1>4 DEF NotifyStep

(* What others know about themselves stays true. *)
LEMMA OthersLocal ==
  ASSUME NotifyInv, NEW p \in Procs, NotifyStep(p), NEW r \in Procs \ {p}
  PROVE  Local(r)'
<1>1. Local(r) /\ NoProc \notin Procs /\ Frame(p) /\ (hasQueue' = hasQueue \/ holder = p)
  BY ProcsAssumption, StepParking, FlagFrame DEF NotifyInv
<1>2. Busy(r) => Parked(r)
  BY DEF NotifyInv, ParkingInv, AliveInv
<1>3. /\ pc'[r] = pc[r] /\ ret'[r] = ret[r] /\ seen'[r] = seen[r] /\ sent'[r] = sent[r]
      /\ ~Busy(r) => value'[r] = value[r] /\ slot'[r] = slot[r]
      /\ holder' = holder \/ holder = NoProc \/ holder = p
      /\ line' = line \/ holder = p
  BY <1>1 DEF Frame
<1>4. /\ At(r)' = At(r) /\ (Parked(r)' <=> Parked(r)) /\ (Signaling(r)' <=> Signaling(r))
      /\ (HasNode(r)' <=> HasNode(r)) /\ (Received(r)' <=> Received(r))
      /\ (Locking(r)' <=> Locking(r))
  <2>1. At(r)' = At(r) /\ (Parked(r)' <=> Parked(r)) /\ (Signaling(r)' <=> Signaling(r))
    BY <1>3, SamePoint
  <2> QED  BY <1>3, <2>1 DEF HasNode, Received, Locking
<1>5. Locking(r) => holder' = r /\ line' = line /\ hasQueue' = hasQueue
  BY <1>1, <1>3 DEF Local
<1>6. pc[r] \in {"grab", "pop", "clear", "unlock"} => Locking(r)
  BY DEF Locking
<1>7. pc[r] \in {"enqueue", "flag", "grab"} \/ At(r) = "removed" \/ Received(r) => ~Parked(r)
  BY DEF Parked, At, Received
<1>8. pc[r] \in {"enqueue", "flag", "grab"} => Prepared(r)'
  BY <1>1, <1>2, <1>3, <1>7 DEF Local, Prepared, Tasks
<1>9. (At(r) = "removed" => ~Delivered(value'[r])) /\ (Received(r) => value'[r] = value[r])
  BY <1>1, <1>2, <1>3, <1>7 DEF Local
<1>10. ~HasNode(r) => value'[r] = "uninit"
  BY <1>1, <1>2, <1>3 DEF Local, HasNode
<1>11. /\ pc[r] = "pop" => line' # <<>>
       /\ pc[r] = "grab" => hasQueue' = TRUE
       /\ pc[r] = "clear" => line' = <<>>
       /\ pc[r] = "unlock" /\ line' = <<>> => hasQueue' = FALSE
  BY <1>1, <1>5, <1>6 DEF Local
<1> QED  BY <1>1, <1>3, <1>4, <1>5, <1>8, <1>9, <1>10, <1>11 DEF Local

(* So does what a process knows about itself when it moves: on the word, *)
LEMMA WordLocal ==
  ASSUME NotifyInv, NEW p \in Procs, WordMove(p)
  PROVE  Local(p)'
<1>t. ParkingTypeOK /\ Local(p)
  BY DEF NotifyInv, ParkingInv
<1>1. /\ Outside(pc[p]) \/ pc[p] \in {"enqueue", "flag"}
      /\ Outside(pc'[p]) \/ pc'[p] \in {"enqueue", "flag", "grab", "pop", "select"}
      /\ pc'[p] \in {"flag", "pop", "select"} => holder' = p
      /\ pc'[p] = "grab" => pc[p] = "flag" /\ holder' = holder /\ hasQueue' = TRUE
      /\ pc'[p] = "pop" => line # <<>>
      /\ line' = line /\ sent' = sent
  BY DEF WordMove, Outside, signalVars
<1>n. \/ ~(pc[p] \in {"enqueue", "flag"}) /\ ~(pc'[p] \in {"enqueue", "flag", "grab"}) /\ UNCHANGED nodeVars
      \/ pc'[p] = "enqueue" /\ PrepareNode(p)
      \/ pc[p] \in {"enqueue", "flag"} /\ pc'[p] \in {"flag", "grab"} /\ UNCHANGED nodeVars
  BY DEF WordMove, Outside
<1>2. /\ At(p) = pc[p] /\ At(p)' = pc'[p] /\ ~Parked(p) /\ ~Parked(p)' /\ ~Signaling(p)
      /\ HasNode(p) <=> pc[p] \in {"enqueue", "flag"}
      /\ HasNode(p)' <=> pc'[p] \in {"enqueue", "flag", "grab"}
      /\ ~Received(p) /\ ~Received(p)' /\ pc'[p] \notin {"removed", "clear", "unlock"} /\ pc[p] # "signal"
      /\ Locking(p)' <=> pc'[p] \in {"flag", "grab", "pop", "select"}
  BY <1>1 DEF At, Parked, Signaling, HasNode, Received, Locking, Outside
<1>3. pc'[p] \in {"enqueue", "flag", "grab"} => Prepared(p)'
  <2>1. CASE PrepareNode(p)
    BY <1>t, <2>1, NodeFacts
  <2>2. CASE pc[p] \in {"enqueue", "flag"} /\ UNCHANGED nodeVars
    BY <1>t, <2>2 DEF Local, Prepared, nodeVars
  <2> QED  BY <1>n, <2>1, <2>2
<1>4. ~HasNode(p)' => value'[p] = "uninit"
  BY <1>t, <1>n, <1>2 DEF Local, nodeVars
<1>5. seen'[p] = "uninit" /\ sent'[p] = "uninit"
  <2>1. seen[p] = "uninit" /\ sent[p] = "uninit"
    BY <1>t, <1>2 DEF Local
  <2> QED  BY <1>1, <1>n, <2>1 DEF nodeVars, PrepareNode
<1>6. Locking(p)' => holder' = p
  <2>1. pc[p] = "flag" => holder = p
    BY <1>t DEF Local, Locking
  <2> QED  BY <1>1, <1>2, <2>1
<1> QED  BY <1>1, <1>2, <1>3, <1>4, <1>5, <1>6 DEF Local

(* ... at the end of a wait, *)
LEMMA EndLocal ==
  ASSUME NotifyInv, NEW p \in Procs, EndMove(p)
  PROVE  Local(p)'
<1>t. ParkingTypeOK /\ PointsOK /\ Local(p)
  BY DEF NotifyInv, ParkingInv
<1>1. /\ holder' = holder /\ line' = line /\ sent' = sent
      /\ pc[p] \in {"flag", "grab", "woken", "awaited", "removed", "pending"}
      /\ \/ /\ pc[p] \in {"flag", "grab"} /\ pc'[p] = (IF line = <<>> THEN "clear" ELSE "unlock")
            /\ ret'[p] = "idle" /\ FreeNode(p)
         \/ pc'[p] \in {"idle", "notify"} /\ FreeNode(p)
         \/ pc[p] = "pending" /\ pc'[p] = "leave" /\ UNCHANGED nodeVars
  BY <1>t DEF EndMove, PointsOK, signalVars
<1>2. /\ Locking(p)' => pc[p] \in {"flag", "grab"}
      /\ ~Received(p)' /\ At(p)' \notin {"removed", "signal"} /\ ~Signaling(p) /\ At(p) = pc[p]
      /\ pc'[p] = "leave" => HasNode(p)' /\ ~Received(p)
      /\ pc'[p] \notin {"enqueue", "flag", "grab", "pop"}
  BY <1>1 DEF Locking, At, HasNode, Parked, Received, Signaling
<1>3. Locking(p)' => holder' = p
  BY <1>t, <1>1, <1>2 DEF Local, Locking
<1>4. pc'[p] # "leave" => value'[p] = "uninit" /\ seen'[p] = "uninit"
  BY <1>t, <1>1, NodeFacts
<1>5. seen'[p] = "uninit" /\ sent'[p] = "uninit"
  <2>1. pc'[p] = "leave" => seen[p] = "uninit" /\ seen' = seen
    BY <1>t, <1>1, <1>2 DEF Local, nodeVars
  <2>2. sent[p] = "uninit"
    BY <1>t, <1>1, <1>2 DEF Local
  <2> QED  BY <1>1, <1>4, <2>1, <2>2
<1>6. pc'[p] \in {"clear", "unlock"} => ret'[p] = "idle" /\ (pc'[p] = "clear" <=> line' = <<>>)
  BY <1>1
<1> QED  BY <1>2, <1>3, <1>4, <1>5, <1>6 DEF Local

(* ... under the lock, *)
LEMMA LineLocal ==
  ASSUME NotifyInv, NEW p \in Procs, LineMove(p)
  PROVE  Local(p)'
<1>t. ParkingTypeOK /\ PointsOK /\ Local(p)
  BY DEF NotifyInv, ParkingInv
<1>1. PICK to : /\ Locked(p, to) /\ pc'[p] = (IF line' = <<>> THEN "clear" ELSE "unlock")
                /\ \/ pc[p] \in {"flag", "grab"} /\ to \in {"swap", "pending"} /\ sent' = sent
                   \/ pc[p] \in {"pop", "select"} /\ to = "signal"
                   \/ /\ pc[p] = "remove" /\ sent' = sent
                      /\ to = "await" \/ (to = "removed" /\ Position(p) # {})
  BY DEF LineMove
<1>2. /\ ret'[p] = to /\ holder' = p /\ value' = value /\ seen' = seen
  BY <1>t, <1>1 DEF Locked, nodeVars, PointsOK
<1>3. At(p)' = to /\ At(p) = pc[p] /\ ~Signaling(p)
  BY <1>1, <1>2 DEF At, Signaling
<1>4. /\ ~HasNode(p)' <=> to = "signal"
      /\ to = "signal" => ~HasNode(p)
      /\ ~Received(p) /\ ~Received(p)' /\ pc[p] # "signal"
  BY <1>1, <1>3 DEF HasNode, Parked, Received
<1>5. to \in {"idle", "swap", "pending", "signal", "await", "removed"}
  BY <1>1
<1>6. ~HasNode(p)' => value'[p] = "uninit"
  BY <1>t, <1>2, <1>4 DEF Local
<1>7. At(p)' = "removed" => ~Delivered(value'[p])
  <2>1. Position(p) # {} => Busy(p)
    BY DEF Position, Busy, InLine, Among
  <2>2. Busy(p) => ~Delivered(value[p])
    BY DEF NotifyInv, ParkingInv, AliveInv
  <2> QED  BY <1>1, <1>2, <1>3, <2>1, <2>2
<1>8. At(p)' # "signal" => sent'[p] = "uninit"
  BY <1>t, <1>1, <1>3, <1>4 DEF Local
<1>9. seen'[p] = "uninit"
  BY <1>t, <1>2, <1>4 DEF Local
<1>10. pc'[p] \in {"clear", "unlock"} /\ (pc'[p] = "clear" <=> line' = <<>>)
  BY <1>1
<1> QED  BY <1>2, <1>4, <1>5, <1>6, <1>7, <1>8, <1>9, <1>10 DEF Local

(* ... when it clears the flag, *)
LEMMA ClearLocal ==
  ASSUME NotifyInv, NEW p \in Procs, ClearStep(p)
  PROVE  Local(p)'
<1>t. PointsOK /\ Local(p)
  BY DEF NotifyInv, ParkingInv
<1>1. /\ pc[p] = "clear" /\ pc'[p] = "unlock" /\ hasQueue' = FALSE /\ ret' = ret /\ holder' = holder
      /\ value' = value /\ seen' = seen /\ sent' = sent
  BY <1>t DEF ClearStep, Clear, Goto, PointsOK, qvars, nodeVars, signalVars
<1>2. At(p)' = At(p) /\ ~Signaling(p) /\ ~Signaling(p)' /\ Locking(p)
  BY <1>1 DEF At, Signaling, Locking
<1>3. (HasNode(p)' <=> HasNode(p)) /\ (Received(p)' <=> Received(p))
  BY <1>2 DEF HasNode, Parked, Received
<1> QED  BY <1>t, <1>1, <1>2, <1>3 DEF Local

(* ... and when it unlocks, waits or signals. *)
LEMMA SleepLocal ==
  ASSUME NotifyInv, NEW p \in Procs, SleepStep(p)
  PROVE  Local(p)'
<1>t. ParkingTypeOK /\ PointsOK /\ Local(p)
  BY DEF NotifyInv, ParkingInv
<1>2. CASE WaitMove(p)
  <2>1. /\ pc[p] \in {"swap", "check", "pending", "reload", "await", "park", "rearm", "leave"}
        /\ \/ /\ pc'[p] \in {"woken", "awaited"} /\ Delivered(value[p]) /\ seen'[p] = value[p]
           \/ pc'[p] \in {"park", "check", "pending", "rearm", "reload", "await", "remove"} /\ seen'[p] = seen[p]
        /\ pc'[p] = "remove" => holder' = p
        /\ sent' = sent /\ (value'[p] = value[p] \/ value'[p] = "waiting")
    BY <1>2 DEF WaitMove
  <2>2. /\ At(p) = pc[p] /\ At(p)' = pc'[p] /\ HasNode(p)' /\ (Locking(p)' <=> pc'[p] = "remove")
        /\ ~Received(p) /\ (Received(p)' <=> pc'[p] \in {"woken", "awaited"}) /\ ~Signaling(p)
    BY <2>1 DEF At, HasNode, Parked, Locking, Received, Signaling
  <2>3. seen[p] = "uninit" /\ sent'[p] = "uninit"
    BY <1>t, <2>1, <2>2 DEF Local
  <2>4. IF Received(p)' THEN Delivered(seen'[p]) /\ (Delivered(value'[p]) => value'[p] = seen'[p])
                        ELSE seen'[p] = "uninit"
    <3>1. ~Delivered("waiting")
      BY DEF Delivered
    <3> QED  BY <2>1, <2>2, <2>3, <3>1
  <2> QED  BY <2>1, <2>2, <2>3, <2>4 DEF Local
<1>3. CASE UnlockMove(p)
  <2>1. /\ pc[p] = "unlock" /\ pc'[p] = ret[p] /\ ret[p] # "signal" /\ value' = value /\ seen' = seen
        /\ sent' = sent
    BY <1>3 DEF UnlockMove, nodeVars
  <2>2. ret[p] \in {"idle", "swap", "pending", "await", "removed"}
    BY <1>t, <2>1 DEF Local
  <2>3. /\ At(p)' = ret[p] /\ At(p) = ret[p] /\ ~Locking(p)' /\ (HasNode(p)' <=> HasNode(p))
        /\ ~Received(p) /\ ~Received(p)' /\ ~Signaling(p) /\ ~Signaling(p)'
    BY <2>1, <2>2 DEF At, HasNode, Parked, Locking, Received, Signaling
  <2> QED  BY <1>t, <2>1, <2>2, <2>3 DEF Local
<1>4. CASE SignalMove(p)
  <2>1. /\ pc[p] \in {"take", "store", "storeWake", "wake"} \/ (pc[p] = "unlock" /\ ret[p] = "signal")
        /\ pc'[p] \in {"take", "store", "storeWake", "wake"} \/ (pc'[p] = "idle" /\ sent'[p] = "uninit")
        /\ value'[p] = value[p] /\ seen' = seen
    BY <1>4 DEF SignalMove, Signaling
  <2>2. /\ ~HasNode(p) /\ ~HasNode(p)' /\ ~Locking(p)' /\ At(p)' = pc'[p]
        /\ ~Received(p) /\ ~Received(p)' /\ (Signaling(p)' <=> pc'[p] # "idle")
    BY <2>1 DEF At, HasNode, Parked, Locking, Received, Signaling
  <2>3. value'[p] = "uninit" /\ seen'[p] = "uninit"
    BY <1>t, <2>1, <2>2 DEF Local
  <2> QED  BY <2>1, <2>2, <2>3 DEF Local
<1> QED  BY <1>2, <1>3, <1>4, SleepFacts DEF SleepStep, SleepMove, NotifyInv

(* No step makes anybody's knowledge about themselves wrong. *)
LEMMA StepLocal ==
  ASSUME NotifyInv, NEW p \in Procs, NotifyStep(p)
  PROVE  \A r \in Procs : Local(r)'
<1>1. Local(p)'
  BY WordFacts, EndFacts, LineFacts, WordLocal, EndLocal, LineLocal, ClearLocal, SleepLocal DEF NotifyStep
<1>2. \A r \in Procs \ {p} : Local(r)'
  BY OthersLocal
<1> QED  BY <1>1, <1>2

-----------------------------------------------------------------------------
(* Only a push puts somebody into an empty line. *)
LEMMA LineGrows ==
  ASSUME NotifyInv, NEW p \in Procs, LineMove(p), line' # <<>>
  PROVE  hasQueue' = TRUE \/ (line # <<>> /\ hasQueue' = hasQueue)
<1>t. line \in Seq(Procs)
  BY DEF NotifyInv, ParkingInv, ParkingTypeOK
<1>1. CASE pc[p] \in {"flag", "grab"}
  BY <1>1 DEF LineMove
<1>2. CASE pc[p] = "pop"
  BY <1>2 DEF LineMove, NotifyInv, Local
<1>3. CASE pc[p] = "select"
  <2>1. PICK k \in 0 .. Len(line) : line' = SubSeq(line, k + 1, Len(line))
    BY <1>3 DEF LineMove
  <2>2. line # <<>>
    BY <1>t, <2>1, SMT
  <2> QED  BY <1>3, <2>2 DEF LineMove
<1>4. CASE pc[p] = "remove"
  <2>1. line' = line \/ Position(p) # {}
    BY <1>4 DEF LineMove
  <2>2. Position(p) # {} => line # <<>>
    <3>1. Position(p) # {} => \E i \in 1 .. Len(line) : TRUE
      BY DEF Position
    <3> QED  BY <1>t, <3>1, SMT
  <2> QED  BY <1>4, <2>1, <2>2 DEF LineMove
<1> QED  BY <1>1, <1>2, <1>3, <1>4 DEF LineMove

(* The flag follows the line. *)
LEMMA StepFlag ==
  ASSUME NotifyInv, NEW p \in Procs, NotifyStep(p)
  PROVE  hasQueue' \in BOOLEAN /\ FlagMeansLine'
<1>t. /\ hasQueue \in BOOLEAN /\ (line # <<>> => hasQueue) /\ (holder = NoProc /\ line = <<>> => ~hasQueue)
      /\ NoProc \notin Procs /\ Local(p)
  BY ProcsAssumption DEF NotifyInv, WordInv, FlagMeansLine
<1>e. ASSUME \/ hasQueue' = TRUE /\ holder' # NoProc
             \/ hasQueue' = hasQueue /\ line' = line /\ (holder' = NoProc => holder = NoProc)
             \/ hasQueue' = hasQueue /\ holder' # NoProc /\ (line' # <<>> => line # <<>>)
      PROVE  hasQueue' \in BOOLEAN /\ FlagMeansLine'
  <2>1. CASE hasQueue' = TRUE /\ holder' # NoProc
    BY <2>1 DEF FlagMeansLine
  <2>2. CASE hasQueue' = hasQueue /\ line' = line /\ (holder' = NoProc => holder = NoProc)
    BY <1>t, <2>2 DEF FlagMeansLine
  <2>3. CASE hasQueue' = hasQueue /\ holder' # NoProc /\ (line' # <<>> => line # <<>>)
    BY <1>t, <2>3 DEF FlagMeansLine
  <2> QED  BY <1>e, <2>1, <2>2, <2>3
<1>1. CASE WordStep(p)
  <2>1. /\ line' = line /\ (holder' = holder \/ holder' = p)
        /\ hasQueue' = hasQueue \/ (hasQueue' = TRUE /\ holder' = holder /\ pc[p] = "flag")
    BY <1>1, WordFacts DEF WordMove, Outside
  <2>2. pc[p] = "flag" => holder = p
    BY <1>t DEF Local, Locking
  <2> QED  BY <1>t, <1>e, <2>1, <2>2
<1>2. CASE EndStep(p)
  <2>1. /\ line' = line /\ holder' = holder
        /\ hasQueue' = hasQueue \/ (hasQueue' = TRUE /\ pc[p] \in {"flag", "grab"})
    BY <1>2, EndFacts DEF EndMove, nvars
  <2>2. pc[p] \in {"flag", "grab"} => holder = p
    BY <1>t DEF Local, Locking
  <2> QED  BY <1>t, <1>e, <2>1, <2>2
<1>3. CASE LineStep(p)
  <2>1. LineMove(p) /\ holder' = p /\ (hasQueue' = TRUE \/ hasQueue' = hasQueue)
    BY <1>3, LineFacts DEF LineMove, Locked
  <2>2. line' # <<>> => hasQueue' = TRUE \/ (line # <<>> /\ hasQueue' = hasQueue)
    BY <2>1, LineGrows
  <2> QED  BY <1>t, <1>e, <2>1, <2>2
<1>4. CASE ClearStep(p)
  <2>1. hasQueue' = FALSE /\ line' = line /\ line = <<>>
    BY <1>4, <1>t DEF ClearStep, Clear, qvars, Local
  <2> QED  BY <2>1 DEF FlagMeansLine
<1>5. CASE SleepStep(p)
  <2>1. hasQueue' = hasQueue /\ line' = line
    BY <1>5, QueueParking DEF SleepStep, nvars
  <2>2. holder' = NoProc => holder = NoProc \/ pc[p] = "unlock"
    <3>1. SleepMove(p)
      BY <1>5, SleepFacts DEF SleepStep, NotifyInv
    <3> QED  BY <1>t, <3>1 DEF SleepMove, WaitMove, UnlockMove, SignalMove
  <2>3. pc[p] = "unlock" /\ line = <<>> => hasQueue = FALSE
    BY <1>t DEF Local
  <2> QED  BY <1>t, <2>1, <2>2, <2>3 DEF FlagMeansLine
<1> QED  BY <1>1, <1>2, <1>3, <1>4, <1>5 DEF NotifyStep

(* A permit is stored only when nobody is in line, and nobody joins the line *)
(* as long as there is one.                                                  *)
LEMMA StepPermit ==
  ASSUME NotifyInv, NEW p \in Procs, NotifyStep(p)
  PROVE  permit' \in BOOLEAN /\ NobodySleepsOnPermit'
<1>t. permit \in BOOLEAN /\ (permit => line = <<>>) /\ (line # <<>> => hasQueue)
  BY DEF NotifyInv, WordInv, FlagMeansLine, NobodySleepsOnPermit
<1>e. ASSUME line' = line, permit' = permit \/ permit' = FALSE \/ (permit' = TRUE /\ line = <<>>)
      PROVE  permit' \in BOOLEAN /\ NobodySleepsOnPermit'
  <2>1. CASE permit' = permit
    BY <1>e, <1>t, <2>1 DEF NobodySleepsOnPermit
  <2>2. CASE permit' = FALSE
    BY <2>2 DEF NobodySleepsOnPermit
  <2>3. CASE permit' = TRUE /\ line = <<>>
    BY <1>e, <2>3 DEF NobodySleepsOnPermit
  <2> QED  BY <1>e, <2>1, <2>2, <2>3
<1>1. CASE WordStep(p)
  <2>1. line' = line
    BY <1>1, WordFacts DEF WordMove
  <2>2. permit' = permit \/ permit' = FALSE \/ (permit' = TRUE /\ ~hasQueue)
    BY <1>1 DEF WordStep, Wait, TryComplete, Complete, Disarm, Enqueue, Flag, Push, NotifyOne,
       Notify, Store, NotifyLock, NotifyWaiters, Sweep, nvars, others
  <2> QED  BY <1>t, <1>e, <2>1, <2>2
<1>2. CASE EndStep(p)
  <2>1. line' = line /\ (permit' = permit \/ permit' = FALSE)
    BY <1>2, EndFacts DEF EndMove, Complete, nvars, others
  <2> QED  BY <1>e, <2>1
<1>3. CASE LineStep(p)
  <2>1. LineMove(p)
    BY <1>3, LineFacts
  <2>2. permit' = permit /\ (permit => line' = <<>>)
    <3>1. permit' = permit /\ (pc[p] \in {"flag", "grab"} => ~permit)
      BY <2>1 DEF LineMove, others
    <3>2. ASSUME pc[p] \notin {"flag", "grab"}, line = <<>> PROVE line' = <<>>
      <4>1. hasQueue = FALSE \/ hasQueue = TRUE
        BY DEF NotifyInv, WordInv
      <4>2. pc[p] # "pop"
        BY <3>2 DEF NotifyInv, Local
      <4>3. pc[p] = "remove" => line' = line
        <5>1. Position(p) = {}
          BY <3>2, SMT DEF Position
        <5> QED  BY <2>1, <5>1 DEF LineMove
      <4>4. pc[p] = "select" => line' = <<>>
        <5>1. pc[p] = "select" => \E k \in 0 .. Len(line) : line' = SubSeq(line, k + 1, Len(line))
          BY <2>1 DEF LineMove
        <5> QED  BY <3>2, <5>1, SMT
      <4> QED  BY <2>1, <3>2, <4>2, <4>3, <4>4 DEF LineMove
    <3> QED  BY <1>t, <3>1, <3>2
  <2> QED  BY <1>t, <2>2 DEF NobodySleepsOnPermit
<1>4. CASE ClearStep(p) \/ SleepStep(p)
  <2>1. line' = line /\ permit' = permit
    BY <1>4, QueueParking DEF ClearStep, SleepStep, nvars, others
  <2> QED  BY <1>t, <2>1 DEF NobodySleepsOnPermit
<1> QED  BY <1>1, <1>2, <1>3, <1>4 DEF NotifyStep

-----------------------------------------------------------------------------
(* Ending a generation makes everybody in line an old one. *)
LEMMA Ending ==
  ASSUME NotifyInv, NEW p \in Procs, NotifyWaiters(p)
  PROVE  /\ behind' \in [Procs -> Nat]
         /\ \A n \in Procs : InLine(n) => ~InCurrent(n)'
<1>1. behind \in [Procs -> Nat] /\ Wrap \in Nat /\ Wrap > 1
  BY WrapAssumption DEF NotifyInv, WordInv
<1>2. ASSUME NEW r \in Procs, Waiting(r)
      PROVE  (behind[r] + 1) % Wrap \in Nat /\ (behind[r] + 1) % Wrap # 0
  <2>1. behind[r] \in Nat /\ behind[r] + 1 < Wrap
    BY <1>1, <1>2 DEF NotifyWaiters, NobodyLapped
  <2> QED  BY <1>1, <2>1, SMT
<1>3. behind' = [r \in Procs |-> IF Waiting(r) THEN (behind[r] + 1) % Wrap ELSE 0]
  BY DEF NotifyWaiters
<1>4. \A r \in Procs : (IF Waiting(r) THEN (behind[r] + 1) % Wrap ELSE 0) \in Nat
  <2>1. 0 \in Nat
    BY SMT
  <2> QED  BY <1>2, <2>1
<1>5. ASSUME NEW n \in Procs, InLine(n) PROVE Waiting(n)
  BY <1>5 DEF NotifyInv, ParkingInv, AliveInv, Busy, Waiting
<1> QED  BY <1>2, <1>3, <1>4, <1>5 DEF InCurrent

(* Other steps change nobody's distance but that of one who begins to wait. *)
LEMMA StepBehind ==
  ASSUME NotifyInv, NEW p \in Procs, NotifyStep(p)
  PROVE  /\ behind' \in [Procs -> Nat]
         /\ NotifyWaiters(p) \/ \A n \in Procs : InLine(n) => behind'[n] = behind[n]
<1>t. behind \in [Procs -> Nat]
  BY DEF NotifyInv, WordInv
<1>1. CASE NotifyWaiters(p)
  BY <1>1, Ending
<1>2. CASE Wait(p)
  <2>1. behind' = [behind EXCEPT ![p] = 0] /\ pc[p] = "idle"
    BY <1>2 DEF Wait
  <2>2. behind' \in [Procs -> Nat]
    BY <1>t, <2>1, SMT
  <2>3. ~InLine(p)
    BY <2>1 DEF NotifyInv, ParkingInv, AliveInv, Busy, Parked, At
  <2> QED  BY <1>t, <2>1, <2>2, <2>3
<1>3. CASE ~Wait(p) /\ ~NotifyWaiters(p)
  <2>1. behind' = behind
    <3>1. CASE WordStep(p)
      BY <1>3, <3>1 DEF WordStep, TryComplete, Disarm, Enqueue, Flag, NotifyOne, Notify, NotifyLock, Sweep,
         nvars, others
    <3>2. CASE EndStep(p) \/ LineStep(p)
      BY <3>2, EndFacts, LineFacts DEF EndMove, LineMove, others
    <3>3. CASE ClearStep(p) \/ SleepStep(p)
      BY <3>3 DEF ClearStep, SleepStep, nvars, others
    <3> QED  BY <3>1, <3>2, <3>3 DEF NotifyStep
  <2> QED  BY <1>t, <2>1
<1> QED  BY <1>1, <1>2, <1>3

-----------------------------------------------------------------------------
Sweeping(p) == pc[p] \in {"sweep", "select"}

(* Whoever is old in line has a sweep on the way, and only old ones ahead. *)
LEMMA OldFacts ==
  ASSUME NotifyInv, NEW i \in 1 .. Len(line), ~InCurrent(line[i])
  PROVE  (\E q \in Procs : Sweeping(q)) /\ \A j \in 1 .. i : ~InCurrent(line[j])
BY DEF NotifyInv, OldOnesReleased, Sweeping

(* A step that leaves the line alone, and the generations of those in it,    *)
(* keeps that, unless a sweep ends.                                          *)
LEMMA QuietOld ==
  ASSUME NotifyInv, NEW p \in Procs, Frame(p), line' = line,
         \A n \in Procs : InLine(n) => behind'[n] = behind[n],
         Sweeping(p) => Sweeping(p)' \/ line = <<>>
  PROVE  OldOnesReleased'
<1>t. line \in Seq(Procs)
  BY DEF NotifyInv, ParkingInv, ParkingTypeOK
<1>1. CASE line = <<>>
  <2>1. ASSUME NEW i \in 1 .. Len(line') PROVE FALSE
    BY <1>1, <2>1, SMT
  <2> QED  BY <2>1 DEF OldOnesReleased
<1>2. CASE line # <<>>
  <2>1. ASSUME NEW i \in 1 .. Len(line) PROVE InCurrent(line[i])' <=> InCurrent(line[i])
    <3>1. line[i] \in Procs
      BY <1>t, <2>1, SMT
    <3>2. InLine(line[i])
      BY <2>1 DEF InLine, Among
    <3> QED  BY <3>1, <3>2 DEF InCurrent
  <2>2. ASSUME NEW q \in Procs, Sweeping(q) PROVE Sweeping(q)'
    BY <1>2, <2>2 DEF Frame, Sweeping
  <2> SUFFICES ASSUME NEW i \in 1 .. Len(line), ~InCurrent(line[i])'
               PROVE  /\ \E q \in Procs : Sweeping(q)'
                      /\ \A j \in 1 .. i : ~InCurrent(line[j])'
    BY DEF OldOnesReleased, Sweeping
  <2>3. (\E q \in Procs : Sweeping(q)) /\ \A j \in 1 .. i : ~InCurrent(line[j])
    BY <2>1, OldFacts
  <2>4. \A j \in 1 .. i : j \in 1 .. Len(line)
    BY <1>t, SMT
  <2> QED  BY <2>1, <2>2, <2>3, <2>4
<1> QED  BY <1>1, <1>2

(* Steps outside the line. *)
LEMMA WordOld ==
  ASSUME NotifyInv, NEW p \in Procs, NotifyStep(p), ~LineStep(p)
  PROVE  OldOnesReleased'
<1>t. line \in Seq(Procs) /\ pc = [r \in Procs |-> pc[r]]
  BY DEF NotifyInv, ParkingInv, ParkingTypeOK, PointsOK
<1>f. Frame(p) /\ line' = line
  BY StepParking, WordFacts, EndFacts, QueueParking DEF NotifyStep, WordMove, EndMove
<1>1. CASE NotifyWaiters(p)
  <2> SUFFICES ASSUME NEW i \in 1 .. Len(line)
               PROVE  /\ \E q \in Procs : Sweeping(q)'
                      /\ \A j \in 1 .. i : ~InCurrent(line[j])'
    BY <1>f DEF OldOnesReleased, Sweeping
  <2>1. ASSUME NEW j \in 1 .. i PROVE ~InCurrent(line[j])'
    <3>1. j \in 1 .. Len(line)
      BY <1>t, <2>1, SMT
    <3>2. line[j] \in Procs
      BY <1>t, <3>1, SMT
    <3>3. ~(behind'[line[j]] = 0)
      <4>1. InLine(line[j])
        BY <3>1 DEF InLine, Among
      <4> QED  BY <1>1, <3>2, <4>1, Ending DEF InCurrent
    <3> QED  BY <1>f, <3>3 DEF InCurrent
  <2>2. hasQueue
    <3>1. line # <<>>
      BY <1>t, SMT
    <3> QED  BY <3>1 DEF NotifyInv, WordInv, FlagMeansLine
  <2>3. Sweeping(p)'
    BY <1>1, <1>t, <2>2 DEF NotifyWaiters, Goto, Sweeping
  <2> QED  BY <2>1, <2>3
<1>2. CASE ~NotifyWaiters(p)
  <2>1. \A n \in Procs : InLine(n) => behind'[n] = behind[n]
    BY <1>2, StepBehind
  <2>2. Sweeping(p) => Sweeping(p)' \/ line = <<>>
    <3>1. CASE WordStep(p)
      BY <1>t, <3>1 DEF WordStep, Wait, TryComplete, Disarm, Enqueue, Flag, NotifyOne, Notify, NotifyLock,
         NotifyWaiters, Sweep, LockExisting, NobodyInLine, Goto, Sweeping
    <3>2. CASE EndStep(p)
      BY <3>2, EndFacts DEF EndMove, Sweeping
    <3>3. CASE ClearStep(p)
      BY <3>3 DEF ClearStep, Clear, Sweeping
    <3>4. CASE SleepStep(p)
      <4>1. SleepMove(p)
        BY <3>4, SleepFacts DEF SleepStep, NotifyInv
      <4> QED  BY <4>1 DEF SleepMove, WaitMove, UnlockMove, SignalMove, Signaling, Sweeping
    <3> QED  BY <3>1, <3>2, <3>3, <3>4 DEF NotifyStep
  <2> QED  BY <1>f, <2>1, <2>2, QuietOld
<1> QED  BY <1>1, <1>2

(* Who joins the line is of the live generation. *)
LEMMA PushOld ==
  ASSUME NotifyInv, NEW p \in Procs, LineMove(p), pc[p] \in {"flag", "grab"}
  PROVE  OldOnesReleased'
<1>t. line \in Seq(Procs)
  BY DEF NotifyInv, ParkingInv, ParkingTypeOK
<1>1. line' = Append(line, p) /\ InCurrent(p) /\ behind' = behind /\ \A r \in Procs \ {p} : pc'[r] = pc[r]
  BY DEF LineMove, Locked, others
<1>2. /\ Len(line') = Len(line) + 1 /\ Len(line) \in Nat /\ line'[Len(line) + 1] = p
      /\ \A i \in 1 .. Len(line) : line'[i] = line[i]
  BY <1>t, <1>1, SMT
<1> SUFFICES ASSUME NEW i \in 1 .. Len(line'), ~InCurrent(line[i])'
             PROVE  /\ \E q \in Procs : Sweeping(q)'
                    /\ \A j \in 1 .. i : ~InCurrent(line[j])'
  BY DEF OldOnesReleased, Sweeping
<1>3. i # Len(line) + 1
  BY <1>1, <1>2 DEF InCurrent
<1>4. i \in 1 .. Len(line) /\ \A j \in 1 .. i : j \in 1 .. Len(line)
  BY <1>2, <1>3, SMT
<1>5. ~InCurrent(line[i])
  BY <1>1, <1>2, <1>4 DEF InCurrent
<1>6. (\E q \in Procs : Sweeping(q)) /\ \A j \in 1 .. i : ~InCurrent(line[j])
  BY <1>4, <1>5, OldFacts
<1>7. ASSUME NEW q \in Procs, Sweeping(q) PROVE Sweeping(q)'
  BY <1>1, <1>7 DEF Sweeping
<1>8. ASSUME NEW j \in 1 .. i PROVE ~InCurrent(line[j])'
  BY <1>1, <1>2, <1>4, <1>6, <1>8 DEF InCurrent
<1> QED  BY <1>6, <1>7, <1>8

(* One who leaves the line changes nothing for those who stay. *)
LEMMA LeaveOld ==
  ASSUME NotifyInv, NEW p \in Procs, LineMove(p), ~Sweeping(p), NEW k \in 1 .. Len(line),
         Len(line') = Len(line) - 1,
         \A i \in 1 .. Len(line) - 1 : line'[i] = IF i < k THEN line[i] ELSE line[i + 1]
  PROVE  OldOnesReleased'
<1>t. line \in Seq(Procs) /\ Len(line) \in Nat
  <2>1. line \in Seq(Procs)
    BY DEF NotifyInv, ParkingInv, ParkingTypeOK
  <2> QED  BY <2>1, SMT
<1>1. behind' = behind /\ \A r \in Procs \ {p} : pc'[r] = pc[r]
  BY DEF LineMove, Locked, others
<1> SUFFICES ASSUME NEW i \in 1 .. Len(line'), ~InCurrent(line[i])'
             PROVE  /\ \E q \in Procs : Sweeping(q)'
                    /\ \A j \in 1 .. i : ~InCurrent(line[j])'
  BY DEF OldOnesReleased, Sweeping
<1>2. i \in Nat /\ k \in Nat /\ i \in 1 .. Len(line) - 1
  BY <1>t, SMT
<1>3. PICK a \in 1 .. Len(line) : line'[i] = line[a] /\ a = IF i < k THEN i ELSE i + 1
  BY <1>t, <1>2, SMT
<1>4. ~InCurrent(line[a])
  BY <1>1, <1>3 DEF InCurrent
<1>5. (\E q \in Procs : Sweeping(q)) /\ \A j \in 1 .. a : ~InCurrent(line[j])
  BY <1>4, OldFacts
<1>6. ASSUME NEW q \in Procs, Sweeping(q) PROVE Sweeping(q)'
  BY <1>1, <1>6 DEF Sweeping
<1>7. ASSUME NEW j \in 1 .. i PROVE ~InCurrent(line[j])'
  <2>1. \E b \in 1 .. a : line'[j] = line[b]
    <3>1. j \in Nat /\ j \in 1 .. Len(line) - 1 /\ (IF j < k THEN j ELSE j + 1) \in 1 .. a
      BY <1>t, <1>2, <1>3, <1>7, SMT
    <3>2. line'[j] = line[IF j < k THEN j ELSE j + 1]
      BY <3>1
    <3> QED  BY <3>1, <3>2
  <2> QED  BY <1>1, <1>5, <2>1 DEF InCurrent
<1> QED  BY <1>5, <1>6, <1>7

(* The sweep takes all the old ones. *)
LEMMA SelectOld ==
  ASSUME NotifyInv, NEW p \in Procs, LineMove(p), pc[p] = "select"
  PROVE  OldOnesReleased'
<1>t. line \in Seq(Procs) /\ Len(line) \in Nat
  <2>1. line \in Seq(Procs)
    BY DEF NotifyInv, ParkingInv, ParkingTypeOK
  <2> QED  BY <2>1, SMT
<1>1. PICK k \in 0 .. Len(line) : Leading(k) /\ line' = SubSeq(line, k + 1, Len(line))
  BY DEF LineMove
<1>2. behind' = behind
  BY DEF LineMove, others
<1>3. ASSUME NEW i \in 1 .. Len(line'), ~InCurrent(line[i])' PROVE FALSE
  <2>1. /\ i \in 1 .. Len(line) - k /\ line'[i] = line[k + i] /\ k + i \in 1 .. Len(line)
        /\ k < Len(line) /\ k + 1 \in 1 .. k + i
    BY <1>t, <1>1, <1>3, SMT
  <2>2. ~InCurrent(line[k + i])
    BY <1>2, <1>3, <2>1 DEF InCurrent
  <2>3. ~InCurrent(line[k + 1])
    BY <2>1, <2>2, OldFacts
  <2> QED  BY <1>1, <2>1, <2>3 DEF Leading
<1> QED  BY <1>3 DEF OldOnesReleased

(* Steps in the line. *)
LEMMA LineOld ==
  ASSUME NotifyInv, NEW p \in Procs, LineMove(p)
  PROVE  OldOnesReleased'
<1>t. line \in Seq(Procs)
  BY DEF NotifyInv, ParkingInv, ParkingTypeOK
<1>1. CASE pc[p] = "pop"
  <2>1. line # <<>> /\ line' = SubSeq(line, 1 + 1, Len(line)) /\ ~Sweeping(p)
    BY <1>1 DEF LineMove, NotifyInv, Local, Sweeping
  <2>2. /\ Len(line') = Len(line) - 1 /\ 1 \in 1 .. Len(line)
        /\ \A i \in 1 .. Len(line) - 1 : line'[i] = IF i < 1 THEN line[i] ELSE line[i + 1]
    <3>1. Len(line) \in Nat /\ Len(line) >= 1
      BY <1>t, <2>1, SMT
    <3>0. PICK k \in Int : k = 1
      BY SMT
    <3>l. line' = SubSeq(line, k + 1, Len(line)) /\ k \in 0 .. Len(line)
      <4>1. k \in 0 .. Len(line)
        BY <3>0, <3>1, SMT
      <4> QED  BY <2>1, <3>0, <4>1
    <3>2. Len(line') = Len(line) - 1
      <4>1. Len(line') = Len(line) - k
        BY <1>t, <3>1, <3>l, SMT
      <4> QED  BY <3>0, <4>1
    <3>3. \A i \in 1 .. Len(line) - 1 : line'[i] = line[i + 1] /\ ~(i < 1)
      <4>1. \A i \in 1 .. Len(line) - k : line'[i] = line[i + k]
        BY <1>t, <3>1, <3>l, SMT
      <4>2. \A i \in 1 .. Len(line) - 1 : ~(i < 1)
        BY <3>1, SMT
      <4> QED  BY <3>0, <4>1, <4>2
    <3>4. 1 \in 1 .. Len(line)
      BY <3>1, SMT
    <3> QED  BY <3>2, <3>3, <3>4
  <2> QED  BY <2>1, <2>2, LeaveOld
<1>2. CASE pc[p] = "remove"
  <2>1. ~Sweeping(p) /\ (line' = line \/ \E k \in Position(p) : line' = Without(line, k)) /\ behind' = behind
    BY <1>2 DEF LineMove, Sweeping, others
  <2>2. CASE line' = line
    BY <2>1, <2>2, LineParking, QuietOld
  <2>3. CASE \E k \in Position(p) : line' = Without(line, k)
    <3>1. PICK k \in 1 .. Len(line) : line' = Without(line, k)
      BY <2>3 DEF Position
    <3> QED  BY <1>t, <2>1, <3>1, WithoutFacts, LeaveOld
  <2> QED  BY <2>1, <2>2, <2>3
<1> QED  BY <1>1, <1>2, PushOld, SelectOld DEF LineMove

(* All the steps. *)
LEMMA StepOld ==
  ASSUME NotifyInv, NEW p \in Procs, NotifyStep(p)
  PROVE  OldOnesReleased'
BY WordOld, LineOld, LineFacts

-----------------------------------------------------------------------------
(* A node that is on its way to a signal is popped. *)
LEMMA FlightFacts ==
  ASSUME NEW n \in Procs
  PROVE  /\ InFlight(n, "signaled") <=> \E r \in Procs : sent[r] = "signaled" /\ Popped(n, r)
         /\ InFlight(n, "signaled")' <=> \E r \in Procs : sent'[r] = "signaled" /\ Popped(n, r)'
BY DEF InFlight, Popped, InChain, Storing, Among

Notifying(p) == pc[p] \in {"notify", "notifyLock", "pop"}

(* Who is not in the queue carries what it is to deliver, or has received. *)
LEMMA FreeCarries ==
  ASSUME NEW p \in Procs
  PROVE  /\ ~Busy(p) =>
               (Carries(p) <=> Notifying(p) \/ value[p] = "signaled" \/ seen[p] = "signaled")
         /\ ~Busy(p)' =>
               (Carries(p)' <=> Notifying(p)' \/ value'[p] = "signaled" \/ seen'[p] = "signaled")
<1>1. ~Busy(p) => ~InFlight(p, "signaled")
  BY FlightFacts DEF Busy
<1>2. ~Busy(p)' => ~InFlight(p, "signaled")'
  BY FlightFacts DEF Busy
<1> QED  BY <1>1, <1>2 DEF Carries, Notifying

Extra == IF permit THEN 1 ELSE 0

(* Integers all along. *)
LEMMA BooksType ==
  ASSUME NotifyInv
  PROVE  owed \in Int /\ Extra \in {0, 1}
<1>1. Cardinality(Carriers) \in Nat /\ owed = Cardinality(Carriers) + Extra
  BY FS_CardinalityType DEF NotifyInv, CountInv, Extra
<1>2. Extra \in {0, 1}
  BY DEF Extra
<1>3. owed \in Int
  BY <1>1, <1>2, SMT
<1> QED  BY <1>2, <1>3

(* The books stay right when one process changes its share. *)
LEMMA OneCounts ==
  ASSUME NotifyInv, NEW p \in Procs, \A r \in Procs \ {p} : Carries(r)' <=> Carries(r),
         \/ (Carries(p)' <=> Carries(p)) /\ owed' - Extra' = owed - Extra
         \/ ~Carries(p) /\ Carries(p)' /\ owed' - Extra' = owed - Extra + 1
         \/ Carries(p) /\ ~Carries(p)' /\ owed' - Extra' = owed - Extra - 1,
         owed' \in Int
  PROVE  CountInv'
<1>1. /\ IsFiniteSet(Carriers) /\ Cardinality(Carriers) \in Nat /\ owed = Cardinality(Carriers) + Extra
      /\ Extra \in Int /\ Extra' \in Int
  <2>1. IsFiniteSet(Carriers) /\ owed = Cardinality(Carriers) + Extra
    BY DEF NotifyInv, CountInv, Extra
  <2>2. 0 \in Int /\ 1 \in Int
    BY SMT
  <2> QED  BY <2>1, <2>2, FS_CardinalityType DEF Extra
<1>2. ASSUME Carries(p)' <=> Carries(p), owed' - Extra' = owed - Extra PROVE CountInv'
  <2>1. Carriers' = Carriers
    BY <1>2 DEF Carriers
  <2>2. owed' = Cardinality(Carriers') + Extra'
    BY <1>1, <1>2, <2>1, SMT
  <2> QED  BY <1>1, <2>1, <2>2 DEF CountInv, Extra
<1>3. ASSUME ~Carries(p), Carries(p)', owed' - Extra' = owed - Extra + 1 PROVE CountInv'
  <2>1. Carriers' = Carriers \cup {p} /\ p \notin Carriers
    BY <1>3 DEF Carriers
  <2>2. IsFiniteSet(Carriers') /\ Cardinality(Carriers') = Cardinality(Carriers) + 1
    BY <1>1, <2>1, FS_AddElement
  <2>3. owed' = Cardinality(Carriers') + Extra'
    BY <1>1, <1>3, <2>2, SMT
  <2> QED  BY <2>2, <2>3 DEF CountInv, Extra
<1>4. ASSUME Carries(p), ~Carries(p)', owed' - Extra' = owed - Extra - 1 PROVE CountInv'
  <2>1. Carriers' = Carriers \ {p} /\ p \in Carriers
    BY <1>4 DEF Carriers
  <2>2. IsFiniteSet(Carriers') /\ Cardinality(Carriers') = Cardinality(Carriers) - 1
    BY <1>1, <2>1, FS_RemoveElement
  <2>3. owed' = Cardinality(Carriers') + Extra'
    BY <1>1, <1>4, <2>2, SMT
  <2> QED  BY <2>2, <2>3 DEF CountInv, Extra
<1> QED  BY <1>2, <1>3, <1>4

(* Nothing changes for anybody else when p neither signals nor pops. *)
LEMMA OthersCarry ==
  ASSUME NotifyInv, NEW p \in Procs, Frame(p), UNCHANGED signalVars, ~Signaling(p), ~Signaling(p)'
  PROVE  /\ \A r \in Procs \ {p} : Carries(r)' <=> Carries(r)
         /\ InFlight(p, "signaled")' <=> InFlight(p, "signaled")
<1>1. chain' = chain /\ sent' = sent /\ node' = node
  BY DEF signalVars
<1>2. ASSUME NEW s \in Procs PROVE pc'[s] \in {"store", "storeWake"} <=> pc[s] \in {"store", "storeWake"}
  BY DEF Frame, Signaling
<1>3. ASSUME NEW n \in Procs PROVE InFlight(n, "signaled")' <=> InFlight(n, "signaled")
  <2>1. ASSUME NEW s \in Procs PROVE Popped(n, s)' <=> Popped(n, s)
    BY <1>1, <1>2 DEF Popped, InChain, Storing
  <2> QED  BY <1>1, <2>1, FlightFacts
<1>4. ASSUME NEW r \in Procs \ {p} PROVE Carries(r)' <=> Carries(r)
  <2>1. ~StoreSignal(p)
    BY DEF StoreSignal, Signaling
  <2>2. pc'[r] = pc[r] /\ value'[r] = value[r] /\ seen'[r] = seen[r]
    BY <2>1 DEF Frame
  <2> QED  BY <1>3, <2>2 DEF Carries
<1> QED  BY <1>3, <1>4

(* On the word: who notifies has one to deliver. *)
LEMMA WordCarries ==
  ASSUME NotifyInv, NEW p \in Procs, WordMove(p)
  PROVE  /\ \A r \in Procs \ {p} : Carries(r)' <=> Carries(r)
         /\ (Carries(p) <=> Notifying(p)) /\ (Carries(p)' <=> Notifying(p)')
<1>t. ParkingInv /\ ParkingInv' /\ Frame(p) /\ Local(p) /\ Local(p)'
  BY WordParking, WordLocal DEF NotifyInv
<1>1. /\ Outside(pc[p]) \/ pc[p] \in {"enqueue", "flag"}
      /\ Outside(pc'[p]) \/ pc'[p] \in {"enqueue", "flag", "grab", "pop", "select"}
  BY DEF WordMove, Outside
<1>2. /\ ~Signaling(p) /\ ~Parked(p) /\ ~Received(p)
      /\ At(p) = pc[p] /\ (HasNode(p) => pc[p] \in {"enqueue", "flag", "grab"})
  BY <1>1 DEF Signaling, Parked, Received, At, HasNode, Outside
<1>3. /\ ~Signaling(p)' /\ ~Parked(p)' /\ ~Received(p)'
      /\ At(p)' = pc'[p] /\ (HasNode(p)' => pc'[p] \in {"enqueue", "flag", "grab"})
  BY <1>1 DEF Signaling, Parked, Received, At, HasNode, Outside
<1>4. ~Busy(p) /\ ~Busy(p)'
  BY <1>t, <1>2, <1>3 DEF ParkingInv, AliveInv
<1>5. value[p] # "signaled" /\ seen[p] # "signaled"
  BY <1>t, <1>2 DEF Local, Prepared
<1>6. value'[p] # "signaled" /\ seen'[p] # "signaled"
  BY <1>t, <1>3 DEF Local, Prepared
<1>7. \A r \in Procs \ {p} : Carries(r)' <=> Carries(r)
  BY <1>t, <1>2, <1>3, OthersCarry DEF WordMove
<1> QED  BY <1>4, <1>5, <1>6, <1>7, FreeCarries

(* What it does to the books. *)
LEMMA WordCount ==
  ASSUME NotifyInv, NEW p \in Procs, WordStep(p)
  PROVE  CountInv'
<1>t. /\ owed \in Int /\ permit \in BOOLEAN /\ pc = [r \in Procs |-> pc[r]]
  BY BooksType DEF NotifyInv, WordInv, ParkingInv, PointsOK
<1>c. /\ \A r \in Procs \ {p} : Carries(r)' <=> Carries(r)
      /\ (Carries(p) <=> Notifying(p)) /\ (Carries(p)' <=> Notifying(p)')
  BY WordFacts, WordCarries
<1>1. CASE NotifyOne(p)
  <2>1. owed' = owed + 1 /\ Extra' = Extra /\ ~Notifying(p) /\ Notifying(p)'
    BY <1>1, <1>t DEF NotifyOne, Goto, Extra, Notifying
  <2>2. owed' \in Int /\ owed' - Extra' = owed - Extra + 1
    <3>1. Extra \in {0, 1}
      BY DEF Extra
    <3> QED  BY <1>t, <2>1, <3>1, SMT
  <2> QED  BY <1>c, <2>1, <2>2, OneCounts
<1>2. CASE Notify(p)
  <2>1. CASE hasQueue
    <3>1. owed' = owed /\ Extra' = Extra /\ Notifying(p) /\ Notifying(p)'
      BY <1>2, <1>t, <2>1 DEF Notify, Store, Goto, Extra, Notifying
    <3> QED  BY <1>c, <1>t, <3>1, OneCounts
  <2>2. CASE ~hasQueue
    <3>1. owed' = (IF permit THEN owed - 1 ELSE owed) /\ Extra' = 1 /\ Notifying(p) /\ ~Notifying(p)'
      BY <1>2, <1>t, <2>2 DEF Notify, Store, Goto, Extra, Notifying
    <3>2. (permit /\ Extra = 1) \/ (~permit /\ Extra = 0)
      BY DEF Extra
    <3>3. (owed' = owed - 1 /\ Extra = 1) \/ (owed' = owed /\ Extra = 0)
      BY <3>1, <3>2
    <3>4. owed' \in Int /\ owed' - Extra' = owed - Extra - 1
      BY <1>t, <3>1, <3>3, SMT
    <3> QED  BY <1>c, <3>1, <3>4, OneCounts
  <2> QED  BY <2>1, <2>2
<1>3. CASE TryComplete(p)
  <2>1. ~Notifying(p) /\ ~Notifying(p)'
    BY <1>3, <1>t DEF TryComplete, Goto, Notifying
  <2>2. (owed' = owed /\ permit' = permit) \/ (permit = TRUE /\ permit' = FALSE /\ owed' = owed - 1)
    BY <1>3, <1>t DEF TryComplete, Complete
  <2>3. Extra \in {0, 1} /\ ((owed' = owed /\ Extra' = Extra) \/ (Extra = 1 /\ Extra' = 0 /\ owed' = owed - 1))
    <3>1. CASE owed' = owed /\ permit' = permit
      BY <3>1 DEF Extra
    <3>2. CASE permit = TRUE /\ permit' = FALSE /\ owed' = owed - 1
      BY <3>2 DEF Extra
    <3> QED  BY <2>2, <3>1, <3>2
  <2>4. owed' \in Int /\ owed' - Extra' = owed - Extra
    BY <1>t, <2>3, SMT
  <2> QED  BY <1>c, <2>1, <2>4, OneCounts
<1>4. CASE \/ Wait(p) \/ Disarm(p) \/ Enqueue(p) \/ (Flag(p) /\ InCurrent(p) /\ permit)
           \/ NotifyLock(p) \/ NotifyWaiters(p) \/ Sweep(p)
  <2>1. owed' = owed /\ permit' = permit
    BY <1>4 DEF Wait, Disarm, Enqueue, Flag, Push, NotifyLock, NotifyWaiters, Sweep, nvars, others
  <2>2. Notifying(p)' <=> Notifying(p)
    BY <1>4, <1>t DEF Wait, Disarm, Enqueue, Flag, Push, NotifyLock, NotifyWaiters, Sweep, Goto, Notifying
  <2>3. owed' = owed /\ Extra' = Extra
    BY <2>1 DEF Extra
  <2> QED  BY <1>c, <1>t, <2>2, <2>3, OneCounts
<1> QED  BY <1>1, <1>2, <1>3, <1>4 DEF WordStep

(* Who ends its wait delivers the notification it got, or has used it up. *)
LEMMA EndCount ==
  ASSUME NotifyInv, NEW p \in Procs, EndMove(p)
  PROVE  CountInv'
<1>t. ParkingInv /\ ParkingTypeOK /\ PointsOK /\ ParkingInv' /\ Frame(p) /\ Local(p) /\ Local(p)'
  BY EndParking, EndLocal DEF NotifyInv, ParkingInv
<1>1. /\ pc[p] \in {"flag", "grab", "woken", "awaited", "removed", "pending"}
      /\ pc'[p] \in {"clear", "unlock", "idle", "notify", "leave"}
      /\ pc'[p] \in {"clear", "unlock"} => ret'[p] = "idle"
      /\ pc[p] = "pending" /\ value[p] = "waiting" <=> pc'[p] = "leave"
      /\ pc[p] \in {"flag", "grab"} <=> pc'[p] \in {"clear", "unlock"}
      /\ UNCHANGED signalVars
  BY <1>t DEF EndMove, PointsOK
<1>2. /\ ~Signaling(p) /\ ~Signaling(p)' /\ ~Notifying(p) /\ (Notifying(p)' <=> pc'[p] = "notify")
      /\ At(p) = pc[p] /\ (Parked(p) <=> pc[p] = "pending") /\ (Parked(p)' <=> pc'[p] = "leave")
      /\ Received(p) <=> pc[p] \in {"woken", "awaited"}
      /\ ~Received(p)' /\ (HasNode(p)' <=> pc'[p] = "leave")
  BY <1>1 DEF Signaling, Notifying, Parked, Received, HasNode, At
<1>3. /\ \A r \in Procs \ {p} : Carries(r)' <=> Carries(r)
      /\ InFlight(p, "signaled")' <=> InFlight(p, "signaled")
  BY <1>t, <1>1, <1>2, OthersCarry
<1>4. pc[p] = "pending" => value[p] = "waiting" \/ Delivered(value[p])
  <2>1. pc[p] = "pending" => value[p] # "uninit"
    BY <1>t, <1>2 DEF ParkingInv, WaiterInv
  <2> QED  BY <1>t, <2>1 DEF ParkingTypeOK, Signals, Delivered
<1>5. CASE pc'[p] = "leave"
  <2>1. UNCHANGED nodeVars /\ owed' = owed /\ permit' = permit
    BY <1>5, <1>1 DEF EndMove, nvars, others
  <2>2. Carries(p)' <=> Carries(p)
    BY <1>2, <1>3, <1>5, <2>1 DEF Carries, Notifying, nodeVars
  <2>3. owed' = owed /\ Extra' = Extra
    BY <2>1 DEF Extra
  <2> QED  BY <1>3, <2>2, <2>3, BooksType, OneCounts
<1>6. CASE pc'[p] # "leave"
  <2>1. ~Busy(p) /\ ~Busy(p)'
    BY <1>t, <1>1, <1>2, <1>4, <1>6 DEF ParkingInv, AliveInv
  <2>2. Carries(p)' <=> pc'[p] = "notify"
    <3>1. value'[p] = "uninit" /\ seen'[p] = "uninit"
      BY <1>t, <1>2, <1>6 DEF Local
    <3> QED  BY <1>2, <2>1, <3>1, FreeCarries
  <2>3. Carries(p) <=> value[p] = "signaled" \/ seen[p] = "signaled"
    BY <1>2, <2>1, FreeCarries
  <2>4. CASE pc[p] \in {"flag", "grab"}
    <3>1. ~Carries(p) /\ ~Carries(p)'
      <4>1. value[p] # "signaled" /\ seen[p] # "signaled"
        BY <1>t, <1>2, <2>4 DEF Local, Prepared
      <4> QED  BY <1>1, <2>2, <2>3, <2>4, <4>1
    <3>2. (owed' = owed /\ permit' = permit) \/ (permit = TRUE /\ permit' = FALSE /\ owed' = owed - 1)
      <4>1. Complete(p) /\ permit \in BOOLEAN
        BY <2>4 DEF EndMove, NotifyInv, WordInv
      <4> QED  BY <4>1 DEF Complete
    <3>3. (owed' = owed /\ Extra' = Extra) \/ (Extra = 1 /\ Extra' = 0 /\ owed' = owed - 1)
      <4>1. CASE owed' = owed /\ permit' = permit
        BY <4>1 DEF Extra
      <4>2. CASE permit = TRUE /\ permit' = FALSE /\ owed' = owed - 1
        BY <4>2 DEF Extra
      <4> QED  BY <3>2, <4>1, <4>2
    <3>4. owed' \in Int /\ owed' - Extra' = owed - Extra
      BY <3>3, BooksType, SMT
    <3> QED  BY <1>3, <3>1, <3>4, OneCounts
  <2>5. CASE pc[p] = "woken"
    <3>1. /\ owed' = (IF seen[p] = "signaled" THEN owed - 1 ELSE owed) /\ permit' = permit
          /\ pc'[p] = "idle"
      BY <2>5 DEF EndMove
    <3>2. value[p] = "signaled" => seen[p] = "signaled"
      BY <1>t, <1>2, <2>5 DEF Local, Delivered
    <3>3. (Carries(p) <=> seen[p] = "signaled") /\ ~Carries(p)' /\ Extra' = Extra
      BY <2>2, <2>3, <3>1, <3>2 DEF Extra
    <3>4. CASE seen[p] = "signaled"
      <4>1. owed' = owed - 1
        BY <3>1, <3>4
      <4>2. owed' \in Int /\ owed' - Extra' = owed - Extra - 1
        BY <3>3, <4>1, BooksType, SMT
      <4> QED  BY <1>3, <3>3, <3>4, <4>2, OneCounts
    <3>5. CASE seen[p] # "signaled"
      BY <1>3, <3>1, <3>3, <3>5, BooksType, OneCounts
    <3> QED  BY <3>4, <3>5
  <2>6. CASE pc[p] \in {"awaited", "removed", "pending"}
    <3>1. owed' = owed /\ permit' = permit
      BY <2>6 DEF EndMove, nvars, others
    <3>2. CASE pc[p] \in {"awaited", "removed"}
      <4>1. pc'[p] = "notify" <=> seen[p] = "signaled"
        BY <3>2 DEF EndMove
      <4>2. value[p] = "signaled" => seen[p] = "signaled"
        BY <1>t, <1>2, <3>2 DEF Local, Delivered
      <4> QED  BY <1>3, <2>2, <2>3, <3>1, <4>1, <4>2, BooksType, OneCounts DEF Extra
    <3>3. CASE pc[p] = "pending"
      <4>1. pc'[p] = "notify" <=> value[p] = "signaled"
        BY <1>1, <1>6, <3>3 DEF EndMove
      <4>2. seen[p] = "uninit"
        BY <1>t, <1>2, <3>3 DEF Local
      <4> QED  BY <1>3, <2>2, <2>3, <3>1, <4>1, <4>2, BooksType, OneCounts DEF Extra
    <3> QED  BY <2>6, <3>2, <3>3
  <2> QED  BY <1>1, <2>4, <2>5, <2>6
<1> QED  BY <1>5, <1>6

(* Sleeping, and signaling: whoever is signaled has been popped for it. *)
LEMMA SleepCarries ==
  ASSUME NotifyInv, NEW p \in Procs, SleepStep(p), NEW n \in Procs
  PROVE  Carries(n)' <=> Carries(n)
<1>t. ParkingInv /\ Frame(p) /\ Local(p) /\ SleepMove(p) /\ (ParkingStep(p) \/ Rouse(p))
  BY SleepFacts, ParkingFrame DEF NotifyInv, SleepStep
<1>s. /\ \/ value'[n] = value[n]
         \/ n = p /\ value'[n] = "waiting"
         \/ Popped(n, p) /\ ~Popped(n, p)' /\ value'[n] = sent[p]
      /\ \A r \in Procs : Popped(n, r)' => Popped(n, r)
      /\ \A r \in Procs : Popped(n, r) => \/ Popped(n, r)' /\ sent'[r] = sent[r]
                                          \/ r = p /\ value'[n] = sent[p]
  BY <1>t, SignalFacts
<1>p. ~Received(p) /\ seen[p] = "uninit" /\ ~Notifying(p) /\ ~Notifying(p)'
  <2>1. /\ \/ pc[p] \in {"swap", "check", "pending", "reload", "await", "park", "rearm", "leave",
                         "take", "store", "storeWake", "wake"}
           \/ pc[p] = "unlock"
        /\ \/ pc'[p] \in {"woken", "awaited", "park", "check", "pending", "rearm", "reload", "await", "remove",
                          "take", "store", "storeWake", "wake", "idle"}
           \/ pc[p] = "unlock" /\ pc'[p] = ret[p]
    BY <1>t DEF SleepMove, WaitMove, UnlockMove, SignalMove, Signaling
  <2>2. pc[p] = "unlock" => ret[p] \in {"idle", "swap", "pending", "signal", "await", "removed"}
    BY <1>t DEF Local
  <2>3. ~Received(p) /\ ~Notifying(p) /\ ~Notifying(p)'
    BY <2>1, <2>2 DEF Received, At, Notifying
  <2> QED  BY <1>t, <2>3 DEF Local
<1>n. Notifying(n)' <=> Notifying(n)
  BY <1>t, <1>p DEF Frame, Notifying
<1>v. Delivered(value[p]) => value'[p] = value[p] \/ seen'[p] = value[p]
  <2>1. CASE Swap(p)
    BY <1>t, <2>1 DEF Swap, Receive, ParkingInv, ParkingTypeOK
  <2>2. CASE StoreSignal(p)
    <3>1. ~Parked(p)
      BY <2>2 DEF StoreSignal, Parked, At
    <3>2. ~Busy(p)
      BY <1>t, <3>1 DEF ParkingInv, AliveInv
    <3> QED  BY <1>t, <2>2, <3>2, StoreStep
  <2>3. CASE ~Swap(p) /\ ~StoreSignal(p)
    <3>1. value' = value
      BY <1>t, <2>3 DEF ParkingStep, Rouse, CheckSignal, Rearm, Reload, Leave, AwaitSignal, Unlock, TakeWaker,
         Wake, ParkReturn, Poll, nodeVars
    <3> QED  BY <3>1
  <2> QED  BY <2>1, <2>2, <2>3
<1>e. n # p => seen'[n] = seen[n]
  BY <1>t DEF Frame
<1>d. Delivered("signaled")
  BY DEF Delivered
<1>1. ASSUME Carries(n) PROVE Carries(n)'
  <2>1. CASE value[n] = "signaled"
    <3>1. ~Popped(n, p)
      BY <1>t, <1>d, <2>1 DEF ParkingInv, AliveInv, Busy
    <3>2. value'[n] = "signaled" \/ seen'[n] = "signaled"
      BY <1>s, <1>v, <1>d, <2>1, <3>1
    <3> QED  BY <3>2 DEF Carries
  <2>2. CASE seen[n] = "signaled"
    BY <1>e, <1>p, <2>2 DEF Carries
  <2>3. CASE InFlight(n, "signaled")
    <3>1. PICK r \in Procs : sent[r] = "signaled" /\ Popped(n, r)
      BY <2>3, FlightFacts
    <3>2. (Popped(n, r)' /\ sent'[r] = "signaled") \/ value'[n] = "signaled"
      BY <1>s, <3>1
    <3> QED  BY <3>2, FlightFacts DEF Carries
  <2>4. CASE Notifying(n)
    BY <1>n, <2>4 DEF Carries, Notifying
  <2> QED  BY <1>1, <2>1, <2>2, <2>3, <2>4 DEF Carries, Notifying
<1>2. ASSUME Carries(n)' PROVE Carries(n)
  <2>1. CASE value'[n] = "signaled"
    <3>1. value[n] = "signaled" \/ (Popped(n, p) /\ sent[p] = "signaled")
      BY <1>s, <2>1
    <3> QED  BY <3>1, FlightFacts DEF Carries
  <2>2. CASE seen'[n] = "signaled"
    <3>1. n = p => seen'[p] = seen[p] \/ seen'[p] = value[p]
      BY <1>t DEF SleepMove, WaitMove, UnlockMove, SignalMove, nodeVars
    <3> QED  BY <1>e, <2>2, <3>1 DEF Carries
  <2>3. CASE InFlight(n, "signaled")'
    <3>1. PICK r \in Procs : sent'[r] = "signaled" /\ Popped(n, r)'
      BY <2>3, FlightFacts
    <3>2. sent[r] = "signaled"
      <4>1. r # p => sent'[r] = sent[r]
        BY <1>t DEF Frame
      <4>2. sent'[p] = sent[p] \/ sent'[p] = "uninit"
        BY <1>t DEF SleepMove, WaitMove, UnlockMove, SignalMove
      <4> QED  BY <3>1, <4>1, <4>2
    <3> QED  BY <1>s, <3>1, <3>2, FlightFacts DEF Carries
  <2>4. CASE Notifying(n)'
    BY <1>n, <2>4 DEF Carries, Notifying
  <2> QED  BY <1>2, <2>1, <2>2, <2>3, <2>4 DEF Carries, Notifying
<1> QED  BY <1>1, <1>2

(* A pop hands the notification over to the first in line. *)
LEMMA PopCount ==
  ASSUME NotifyInv, NEW p \in Procs, LineMove(p), pc[p] = "pop"
  PROVE  CountInv'
<1>t. /\ ParkingInv /\ ParkingTypeOK /\ PointsOK /\ Local(p) /\ ParkingInv' /\ Local(p)'
      /\ line \in Seq(Procs) /\ line # <<>>
  BY LineParking, LineLocal DEF NotifyInv, ParkingInv, ParkingTypeOK, Local
<1>1. /\ sent' = [sent EXCEPT ![p] = "signaled"] /\ chain' = [chain EXCEPT ![p] = <<Head(line)>>]
      /\ UNCHANGED <<nodeVars, node, others>> /\ ret'[p] = "signal" /\ pc'[p] \in {"clear", "unlock"}
      /\ \A r \in Procs \ {p} : pc'[r] = pc[r]
  BY <1>t DEF LineMove, Locked, PointsOK
<1>2. PICK h \in Procs : h = Head(line)
  BY <1>t, HeadFacts
<1>3. InLine(h)
  BY <1>t, <1>2, HeadFacts DEF InLine
<1>4. h # p /\ ~Carries(h)
  <2>1. Parked(h) /\ ~Delivered(value[h]) /\ ~Received(h) /\ ~Notifying(h) /\ h # p
    <3>1. Parked(h) /\ ~Delivered(value[h])
      BY <1>t, <1>3 DEF ParkingInv, AliveInv, Busy
    <3>2. ~Received(h) /\ ~Notifying(h) /\ h # p
      BY <3>1 DEF Parked, Received, Notifying, At
    <3> QED  BY <3>1, <3>2
  <2>2. value[h] # "signaled" /\ seen[h] # "signaled"
    BY <2>1 DEF NotifyInv, Local, Delivered
  <2>3. ~InFlight(h, "signaled")
    BY <1>t, <1>3, FlightFacts DEF ParkingInv, PlacesInv
  <2> QED  BY <2>1, <2>2, <2>3 DEF Carries, Notifying
<1>c. chain'[p] = <<h>> /\ sent'[p] = "signaled" /\ sent[p] = "uninit"
  <2>1. ~Signaling(p) /\ At(p) # "signal"
    BY DEF Signaling, At
  <2> QED  BY <1>1, <1>2, <1>t, <2>1 DEF ParkingTypeOK, Local
<1>a. \A n \in Procs : Among(n, <<h>>) <=> n = h
  BY SMT DEF Among
<1>s. \A r \in Procs \ {p} : chain'[r] = chain[r] /\ sent'[r] = sent[r]
  BY <1>1, <1>t DEF ParkingTypeOK
<1>5. Carries(h)'
  <2>1. Popped(h, p)'
    BY <1>a, <1>c DEF Popped, InChain
  <2> QED  BY <1>c, <2>1, FlightFacts DEF Carries
<1>6. Carries(p) /\ ~Carries(p)'
  <2>1. At(p)' = "signal" /\ ~Notifying(p)'
    BY <1>1 DEF At, Notifying
  <2>2. ~Parked(p)' /\ ~HasNode(p)' /\ ~Received(p)'
    BY <2>1 DEF Parked, HasNode, Received
  <2>3. ~Busy(p)' /\ value'[p] = "uninit" /\ seen'[p] = "uninit"
    BY <1>t, <2>2 DEF ParkingInv, AliveInv, Local
  <2> QED  BY <2>1, <2>3, FreeCarries DEF Carries
<1>7. ASSUME NEW n \in Procs, n # p, n # h PROVE Carries(n)' <=> Carries(n)
  <2>1. ASSUME NEW r \in Procs \ {p} PROVE Popped(n, r)' <=> Popped(n, r)
    BY <1>1, <1>s, <2>1 DEF Popped, InChain, Storing
  <2>2. ~Popped(n, p)'
    BY <1>1, <1>a, <1>c, <1>7 DEF Popped, InChain, Storing
  <2>3. InFlight(n, "signaled")' <=> InFlight(n, "signaled")
    BY <1>c, <1>s, <2>1, <2>2, FlightFacts
  <2> QED  BY <1>1, <1>7, <2>3 DEF Carries, nodeVars
<1>8. Carriers' = (Carriers \ {p}) \cup {h} /\ p \in Carriers /\ h \notin Carriers \ {p}
  BY <1>4, <1>5, <1>6, <1>7 DEF Carriers
<1>9. IsFiniteSet(Carriers) /\ Cardinality(Carriers) \in Nat
  BY FS_CardinalityType DEF NotifyInv, CountInv
<1>10. IsFiniteSet(Carriers \ {p}) /\ Cardinality(Carriers \ {p}) = Cardinality(Carriers) - 1
  BY <1>8, <1>9, FS_RemoveElement
<1>11. IsFiniteSet(Carriers') /\ Cardinality(Carriers') = Cardinality(Carriers \ {p}) + 1
  BY <1>8, <1>10, FS_AddElement
<1>12. Cardinality(Carriers') = Cardinality(Carriers)
  BY <1>9, <1>10, <1>11, SMT
<1>13. owed' = owed /\ permit' = permit
  BY <1>1 DEF others
<1> QED  BY <1>11, <1>12, <1>13 DEF NotifyInv, CountInv

(* Nothing else in the line is anybody's notification. *)
LEMMA LineCount ==
  ASSUME NotifyInv, NEW p \in Procs, LineMove(p), pc[p] # "pop"
  PROVE  CountInv'
<1>t. ParkingTypeOK /\ Local(p)
  BY DEF NotifyInv, ParkingInv
<1>1. /\ pc[p] \in {"flag", "grab", "select", "remove"} /\ pc'[p] \in {"clear", "unlock"}
      /\ UNCHANGED <<nodeVars, node, others>> /\ \A r \in Procs \ {p} : pc'[r] = pc[r]
  BY DEF LineMove, Locked
<1>2. ASSUME NEW n \in Procs, NEW r \in Procs
      PROVE  sent'[r] = "signaled" /\ Popped(n, r)' <=> sent[r] = "signaled" /\ Popped(n, r)
  <2>1. pc'[r] \in {"store", "storeWake"} <=> pc[r] \in {"store", "storeWake"}
    BY <1>1
  <2>2. CASE pc[p] = "select"
    <3>1. /\ sent' = [sent EXCEPT ![p] = "all"]
          /\ \E k \in 0 .. Len(line) : chain' = [chain EXCEPT ![p] = SubSeq(line, 1, k)]
      BY <2>2 DEF LineMove
    <3>2. sent'[p] = "all" /\ (r # p => sent'[r] = sent[r] /\ chain'[r] = chain[r])
      BY <1>t, <3>1 DEF ParkingTypeOK
    <3>3. sent[p] = "uninit"
      BY <1>t, <2>2 DEF Local, Signaling, At
    <3> QED  BY <1>1, <2>1, <3>2, <3>3 DEF Popped, InChain, Storing
  <2>3. CASE pc[p] # "select"
    <3>1. chain' = chain /\ sent' = sent
      BY <1>1, <2>3 DEF LineMove
    <3> QED  BY <1>1, <2>1, <3>1 DEF Popped, InChain, Storing
  <2> QED  BY <2>2, <2>3
<1>3. ASSUME NEW n \in Procs PROVE Carries(n)' <=> Carries(n)
  <2>1. InFlight(n, "signaled")' <=> InFlight(n, "signaled")
    BY <1>2, FlightFacts
  <2>2. pc'[n] \in {"notify", "notifyLock", "pop"} <=> pc[n] \in {"notify", "notifyLock", "pop"}
    BY <1>1
  <2> QED  BY <1>1, <2>1, <2>2 DEF Carries, nodeVars
<1>4. Carriers' = Carriers /\ owed' = owed /\ permit' = permit
  BY <1>1, <1>3 DEF Carriers, others
<1> QED  BY <1>4 DEF NotifyInv, CountInv

(* Clearing the flag, sleeping and signaling. *)
LEMMA QueueCount ==
  ASSUME NotifyInv, NEW p \in Procs, ClearStep(p) \/ SleepStep(p)
  PROVE  CountInv'
<1>1. ASSUME NEW n \in Procs PROVE Carries(n)' <=> Carries(n)
  <2>1. CASE SleepStep(p)
    BY <2>1, SleepCarries
  <2>2. CASE ClearStep(p)
    <3>1. /\ pc[p] = "clear" /\ pc'[p] = "unlock" /\ \A r \in Procs \ {p} : pc'[r] = pc[r]
          /\ value' = value /\ seen' = seen /\ chain' = chain /\ sent' = sent /\ node' = node
      BY <2>2 DEF ClearStep, Clear, Goto, nodeVars, signalVars, NotifyInv, ParkingInv, PointsOK
    <3>2. ASSUME NEW r \in Procs PROVE pc'[r] \in {"store", "storeWake"} <=> pc[r] \in {"store", "storeWake"}
      BY <3>1
    <3>3. InFlight(n, "signaled")' <=> InFlight(n, "signaled")
      BY <3>1, <3>2 DEF InFlight
    <3>4. pc'[n] \in {"notify", "notifyLock", "pop"} <=> pc[n] \in {"notify", "notifyLock", "pop"}
      BY <3>1
    <3> QED  BY <3>1, <3>3, <3>4 DEF Carries
  <2> QED  BY <2>1, <2>2
<1>2. Carriers' = Carriers /\ owed' = owed /\ permit' = permit
  BY <1>1 DEF Carriers, ClearStep, SleepStep, nvars, others
<1> QED  BY <1>2 DEF NotifyInv, CountInv

(* All the steps. *)
LEMMA StepCount ==
  ASSUME NotifyInv, NEW p \in Procs, NotifyStep(p)
  PROVE  CountInv'
BY WordCount, EndFacts, EndCount, LineFacts, PopCount, LineCount, QueueCount DEF NotifyStep

-----------------------------------------------------------------------------
(* Every step is one of these. *)
LEMMA NextSteps ==
  ASSUME NotifyInv, Next
  PROVE  \E p \in Procs : NotifyStep(p)
<1>1. PICK p \in Procs : \/ Wait(p) \/ Disarm(p) \/ NotifyOne(p) \/ NotifyWaiters(p) \/ Drop(p)
                         \/ Step(p) \/ (Rouse(p) /\ UNCHANGED nvars)
  BY DEF Next
<1>2. Flag(p) => (InCurrent(p) /\ permit) \/ ~InCurrent(p) \/ (InCurrent(p) /\ ~permit)
  OBVIOUS
<1>3. Grab(p) => Finished(p) \/ Push(p)
  BY DEF Grab
<1>4. QueueStep(p) /\ UNCHANGED others => ClearStep(p) \/ SleepStep(p)
  BY DEF QueueStep, ClearStep, SleepStep, nvars
<1> QED  BY <1>1, <1>2, <1>3, <1>4 DEF Step, NotifyStep, WordStep, EndStep, LineStep, SleepStep

(* The initial state. *)
LEMMA StartsWell == Init => NotifyInv
<1> SUFFICES ASSUME Init PROVE NotifyInv
  OBVIOUS
<1>1. ParkingInv
  BY ParkingStart DEF Init
<1>2. /\ pc = [r \in Procs |-> "idle"] /\ value = [r \in Procs |-> "uninit"]
      /\ seen = [r \in Procs |-> "uninit"] /\ sent = [r \in Procs |-> "uninit"]
      /\ line = <<>> /\ holder = NoProc /\ hasQueue = FALSE /\ permit = FALSE
      /\ behind = [r \in Procs |-> 0] /\ owed = 0
  BY DEF Init, ParkingInit, QueueInit
<1>3. ASSUME NEW p \in Procs
      PROVE  pc[p] = "idle" /\ value[p] = "uninit" /\ seen[p] = "uninit" /\ sent[p] = "uninit" /\ At(p) = "idle"
  BY <1>2 DEF At
<1>4. ASSUME NEW p \in Procs PROVE Local(p)
  <2>1. ~Locking(p) /\ ~Received(p)
    BY <1>3 DEF Locking, Received
  <2> QED  BY <1>3, <2>1 DEF Local
<1>5. WordInv
  <2>1. behind \in [Procs -> Nat]
    BY <1>2, SMT
  <2> QED  BY <1>2, <2>1 DEF WordInv, FlagMeansLine, NobodySleepsOnPermit
<1>6. OldOnesReleased
  <2>1. ASSUME NEW i \in 1 .. Len(line) PROVE FALSE
    BY <1>2, <2>1, SMT
  <2> QED  BY <2>1 DEF OldOnesReleased
<1>7. CountInv
  <2>1. ASSUME NEW p \in Procs PROVE ~Carries(p)
    <3>1. ~InFlight(p, "signaled")
      BY <1>3, FlightFacts
    <3> QED  BY <1>3, <3>1 DEF Carries
  <2>2. Carriers = {}
    BY <2>1 DEF Carriers
  <2> QED  BY <1>2, <2>2, FS_EmptySet, SMT DEF CountInv
<1> QED  BY <1>1, <1>4, <1>5, <1>6, <1>7 DEF NotifyInv

(* A step that changes nothing. *)
LEMMA StutterKeeps ==
  ASSUME NotifyInv, UNCHANGED vars
  PROVE  NotifyInv'
<1>1. ParkingInv'
  BY ParkingUnchanged DEF NotifyInv, vars
<1>2. /\ pc' = pc /\ ret' = ret /\ value' = value /\ slot' = slot /\ seen' = seen /\ sent' = sent
      /\ chain' = chain /\ node' = node /\ line' = line /\ holder' = holder
      /\ hasQueue' = hasQueue /\ permit' = permit /\ behind' = behind /\ owed' = owed
  BY DEF vars, pvars, qvars, nodeVars, signalVars, nvars, others
<1>3. ASSUME NEW p \in Procs PROVE Local(p)'
  <2>1. Local(p)
    BY DEF NotifyInv
  <2>2. At(p)' = At(p)
    BY <1>2 DEF At
  <2>3. (Parked(p)' <=> Parked(p)) /\ (Locking(p)' <=> Locking(p)) /\ (Signaling(p)' <=> Signaling(p))
    BY <1>2, <2>2 DEF Parked, Locking, Signaling
  <2>4. (HasNode(p)' <=> HasNode(p)) /\ (Received(p)' <=> Received(p)) /\ (Prepared(p)' <=> Prepared(p))
    BY <1>2, <2>2, <2>3 DEF HasNode, Received, Prepared, Tasks
  <2> QED  BY <1>2, <2>1, <2>2, <2>3, <2>4 DEF Local
<1>4. WordInv'
  BY <1>2 DEF NotifyInv, WordInv, FlagMeansLine, NobodySleepsOnPermit
<1>5. OldOnesReleased'
  BY <1>2 DEF NotifyInv, OldOnesReleased, InCurrent
<1>6. CountInv'
  <2>1. ASSUME NEW p \in Procs PROVE Carries(p)' <=> Carries(p)
    BY <1>2 DEF Carries, InFlight
  <2>2. Carriers' = Carriers
    BY <2>1 DEF Carriers
  <2> QED  BY <1>2, <2>2 DEF NotifyInv, CountInv
<1> QED  BY <1>1, <1>3, <1>4, <1>5, <1>6 DEF NotifyInv

(* The invariant of the notifier. *)
THEOREM NotifyInvariance == Spec => []NotifyInv
<1>1. NotifyInv /\ [Next]_vars => NotifyInv'
  <2>1. ASSUME NotifyInv, Next PROVE NotifyInv'
    <3>1. PICK p \in Procs : NotifyStep(p)
      BY <2>1, NextSteps
    <3>2. ParkingInv' /\ (\A r \in Procs : Local(r)') /\ OldOnesReleased' /\ CountInv'
      BY <2>1, <3>1, StepParking, StepLocal, StepOld, StepCount
    <3>3. WordInv'
      BY <2>1, <3>1, StepFlag, StepPermit, StepBehind DEF WordInv
    <3> QED  BY <3>2, <3>3 DEF NotifyInv
  <2> QED  BY <2>1, StutterKeeps
<1> QED  BY <1>1, StartsWell, PTL DEF Spec

(* Every notify_one wakes exactly one wait, unless the stored permit absorbs *)
(* it, for any number of threads and tasks: notify_one_slow, try_complete,   *)
(* finish and drop_slow neither lose a notification nor use one twice.       *)
THEOREM NotificationsConservedHolds == Spec => []NotificationsConserved
<1>1. NotifyInv => NotificationsConserved
  BY DEF NotifyInv, CountInv, Carriers, NotificationsConserved
<1> QED  BY <1>1, NotifyInvariance, PTL

(* Nobody is in line beside a stored permit: enqueue_or_complete looks for   *)
(* one after it has set HAS_QUEUE, notify_one stores one only while it is    *)
(* clear.                                                                    *)
THEOREM NobodySleepsOnPermitHolds == Spec => []NobodySleepsOnPermit
<1>1. NotifyInv => NobodySleepsOnPermit
  BY DEF NotifyInv, WordInv
<1> QED  BY <1>1, NotifyInvariance, PTL

(* Whoever waits for a generation that is over has a notify_waiters on the   *)
(* way that reaches it: old entries form a prefix of the line.               *)
THEOREM OldOnesReleasedHolds == Spec => []OldOnesReleased
<1>1. NotifyInv => OldOnesReleased
  BY DEF NotifyInv
<1> QED  BY <1>1, NotifyInvariance, PTL

(* HAS_QUEUE is set while somebody is in line, and clear when nobody is and  *)
(* the queue is not locked.                                                  *)
THEOREM NotifyFlagMeansLine == Spec => []FlagMeansLine
<1>1. NotifyInv => FlagMeansLine
  BY DEF NotifyInv, WordInv
<1> QED  BY <1>1, NotifyInvariance, PTL

(* Signals of the notifier are safe for its waiters, and wake them.          *)
THEOREM NotifyWaitersSafe == Spec => []WaitersSafe
<1>1. NotifyInv => WaitersSafe
  BY InvSafe DEF NotifyInv
<1> QED  BY <1>1, NotifyInvariance, PTL

=============================================================================
