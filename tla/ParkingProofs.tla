--------------------------- MODULE ParkingProofs ---------------------------
(***************************************************************************)
(* Waiting and signaling for any number of threads and tasks: an inductive *)
(* invariant of the steps of Parking, and what a primitive's own steps owe *)
(* it.  With it WaitersSafe holds of every primitive that pays.            *)
(***************************************************************************)
EXTENDS Parking, TLAPS

(* Zenon is tried on every leaf that names no other prover. *)
USE Zenon

(* Facts about lines, sequences in which nobody is twice: what is in them    *)
(* after a push, a pop or a removal.                                         *)
Among(n, s) == \E i \in 1 .. Len(s) : s[i] = n

Distinct(s) == \A i, j \in 1 .. Len(s) : s[i] = s[j] => i = j

Without(s, k) == SubSeq(s, 1, k - 1) \o SubSeq(s, k + 1, Len(s))

(* One sequence after another. *)
LEMMA ConcatFacts ==
  ASSUME NEW S, NEW a \in Seq(S), NEW b \in Seq(S)
  PROVE  /\ a \o b \in Seq(S) /\ Len(a \o b) = Len(a) + Len(b)
         /\ \A i \in 1 .. Len(a) + Len(b) : (a \o b)[i] = IF i <= Len(a) THEN a[i] ELSE b[i - Len(a)]
<1>1. a \o b \in Seq(S) /\ Len(a \o b) = Len(a) + Len(b)
  BY SMT
<1>2. \A i \in 1 .. Len(a) + Len(b) : (a \o b)[i] = IF i <= Len(a) THEN a[i] ELSE b[i - Len(a)]
  BY SMT
<1> QED  BY <1>1, <1>2

(* Removing the k-th node shifts the later ones by one. *)
LEMMA WithoutFacts ==
  ASSUME NEW S, NEW s \in Seq(S), NEW k \in 1 .. Len(s)
  PROVE  /\ Len(Without(s, k)) = Len(s) - 1
         /\ \A i \in 1 .. Len(s) - 1 : Without(s, k)[i] = IF i < k THEN s[i] ELSE s[i + 1]
<1> DEFINE a == SubSeq(s, 1, k - 1)
           b == SubSeq(s, k + 1, Len(s))
<1>1. Len(s) \in Nat /\ k \in Nat /\ 1 <= k /\ k <= Len(s) /\ \A i \in 1 .. Len(s) : s[i] \in S
  BY SMT
<1>2. a \in Seq(S) /\ Len(a) = k - 1 /\ \A i \in 1 .. k - 1 : a[i] = s[i]
  BY <1>1, SMT
<1>3. b \in Seq(S) /\ Len(b) = Len(s) - k /\ \A i \in 1 .. Len(s) - k : b[i] = s[k + i]
  BY <1>1, SMT
<1> HIDE DEF a, b
<1>4. /\ Len(a \o b) = Len(a) + Len(b)
      /\ \A i \in 1 .. Len(a) + Len(b) : (a \o b)[i] = IF i <= Len(a) THEN a[i] ELSE b[i - Len(a)]
  BY <1>2, <1>3, ConcatFacts
<1>5. ASSUME NEW i \in 1 .. Len(s) - 1 PROVE (a \o b)[i] = IF i < k THEN s[i] ELSE s[i + 1]
  <2>1. CASE i < k
    BY <1>1, <1>2, <1>3, <1>4, <2>1, SMT
  <2>2. CASE ~(i < k)
    <3>1. i - (k - 1) \in 1 .. Len(s) - k /\ k + (i - (k - 1)) = i + 1
      BY <1>1, <2>2, SMT
    <3>2. (a \o b)[i] = b[i - (k - 1)]
      BY <1>1, <1>2, <1>3, <1>4, <2>2, SMT
    <3> QED  BY <1>3, <2>2, <3>1, <3>2
  <2> QED  BY <2>1, <2>2
<1>6. Len(a \o b) = Len(s) - 1
  BY <1>1, <1>2, <1>3, <1>4, SMT
<1> QED  BY <1>5, <1>6 DEF Without, a, b

(* A push adds one at the end. *)
LEMMA PushFacts ==
  ASSUME NEW S, NEW s \in Seq(S), NEW x \in S
  PROVE  /\ \A n : Among(n, Append(s, x)) <=> Among(n, s) \/ n = x
         /\ Distinct(s) /\ ~Among(x, s) => Distinct(Append(s, x))
<1> DEFINE t == Append(s, x)
<1>1. t \in Seq(S) /\ Len(t) = Len(s) + 1 /\ t[Len(s) + 1] = x /\ \A i \in 1 .. Len(s) : t[i] = s[i]
  BY SMT
<1>2. Len(s) \in Nat
  BY SMT
<1> HIDE DEF t
<1>3. \A n : Among(n, t) <=> Among(n, s) \/ n = x
  BY <1>1, <1>2, SMT DEF Among
<1>4. Distinct(s) /\ ~Among(x, s) => Distinct(t)
  BY <1>1, <1>2, SMT DEF Distinct, Among
<1> QED  BY <1>3, <1>4 DEF t

(* What is popped and what is left share the line between them. *)
LEMMA SplitFacts ==
  ASSUME NEW S, NEW s \in Seq(S), NEW k \in 0 .. Len(s)
  PROVE  /\ SubSeq(s, 1, k) \in Seq(S) /\ SubSeq(s, k + 1, Len(s)) \in Seq(S)
         /\ \A n : Among(n, s) <=> Among(n, SubSeq(s, 1, k)) \/ Among(n, SubSeq(s, k + 1, Len(s)))
         /\ Distinct(s) => /\ Distinct(SubSeq(s, 1, k)) /\ Distinct(SubSeq(s, k + 1, Len(s)))
                           /\ \A n : ~(Among(n, SubSeq(s, 1, k)) /\ Among(n, SubSeq(s, k + 1, Len(s))))
<1> DEFINE a == SubSeq(s, 1, k)
           b == SubSeq(s, k + 1, Len(s))
<1>1. Len(s) \in Nat /\ k \in Nat /\ k <= Len(s) /\ \A i \in 1 .. Len(s) : s[i] \in S
  BY SMT
<1>2. a \in Seq(S) /\ Len(a) = k /\ \A i \in 1 .. k : a[i] = s[i]
  BY <1>1, SMT
<1>3. b \in Seq(S) /\ Len(b) = Len(s) - k /\ \A i \in 1 .. Len(s) - k : b[i] = s[k + i]
  BY <1>1, SMT
<1> HIDE DEF a, b
<1>4. \A n : Among(n, s) <=> Among(n, a) \/ Among(n, b)
  <2>1. ASSUME NEW n, Among(n, s) PROVE Among(n, a) \/ Among(n, b)
    <3>1. PICK i \in 1 .. Len(s) : s[i] = n
      BY <2>1 DEF Among
    <3>2. CASE i <= k
      BY <1>1, <1>2, <3>1, <3>2, SMT DEF Among
    <3>3. CASE ~(i <= k)
      <4>1. i - k \in 1 .. Len(b) /\ b[i - k] = n
        BY <1>1, <1>3, <3>1, <3>3, SMT
      <4> QED  BY <4>1 DEF Among
    <3> QED  BY <3>2, <3>3
  <2>2. ASSUME NEW n, Among(n, a) PROVE Among(n, s)
    BY <1>1, <1>2, <2>2, SMT DEF Among
  <2>3. ASSUME NEW n, Among(n, b) PROVE Among(n, s)
    BY <1>1, <1>3, <2>3, SMT DEF Among
  <2> QED  BY <2>1, <2>2, <2>3
<1>5. ASSUME Distinct(s) PROVE Distinct(a) /\ Distinct(b) /\ \A n : ~(Among(n, a) /\ Among(n, b))
  <2>1. Distinct(a)
    BY <1>1, <1>2, <1>5, SMT DEF Distinct
  <2>2. Distinct(b)
    BY <1>1, <1>3, <1>5, SMT DEF Distinct
  <2>3. ASSUME NEW n, Among(n, a), Among(n, b) PROVE FALSE
    <3>1. PICK i \in 1 .. k : s[i] = n
      BY <1>2, <2>3 DEF Among
    <3>2. PICK j \in 1 .. Len(s) - k : s[k + j] = n
      BY <1>3, <2>3 DEF Among
    <3> QED  BY <1>1, <1>5, <3>1, <3>2, SMT DEF Distinct
  <2> QED  BY <2>1, <2>2, <2>3
<1> QED  BY <1>2, <1>3, <1>4, <1>5 DEF a, b

(* The front of a line and the rest. *)
LEMMA HeadFacts ==
  ASSUME NEW S, NEW s \in Seq(S), s # <<>>
  PROVE  /\ Head(s) \in S /\ Tail(s) \in Seq(S)
         /\ \A n : Among(n, s) <=> n = Head(s) \/ Among(n, Tail(s))
         /\ Distinct(s) => Distinct(Tail(s)) /\ ~Among(Head(s), Tail(s))
<1> DEFINE t == Tail(s)
           h == Head(s)
<1>1. /\ Len(s) \in Nat /\ Len(s) >= 1 /\ h = s[1] /\ h \in S /\ t \in Seq(S)
      /\ Len(t) = Len(s) - 1 /\ \A i \in 1 .. Len(s) - 1 : t[i] = s[i + 1]
  BY SMT
<1> HIDE DEF t, h
<1>2. ASSUME NEW n PROVE Among(n, s) <=> n = h \/ Among(n, t)
  <2>1. ASSUME Among(n, s) PROVE n = h \/ Among(n, t)
    <3>1. PICK i \in 1 .. Len(s) : s[i] = n
      BY <2>1 DEF Among
    <3>2. CASE i = 1
      BY <1>1, <3>1, <3>2
    <3>3. CASE i # 1
      <4>1. i - 1 \in 1 .. Len(t) /\ t[i - 1] = n
        BY <1>1, <3>1, <3>3, SMT
      <4> QED  BY <4>1 DEF Among
    <3> QED  BY <3>2, <3>3
  <2>2. Among(n, t) \/ n = h => Among(n, s)
    BY <1>1, SMT DEF Among
  <2> QED  BY <2>1, <2>2
<1>3. Distinct(s) => Distinct(t) /\ ~Among(h, t)
  BY <1>1, SMT DEF Distinct, Among
<1> QED  BY <1>1, <1>2, <1>3 DEF t, h

(* A removal takes out the one it is about and leaves the others. *)
LEMMA RemoveFacts ==
  ASSUME NEW S, NEW s \in Seq(S), NEW k \in 1 .. Len(s), Distinct(s)
  PROVE  /\ Without(s, k) \in Seq(S)
         /\ \A n : Among(n, Without(s, k)) <=> Among(n, s) /\ n # s[k]
         /\ Distinct(Without(s, k))
<1> DEFINE t == Without(s, k)
<1>1. /\ Len(t) = Len(s) - 1 /\ \A i \in 1 .. Len(s) - 1 : t[i] = IF i < k THEN s[i] ELSE s[i + 1]
  BY WithoutFacts
<1>2. Len(s) \in Nat /\ k \in Nat /\ 1 <= k /\ k <= Len(s) /\ \A i \in 1 .. Len(s) : s[i] \in S
  BY SMT
<1>3. t \in Seq(S)
  <2>1. SubSeq(s, 1, k - 1) \in Seq(S) /\ SubSeq(s, k + 1, Len(s)) \in Seq(S)
    BY <1>2, SMT
  <2> QED  BY <2>1, ConcatFacts DEF Without
<1> HIDE DEF t
<1>4. ASSUME NEW n PROVE Among(n, t) <=> Among(n, s) /\ n # s[k]
  <2>1. ASSUME Among(n, t) PROVE Among(n, s) /\ n # s[k]
    BY <1>1, <1>2, <2>1, SMT DEF Among, Distinct
  <2>2. ASSUME Among(n, s), n # s[k] PROVE Among(n, t)
    <3>1. PICK i \in 1 .. Len(s) : s[i] = n /\ i # k
      BY <2>2 DEF Among
    <3>2. CASE i < k
      BY <1>1, <1>2, <3>1, <3>2, SMT DEF Among
    <3>3. CASE i > k
      <4>1. i - 1 \in 1 .. Len(t) /\ t[i - 1] = n
        BY <1>1, <1>2, <3>1, <3>3, SMT
      <4> QED  BY <4>1 DEF Among
    <3> QED  BY <1>2, <3>1, <3>2, <3>3, SMT
  <2> QED  BY <2>1, <2>2
<1>5. Distinct(t)
  BY <1>1, <1>2, SMT DEF Distinct
<1> QED  BY <1>3, <1>4, <1>5 DEF t

-----------------------------------------------------------------------------

(* Where a node can be between its push and its signal. *)
InLine(n) == Among(n, line)
InChain(n, p) == Among(n, chain[p])
Storing(n, p) == pc[p] \in {"store", "storeWake"} /\ node[p] = n
Popped(n, p) == InChain(n, p) \/ Storing(n, p)
Busy(n) == InLine(n) \/ \E p \in Procs : Popped(n, p)

Signaling(p) == pc[p] \in {"take", "store", "storeWake", "wake"}

(* Unlocking a queue leads neither to another unlock nor among signalers. *)
PointsOK ==
    /\ pc = [r \in Procs |-> pc[r]] /\ ret = [r \in Procs |-> ret[r]]
    /\ \A p \in Procs : ret[p] \notin {"clear", "unlock", "take", "store", "storeWake", "wake", "park"}

(* A node is in one place only. *)
PlacesInv ==
    /\ Distinct(line) /\ \A p \in Procs : Distinct(chain[p])
    /\ \A n, p \in Procs : Popped(n, p) => ~InLine(n)
    /\ \A n, p, r \in Procs : Popped(n, p) /\ Popped(n, r) => p = r
    /\ \A n, p \in Procs : ~(InChain(n, p) /\ Storing(n, p))

(* As long as it is there, its owner waits and has its waker in the slot. *)
AliveInv ==
    \A n \in Procs :
        /\ Busy(n) => Parked(n) /\ ~Delivered(value[n])
        /\ InLine(n) \/ (\E p \in Procs : InChain(n, p)) => slot[n] = TRUE

(* A signaler has something to deliver, and somebody to deliver it to. *)
SignalerInv ==
    \A p \in Procs :
        /\ pc[p] = "take" => chain[p] # <<>>
        /\ pc[p] # "store"
        /\ pc[p] \in {"storeWake", "wake"} => node[p] \in Procs
        /\ Signaling(p) \/ At(p) = "signal" => Delivered(sent[p])

(* Only a thread that has not announced itself may be signaled silently. *)
WaiterInv == \A p \in Procs : Parked(p) => At(p) = "swap" \/ value[p] # "uninit"

Asleep(p) == pc[p] = "park" \/ At(p) \in {"pending", "rearm"}

WakeComing(p) == awake[p] = TRUE \/ \E r \in Procs : pc[r] = "wake" /\ node[r] = p

WakeInv == \A p \in Procs : Asleep(p) /\ Delivered(value[p]) => WakeComing(p)

ParkingInv ==
    /\ ParkingTypeOK /\ PointsOK /\ PlacesInv /\ AliveInv
    /\ SignalerInv /\ WaiterInv /\ WakeInv

(* What others see of a process that has not moved. *)
LEMMA SamePoint ==
  ASSUME NEW r \in Procs, pc'[r] = pc[r], ret'[r] = ret[r]
  PROVE  /\ At(r)' = At(r) /\ (Parked(r)' <=> Parked(r))
         /\ (Asleep(r)' <=> Asleep(r)) /\ (Signaling(r)' <=> Signaling(r))
<1>1. At(r)' = At(r)
  BY DEF At
<1> QED  BY <1>1 DEF Parked, Asleep, Signaling

(* A step that leaves waiting alone. *)
LEMMA ParkingUnchanged ==
  ASSUME ParkingInv, UNCHANGED pvars
  PROVE  ParkingInv'
<1>1. UNCHANGED <<holder, line, pc, value, slot, awake, seen, ret, chain, sent, node>>
  BY DEF pvars, qvars, nodeVars, signalVars
<1>2. ParkingTypeOK' /\ PointsOK'
  BY <1>1 DEF ParkingInv, ParkingTypeOK, PointsOK
<1>3. ASSUME NEW n, NEW r \in Procs
      PROVE  /\ InLine(n)' <=> InLine(n)
             /\ InChain(n, r)' <=> InChain(n, r)
             /\ Storing(n, r)' <=> Storing(n, r)
  BY <1>1 DEF InLine, InChain, Storing, Among
<1>4. ASSUME NEW r \in Procs
      PROVE  /\ At(r)' = At(r) /\ (Parked(r)' <=> Parked(r))
             /\ (Asleep(r)' <=> Asleep(r)) /\ (Signaling(r)' <=> Signaling(r))
  BY <1>1, SamePoint
<1>5. PlacesInv'
  <2>1. Distinct(line)' /\ \A r \in Procs : Distinct(chain[r])'
    BY <1>1 DEF ParkingInv, PlacesInv, Distinct
  <2> QED  BY <1>3, <2>1 DEF ParkingInv, PlacesInv, Popped
<1>6. AliveInv'
  BY <1>1, <1>3, <1>4 DEF ParkingInv, AliveInv, Busy, Popped
<1>7. SignalerInv'
  BY <1>1, <1>4 DEF ParkingInv, SignalerInv
<1>8. WaiterInv' /\ WakeInv'
  BY <1>1, <1>4 DEF ParkingInv, WaiterInv, WakeInv, WakeComing
<1> QED  BY <1>2, <1>5, <1>6, <1>7, <1>8 DEF ParkingInv

(* A step of p that leaves the line and all signalers alone keeps the        *)
(* invariant if p stays as long as its node is in use, and falls asleep only *)
(* when it will be woken.                                                    *)
LEMMA OwnStep ==
  ASSUME ParkingInv, NEW p \in Procs, ParkingTypeOK', PointsOK',
         line' = line, chain' = chain, node' = node, sent' = sent,
         \A r \in Procs \ {p} : /\ pc'[r] = pc[r] /\ ret'[r] = ret[r] /\ value'[r] = value[r]
                                /\ slot'[r] = slot[r] /\ awake'[r] = awake[r],
         ~Signaling(p), ~Signaling(p)', At(p)' # "signal",
         Busy(p) => Parked(p)' /\ ~Delivered(value'[p]) /\ (slot[p] = TRUE => slot'[p] = TRUE),
         Parked(p)' => At(p)' = "swap" \/ value'[p] # "uninit",
         Asleep(p)' /\ Delivered(value'[p]) => WakeComing(p)'
  PROVE  ParkingInv' /\ \A n \in Procs : Busy(n)' <=> Busy(n)
<1>1. ASSUME NEW n, NEW r \in Procs
      PROVE  /\ InLine(n)' <=> InLine(n)
             /\ InChain(n, r)' <=> InChain(n, r)
             /\ Storing(n, r)' <=> Storing(n, r)
  <2>1. (InLine(n)' <=> InLine(n)) /\ (InChain(n, r)' <=> InChain(n, r))
    BY DEF InLine, InChain, Among
  <2>2. Storing(n, r)' <=> Storing(n, r)
    BY DEF Storing, Signaling
  <2> QED  BY <2>1, <2>2
<1>2. ASSUME NEW n \in Procs PROVE Busy(n)' <=> Busy(n)
  BY <1>1 DEF Busy, Popped
<1>3. ASSUME NEW r \in Procs \ {p}
      PROVE  /\ At(r)' = At(r) /\ (Parked(r)' <=> Parked(r))
             /\ (Asleep(r)' <=> Asleep(r)) /\ (Signaling(r)' <=> Signaling(r))
  BY SamePoint
<1>4. PlacesInv'
  <2>1. Distinct(line)' /\ \A r \in Procs : Distinct(chain[r])'
    BY DEF ParkingInv, PlacesInv, Distinct
  <2> QED  BY <1>1, <2>1 DEF ParkingInv, PlacesInv, Popped
<1>5. AliveInv'
  <2> SUFFICES ASSUME NEW n \in Procs
               PROVE  /\ Busy(n) => Parked(n)' /\ ~Delivered(value'[n])
                      /\ InLine(n) \/ (\E r \in Procs : InChain(n, r)) => slot'[n] = TRUE
    BY <1>1, <1>2 DEF AliveInv
  <2>1. /\ Busy(n) => Parked(n) /\ ~Delivered(value[n])
        /\ InLine(n) \/ (\E r \in Procs : InChain(n, r)) => slot[n] = TRUE
    BY DEF ParkingInv, AliveInv
  <2>2. CASE n = p
    BY <2>1, <2>2 DEF Busy, Popped
  <2>3. CASE n # p
    BY <1>3, <2>1, <2>3
  <2> QED  BY <2>2, <2>3
<1>6. SignalerInv'
  <2> SUFFICES ASSUME NEW r \in Procs
               PROVE  (/\ pc[r] = "take" => chain[r] # <<>>
                       /\ pc[r] # "store"
                       /\ pc[r] \in {"storeWake", "wake"} => node[r] \in Procs
                       /\ Signaling(r) \/ At(r) = "signal" => Delivered(sent[r]))'
    BY DEF SignalerInv
  <2>1. CASE r = p
    BY <2>1 DEF Signaling
  <2>2. CASE r # p
    BY <1>3, <2>2 DEF ParkingInv, SignalerInv
  <2> QED  BY <2>1, <2>2
<1>7. WaiterInv'
  BY <1>3 DEF ParkingInv, WaiterInv
<1>8. WakeInv'
  <2> SUFFICES ASSUME NEW n \in Procs, Asleep(n)', Delivered(value'[n]) PROVE WakeComing(n)'
    BY DEF WakeInv
  <2>1. CASE n = p
    BY <2>1
  <2>2. CASE n # p
    <3>1. WakeComing(n)
      BY <1>3, <2>2 DEF ParkingInv, WakeInv
    <3> QED  BY <2>2, <3>1 DEF WakeComing, Signaling
  <2> QED  BY <2>1, <2>2
<1> QED  BY <1>2, <1>4, <1>5, <1>6, <1>7, <1>8 DEF ParkingInv

(* The steps of a waiter, and of whoever unlocks without a chain. *)
LEMMA WaiterStep ==
  ASSUME ParkingInv, NEW p \in Procs,
         \/ Swap(p) \/ ParkReturn(p) \/ CheckSignal(p) \/ Poll(p) \/ Rearm(p) \/ Reload(p)
         \/ Leave(p) \/ AwaitSignal(p) \/ (Unlock(p) /\ ret[p] # "signal")
  PROVE  ParkingInv' /\ \A n \in Procs : Busy(n)' <=> Busy(n)
<1>0. /\ Busy(p) => Parked(p) /\ ~Delivered(value[p])
      /\ Parked(p) => At(p) = "swap" \/ value[p] # "uninit"
      /\ Asleep(p) /\ Delivered(value[p]) => WakeComing(p)
  BY DEF ParkingInv, AliveInv, WaiterInv, WakeInv
<1>t. /\ holder \in Procs \cup {NoProc} /\ value \in [Procs -> Signals] /\ seen \in [Procs -> Signals]
      /\ slot \in [Procs -> BOOLEAN] /\ awake \in [Procs -> BOOLEAN]
      /\ pc = [r \in Procs |-> pc[r]] /\ ret = [r \in Procs |-> ret[r]]
  BY DEF ParkingInv, ParkingTypeOK, PointsOK
<1>d. ~Delivered("waiting") /\ "waiting" \in Signals
  BY DEF Delivered, Signals
<1>1. CASE Swap(p)
  <2>1. /\ pc[p] = "swap" /\ pc'[p] = (IF Delivered(value[p]) THEN "woken" ELSE "park")
        /\ value'[p] = "waiting" /\ slot' = slot /\ awake' = awake
    BY <1>1, <1>t DEF Swap, Goto
  <2>2. ParkingTypeOK'
    BY <1>1, <1>t, <1>d DEF Swap, Receive, ParkingTypeOK, ParkingInv, qvars, signalVars
  <2>3. PointsOK'
    BY <1>1, <1>t DEF Swap, Goto, ParkingInv, PointsOK
  <2>4. /\ line' = line /\ chain' = chain /\ node' = node /\ sent' = sent
        /\ \A r \in Procs \ {p} : /\ pc'[r] = pc[r] /\ ret'[r] = ret[r] /\ value'[r] = value[r]
                                  /\ slot'[r] = slot[r] /\ awake'[r] = awake[r]
    BY <1>1, <1>t DEF Swap, Goto, qvars, signalVars
  <2>5. ~Signaling(p) /\ ~Signaling(p)' /\ At(p)' # "signal"
    BY <2>1 DEF Signaling, At
  <2>6. Busy(p) => Parked(p)' /\ ~Delivered(value'[p]) /\ (slot[p] = TRUE => slot'[p] = TRUE)
    BY <1>0, <1>d, <2>1 DEF Parked, At
  <2> QED  BY <1>d, <2>1, <2>2, <2>3, <2>4, <2>5, <2>6, OwnStep
<1>2. CASE ParkReturn(p) \/ CheckSignal(p) \/ Poll(p) \/ AwaitSignal(p)
  <2>1. /\ \/ pc[p] = "park" /\ pc'[p] = "check"
           \/ pc[p] \in {"check", "pending", "await"} /\ Delivered(value[p]) /\ pc'[p] \in {"woken", "awaited"}
           \/ pc[p] = "check" /\ ~Delivered(value[p]) /\ pc'[p] = "park"
           \/ pc[p] = "pending" /\ ~Delivered(value[p]) /\ pc'[p] = "rearm"
        /\ value' = value /\ slot' = slot /\ ret' = ret
    BY <1>2, <1>t DEF ParkReturn, CheckSignal, Poll, AwaitSignal, Goto
  <2>2. ParkingTypeOK'
    BY <1>2, <1>t DEF ParkReturn, CheckSignal, Poll, AwaitSignal, Receive, ParkingTypeOK, ParkingInv,
        qvars, signalVars
  <2>3. PointsOK'
    BY <1>2, <1>t DEF ParkReturn, CheckSignal, Poll, AwaitSignal, Goto, ParkingInv, PointsOK
  <2>4. /\ line' = line /\ chain' = chain /\ node' = node /\ sent' = sent
        /\ \A r \in Procs \ {p} : /\ pc'[r] = pc[r] /\ ret'[r] = ret[r] /\ value'[r] = value[r]
                                  /\ slot'[r] = slot[r] /\ awake'[r] = awake[r]
    BY <1>2, <1>t DEF ParkReturn, CheckSignal, Poll, AwaitSignal, Goto, qvars, signalVars
  <2>5. ~Signaling(p) /\ ~Signaling(p)' /\ At(p)' # "signal"
    BY <2>1 DEF Signaling, At
  <2>6. Busy(p) => Parked(p)' /\ ~Delivered(value'[p]) /\ (slot[p] = TRUE => slot'[p] = TRUE)
    BY <1>0, <2>1 DEF Parked, At
  <2>7. Parked(p)' => At(p)' = "swap" \/ value'[p] # "uninit"
    BY <1>0, <2>1 DEF Parked, At
  <2>8. ~(Asleep(p)' /\ Delivered(value'[p]))
    BY <2>1 DEF Asleep, At
  <2> QED  BY <2>2, <2>3, <2>4, <2>5, <2>6, <2>7, <2>8, OwnStep
<1>3. CASE Rearm(p)
  <2>1. /\ pc[p] = "rearm" /\ pc'[p] \in {"pending", "reload"}
        /\ value' = value /\ slot'[p] = TRUE /\ awake' = awake /\ ret' = ret /\ node' = node
    BY <1>3, <1>t DEF Rearm, Goto, signalVars
  <2>2. ParkingTypeOK'
    BY <1>3, <1>t DEF Rearm, ParkingTypeOK, ParkingInv, qvars, signalVars
  <2>3. PointsOK'
    BY <1>3, <1>t DEF Rearm, Goto, ParkingInv, PointsOK
  <2>4. /\ line' = line /\ chain' = chain /\ node' = node /\ sent' = sent
        /\ \A r \in Procs \ {p} : /\ pc'[r] = pc[r] /\ ret'[r] = ret[r] /\ value'[r] = value[r]
                                  /\ slot'[r] = slot[r] /\ awake'[r] = awake[r]
    BY <1>3, <1>t DEF Rearm, Goto, qvars, signalVars
  <2>5. ~Signaling(p) /\ ~Signaling(p)' /\ At(p)' # "signal"
    BY <2>1 DEF Signaling, At
  <2>6. Busy(p) => Parked(p)' /\ ~Delivered(value'[p]) /\ (slot[p] = TRUE => slot'[p] = TRUE)
    BY <1>0, <2>1 DEF Parked, At
  <2>7. Parked(p)' => At(p)' = "swap" \/ value'[p] # "uninit"
    BY <1>0, <2>1 DEF Parked, At
  <2>8. Asleep(p)' /\ Delivered(value'[p]) => WakeComing(p)'
    <3>1. Delivered(value[p]) => WakeComing(p)
      BY <1>0, <2>1 DEF Asleep, At
    <3> QED  BY <2>1, <2>4, <3>1 DEF WakeComing
  <2> QED  BY <2>2, <2>3, <2>4, <2>5, <2>6, <2>7, <2>8, OwnStep
<1>4. CASE Reload(p)
  <2>1. /\ pc[p] = "reload" /\ pc'[p] = (IF Delivered(value[p]) THEN "woken" ELSE "pending")
        /\ value' = value /\ slot' = slot /\ ret' = ret
    BY <1>4, <1>t DEF Reload, Goto
  <2>2. ParkingTypeOK'
    <3>1. awake' \in [Procs -> BOOLEAN]
      BY <1>4, <1>t DEF Reload
    <3> QED  BY <1>4, <1>t, <3>1 DEF Reload, Receive, ParkingTypeOK, ParkingInv, qvars, signalVars
  <2>3. PointsOK'
    BY <1>4, <1>t DEF Reload, Goto, ParkingInv, PointsOK
  <2>4. /\ line' = line /\ chain' = chain /\ node' = node /\ sent' = sent
        /\ \A r \in Procs \ {p} : /\ pc'[r] = pc[r] /\ ret'[r] = ret[r] /\ value'[r] = value[r]
                                  /\ slot'[r] = slot[r] /\ awake'[r] = awake[r]
    BY <1>4, <1>t DEF Reload, Goto, qvars, signalVars
  <2>5. ~Signaling(p) /\ ~Signaling(p)' /\ At(p)' # "signal"
    BY <2>1 DEF Signaling, At
  <2>6. Busy(p) => Parked(p)' /\ ~Delivered(value'[p]) /\ (slot[p] = TRUE => slot'[p] = TRUE)
    BY <1>0, <2>1 DEF Parked, At
  <2>7. Parked(p)' => At(p)' = "swap" \/ value'[p] # "uninit"
    BY <1>0, <2>1 DEF Parked, At
  <2>8. ~(Asleep(p)' /\ Delivered(value'[p]))
    BY <2>1 DEF Asleep, At
  <2> QED  BY <2>2, <2>3, <2>4, <2>5, <2>6, <2>7, <2>8, OwnStep
<1>5. CASE Leave(p) \/ (Unlock(p) /\ ret[p] # "signal")
  <2>1. /\ \/ pc[p] = "leave" /\ pc'[p] \in {"remove", "await"}
           \/ pc[p] = "unlock" /\ pc'[p] = ret[p] /\ ret[p] # "signal"
        /\ value' = value /\ slot' = slot /\ awake' = awake
    BY <1>5, <1>t DEF Leave, Unlock, Goto, nodeVars
  <2>2. ParkingTypeOK'
    BY <1>5, <1>t DEF Leave, Unlock, LockExisting, LockQueue, UnlockQueue, ParkingTypeOK, ParkingInv,
        qvars, nodeVars, signalVars
  <2>3. PointsOK'
    <3>1. pc' = [r \in Procs |-> pc'[r]]
      BY <1>5, <1>t DEF Leave, Unlock, Goto
    <3> QED  BY <1>5, <1>t, <3>1 DEF Leave, Unlock, ParkingInv, PointsOK
  <2>4. /\ line' = line /\ chain' = chain /\ node' = node /\ sent' = sent
        /\ \A r \in Procs \ {p} : /\ pc'[r] = pc[r] /\ ret'[r] = ret[r] /\ value'[r] = value[r]
                                  /\ slot'[r] = slot[r] /\ awake'[r] = awake[r]
    BY <1>5, <1>t DEF Leave, Unlock, LockExisting, LockQueue, UnlockQueue, Goto, qvars, nodeVars, signalVars
  <2>r. ret[p] \notin {"clear", "unlock", "take", "store", "storeWake", "wake", "park"}
    BY DEF ParkingInv, PointsOK
  <2>5. ~Signaling(p) /\ ~Signaling(p)' /\ At(p)' # "signal"
    BY <2>1, <2>r DEF Signaling, At
  <2>6. (Parked(p)' <=> Parked(p)) /\ (Asleep(p)' => Asleep(p)) /\ (At(p) = "swap" => At(p)' = "swap")
    BY <2>1, <2>r DEF Parked, Asleep, At
  <2>7. Asleep(p)' /\ Delivered(value'[p]) => WakeComing(p)'
    <3>1. \A r \in Procs : pc[r] = "wake" => pc'[r] = "wake"
      BY <2>1, <2>4
    <3> QED  BY <1>0, <2>1, <2>4, <2>6, <3>1 DEF WakeComing
  <2> QED  BY <1>0, <2>1, <2>2, <2>3, <2>4, <2>5, <2>6, <2>7, OwnStep
<1> QED  BY <1>1, <1>2, <1>3, <1>4, <1>5

(* Where a signaler goes from here. *)
LEMMA NextFacts ==
  ASSUME ParkingTypeOK, PointsOK, NEW p \in Procs, SignalNext(p)
  PROVE  /\ pc' = [r \in Procs |-> pc'[r]] /\ sent' \in [Procs -> Signals]
         /\ \A r \in Procs \ {p} : pc'[r] = pc[r] /\ sent'[r] = sent[r]
         /\ \/ chain[p] = <<>> /\ pc'[p] = "idle"
            \/ chain[p] # <<>> /\ pc'[p] = "take" /\ sent'[p] = sent[p]
<1>1. "uninit" \in Signals
  BY DEF Signals
<1> QED  BY <1>1 DEF SignalNext, Goto, ParkingTypeOK, PointsOK

(* Unlocking with a chain, and waking somebody, move no node. *)
LEMMA SignalerMoves ==
  ASSUME ParkingInv, NEW p \in Procs, Wake(p) \/ (Unlock(p) /\ ret[p] = "signal")
  PROVE  ParkingInv' /\ \A n \in Procs : Busy(n)' <=> Busy(n)
<1>t. ParkingTypeOK /\ PointsOK
  BY DEF ParkingInv
<1>1. /\ pc' = [r \in Procs |-> pc'[r]] /\ sent' \in [Procs -> Signals]
      /\ \A r \in Procs \ {p} : pc'[r] = pc[r] /\ sent'[r] = sent[r]
      /\ \/ chain[p] = <<>> /\ pc'[p] = "idle"
         \/ chain[p] # <<>> /\ pc'[p] = "take" /\ sent'[p] = sent[p]
  BY <1>t, NextFacts DEF Wake, Unlock
<1>2. /\ line' = line /\ chain' = chain /\ value' = value /\ slot' = slot /\ seen' = seen
      /\ \A r \in Procs \ {p} : ret'[r] = ret[r] /\ node'[r] = node[r]
      /\ holder' \in Procs \cup {NoProc} /\ node' \in [Procs -> Procs \cup {NoProc}]
      /\ pc[p] = "wake" \/ (pc[p] = "unlock" /\ ret[p] = "signal")
  BY <1>t DEF Wake, Unlock, UnlockQueue, qvars, nodeVars, ParkingTypeOK, PointsOK
<1>3. awake' \in [Procs -> BOOLEAN] /\ ret' = [r \in Procs |-> ret'[r]] /\ ret'[p] \in {"idle", ret[p]}
  BY <1>t DEF Wake, Unlock, nodeVars, ParkingTypeOK, PointsOK
<1>4. ASSUME NEW n, NEW r \in Procs
      PROVE  /\ InLine(n)' <=> InLine(n)
             /\ InChain(n, r)' <=> InChain(n, r)
             /\ Storing(n, r)' <=> Storing(n, r)
  <2>1. (InLine(n)' <=> InLine(n)) /\ (InChain(n, r)' <=> InChain(n, r))
    BY <1>2 DEF InLine, InChain, Among
  <2>2. Storing(n, r)' <=> Storing(n, r)
    BY <1>1, <1>2 DEF Storing
  <2> QED  BY <2>1, <2>2
<1>5. ASSUME NEW n \in Procs PROVE Busy(n)' <=> Busy(n)
  BY <1>4 DEF Busy, Popped
<1>6. ASSUME NEW r \in Procs \ {p}
      PROVE  /\ At(r)' = At(r) /\ (Parked(r)' <=> Parked(r))
             /\ (Asleep(r)' <=> Asleep(r)) /\ (Signaling(r)' <=> Signaling(r))
  BY <1>1, <1>2, SamePoint
<1>7. ~Parked(p) /\ ~Parked(p)' /\ ~Asleep(p)' /\ At(p)' # "signal"
  BY <1>1, <1>2 DEF Parked, Asleep, At
<1>8. ParkingTypeOK' /\ PointsOK'
  BY <1>t, <1>1, <1>2, <1>3 DEF ParkingTypeOK, PointsOK
<1>9. PlacesInv'
  <2>1. Distinct(line)' /\ \A r \in Procs : Distinct(chain[r])'
    BY <1>2 DEF ParkingInv, PlacesInv, Distinct
  <2> QED  BY <1>4, <2>1 DEF ParkingInv, PlacesInv, Popped
<1>10. AliveInv'
  BY <1>2, <1>4, <1>5, <1>6, <1>7 DEF ParkingInv, AliveInv
<1>11. SignalerInv'
  <2> SUFFICES ASSUME NEW r \in Procs
               PROVE  (/\ pc[r] = "take" => chain[r] # <<>>
                       /\ pc[r] # "store"
                       /\ pc[r] \in {"storeWake", "wake"} => node[r] \in Procs
                       /\ Signaling(r) \/ At(r) = "signal" => Delivered(sent[r]))'
    BY DEF SignalerInv
  <2>1. CASE r = p
    <3>1. Delivered(sent[p])
      BY <1>2 DEF ParkingInv, SignalerInv, Signaling, At
    <3> QED  BY <1>1, <1>2, <1>7, <2>1, <3>1 DEF Signaling
  <2>2. CASE r # p
    BY <1>1, <1>2, <1>6, <2>2 DEF ParkingInv, SignalerInv
  <2> QED  BY <2>1, <2>2
<1>12. WaiterInv'
  BY <1>2, <1>6, <1>7 DEF ParkingInv, WaiterInv
<1>13. WakeInv'
  <2> SUFFICES ASSUME NEW n \in Procs, Asleep(n)', Delivered(value'[n]) PROVE WakeComing(n)'
    BY DEF WakeInv
  <2>1. WakeComing(n)
    BY <1>2, <1>6, <1>7 DEF ParkingInv, WakeInv
  <2>2. CASE awake[n] = TRUE
    <3>1. awake'[n] = TRUE
      BY <1>t, <2>2 DEF Wake, Unlock, nodeVars, ParkingTypeOK
    <3> QED  BY <3>1 DEF WakeComing
  <2>3. ASSUME NEW r \in Procs, pc[r] = "wake", node[r] = n PROVE WakeComing(n)'
    <3>1. CASE r = p
      <4>1. awake'[n] = TRUE
        BY <1>t, <1>2, <2>3, <3>1 DEF Wake, Unlock, ParkingTypeOK
      <4> QED  BY <4>1 DEF WakeComing
    <3>2. CASE r # p
      BY <1>1, <1>2, <2>3, <3>2 DEF WakeComing
    <3> QED  BY <3>1, <3>2
  <2> QED  BY <2>1, <2>2, <2>3 DEF WakeComing
<1> QED  BY <1>5, <1>8, <1>9, <1>10, <1>11, <1>12, <1>13 DEF ParkingInv

(* The first node of the chain moves on to be signaled. *)
LEMMA TakeStep ==
  ASSUME ParkingInv, NEW p \in Procs, TakeWaker(p)
  PROVE  /\ ParkingInv' /\ \A n \in Procs : Busy(n)' <=> Busy(n)
         /\ \A n \in Procs : ~Busy(n) => slot'[n] = slot[n]
<1> DEFINE h == Head(chain[p])
<1>t. ParkingTypeOK /\ PointsOK
  BY DEF ParkingInv
<1>1. chain[p] \in Seq(Procs) /\ chain[p] # <<>> /\ pc[p] = "take"
  BY <1>t DEF TakeWaker, ParkingInv, SignalerInv, ParkingTypeOK
<1>2. /\ h \in Procs /\ Tail(chain[p]) \in Seq(Procs)
      /\ \A n : Among(n, chain[p]) <=> n = h \/ Among(n, Tail(chain[p]))
      /\ Distinct(Tail(chain[p])) /\ ~Among(h, Tail(chain[p]))
  BY <1>1, HeadFacts DEF ParkingInv, PlacesInv
<1>3. InChain(h, p)
  BY <1>2 DEF InChain
<1>4. slot[h] = TRUE
  BY <1>2, <1>3 DEF ParkingInv, AliveInv
<1> HIDE DEF h
<1>5. /\ line' = line /\ value' = value /\ awake' = awake /\ seen' = seen /\ ret' = ret /\ sent' = sent
      /\ holder' = holder
      /\ node' = [node EXCEPT ![p] = h]
      /\ chain' = [chain EXCEPT ![p] = Tail(chain[p])]
      /\ slot' = [slot EXCEPT ![h] = FALSE]
      /\ pc' = [pc EXCEPT ![p] = IF slot[h] THEN "storeWake" ELSE "store"]
  BY DEF TakeWaker, Goto, qvars, h
<1>6. pc' = [pc EXCEPT ![p] = "storeWake"]
  BY <1>4, <1>5
<1>7. /\ pc'[p] = "storeWake" /\ node'[p] = h /\ chain'[p] = Tail(chain[p])
      /\ \A r \in Procs \ {p} : pc'[r] = pc[r] /\ node'[r] = node[r] /\ chain'[r] = chain[r]
      /\ \A n \in Procs \ {h} : slot'[n] = slot[n]
  BY <1>t, <1>5, <1>6 DEF ParkingTypeOK, PointsOK
<1>8. ParkingTypeOK' /\ PointsOK'
  <2>1. slot' \in [Procs -> BOOLEAN] /\ node' \in [Procs -> Procs \cup {NoProc}]
    BY <1>t, <1>2, <1>5 DEF ParkingTypeOK
  <2>2. chain' \in [Procs -> Seq(Procs)]
    BY <1>t, <1>2, <1>5 DEF ParkingTypeOK
  <2>3. PointsOK'
    BY <1>t, <1>5, <1>6 DEF PointsOK
  <2> QED  BY <1>t, <1>5, <2>1, <2>2, <2>3 DEF ParkingTypeOK
<1>9. ASSUME NEW n \in Procs, NEW r \in Procs
      PROVE  /\ InLine(n)' <=> InLine(n)
             /\ r # p => (InChain(n, r)' <=> InChain(n, r)) /\ (Storing(n, r)' <=> Storing(n, r))
             /\ InChain(n, p)' <=> InChain(n, p) /\ n # h
             /\ Storing(n, p)' <=> n = h
             /\ ~Storing(n, p)
  <2>1. InLine(n)' <=> InLine(n)
    BY <1>5 DEF InLine, Among
  <2>2. InChain(n, p)' <=> InChain(n, p) /\ n # h
    <3>1. InChain(n, p)' <=> Among(n, Tail(chain[p]))
      BY <1>7 DEF InChain, Among
    <3> QED  BY <1>2, <3>1 DEF InChain
  <2>3. r # p => (InChain(n, r)' <=> InChain(n, r)) /\ (Storing(n, r)' <=> Storing(n, r))
    BY <1>7 DEF InChain, Storing, Among
  <2> QED  BY <1>1, <1>7, <2>1, <2>2, <2>3 DEF Storing
<1>10. ASSUME NEW n \in Procs, NEW r \in Procs PROVE Popped(n, r)' <=> Popped(n, r)
  BY <1>3, <1>9 DEF Popped
<1>11. ASSUME NEW n \in Procs PROVE Busy(n)' <=> Busy(n)
  BY <1>9, <1>10 DEF Busy
<1>12. ASSUME NEW r \in Procs
       PROVE /\ (Parked(r)' <=> Parked(r)) /\ (Asleep(r)' <=> Asleep(r)) /\ (At(r)' = "swap" <=> At(r) = "swap")
             /\ (At(r)' = "signal" <=> At(r) = "signal")
             /\ (Signaling(r)' <=> Signaling(r))
  <2>1. CASE r = p
    BY <1>1, <1>7, <2>1 DEF Parked, Asleep, At, Signaling
  <2>2. CASE r # p
    BY <1>5, <1>7, <2>2, SamePoint
  <2> QED  BY <2>1, <2>2
<1>13. PlacesInv'
  <2>1. Distinct(line)' /\ \A r \in Procs : Distinct(chain[r])'
    <3>1. \A r \in Procs : Distinct(chain'[r])
      BY <1>2, <1>7 DEF ParkingInv, PlacesInv
    <3> QED  BY <1>5, <3>1 DEF ParkingInv, PlacesInv, Distinct
  <2>2. \A n, r \in Procs : ~(InChain(n, r)' /\ Storing(n, r)')
    BY <1>9 DEF ParkingInv, PlacesInv
  <2> QED  BY <1>9, <1>10, <2>1, <2>2 DEF ParkingInv, PlacesInv
<1>14. AliveInv'
  <2> SUFFICES ASSUME NEW n \in Procs
               PROVE  /\ Busy(n) => Parked(n) /\ ~Delivered(value[n])
                      /\ InLine(n)' \/ (\E r \in Procs : InChain(n, r)') => slot'[n] = TRUE
    BY <1>5, <1>11, <1>12 DEF AliveInv
  <2>1. InLine(n)' \/ (\E r \in Procs : InChain(n, r)') => n # h
    BY <1>3, <1>9 DEF ParkingInv, PlacesInv, Popped
  <2> QED  BY <1>7, <1>9, <2>1 DEF ParkingInv, AliveInv
<1>15. SignalerInv'
  <2> SUFFICES ASSUME NEW r \in Procs
               PROVE  (/\ pc[r] = "take" => chain[r] # <<>>
                       /\ pc[r] # "store"
                       /\ pc[r] \in {"storeWake", "wake"} => node[r] \in Procs
                       /\ Signaling(r) \/ At(r) = "signal" => Delivered(sent[r]))'
    BY DEF SignalerInv
  <2>1. CASE r = p
    BY <1>1, <1>2, <1>5, <1>7, <1>12, <2>1, SMT DEF ParkingInv, SignalerInv, Signaling
  <2>2. CASE r # p
    BY <1>5, <1>7, <1>12, <2>2 DEF ParkingInv, SignalerInv
  <2> QED  BY <2>1, <2>2
<1>16. WaiterInv'
  BY <1>5, <1>12 DEF ParkingInv, WaiterInv
<1>17. WakeInv'
  <2>1. ASSUME NEW n \in Procs, WakeComing(n) PROVE WakeComing(n)'
    BY <1>1, <1>5, <1>7, <2>1 DEF WakeComing
  <2> QED  BY <1>5, <1>12, <2>1 DEF ParkingInv, WakeInv
<1>18. ASSUME NEW n \in Procs, ~Busy(n) PROVE slot'[n] = slot[n]
  BY <1>3, <1>7, <1>18 DEF Busy, Popped
<1> QED  BY <1>8, <1>11, <1>13, <1>14, <1>15, <1>16, <1>17, <1>18 DEF ParkingInv

(* The signal is stored, and its node is nobody's but its owner's again. *)
LEMMA StoreStep ==
  ASSUME ParkingInv, NEW p \in Procs, StoreSignal(p)
  PROVE  /\ ParkingInv' /\ \A n \in Procs : Busy(n)' => Busy(n)
         /\ \A n \in Procs : value'[n] = value[n] \/ (Busy(n) /\ value'[n] = sent[p])
<1>t. ParkingTypeOK /\ PointsOK
  BY DEF ParkingInv
<1>0. pc[p] = "storeWake" /\ node[p] \in Procs /\ Delivered(sent[p])
  BY DEF StoreSignal, ParkingInv, SignalerInv, Signaling
<1>h. PICK h \in Procs : h = node[p]
  BY <1>0
<1>1. pc[p] = "storeWake" /\ h = node[p] /\ Delivered(sent[p])
  BY <1>0, <1>h
<1>2. Storing(h, p) /\ Busy(h)
  BY <1>1 DEF Storing, Busy, Popped
<1>3. Parked(h) /\ ~Delivered(value[h]) /\ ~Parked(p) /\ h # p
  <2>1. Parked(h) /\ ~Delivered(value[h])
    BY <1>1, <1>2 DEF ParkingInv, AliveInv
  <2>2. ~Parked(p)
    BY <1>1 DEF Parked, At
  <2> QED  BY <2>1, <2>2
<1>4. /\ line' = line /\ chain' = chain /\ slot' = slot /\ awake' = awake /\ seen' = seen /\ ret' = ret
      /\ holder' = holder /\ value' = [value EXCEPT ![h] = sent[p]]
      /\ \/ pc' = [pc EXCEPT ![p] = "wake"] /\ node' = node /\ sent' = sent
         \/ /\ ~(h \in Threads => value[h] = "waiting")
            /\ SignalNext(p) /\ node' = [node EXCEPT ![p] = NoProc]
  BY <1>1 DEF StoreSignal, Goto, qvars
<1>5. /\ pc' = [r \in Procs |-> pc'[r]] /\ sent' \in [Procs -> Signals]
      /\ node' \in [Procs -> Procs \cup {NoProc}]
      /\ \A r \in Procs \ {p} : pc'[r] = pc[r] /\ sent'[r] = sent[r] /\ node'[r] = node[r]
      /\ \/ pc'[p] = "wake" /\ node'[p] = h /\ sent'[p] = sent[p]
         \/ /\ ~(h \in Threads => value[h] = "waiting")
            /\ \/ pc'[p] = "idle"
               \/ chain[p] # <<>> /\ pc'[p] = "take" /\ sent'[p] = sent[p]
  <2>1. CASE pc' = [pc EXCEPT ![p] = "wake"] /\ node' = node /\ sent' = sent
    BY <1>t, <1>1, <2>1 DEF ParkingTypeOK, PointsOK
  <2>2. CASE /\ ~(h \in Threads => value[h] = "waiting")
             /\ SignalNext(p) /\ node' = [node EXCEPT ![p] = NoProc]
    <3>1. /\ pc' = [r \in Procs |-> pc'[r]] /\ sent' \in [Procs -> Signals]
          /\ \A r \in Procs \ {p} : pc'[r] = pc[r] /\ sent'[r] = sent[r]
          /\ \/ chain[p] = <<>> /\ pc'[p] = "idle"
             \/ chain[p] # <<>> /\ pc'[p] = "take" /\ sent'[p] = sent[p]
      BY <1>t, <2>2, NextFacts
    <3>2. /\ node' \in [Procs -> Procs \cup {NoProc}]
          /\ \A r \in Procs \ {p} : node'[r] = node[r]
      BY <1>t, <2>2 DEF ParkingTypeOK
    <3> QED  BY <2>2, <3>1, <3>2
  <2> QED  BY <1>4, <2>1, <2>2
<1>6. value' \in [Procs -> Signals] /\ value'[h] = sent[p] /\ \A n \in Procs \ {h} : value'[n] = value[n]
  BY <1>t, <1>1, <1>4 DEF ParkingTypeOK
<1>7. ParkingTypeOK' /\ PointsOK'
  BY <1>t, <1>4, <1>5, <1>6 DEF ParkingTypeOK, PointsOK
<1>8. ASSUME NEW n \in Procs, NEW r \in Procs
      PROVE  /\ InLine(n)' <=> InLine(n)
             /\ InChain(n, r)' <=> InChain(n, r)
             /\ Storing(n, r)' <=> Storing(n, r) /\ r # p
  <2>1. (InLine(n)' <=> InLine(n)) /\ (InChain(n, r)' <=> InChain(n, r))
    BY <1>4 DEF InLine, InChain, Among
  <2>2. Storing(n, r)' <=> Storing(n, r) /\ r # p
    BY <1>5 DEF Storing
  <2> QED  BY <2>1, <2>2
<1>9. ASSUME NEW n \in Procs PROVE /\ Busy(n)' => Busy(n)
                                   /\ ~Busy(h)'
  <2>1. Busy(n)' => Busy(n)
    BY <1>8 DEF Busy, Popped
  <2>2. ~InLine(h) /\ ~InChain(h, p) /\ \A r \in Procs \ {p} : ~Popped(h, r)
    BY <1>1, <1>2 DEF ParkingInv, PlacesInv, Popped
  <2>3. ~Busy(h)'
    BY <1>1, <1>8, <2>2 DEF Busy, Popped
  <2> QED  BY <2>1, <2>3
<1>10. ASSUME NEW r \in Procs \ {p}
       PROVE  /\ At(r)' = At(r) /\ (Parked(r)' <=> Parked(r))
              /\ (Asleep(r)' <=> Asleep(r)) /\ (Signaling(r)' <=> Signaling(r))
  BY <1>4, <1>5, SamePoint
<1>11. ~Parked(p)' /\ ~Asleep(p)' /\ At(p)' # "signal"
  BY <1>5 DEF Parked, Asleep, At
<1>12. PlacesInv'
  <2>1. Distinct(line)' /\ \A r \in Procs : Distinct(chain[r])'
    BY <1>4 DEF ParkingInv, PlacesInv, Distinct
  <2> QED  BY <1>8, <2>1 DEF ParkingInv, PlacesInv, Popped
<1>13. AliveInv'
  <2> SUFFICES ASSUME NEW n \in Procs
               PROVE  /\ Busy(n)' => Parked(n)' /\ ~Delivered(value'[n])
                      /\ InLine(n) \/ (\E r \in Procs : InChain(n, r)) => slot[n] = TRUE
    BY <1>4, <1>8 DEF AliveInv
  <2>1. Busy(n) => Parked(n) /\ ~Delivered(value[n])
    BY DEF ParkingInv, AliveInv
  <2>2. Busy(n)' => n # h /\ n # p
    BY <1>3, <1>9, <2>1
  <2>3. Busy(n)' => Parked(n)' /\ ~Delivered(value'[n])
    BY <1>6, <1>9, <1>10, <2>1, <2>2
  <2> QED  BY <2>3 DEF ParkingInv, AliveInv
<1>14. SignalerInv'
  <2> SUFFICES ASSUME NEW r \in Procs
               PROVE  (/\ pc[r] = "take" => chain[r] # <<>>
                       /\ pc[r] # "store"
                       /\ pc[r] \in {"storeWake", "wake"} => node[r] \in Procs
                       /\ Signaling(r) \/ At(r) = "signal" => Delivered(sent[r]))'
    BY DEF SignalerInv
  <2>1. CASE r = p
    BY <1>1, <1>4, <1>5, <1>11, <2>1 DEF Signaling
  <2>2. CASE r # p
    BY <1>4, <1>5, <1>10, <2>2 DEF ParkingInv, SignalerInv
  <2> QED  BY <2>1, <2>2
<1>15. WaiterInv'
  <2>1. sent[p] # "uninit"
    BY <1>1 DEF Delivered
  <2> QED  BY <1>6, <1>10, <1>11, <2>1 DEF ParkingInv, WaiterInv
<1>16. WakeInv'
  <2> SUFFICES ASSUME NEW n \in Procs, Asleep(n)', Delivered(value'[n]) PROVE WakeComing(n)'
    BY DEF WakeInv
  <2>1. n # p /\ Asleep(n)
    BY <1>10, <1>11
  <2>2. CASE n = h
    <3>1. At(h) # "swap"
      BY <2>1, <2>2 DEF Asleep, At
    <3>2. value[h] = "waiting"
      BY <1>t, <1>1, <1>3, <3>1 DEF ParkingInv, WaiterInv, ParkingTypeOK, Signals, Delivered
    <3> QED  BY <1>5, <2>2, <3>2 DEF WakeComing
  <2>3. CASE n # h
    <3>1. WakeComing(n)
      BY <1>6, <2>1, <2>3 DEF ParkingInv, WakeInv
    <3> QED  BY <1>1, <1>4, <1>5, <3>1 DEF WakeComing
  <2> QED  BY <2>2, <2>3
<1> QED  BY <1>2, <1>6, <1>7, <1>9, <1>12, <1>13, <1>14, <1>15, <1>16 DEF ParkingInv

(* All of Parking's own steps, and what they do to a process that is no     *)
(* signaler's business: nothing.                                            *)
LEMMA ParkingKeeps ==
  ASSUME ParkingInv, NEW p \in Procs, ParkingStep(p) \/ Rouse(p)
  PROVE  /\ ParkingInv'
         /\ \A n \in Procs : Busy(n)' => Busy(n)
<1>1. CASE \/ Swap(p) \/ ParkReturn(p) \/ CheckSignal(p) \/ Poll(p) \/ Rearm(p) \/ Reload(p)
           \/ Leave(p) \/ AwaitSignal(p) \/ (Unlock(p) /\ ret[p] # "signal")
  BY <1>1, WaiterStep
<1>2. CASE Wake(p) \/ (Unlock(p) /\ ret[p] = "signal")
  BY <1>2, SignalerMoves
<1>3. CASE TakeWaker(p)
  BY <1>3, TakeStep
<1>4. CASE StoreSignal(p)
  BY <1>4, StoreStep
<1> QED  BY <1>1, <1>2, <1>3, <1>4 DEF ParkingStep, Rouse

(* They touch no other process but by signaling it. *)
LEMMA OthersUntouched ==
  ASSUME ParkingInv, NEW p \in Procs, ParkingStep(p) \/ Rouse(p), NEW r \in Procs \ {p}
  PROVE  /\ pc'[r] = pc[r] /\ ret'[r] = ret[r] /\ seen'[r] = seen[r] /\ sent'[r] = sent[r]
         /\ chain'[r] = chain[r] /\ node'[r] = node[r]
         /\ value'[r] = value[r] \/ (Busy(r) /\ StoreSignal(p) /\ value'[r] = sent[p])
         /\ Busy(r) \/ slot'[r] = slot[r]
<1>t. ParkingTypeOK /\ PointsOK
  BY DEF ParkingInv
<1>1. CASE TakeWaker(p)
  <2>1. ~Busy(r) => slot'[r] = slot[r]
    BY <1>1, TakeStep
  <2>2. chain'[r] = chain[r] /\ node'[r] = node[r]
    BY <1>t, <1>1 DEF TakeWaker, ParkingTypeOK
  <2> QED  BY <1>t, <1>1, <2>1, <2>2 DEF TakeWaker, Goto, ParkingTypeOK, PointsOK
<1>2. CASE StoreSignal(p)
  <2>1. value'[r] = value[r] \/ (Busy(r) /\ value'[r] = sent[p])
    BY <1>2, StoreStep
  <2>2. pc'[r] = pc[r] /\ sent'[r] = sent[r]
    BY <1>t, <1>2, NextFacts DEF StoreSignal, Goto, PointsOK
  <2> QED  BY <1>t, <1>2, <2>1, <2>2 DEF StoreSignal, ParkingTypeOK
<1>3. CASE Wake(p) \/ Unlock(p)
  <2>1. pc'[r] = pc[r] /\ sent'[r] = sent[r]
    <3>1. CASE SignalNext(p)
      BY <1>t, <3>1, NextFacts
    <3>2. CASE Goto(p, ret[p]) /\ UNCHANGED sent
      BY <1>t, <3>2 DEF Goto, PointsOK
    <3> QED  BY <1>3, <3>1, <3>2 DEF Wake, Unlock
  <2> QED  BY <1>t, <1>3, <2>1 DEF Wake, Unlock, nodeVars, ParkingTypeOK, PointsOK
<1>4. CASE \/ Swap(p) \/ ParkReturn(p) \/ CheckSignal(p) \/ Poll(p) \/ Rearm(p) \/ Reload(p)
           \/ Leave(p) \/ AwaitSignal(p)
  BY <1>t, <1>4 DEF Swap, ParkReturn, CheckSignal, Poll, Rearm, Reload, Leave, AwaitSignal, Receive,
      Goto, nodeVars, signalVars, ParkingTypeOK, PointsOK
<1> QED  BY <1>1, <1>2, <1>3, <1>4 DEF ParkingStep, Rouse

(* Steps of a primitive that change the line: p is not a waiter itself, or   *)
(* its node is the one that comes or goes.                                   *)
LinedUp(p) ==
    /\ ParkingTypeOK' /\ PointsOK'
    /\ UNCHANGED <<nodeVars, node>>
    /\ \A r \in Procs \ {p} : pc'[r] = pc[r] /\ ret'[r] = ret[r] /\ sent'[r] = sent[r]
    /\ ~Signaling(p) /\ ~Signaling(p)'

(* A push of a prepared node, whose owner now waits. *)
LEMMA PushStep ==
  ASSUME ParkingInv, NEW p \in Procs, LinedUp(p), chain' = chain, sent' = sent,
         line' = Append(line, p), ~Parked(p), Parked(p)', At(p)' # "signal",
         slot[p] = TRUE, ~Delivered(value[p]), At(p)' = "swap" \/ value[p] # "uninit"
  PROVE  ParkingInv' /\ \A n \in Procs : Busy(n)' => Busy(n) \/ n = p
<1>t. ParkingTypeOK /\ PointsOK /\ line \in Seq(Procs)
  BY DEF ParkingInv, ParkingTypeOK
<1>1. /\ \A r \in Procs \ {p} : pc'[r] = pc[r] /\ ret'[r] = ret[r]
      /\ value' = value /\ slot' = slot /\ awake' = awake /\ seen' = seen /\ node' = node
      /\ ~Signaling(p) /\ ~Signaling(p)'
  BY DEF LinedUp, nodeVars
<1>2. ~Busy(p)
  BY DEF ParkingInv, AliveInv
<1>3. /\ \A n : Among(n, Append(line, p)) <=> Among(n, line) \/ n = p
      /\ Distinct(line) /\ ~Among(p, line) => Distinct(Append(line, p))
  BY <1>t, PushFacts
<1>4. ASSUME NEW n, NEW r \in Procs
      PROVE  /\ InLine(n)' <=> InLine(n) \/ n = p
             /\ InChain(n, r)' <=> InChain(n, r)
             /\ Storing(n, r)' <=> Storing(n, r)
  <2>1. InChain(n, r)' <=> InChain(n, r)
    BY DEF InChain, Among
  <2>2. InLine(n)' <=> InLine(n) \/ n = p
    <3>1. InLine(n)' <=> Among(n, Append(line, p))
      BY DEF InLine, Among
    <3> QED  BY <1>3, <3>1 DEF InLine
  <2>3. Storing(n, r)' <=> Storing(n, r)
    BY <1>1 DEF Storing, Signaling
  <2> QED  BY <2>1, <2>2, <2>3
<1>5. ASSUME NEW r \in Procs \ {p}
      PROVE  /\ At(r)' = At(r) /\ (Parked(r)' <=> Parked(r))
             /\ (Asleep(r)' <=> Asleep(r)) /\ (Signaling(r)' <=> Signaling(r))
  BY <1>1, SamePoint
<1>6. \A n \in Procs : Busy(n)' <=> Busy(n) \/ n = p
  BY <1>4 DEF Busy, Popped
<1>7. PlacesInv'
  <2>1. Distinct(line') /\ \A r \in Procs : Distinct(chain'[r])
    BY <1>2, <1>3 DEF ParkingInv, PlacesInv, Busy, InLine
  <2>2. Distinct(line)' /\ \A r \in Procs : Distinct(chain[r])'
    BY <2>1 DEF Distinct
  <2>3. \A r \in Procs : ~Popped(p, r)
    BY <1>2 DEF Busy
  <2>4. \A n, r \in Procs : Popped(n, r)' <=> Popped(n, r)
    BY <1>4 DEF Popped
  <2> QED  BY <1>4, <2>2, <2>3, <2>4 DEF ParkingInv, PlacesInv
<1>8. AliveInv'
  <2> SUFFICES ASSUME NEW n \in Procs
               PROVE  /\ Busy(n)' => Parked(n)' /\ ~Delivered(value[n])
                      /\ InLine(n)' \/ (\E r \in Procs : InChain(n, r)') => slot[n] = TRUE
    BY <1>1 DEF AliveInv
  <2>1. CASE n = p
    BY <2>1
  <2>2. CASE n # p
    BY <1>4, <1>5, <1>6, <2>2 DEF ParkingInv, AliveInv
  <2> QED  BY <2>1, <2>2
<1>9. SignalerInv'
  <2> SUFFICES ASSUME NEW r \in Procs
               PROVE  (/\ pc[r] = "take" => chain[r] # <<>>
                       /\ pc[r] # "store"
                       /\ pc[r] \in {"storeWake", "wake"} => node[r] \in Procs
                       /\ Signaling(r) \/ At(r) = "signal" => Delivered(sent[r]))'
    BY DEF SignalerInv
  <2>1. CASE r = p
    BY <1>1, <2>1 DEF Signaling
  <2>2. CASE r # p
    BY <1>1, <1>5, <2>2 DEF ParkingInv, SignalerInv
  <2> QED  BY <2>1, <2>2
<1>10. WaiterInv'
  BY <1>1, <1>5 DEF ParkingInv, WaiterInv
<1>11. WakeInv'
  <2>1. ASSUME NEW n \in Procs, WakeComing(n) PROVE WakeComing(n)'
    BY <1>1, <2>1 DEF WakeComing, Signaling
  <2> QED  BY <1>1, <1>5, <2>1 DEF ParkingInv, WakeInv
<1> QED  BY <1>6, <1>7, <1>8, <1>9, <1>10, <1>11 DEF ParkingInv, LinedUp

(* A pop of the first k nodes into a chain of a process that does not wait. *)
LEMMA PopStep ==
  ASSUME ParkingInv, NEW p \in Procs, LinedUp(p), NEW k \in 0 .. Len(line),
         chain' = [chain EXCEPT ![p] = SubSeq(line, 1, k)],
         line' = SubSeq(line, k + 1, Len(line)),
         Delivered(sent'[p]), ~Parked(p), ~Parked(p)', ~Asleep(p)'
  PROVE  ParkingInv' /\ \A n \in Procs : Busy(n)' => Busy(n)
<1>t. ParkingTypeOK /\ PointsOK /\ line \in Seq(Procs)
  BY DEF ParkingInv, ParkingTypeOK
<1>1. /\ \A r \in Procs \ {p} : pc'[r] = pc[r] /\ ret'[r] = ret[r] /\ sent'[r] = sent[r]
      /\ value' = value /\ slot' = slot /\ awake' = awake /\ seen' = seen /\ node' = node
      /\ ~Signaling(p) /\ ~Signaling(p)'
      /\ chain'[p] = SubSeq(line, 1, k) /\ \A r \in Procs \ {p} : chain'[r] = chain[r]
  BY <1>t DEF LinedUp, nodeVars, ParkingTypeOK
<1>2. /\ \A n : Among(n, line) <=> Among(n, SubSeq(line, 1, k)) \/ Among(n, SubSeq(line, k + 1, Len(line)))
      /\ Distinct(SubSeq(line, 1, k)) /\ Distinct(SubSeq(line, k + 1, Len(line)))
      /\ \A n : ~(Among(n, SubSeq(line, 1, k)) /\ Among(n, SubSeq(line, k + 1, Len(line))))
  BY <1>t, SplitFacts DEF ParkingInv, PlacesInv
<1>3. ASSUME NEW n, NEW r \in Procs
      PROVE  /\ InLine(n)' \/ InChain(n, p)' <=> InLine(n)
             /\ ~(InLine(n)' /\ InChain(n, p)')
             /\ r # p => (InChain(n, r)' <=> InChain(n, r))
             /\ Storing(n, r)' <=> Storing(n, r)
             /\ ~Storing(n, p)
  <2>1. InLine(n)' <=> Among(n, SubSeq(line, k + 1, Len(line)))
    BY DEF InLine, Among
  <2>2. InChain(n, p)' <=> Among(n, SubSeq(line, 1, k))
    BY <1>1 DEF InChain, Among
  <2>3. r # p => (InChain(n, r)' <=> InChain(n, r))
    BY <1>1 DEF InChain, Among
  <2>4. (Storing(n, r)' <=> Storing(n, r)) /\ ~Storing(n, p)
    BY <1>1 DEF Storing, Signaling
  <2> QED  BY <1>2, <2>1, <2>2, <2>3, <2>4 DEF InLine
<1>4. ASSUME NEW r \in Procs \ {p}
      PROVE  /\ At(r)' = At(r) /\ (Parked(r)' <=> Parked(r))
             /\ (Asleep(r)' <=> Asleep(r)) /\ (Signaling(r)' <=> Signaling(r))
  BY <1>1, SamePoint
<1>5. ASSUME NEW n \in Procs
      PROVE  /\ Popped(n, p)' <=> InChain(n, p)'
             /\ \A r \in Procs \ {p} : Popped(n, r)' <=> Popped(n, r)
  BY <1>3 DEF Popped
<1>6. \A n \in Procs : Busy(n)' => Busy(n)
  BY <1>3, <1>5 DEF Busy
<1>7. PlacesInv'
  <2>1. Distinct(line') /\ \A r \in Procs : Distinct(chain'[r])
    BY <1>1, <1>2 DEF ParkingInv, PlacesInv
  <2>2. Distinct(line)' /\ \A r \in Procs : Distinct(chain[r])'
    BY <2>1 DEF Distinct
  <2>3. \A n, r \in Procs : ~(InChain(n, r)' /\ Storing(n, r)')
    BY <1>3 DEF ParkingInv, PlacesInv
  <2>4. \A n, r \in Procs : Popped(n, r)' => ~InLine(n)'
    BY <1>3, <1>5 DEF ParkingInv, PlacesInv
  <2>5. \A n, q, r \in Procs : Popped(n, q)' /\ Popped(n, r)' => q = r
    <3>1. ASSUME NEW n \in Procs, NEW r \in Procs \ {p}, Popped(n, r)' PROVE ~Popped(n, p)'
      BY <1>3, <1>5, <3>1 DEF ParkingInv, PlacesInv
    <3> QED  BY <1>5, <3>1 DEF ParkingInv, PlacesInv
  <2> QED  BY <2>2, <2>3, <2>4, <2>5 DEF PlacesInv
<1>8. AliveInv'
  <2> SUFFICES ASSUME NEW n \in Procs
               PROVE  /\ Busy(n)' => Parked(n)' /\ ~Delivered(value[n])
                      /\ InLine(n)' \/ (\E r \in Procs : InChain(n, r)') => slot[n] = TRUE
    BY <1>1 DEF AliveInv
  <2>1. /\ Busy(n) => Parked(n) /\ ~Delivered(value[n])
        /\ InLine(n) \/ (\E r \in Procs : InChain(n, r)) => slot[n] = TRUE
    BY DEF ParkingInv, AliveInv
  <2>2. Busy(n)' => Parked(n)' /\ ~Delivered(value[n])
    BY <1>4, <1>6, <2>1
  <2> QED  BY <1>3, <2>1, <2>2
<1>9. SignalerInv'
  <2> SUFFICES ASSUME NEW r \in Procs
               PROVE  (/\ pc[r] = "take" => chain[r] # <<>>
                       /\ pc[r] # "store"
                       /\ pc[r] \in {"storeWake", "wake"} => node[r] \in Procs
                       /\ Signaling(r) \/ At(r) = "signal" => Delivered(sent[r]))'
    BY DEF SignalerInv
  <2>1. CASE r = p
    BY <1>1, <2>1 DEF Signaling
  <2>2. CASE r # p
    BY <1>1, <1>4, <2>2 DEF ParkingInv, SignalerInv
  <2> QED  BY <2>1, <2>2
<1>10. WaiterInv'
  BY <1>1, <1>4 DEF ParkingInv, WaiterInv
<1>11. WakeInv'
  <2>1. ASSUME NEW n \in Procs, WakeComing(n) PROVE WakeComing(n)'
    BY <1>1, <2>1 DEF WakeComing, Signaling
  <2> QED  BY <1>1, <1>4, <2>1 DEF ParkingInv, WakeInv
<1> QED  BY <1>6, <1>7, <1>8, <1>9, <1>10, <1>11 DEF ParkingInv, LinedUp

(* A waiter takes its own node out of the line, and goes, or finds that it   *)
(* has been popped, and stays.                                               *)
LEMMA RemoveStep ==
  ASSUME ParkingInv, NEW p \in Procs, LinedUp(p), chain' = chain, sent' = sent, At(p)' # "signal",
         \/ (\E k \in Position(p) : line' = Without(line, k)) /\ ~Parked(p)'
         \/ Position(p) = {} /\ line' = line /\ Parked(p)',
         At(p) # "swap", ~Asleep(p)', Parked(p)
  PROVE  ParkingInv' /\ \A n \in Procs : Busy(n)' => Busy(n)
<1>t. ParkingTypeOK /\ PointsOK /\ line \in Seq(Procs)
  BY DEF ParkingInv, ParkingTypeOK
<1>1. /\ \A r \in Procs \ {p} : pc'[r] = pc[r] /\ ret'[r] = ret[r]
      /\ value' = value /\ slot' = slot /\ awake' = awake /\ seen' = seen /\ node' = node
      /\ ~Signaling(p) /\ ~Signaling(p)'
  BY DEF LinedUp, nodeVars
<1>2. /\ Distinct(line')
      /\ \A n : Among(n, line') => Among(n, line)
      /\ Parked(p)' => ~Among(p, line)
      /\ ~Parked(p)' => ~Among(p, line') /\ Among(p, line)
  <2>1. ASSUME NEW k \in Position(p), line' = Without(line, k)
        PROVE  /\ Distinct(line') /\ (\A n : Among(n, line') => Among(n, line))
               /\ ~Among(p, line') /\ Among(p, line)
    <3>1. k \in 1 .. Len(line) /\ line[k] = p
      BY DEF Position
    <3>2. /\ \A n : Among(n, Without(line, k)) <=> Among(n, line) /\ n # line[k]
          /\ Distinct(Without(line, k))
      BY <1>t, <3>1, RemoveFacts DEF ParkingInv, PlacesInv
    <3>3. Among(p, line)
      BY <3>1 DEF Among
    <3> QED  BY <2>1, <3>1, <3>2, <3>3
  <2>2. CASE (\E k \in Position(p) : line' = Without(line, k)) /\ ~Parked(p)'
    BY <2>1, <2>2
  <2>3. CASE Position(p) = {} /\ line' = line /\ Parked(p)'
    <3>1. ~Among(p, line)
      BY <2>3 DEF Among, Position
    <3> QED  BY <2>3, <3>1 DEF ParkingInv, PlacesInv
  <2> QED  BY <2>2, <2>3
<1>3. ASSUME NEW n, NEW r \in Procs
      PROVE  /\ InLine(n)' => InLine(n)
             /\ InChain(n, r)' <=> InChain(n, r)
             /\ Storing(n, r)' <=> Storing(n, r)
  <2>1. InChain(n, r)' <=> InChain(n, r)
    BY DEF InChain, Among
  <2>2. InLine(n)' => InLine(n)
    <3>1. InLine(n)' <=> Among(n, line')
      BY DEF InLine, Among
    <3> QED  BY <1>2, <3>1 DEF InLine
  <2>3. Storing(n, r)' <=> Storing(n, r)
    BY <1>1 DEF Storing, Signaling
  <2> QED  BY <2>1, <2>2, <2>3
<1>4. ASSUME NEW r \in Procs \ {p}
      PROVE  /\ At(r)' = At(r) /\ (Parked(r)' <=> Parked(r))
             /\ (Asleep(r)' <=> Asleep(r)) /\ (Signaling(r)' <=> Signaling(r))
  BY <1>1, SamePoint
<1>5. \A n, r \in Procs : Popped(n, r)' <=> Popped(n, r)
  BY <1>3 DEF Popped
<1>6. /\ \A n \in Procs : Busy(n)' => Busy(n)
      /\ Busy(p)' => Parked(p)'
  <2>1. \A n \in Procs : Busy(n)' => Busy(n)
    BY <1>3, <1>5 DEF Busy
  <2>2. ASSUME ~Parked(p)' PROVE ~Busy(p)'
    <3>1. InLine(p) /\ ~InLine(p)'
      <4>1. InLine(p)' <=> Among(p, line')
        BY DEF InLine, Among
      <4> QED  BY <1>2, <2>2, <4>1 DEF InLine
    <3>2. \A r \in Procs : ~Popped(p, r)
      BY <3>1 DEF ParkingInv, PlacesInv
    <3> QED  BY <1>5, <3>1, <3>2 DEF Busy
  <2> QED  BY <2>1, <2>2
<1>7. PlacesInv'
  <2>1. Distinct(line)' /\ \A r \in Procs : Distinct(chain[r])'
    <3>1. Distinct(line') /\ \A r \in Procs : Distinct(chain'[r])
      BY <1>2 DEF ParkingInv, PlacesInv
    <3> QED  BY <3>1 DEF Distinct
  <2> QED  BY <1>3, <1>5, <2>1 DEF ParkingInv, PlacesInv
<1>8. AliveInv'
  <2> SUFFICES ASSUME NEW n \in Procs
               PROVE  /\ Busy(n)' => Parked(n)' /\ ~Delivered(value[n])
                      /\ InLine(n)' \/ (\E r \in Procs : InChain(n, r)') => slot[n] = TRUE
    BY <1>1 DEF AliveInv
  <2>1. /\ Busy(n) => Parked(n) /\ ~Delivered(value[n])
        /\ InLine(n) \/ (\E r \in Procs : InChain(n, r)) => slot[n] = TRUE
    BY DEF ParkingInv, AliveInv
  <2>2. Busy(n)' => Parked(n)' /\ ~Delivered(value[n])
    BY <1>4, <1>6, <2>1
  <2> QED  BY <1>3, <2>1, <2>2
<1>9. SignalerInv'
  <2> SUFFICES ASSUME NEW r \in Procs
               PROVE  (/\ pc[r] = "take" => chain[r] # <<>>
                       /\ pc[r] # "store"
                       /\ pc[r] \in {"storeWake", "wake"} => node[r] \in Procs
                       /\ Signaling(r) \/ At(r) = "signal" => Delivered(sent[r]))'
    BY DEF SignalerInv
  <2>1. CASE r = p
    BY <1>1, <2>1 DEF Signaling
  <2>2. CASE r # p
    BY <1>1, <1>4, <2>2 DEF ParkingInv, SignalerInv
  <2> QED  BY <2>1, <2>2
<1>10. WaiterInv'
  BY <1>1, <1>4 DEF ParkingInv, WaiterInv
<1>11. WakeInv'
  <2>1. ASSUME NEW n \in Procs, WakeComing(n) PROVE WakeComing(n)'
    BY <1>1, <2>1 DEF WakeComing, Signaling
  <2> QED  BY <1>1, <1>4, <2>1 DEF ParkingInv, WakeInv
<1> QED  BY <1>6, <1>7, <1>8, <1>9, <1>10, <1>11 DEF ParkingInv, LinedUp

-----------------------------------------------------------------------------
(* For the primitives.                                                     *)

(* A node that is ready to be pushed. *)
Prepared(p) == slot[p] = TRUE /\ value[p] = IF p \in Tasks THEN "waiting" ELSE "uninit"

(* What a step of p leaves alone. *)
Frame(p) ==
    /\ \A r \in Procs \ {p} :
          /\ pc'[r] = pc[r] /\ ret'[r] = ret[r] /\ seen'[r] = seen[r] /\ sent'[r] = sent[r]
          /\ chain'[r] = chain[r]
          /\ value'[r] = value[r] \/ (Busy(r) /\ StoreSignal(p) /\ value'[r] = sent[p])
          /\ Busy(r) \/ slot'[r] = slot[r]
    /\ holder' = holder \/ holder = NoProc \/ holder = p
    /\ line' = line \/ holder = p

(* Preparing and freeing a node touch no other. *)
LEMMA NodeFacts ==
  ASSUME ParkingTypeOK, NEW p \in Procs, PrepareNode(p) \/ FreeNode(p) \/ UNCHANGED nodeVars
  PROVE  /\ value' \in [Procs -> Signals] /\ seen' \in [Procs -> Signals]
         /\ slot' \in [Procs -> BOOLEAN] /\ awake' = awake
         /\ \A r \in Procs \ {p} : value'[r] = value[r] /\ slot'[r] = slot[r] /\ seen'[r] = seen[r]
         /\ PrepareNode(p) => Prepared(p)' /\ seen'[p] = seen[p]
         /\ FreeNode(p) => value'[p] = "uninit" /\ seen'[p] = "uninit"
<1>1. "uninit" \in Signals /\ "waiting" \in Signals
  BY DEF Signals
<1>2. CASE PrepareNode(p)
  <2>2. /\ value' \in [Procs -> Signals] /\ value'[p] = IF p \in Tasks THEN "waiting" ELSE "uninit"
        /\ \A r \in Procs \ {p} : value'[r] = value[r]
    BY <1>1, <1>2 DEF PrepareNode, ParkingTypeOK
  <2>3. /\ slot' \in [Procs -> BOOLEAN] /\ slot'[p] = TRUE
        /\ \A r \in Procs \ {p} : slot'[r] = slot[r]
    BY <1>2 DEF PrepareNode, ParkingTypeOK
  <2>4. ~FreeNode(p)
    <3>1. FreeNode(p) => slot'[p] = FALSE
      BY DEF FreeNode, ParkingTypeOK
    <3> QED  BY <2>3, <3>1
  <2> QED  BY <1>2, <2>2, <2>3, <2>4 DEF PrepareNode, Prepared, ParkingTypeOK
<1>3. CASE FreeNode(p)
  <2>1. /\ slot' \in [Procs -> BOOLEAN] /\ slot'[p] = FALSE
        /\ \A r \in Procs \ {p} : slot'[r] = slot[r]
    BY <1>3 DEF FreeNode, ParkingTypeOK
  <2>2. ~PrepareNode(p)
    <3>1. PrepareNode(p) => slot'[p] = TRUE
      BY DEF PrepareNode, ParkingTypeOK
    <3> QED  BY <2>1, <3>1
  <2> QED  BY <1>1, <1>3, <2>1, <2>2 DEF FreeNode, ParkingTypeOK
<1>4. CASE UNCHANGED nodeVars
  <2>1. PrepareNode(p) => Prepared(p)' /\ seen'[p] = seen[p]
    BY DEF PrepareNode, Prepared, ParkingTypeOK
  <2>2. FreeNode(p) => value'[p] = "uninit" /\ seen'[p] = "uninit"
    BY DEF FreeNode, ParkingTypeOK
  <2> QED  BY <1>4, <2>1, <2>2 DEF nodeVars, ParkingTypeOK
<1> QED  BY <1>2, <1>3, <1>4

(* Nor do the steps of Parking. *)
LEMMA ParkingFrame ==
  ASSUME ParkingInv, NEW p \in Procs, ParkingStep(p) \/ Rouse(p)
  PROVE  Frame(p) /\ line' = line
<1>1. /\ holder' = holder \/ holder = NoProc \/ holder = p
      /\ line' = line
  BY DEF ParkingStep, Rouse, Swap, ParkReturn, CheckSignal, Poll, Rearm, Reload, Leave,
     AwaitSignal, Unlock, TakeWaker, StoreSignal, Wake, LockExisting, LockQueue, UnlockQueue, qvars
<1> QED  BY <1>1, OthersUntouched DEF Frame

(* What a waiter, an unlocking process and a signaler may do. *)
WaitMove(p) ==
    /\ pc[p] \in {"swap", "check", "pending", "reload", "await", "park", "rearm", "leave"}
    /\ \/ pc'[p] \in {"woken", "awaited"} /\ Delivered(value[p]) /\ seen'[p] = value[p]
       \/ /\ pc'[p] \in {"park", "check", "pending", "rearm", "reload", "await", "remove"}
          /\ seen'[p] = seen[p]
    /\ IF pc'[p] = "remove" THEN holder = NoProc /\ holder' = p /\ line # <<>> ELSE holder' = holder
    /\ UNCHANGED <<ret, chain, sent, node>>
    /\ value'[p] = value[p] \/ value'[p] = "waiting"

UnlockMove(p) ==
    /\ pc[p] = "unlock" /\ ret[p] # "signal" /\ pc'[p] = ret[p] /\ ret'[p] = "idle"
    /\ holder = p /\ holder' = NoProc
    /\ UNCHANGED <<nodeVars, chain, sent, node>>

SignalMove(p) ==
    /\ \/ Signaling(p) /\ holder' = holder /\ ret' = ret
       \/ /\ pc[p] = "unlock" /\ ret[p] = "signal" /\ ret'[p] = "idle"
          /\ holder = p /\ holder' = NoProc
    /\ \/ Signaling(p)' /\ sent' = sent
       \/ pc'[p] = "idle" /\ sent'[p] = "uninit"
    /\ seen' = seen /\ value'[p] = value[p]

SleepMove(p) == WaitMove(p) \/ UnlockMove(p) \/ SignalMove(p)

(* They do no more. *)
LEMMA SleepFacts ==
  ASSUME ParkingInv, NEW p \in Procs, ParkingStep(p) \/ Rouse(p)
  PROVE  SleepMove(p)
<1>t. ParkingTypeOK /\ PointsOK
  BY DEF ParkingInv
<1>p. pc = [r \in Procs |-> pc[r]] /\ ret = [r \in Procs |-> ret[r]]
  BY <1>t DEF PointsOK
<1>1. CASE \/ Swap(p) \/ CheckSignal(p) \/ Poll(p) \/ Reload(p) \/ AwaitSignal(p)
           \/ ParkReturn(p) \/ Rearm(p)
  <2>1. WaitMove(p)
    BY <1>1, <1>t, <1>p DEF Swap, CheckSignal, Poll, Reload, AwaitSignal, ParkReturn, Rearm, Receive,
       Goto, qvars, signalVars, ParkingTypeOK, WaitMove
  <2> QED  BY <2>1 DEF SleepMove
<1>2. CASE Leave(p)
  <2>1. WaitMove(p)
    BY <1>2, <1>p DEF Leave, LockExisting, LockQueue, Goto, qvars, nodeVars, signalVars, WaitMove
  <2> QED  BY <2>1 DEF SleepMove
<1>3. CASE Unlock(p) /\ ret[p] # "signal"
  <2>1. UnlockMove(p)
    BY <1>3, <1>p DEF Unlock, UnlockQueue, Goto, UnlockMove
  <2> QED  BY <2>1 DEF SleepMove
<1>4. CASE (Unlock(p) /\ ret[p] = "signal") \/ TakeWaker(p) \/ StoreSignal(p) \/ Wake(p)
  <2>0. SignalNext(p) => \/ pc'[p] = "take" /\ sent' = sent
                         \/ pc'[p] = "idle" /\ sent'[p] = "uninit"
    BY <1>t, <1>p DEF SignalNext, Goto, ParkingTypeOK
  <2>1. Signaling(p)' \/ pc'[p] = "idle"
    BY <1>4, <1>p, <2>0 DEF Unlock, TakeWaker, StoreSignal, Wake, Signaling, Goto
  <2>2. \/ Signaling(p) /\ holder' = holder /\ ret' = ret
        \/ /\ pc[p] = "unlock" /\ ret[p] = "signal" /\ ret'[p] = "idle"
           /\ holder = p /\ holder' = NoProc
    BY <1>4, <1>p DEF Unlock, TakeWaker, StoreSignal, Wake, Signaling, UnlockQueue, qvars
  <2>3. \/ Signaling(p)' /\ sent' = sent
        \/ pc'[p] = "idle" /\ sent'[p] = "uninit"
    <3>1. CASE TakeWaker(p)
      BY <1>p, <3>1 DEF TakeWaker, Signaling, Goto
    <3>2. CASE StoreSignal(p)
      BY <1>p, <2>0, <3>2 DEF StoreSignal, Signaling, Goto
    <3>3. CASE Wake(p) \/ (Unlock(p) /\ ret[p] = "signal")
      BY <1>p, <2>0, <3>3 DEF Wake, Unlock, Signaling
    <3> QED  BY <1>4, <3>1, <3>2, <3>3
  <2>4. seen' = seen /\ value'[p] = value[p]
    <3>1. ~Parked(p)
      <4>1. pc[p] \in {"take", "store", "storeWake", "wake"} \/ (pc[p] = "unlock" /\ ret[p] = "signal")
        BY <2>2 DEF Signaling
      <4> QED  BY <4>1 DEF Parked, At
    <3>2. ~Busy(p)
      BY <3>1 DEF ParkingInv, AliveInv
    <3>3. StoreSignal(p) => value'[p] = value[p] /\ seen' = seen
      BY <3>2, StoreStep DEF StoreSignal
    <3> QED  BY <1>4, <3>3 DEF Unlock, TakeWaker, Wake, nodeVars
  <2> QED  BY <2>2, <2>3, <2>4 DEF SignalMove, SleepMove
<1> QED  BY <1>1, <1>2, <1>3, <1>4 DEF ParkingStep, Rouse

(* Signals reach the nodes they were popped for, and no others. *)
LEMMA SignalFacts ==
  ASSUME ParkingInv, NEW p \in Procs, ParkingStep(p) \/ Rouse(p), NEW n \in Procs
  PROVE  /\ \/ value'[n] = value[n]
            \/ n = p /\ value'[n] = "waiting"
            \/ Popped(n, p) /\ ~Popped(n, p)' /\ value'[n] = sent[p]
         /\ \A r \in Procs : Popped(n, r)' => Popped(n, r)
         /\ \A r \in Procs : Popped(n, r) => \/ Popped(n, r)' /\ sent'[r] = sent[r]
                                             \/ r = p /\ value'[n] = sent[p]
<1>t. ParkingTypeOK /\ PointsOK
  BY DEF ParkingInv
<1>p. pc = [r \in Procs |-> pc[r]] /\ ret = [r \in Procs |-> ret[r]]
  BY <1>t DEF PointsOK
<1>f. \A r \in Procs \ {p} : /\ pc'[r] = pc[r] /\ chain'[r] = chain[r] /\ node'[r] = node[r]
                             /\ sent'[r] = sent[r]
  BY OthersUntouched
<1>o. ASSUME NEW r \in Procs \ {p} PROVE (Popped(n, r)' <=> Popped(n, r)) /\ sent'[r] = sent[r]
  BY <1>f DEF Popped, InChain, Storing
<1>1. CASE WaitMove(p) \/ UnlockMove(p)
  <2>1. chain' = chain /\ node' = node /\ sent' = sent
    BY <1>1 DEF WaitMove, UnlockMove
  <2>2. pc[p] \notin {"store", "storeWake"} /\ pc'[p] \notin {"store", "storeWake"}
    BY <1>1, <1>t DEF WaitMove, UnlockMove, PointsOK
  <2>3. Popped(n, p)' <=> Popped(n, p)
    BY <2>1, <2>2 DEF Popped, InChain, Storing
  <2>4. value'[n] = value[n] \/ (n = p /\ value'[n] = "waiting")
    <3>1. CASE n = p
      BY <1>1, <3>1 DEF WaitMove, UnlockMove, nodeVars
    <3>2. CASE n # p
      <4>1. ~StoreSignal(p)
        BY <2>2 DEF StoreSignal
      <4> QED  BY <3>2, <4>1, OthersUntouched
    <3> QED  BY <3>1, <3>2
  <2> QED  BY <1>o, <2>1, <2>3, <2>4
<1>2. CASE TakeWaker(p)
  <2>1. chain[p] # <<>> /\ chain[p] \in Seq(Procs)
    BY <1>2, <1>t DEF TakeWaker, ParkingInv, SignalerInv, ParkingTypeOK
  <2>2. /\ chain'[p] = Tail(chain[p]) /\ node'[p] = Head(chain[p]) /\ pc[p] = "take"
        /\ pc'[p] \in {"store", "storeWake"} /\ value' = value /\ sent' = sent
    BY <1>2, <1>t, <1>p DEF TakeWaker, Goto, ParkingTypeOK
  <2>3. Popped(n, p)' <=> Popped(n, p)
    <3>1. Among(n, chain[p]) <=> n = Head(chain[p]) \/ Among(n, Tail(chain[p]))
      BY <2>1, HeadFacts
    <3>2. ~Storing(n, p) /\ (Storing(n, p)' <=> n = Head(chain[p]))
      BY <2>2 DEF Storing
    <3> QED  BY <2>2, <3>1, <3>2 DEF Popped, InChain
  <2> QED  BY <1>o, <2>2, <2>3
<1>3. CASE StoreSignal(p)
  <2>1. /\ pc[p] \in {"store", "storeWake"} /\ node[p] \in Procs /\ chain' = chain
        /\ value' = [value EXCEPT ![node[p]] = sent[p]]
    BY <1>3 DEF StoreSignal, ParkingInv, SignalerInv
  <2>2. /\ pc'[p] \notin {"store", "storeWake"}
        /\ chain[p] # <<>> => sent'[p] = sent[p]
    BY <1>3, <1>p, <1>t DEF StoreSignal, SignalNext, Goto, ParkingTypeOK
  <2>3. /\ Storing(n, p) <=> n = node[p]
        /\ ~Storing(n, p)' /\ (InChain(n, p)' <=> InChain(n, p))
    BY <2>1, <2>2 DEF Storing, InChain
  <2>4. IF n = node[p] THEN value'[n] = sent[p] ELSE value'[n] = value[n]
    BY <2>1, <1>t DEF ParkingTypeOK
  <2>5. n = node[p] => ~InChain(n, p)
    BY <2>3 DEF ParkingInv, PlacesInv
  <2>6. InChain(n, p) => sent'[p] = sent[p]
    <3>1. InChain(n, p) => chain[p] # <<>>
      BY <1>t, SMT DEF InChain, Among, ParkingTypeOK
    <3> QED  BY <2>2, <3>1
  <2> QED  BY <1>o, <2>3, <2>4, <2>5, <2>6 DEF Popped
<1>4. CASE Wake(p) \/ (Unlock(p) /\ ret[p] = "signal")
  <2>1. chain' = chain /\ value' = value /\ SignalNext(p) /\ pc[p] \notin {"store", "storeWake"}
    BY <1>4 DEF Wake, Unlock, nodeVars
  <2>2. /\ pc'[p] \notin {"store", "storeWake"}
        /\ chain[p] # <<>> => sent'[p] = sent[p]
    BY <2>1, <1>p, <1>t DEF SignalNext, Goto, ParkingTypeOK
  <2>3. ~Storing(n, p) /\ ~Storing(n, p)' /\ (InChain(n, p)' <=> InChain(n, p))
    BY <2>1, <2>2 DEF Storing, InChain
  <2>4. InChain(n, p) => sent'[p] = sent[p]
    <3>1. InChain(n, p) => chain[p] # <<>>
      BY <1>t, SMT DEF InChain, Among, ParkingTypeOK
    <3> QED  BY <2>2, <3>1
  <2> QED  BY <1>o, <2>1, <2>3, <2>4 DEF Popped
<1>5. CASE SignalMove(p)
  <2>1. TakeWaker(p) \/ StoreSignal(p) \/ Wake(p) \/ (Unlock(p) /\ ret[p] = "signal")
    BY <1>5 DEF SignalMove, Signaling, ParkingStep, Rouse, Swap, ParkReturn, CheckSignal, Poll, Rearm,
       Reload, Leave, AwaitSignal, Unlock
  <2> QED  BY <1>2, <1>3, <1>4, <2>1
<1> QED  BY <1>1, <1>5, SleepFacts DEF SleepMove

(* A step of p on the state word of its primitive: before it waits or when   *)
(* it no longer does, preparing or freeing its node, or on its way out of    *)
(* the line.                                                                 *)
LEMMA OwnMove ==
  ASSUME ParkingInv, NEW p \in Procs,
         \A r \in Procs \ {p} : pc'[r] = pc[r] /\ ret'[r] = ret[r],
         pc' = [r \in Procs |-> pc'[r]], ret' = ret \/ ret' = [ret EXCEPT ![p] = "idle"],
         holder' = holder \/ (holder = NoProc /\ holder' = p), UNCHANGED <<line, signalVars>>,
         PrepareNode(p) \/ FreeNode(p) \/ UNCHANGED nodeVars,
         ~Signaling(p), ~Signaling(p)', ~Asleep(p)', At(p)' # "signal",
         Busy(p) \/ Parked(p)' => Parked(p) /\ Parked(p)' /\ At(p) # "swap" /\ UNCHANGED nodeVars
  PROVE  ParkingInv' /\ Frame(p)
<1>t. ParkingTypeOK /\ PointsOK
  BY DEF ParkingInv
<1>1. line' = line /\ chain' = chain /\ sent' = sent /\ node' = node
  BY DEF signalVars
<1>2. /\ value' \in [Procs -> Signals] /\ seen' \in [Procs -> Signals]
      /\ slot' \in [Procs -> BOOLEAN] /\ awake' = awake
      /\ \A r \in Procs \ {p} : value'[r] = value[r] /\ slot'[r] = slot[r] /\ seen'[r] = seen[r]
  BY <1>t, NodeFacts
<1>3. ParkingTypeOK'
  BY <1>t, <1>1, <1>2 DEF ParkingTypeOK
<1>4. PointsOK'
  BY <1>t DEF PointsOK
<1>5. /\ Busy(p) => Parked(p) /\ ~Delivered(value[p])
      /\ Parked(p) => At(p) = "swap" \/ value[p] # "uninit"
  BY DEF ParkingInv, AliveInv, WaiterInv
<1>6. /\ Busy(p) => Parked(p)' /\ ~Delivered(value'[p]) /\ (slot[p] = TRUE => slot'[p] = TRUE)
      /\ Parked(p)' => At(p)' = "swap" \/ value'[p] # "uninit"
  BY <1>5 DEF nodeVars
<1>7. ParkingInv'
  BY <1>1, <1>2, <1>3, <1>4, <1>6, OwnStep
<1>8. Frame(p)
  BY <1>1, <1>2 DEF Frame
<1> QED  BY <1>7, <1>8

(* A step under the lock of the queue, after which p unlocks it. *)
Locked(p, to) ==
    /\ holder = p /\ holder' = p /\ UNCHANGED <<nodeVars, node>>
    /\ pc'[p] \in {"clear", "unlock"} /\ ret' = [ret EXCEPT ![p] = to]
    /\ pc' = [r \in Procs |-> pc'[r]] /\ \A r \in Procs \ {p} : pc'[r] = pc[r]

(* Where it leaves p. *)
LEMMA LockedFacts ==
  ASSUME ParkingInv, NEW p \in Procs, NEW to, Locked(p, to),
         to \notin {"clear", "unlock", "take", "store", "storeWake", "wake", "park"},
         line' \in Seq(Procs), chain' \in [Procs -> Seq(Procs)], sent' \in [Procs -> Signals],
         \A r \in Procs \ {p} : sent'[r] = sent[r], ~Signaling(p)
  PROVE  At(p)' = to /\ LinedUp(p) /\ UNCHANGED <<value, slot, awake, seen, node>>
         /\ \A r \in Procs \ {p} : pc'[r] = pc[r] /\ ret'[r] = ret[r]
<1>t. ParkingTypeOK /\ PointsOK
  BY DEF ParkingInv
<1>1. ret'[p] = to /\ ret' = [r \in Procs |-> ret'[r]] /\ \A r \in Procs \ {p} : ret'[r] = ret[r]
  BY <1>t DEF Locked, PointsOK
<1>2. At(p)' = to
  BY <1>1 DEF Locked, At
<1>3. PointsOK'
  BY <1>t, <1>1 DEF PointsOK, Locked
<1>4. ParkingTypeOK'
  BY <1>t DEF ParkingTypeOK, Locked, nodeVars
<1> QED  BY <1>1, <1>2, <1>3, <1>4 DEF LinedUp, Locked, Signaling, nodeVars

(* Pushing a prepared node. *)
LEMMA PushMove ==
  ASSUME ParkingInv, NEW p \in Procs, Locked(p, IF p \in Threads THEN "swap" ELSE "pending"),
         line' = Append(line, p), chain' = chain, sent' = sent,
         Prepared(p), ~Parked(p), ~Signaling(p)
  PROVE  ParkingInv' /\ Frame(p) /\ \A n \in Procs : Busy(n)' => Busy(n) \/ n = p
<1>t. ParkingTypeOK
  BY DEF ParkingInv
<1>1. line' \in Seq(Procs) /\ chain' \in [Procs -> Seq(Procs)] /\ sent' \in [Procs -> Signals]
  BY <1>t, SMT DEF ParkingTypeOK
<1>2. PICK to : to = IF p \in Threads THEN "swap" ELSE "pending"
  OBVIOUS
<1>3. /\ At(p)' = to /\ LinedUp(p) /\ UNCHANGED <<value, slot, awake, seen, node>>
      /\ \A r \in Procs \ {p} : pc'[r] = pc[r] /\ ret'[r] = ret[r]
  BY <1>1, <1>2, LockedFacts
<1>4. slot[p] = TRUE /\ ~Delivered(value[p]) /\ (to = "swap" \/ value[p] # "uninit")
  BY <1>2 DEF Prepared, Delivered, Tasks
<1>5. Parked(p)' /\ At(p)' # "signal"
  BY <1>2, <1>3 DEF Parked
<1>6. ParkingInv' /\ \A n \in Procs : Busy(n)' => Busy(n) \/ n = p
  BY <1>3, <1>4, <1>5, PushStep
<1> QED  BY <1>3, <1>6 DEF Frame, Locked

(* Popping the first k nodes, to signal them after the unlock. *)
LEMMA PopMove ==
  ASSUME ParkingInv, NEW p \in Procs, Locked(p, "signal"), NEW k \in 0 .. Len(line),
         chain' = [chain EXCEPT ![p] = SubSeq(line, 1, k)],
         line' = SubSeq(line, k + 1, Len(line)),
         NEW signal \in Signals, Delivered(signal), sent' = [sent EXCEPT ![p] = signal],
         ~Parked(p), ~Signaling(p)
  PROVE  ParkingInv' /\ Frame(p) /\ \A n \in Procs : Busy(n)' => Busy(n)
<1>t. ParkingTypeOK
  BY DEF ParkingInv
<1>1. SubSeq(line, 1, k) \in Seq(Procs) /\ SubSeq(line, k + 1, Len(line)) \in Seq(Procs)
  BY <1>t, SplitFacts DEF ParkingTypeOK
<1>2. /\ line' \in Seq(Procs) /\ chain' \in [Procs -> Seq(Procs)] /\ sent' \in [Procs -> Signals]
      /\ sent'[p] = signal /\ \A r \in Procs \ {p} : sent'[r] = sent[r] /\ chain'[r] = chain[r]
  BY <1>t, <1>1 DEF ParkingTypeOK
<1>3. /\ At(p)' = "signal" /\ LinedUp(p) /\ UNCHANGED <<value, slot, awake, seen, node>>
      /\ \A r \in Procs \ {p} : pc'[r] = pc[r] /\ ret'[r] = ret[r]
  BY <1>2, LockedFacts
<1>4. ~Parked(p)' /\ ~Asleep(p)'
  BY <1>3 DEF Parked, Asleep, Locked
<1>5. ParkingInv' /\ \A n \in Procs : Busy(n)' => Busy(n)
  BY <1>2, <1>3, <1>4, PopStep
<1> QED  BY <1>2, <1>3, <1>5 DEF Frame, Locked

(* Removing its own node, or finding it gone. *)
LEMMA RemoveMove ==
  ASSUME ParkingInv, NEW p \in Procs, NEW to, Locked(p, to), pc[p] = "remove",
         chain' = chain, sent' = sent,
         \/ (\E k \in Position(p) : line' = Without(line, k)) /\ to \in {"removed", "giveback", "cancelledHead", "cancelled"}
         \/ Position(p) = {} /\ line' = line /\ to = "await"
  PROVE  ParkingInv' /\ Frame(p) /\ \A n \in Procs : Busy(n)' => Busy(n)
<1>t. ParkingTypeOK /\ Distinct(line)
  BY DEF ParkingInv, PlacesInv
<1>1. line' \in Seq(Procs) /\ chain' \in [Procs -> Seq(Procs)] /\ sent' \in [Procs -> Signals]
  <2>1. \A k \in Position(p) : Without(line, k) \in Seq(Procs)
    BY <1>t, RemoveFacts DEF Position, ParkingTypeOK
  <2> QED  BY <1>t, <2>1 DEF ParkingTypeOK
<1>2. /\ to \in {"await", "removed", "giveback", "cancelledHead", "cancelled"}
      /\ ~Signaling(p) /\ At(p) = "remove" /\ Parked(p)
  BY DEF Signaling, At, Parked
<1>3. /\ At(p)' = to /\ LinedUp(p) /\ UNCHANGED <<value, slot, awake, seen, node>>
      /\ \A r \in Procs \ {p} : pc'[r] = pc[r] /\ ret'[r] = ret[r]
  BY <1>1, <1>2, LockedFacts
<1>4. /\ Parked(p)' <=> to = "await"
      /\ ~Asleep(p)'
  BY <1>2, <1>3 DEF Parked, Asleep, Locked
<1>5. ParkingInv' /\ \A n \in Procs : Busy(n)' => Busy(n)
  BY <1>2, <1>3, <1>4, RemoveStep
<1> QED  BY <1>3, <1>5 DEF Frame, Locked

(* Clearing a flag on the way to the unlock. *)
LEMMA ClearMove ==
  ASSUME ParkingInv, NEW p \in Procs, pc[p] = "clear", pc' = [pc EXCEPT ![p] = "unlock"],
         UNCHANGED <<qvars, nodeVars, ret, signalVars>>
  PROVE  ParkingInv' /\ Frame(p) /\ \A n \in Procs : Busy(n)' <=> Busy(n)
<1>t. ParkingTypeOK /\ PointsOK
  BY DEF ParkingInv
<1>1. UNCHANGED <<holder, line, value, slot, awake, seen, ret, chain, sent, node>>
  BY DEF qvars, nodeVars, signalVars
<1>2. pc' = [r \in Procs |-> pc'[r]] /\ pc'[p] = "unlock" /\ \A r \in Procs \ {p} : pc'[r] = pc[r]
  BY <1>t DEF PointsOK
<1>3. ParkingTypeOK' /\ PointsOK'
  BY <1>t, <1>1, <1>2 DEF ParkingTypeOK, PointsOK
<1>4. ASSUME NEW r \in Procs
      PROVE  /\ At(r)' = At(r) /\ (Parked(r)' <=> Parked(r))
             /\ (Asleep(r)' <=> Asleep(r)) /\ (Signaling(r)' <=> Signaling(r))
             /\ \A s \in {"take", "store", "storeWake", "wake", "park"} : pc'[r] = s <=> pc[r] = s
  <2>1. At(r)' = At(r)
    BY <1>1, <1>2 DEF At
  <2>2. \A s \in {"take", "store", "storeWake", "wake", "park"} : pc'[r] = s <=> pc[r] = s
    BY <1>2
  <2> QED  BY <2>1, <2>2 DEF Parked, Asleep, Signaling
<1>5. ASSUME NEW n, NEW r \in Procs
      PROVE  /\ InLine(n)' <=> InLine(n)
             /\ InChain(n, r)' <=> InChain(n, r)
             /\ Storing(n, r)' <=> Storing(n, r)
  BY <1>1, <1>4 DEF InLine, InChain, Storing, Among
<1>6. ASSUME NEW n \in Procs PROVE Busy(n)' <=> Busy(n)
  BY <1>5 DEF Busy, Popped
<1>7. PlacesInv'
  <2>1. Distinct(line)' /\ \A r \in Procs : Distinct(chain[r])'
    BY <1>1 DEF ParkingInv, PlacesInv, Distinct
  <2> QED  BY <1>5, <2>1 DEF ParkingInv, PlacesInv, Popped
<1>8. AliveInv'
  BY <1>1, <1>4, <1>5, <1>6 DEF ParkingInv, AliveInv
<1>9. SignalerInv' /\ WaiterInv'
  BY <1>1, <1>4 DEF ParkingInv, SignalerInv, WaiterInv
<1>10. WakeInv'
  BY <1>1, <1>4, SMT DEF ParkingInv, WakeInv, WakeComing
<1>11. Frame(p)
  BY <1>1, <1>2 DEF Frame
<1> QED  BY <1>3, <1>6, <1>7, <1>8, <1>9, <1>10, <1>11 DEF ParkingInv

(* At the start nobody waits and nobody signals. *)
LEMMA ParkingStart == ParkingInit => ParkingInv
<1> SUFFICES ASSUME ParkingInit PROVE ParkingInv
  OBVIOUS
<1> USE DEF ParkingInit, QueueInit
<1>1. ParkingTypeOK
  <2>1. "uninit" \in Signals /\ <<>> \in Seq(Procs)
    BY SMT DEF Signals
  <2> QED  BY <2>1 DEF ParkingTypeOK
<1>2. PointsOK
  BY DEF PointsOK
<1>3. ASSUME NEW n, NEW p \in Procs PROVE ~InLine(n) /\ ~InChain(n, p) /\ ~Storing(n, p)
  BY SMT DEF InLine, InChain, Storing, Among
<1>4. PlacesInv
  <2>1. Distinct(line) /\ \A p \in Procs : Distinct(chain[p])
    BY SMT DEF Distinct
  <2> QED  BY <1>3, <2>1 DEF PlacesInv, Popped
<1>5. AliveInv
  BY <1>3 DEF AliveInv, Busy, Popped
<1>6. \A p \in Procs : At(p) = "idle" /\ ~Parked(p) /\ ~Asleep(p) /\ ~Signaling(p)
  BY DEF At, Parked, Asleep, Signaling
<1>7. SignalerInv /\ WaiterInv /\ WakeInv
  BY <1>6 DEF SignalerInv, WaiterInv, WakeInv
<1> QED  BY <1>1, <1>2, <1>4, <1>5, <1>7 DEF ParkingInv

(* The invariant says what every primitive is to inherit. *)
LEMMA InvSafe == ParkingInv => WaitersSafe
<1> SUFFICES ASSUME ParkingInv PROVE WaitersSafe
  OBVIOUS
<1>1. NodesAlive
  <2>1. \A i \in 1 .. Len(line) : Parked(line[i])
    <3> SUFFICES ASSUME NEW i \in 1 .. Len(line) PROVE Parked(line[i])
      OBVIOUS
    <3>1. line[i] \in Procs /\ InLine(line[i])
      BY SMT DEF ParkingInv, ParkingTypeOK, InLine, Among
    <3> QED  BY <3>1 DEF ParkingInv, AliveInv, Busy
  <2>2. ASSUME NEW n \in Procs, NEW p \in Procs, Popped(n, p)
        PROVE  Parked(n) /\ Position(n) = {} /\ ~Delivered(value[n])
    <3>1. Parked(n) /\ ~Delivered(value[n]) /\ ~InLine(n)
      BY <2>2 DEF ParkingInv, AliveInv, Busy, PlacesInv
    <3> QED  BY <3>1 DEF InLine, Among, Position
  <2>3. ASSUME NEW p \in Procs, NEW i \in 1 .. Len(chain[p])
        PROVE  Parked(chain[p][i]) /\ Position(chain[p][i]) = {}
    <3>1. chain[p][i] \in Procs /\ Popped(chain[p][i], p)
      BY SMT DEF ParkingInv, ParkingTypeOK, Popped, InChain, Among
    <3> QED  BY <2>2, <3>1
  <2>4. ASSUME NEW p \in Procs, pc[p] \in {"store", "storeWake"}
        PROVE  Parked(node[p]) /\ Position(node[p]) = {} /\ ~Delivered(value[node[p]])
    <3>1. node[p] \in Procs /\ Popped(node[p], p)
      BY <2>4 DEF ParkingInv, SignalerInv, Popped, Storing
    <3> QED  BY <2>2, <3>1
  <2> QED  BY <2>1, <2>3, <2>4 DEF NodesAlive
<1>2. NoLostWakeup
  <2> SUFFICES ASSUME NEW p \in Procs, pc[p] \in {"park", "pending"}, Delivered(value[p])
               PROVE  awake[p] \/ \E r \in Procs : pc[r] = "wake" /\ node[r] = p
    BY DEF NoLostWakeup
  <2>1. WakeComing(p)
    BY DEF ParkingInv, WakeInv, Asleep, At
  <2> QED  BY <2>1 DEF WakeComing
<1> QED  BY <1>1, <1>2 DEF ParkingInv, WaitersSafe
=============================================================================
