-------------------------- MODULE WaitQueueProofs --------------------------
(***************************************************************************)
(* Wait queues over one pool, for any number of processes, wait queues and *)
(* heap addresses: QueueInv is inductive, so a queue is never in two hands *)
(* although stale copies of its address are around, and none is lost or    *)
(* freed in use.  And every wait queue implements QueueLock: the holder is *)
(* the one process that has the lock, the line is the contents of the      *)
(* queue that this process or the word has.  At the end the waker slot of  *)
(* a node that has been popped from such a queue.                          *)
(***************************************************************************)
EXTENDS WaitQueueRefinement, WakerHandoff, TLAPS

(* Zenon is tried on every leaf that names no other prover. *)
USE Zenon

(* Elements of a concatenation. *)
LEMMA ConcatFacts ==
  ASSUME NEW S, NEW a \in Seq(S), NEW b \in Seq(S)
  PROVE  /\ Len(a \o b) = Len(a) + Len(b)
         /\ \A i \in 1 .. Len(a) + Len(b) : (a \o b)[i] = IF i <= Len(a) THEN a[i] ELSE b[i - Len(a)]
<1>1. Len(a \o b) = Len(a) + Len(b)
  BY SMT
<1>2. \A i \in 1 .. Len(a) + Len(b) : (a \o b)[i] = IF i <= Len(a) THEN a[i] ELSE b[i - Len(a)]
  BY SMT
<1> QED  BY <1>1, <1>2

Without(s, k) == SubSeq(s, 1, k - 1) \o SubSeq(s, k + 1, Len(s))

(* Removing the k-th node shifts the later ones by one. *)
LEMMA WithoutFacts ==
  ASSUME NEW S, NEW s \in Seq(S), NEW k \in 1 .. Len(s)
  PROVE  /\ Len(Without(s, k)) = Len(s) - 1
         /\ \A i \in 1 .. Len(s) - 1 : Without(s, k)[i] = IF i < k THEN s[i] ELSE s[i + 1]
<1> DEFINE a == SubSeq(s, 1, k - 1)
           b == SubSeq(s, k + 1, Len(s))
<1>1. Len(s) \in Nat /\ k \in Nat /\ 1 <= k /\ k <= Len(s) /\ \A i \in 1 .. Len(s) : s[i] \in S
  BY SMT
<1>2. a \in Seq(S) /\ Len(a) = k - 1 /\ \A i \in 1 .. k - 1 : a[i] = s[i]
  BY <1>1, SMT
<1>3. b \in Seq(S) /\ Len(b) = Len(s) - k /\ \A i \in 1 .. Len(s) - k : b[i] = s[k + i]
  BY <1>1, SMT
<1> HIDE DEF a, b
<1>4. /\ Len(a \o b) = Len(a) + Len(b)
      /\ \A i \in 1 .. Len(a) + Len(b) : (a \o b)[i] = IF i <= Len(a) THEN a[i] ELSE b[i - Len(a)]
  BY <1>2, <1>3, ConcatFacts
<1>5. ASSUME NEW i \in 1 .. Len(s) - 1 PROVE (a \o b)[i] = IF i < k THEN s[i] ELSE s[i + 1]
  <2>1. CASE i < k
    BY <1>1, <1>2, <1>3, <1>4, <2>1, SMT
  <2>2. CASE ~(i < k)
    <3>1. i - (k - 1) \in 1 .. Len(s) - k /\ k + (i - (k - 1)) = i + 1
      BY <1>1, <2>2, SMT
    <3>2. (a \o b)[i] = b[i - (k - 1)]
      BY <1>1, <1>2, <1>3, <1>4, <2>2, SMT
    <3> QED  BY <1>3, <2>2, <3>1, <3>2
  <2> QED  BY <2>1, <2>2
<1>6. Len(a \o b) = Len(s) - 1
  BY <1>1, <1>2, <1>3, <1>4, SMT
<1> QED  BY <1>5, <1>6 DEF Without, a, b

(* The disjuncts of Next, for one process. *)
ProcStep(p) ==
    \/ Lock(p) \/ LockNone(p) \/ LockAlloc(p) \/ AllocateQueue(p)
    \/ BuildPool(p) \/ PublishPool(p) \/ TakeQueue(p)
    \/ LockReload(p) \/ LockTag(p)
    \/ WithQueue(p) \/ Unlock(p) \/ DeallocateQueue(p)

(* What membership in Words says. *)
LEMMA WordFacts ==
  /\ \A w \in Words : w.st = "queue" => w.q \in Queues /\ w = Ptr(w.q)
  /\ \A w \in Words : w.st \in {"null", "updating"} => w.q = NoQueue
  /\ \A w \in Words : w.q \in Queues \cup {NoQueue}
  /\ \A q \in Queues : Ptr(q) \in Words /\ Tagged(q) \in Words
  /\ NULL \in Words /\ UPDATING \in Words
<1> USE DEF Ptr, Tagged, NULL, UPDATING
<1>1. ASSUME NEW w \in Words
      PROVE  /\ w.st = "queue" => w.q \in Queues /\ w = Ptr(w.q)
             /\ w.st \in {"null", "updating"} => w.q = NoQueue
             /\ w.q \in Queues \cup {NoQueue}
  <2>1. CASE w \in {NULL, UPDATING}
    BY <2>1, SMT
  <2>2. CASE w \in {Ptr(q) : q \in Queues}
    BY <2>2, SMT
  <2>3. CASE w \in {Tagged(q) : q \in Queues}
    BY <2>3, SMT
  <2> QED  BY <2>1, <2>2, <2>3 DEF Words
<1> QED  BY <1>1 DEF Words

(* The fields of the four kinds of word. *)
LEMMA WordFields ==
  /\ NULL.st = "null" /\ NULL.q = NoQueue
  /\ UPDATING.st = "updating" /\ UPDATING.q = NoQueue
  /\ \A q : Ptr(q).st = "queue" /\ Ptr(q).q = q
  /\ \A q : Tagged(q).st = "tagged" /\ Tagged(q).q = q
BY DEF Ptr, Tagged, NULL, UPDATING

(* Work on the contents leaves the words and the pool alone. *)
LEMMA WithQueueFrame ==
  ASSUME NEW p \in Procs, WithQueue(p)
  PROVE  /\ pc[p] = "locked" /\ pc' = [pc EXCEPT ![p] = "unlock"]
         /\ word' = word /\ at' = at /\ op' = op /\ ptr' = ptr /\ UNCHANGED poolVars
BY DEF WithQueue, Goto, poolVars

(* Types are preserved. *)
LEMMA TypeStep ==
  ASSUME TypeOK, LockInv, NEW p \in Procs, ProcStep(p)
  PROVE  TypeOK'
<1> USE DEF Goto, SetPtr, poolVars
<1>1. CASE Lock(p)
  BY <1>1, SMT DEF Lock, TypeOK
<1>2. CASE LockNone(p)
  BY <1>2 DEF LockNone, TypeOK
<1>3. CASE LockAlloc(p)
  <2>1. word' \in [WaitQueues -> Words]
    <3>1. UPDATING \in Words
      BY WordFacts
    <3> QED  BY <1>3, <3>1 DEF LockAlloc, TypeOK
  <2> QED  BY <1>3, <2>1 DEF LockAlloc, TypeOK
<1>4. CASE AllocateQueue(p)
  BY <1>4 DEF AllocateQueue, TypeOK
<1>5. CASE BuildPool(p)
  BY <1>5 DEF BuildPool, Fresh, TypeOK
<1>6. CASE PublishPool(p)
  BY <1>6, SMT DEF PublishPool, TypeOK
<1>7. CASE TakeQueue(p)
  <2>1. PICK q \in Queues : ptr' = [ptr EXCEPT ![p] = Ptr(q)] /\ heap' = heap \cup {q} /\ pool' = pool \ {q}
    BY <1>7 DEF TakeQueue, Fresh, TypeOK
  <2>2. Ptr(q) \in Words
    BY WordFacts
  <2> QED  BY <1>7, <2>1, <2>2 DEF TakeQueue, TypeOK
<1>8. CASE LockReload(p)
  BY <1>8 DEF LockReload, TypeOK
<1>9. CASE LockTag(p)
  <2>1. word' \in [WaitQueues -> Words]
    <3>1. Tagged(ptr[p].q) \in Words
      BY <1>9, WordFacts DEF LockTag, TypeOK
    <3> QED  BY <1>9, <3>1 DEF LockTag, TypeOK
  <2> QED  BY <1>9, <2>1 DEF LockTag, TypeOK
<1>10. CASE WithQueue(p)
  <2>1. ptr[p].q \in Queues
    BY <1>10, WithQueueFrame, WordFacts DEF LockInv, HasQueue, TypeOK
  <2> DEFINE s == contents[ptr[p].q]
  <2>2. s \in Seq(Procs)
    BY <2>1 DEF TypeOK
  <2>3. /\ Append(s, p) \in Seq(Procs)
        /\ \A k \in 1 .. Len(s) : SubSeq(s, k + 1, Len(s)) \in Seq(Procs)
        /\ \A i \in Position(s, p) : SubSeq(s, 1, i - 1) \o SubSeq(s, i + 1, Len(s)) \in Seq(Procs)
    BY <2>2, SMT DEF Position
  <2> HIDE DEF s
  <2>4. contents' = contents \/ \E v \in Seq(Procs) : contents' = [contents EXCEPT ![ptr[p].q] = v]
    BY <1>10, <2>3 DEF WithQueue, s
  <2>5. contents' \in [Queues -> Seq(Procs)]
    BY <2>1, <2>4 DEF TypeOK
  <2> QED  BY <1>10, <2>5, WithQueueFrame DEF TypeOK
<1>11. CASE Unlock(p)
  <2>1. word' \in [WaitQueues -> Words]
    <3>1. NULL \in Words
      BY WordFacts
    <3> QED  BY <1>11, <3>1 DEF Unlock, TypeOK
  <2> QED  BY <1>11, <2>1 DEF Unlock, TypeOK
<1>12. CASE DeallocateQueue(p)
  <2>1. ptr[p].q \in Queues
    BY <1>12, WordFacts DEF DeallocateQueue, LockInv, HasQueue, TypeOK
  <2> QED  BY <1>12, <2>1 DEF DeallocateQueue, TypeOK
<1> QED
  BY <1>1, <1>2, <1>3, <1>4, <1>5, <1>6, <1>7, <1>8, <1>9, <1>10, <1>11, <1>12 DEF ProcStep

(* Nobody has the lock of a wait queue whose word is not in a transient state. *)
LEMMA NobodyInside ==
  ASSUME LockInv, NEW w \in WaitQueues, word[w].st \notin {"updating", "tagged"}
  PROVE  \A r \in Procs : HasLock(r) => at[r] # w
BY WordFields, SMT DEF LockInv

(* The words keep everybody else out. *)
LEMMA LockStep ==
  ASSUME TypeOK, LockInv, PlaceInv, NEW p \in Procs, ProcStep(p)
  PROVE  LockInv'
<1> USE DEF Goto, SetPtr, poolVars
<1>1. CASE Lock(p)
  BY <1>1, SMT DEF Lock, HasLock, HasQueue, LockInv
<1>2. CASE LockNone(p)
  BY <1>2, SMT DEF LockNone, HasLock, HasQueue, LockInv, TypeOK
<1>3. CASE LockAlloc(p)
  <2>1. CASE word[at[p]] = NULL
    <3>1. \A r \in Procs : HasLock(r) => at[r] # at[p]
      BY <2>1, WordFields, SMT DEF LockInv
    <3>2. /\ word' = [word EXCEPT ![at[p]] = UPDATING]
          /\ pc' = [pc EXCEPT ![p] = "alloc"]
          /\ ptr' = ptr /\ at' = at /\ pc[p] = "lock"
      BY <1>3, <2>1 DEF LockAlloc
    <3> QED  BY <3>1, <3>2, SMT DEF HasLock, HasQueue, LockInv, TypeOK
  <2>2. CASE word[at[p]] # NULL
    BY <1>3, <2>2, SMT DEF LockAlloc, HasLock, HasQueue, LockInv, TypeOK
  <2> QED  BY <2>1, <2>2
<1>4. CASE AllocateQueue(p)
  BY <1>4, SMT DEF AllocateQueue, HasLock, HasQueue, LockInv
<1>5. CASE BuildPool(p)
  BY <1>5, SMT DEF BuildPool, HasLock, HasQueue, LockInv
<1>6. CASE PublishPool(p)
  BY <1>6, SMT DEF PublishPool, HasLock, HasQueue, LockInv
<1>7. CASE TakeQueue(p)
  BY <1>7, WordFields, SMT DEF TakeQueue, HasLock, HasQueue, LockInv, TypeOK
<1>8. CASE LockReload(p)
  BY <1>8, SMT DEF LockReload, HasLock, HasQueue, LockInv
<1>9. CASE LockTag(p)
  <2>1. CASE word[at[p]] = ptr[p]
    <3>1. ptr[p].st = "queue"
      BY <1>9 DEF LockTag
    <3>2. \A r \in Procs : HasLock(r) => at[r] # at[p]
      BY <2>1, <3>1, NobodyInside DEF TypeOK
    <3>3. /\ word' = [word EXCEPT ![at[p]] = Tagged(ptr[p].q)]
          /\ pc' = [pc EXCEPT ![p] = "locked"]
          /\ ptr' = ptr /\ at' = at /\ pc[p] = "lock"
      BY <1>9, <2>1 DEF LockTag
    <3> QED  BY <3>1, <3>2, <3>3, WordFields, SMT DEF HasLock, HasQueue, LockInv, TypeOK
  <2>2. CASE word[at[p]] # ptr[p]
    BY <1>9, <2>2, SMT DEF LockTag, HasLock, HasQueue, LockInv, TypeOK
  <2> QED  BY <2>1, <2>2
<1>10. CASE WithQueue(p)
  BY <1>10, WithQueueFrame, SMT DEF HasLock, HasQueue, LockInv, TypeOK
<1>11. CASE Unlock(p)
  <2>1. \A r \in Procs : HasLock(r) /\ r # p => at[r] # at[p]
    BY <1>11 DEF Unlock, HasLock, LockInv
  <2>2. /\ pc[p] = "unlock" /\ ptr' = ptr /\ at' = at
        /\ pc' = [pc EXCEPT ![p] = "dealloc"] \/ pc' = [pc EXCEPT ![p] = "idle"]
        /\ \A w \in WaitQueues : w # at[p] => word'[w] = word[w]
    BY <1>11 DEF Unlock, TypeOK
  <2>3. /\ ~HasLock(p)'
        /\ \A r \in Procs \ {p} : pc'[r] = pc[r]
        /\ \A r \in Procs : HasQueue(r)' => HasQueue(r)
    BY <2>2 DEF HasLock, HasQueue, TypeOK
  <2>4. \A r \in Procs : HasLock(r)' => r # p /\ HasLock(r) /\ word'[at[r]] = word[at[r]]
    BY <2>1, <2>2, <2>3, WordFields DEF HasLock, HasQueue, TypeOK
  <2> QED  BY <2>2, <2>3, <2>4 DEF HasQueue, LockInv
<1>12. CASE DeallocateQueue(p)
  BY <1>12, SMT DEF DeallocateQueue, HasLock, HasQueue, LockInv
<1> QED
  BY <1>1, <1>2, <1>3, <1>4, <1>5, <1>6, <1>7, <1>8, <1>9, <1>10, <1>11, <1>12 DEF ProcStep

(* A transient word has its writer. *)
LEMMA HeldStep ==
  ASSUME TypeOK, LockInv, HeldInv, NEW p \in Procs, ProcStep(p)
  PROVE  HeldInv'
<1> USE DEF Goto, SetPtr, poolVars
<1>1. CASE word' = word /\ \A r \in Procs : HasLock(r) => HasLock(r)' /\ at'[r] = at[r]
  BY <1>1 DEF HeldInv
<1>2. CASE LockAlloc(p) /\ word[at[p]] = NULL
  <2>1. /\ word' = [word EXCEPT ![at[p]] = UPDATING] /\ at' = at
        /\ pc[p] = "lock" /\ pc' = [pc EXCEPT ![p] = "alloc"]
    BY <1>2 DEF LockAlloc
  <2> QED  BY <2>1 DEF HeldInv, HasLock, TypeOK
<1>3. CASE LockTag(p) /\ word[at[p]] = ptr[p]
  <2>1. /\ word' = [word EXCEPT ![at[p]] = Tagged(ptr[p].q)] /\ at' = at
        /\ pc[p] = "lock" /\ pc' = [pc EXCEPT ![p] = "locked"]
    BY <1>3 DEF LockTag
  <2> QED  BY <2>1 DEF HeldInv, HasLock, TypeOK
<1>4. CASE Unlock(p)
  <2>1. /\ at' = at /\ word'[at[p]].st \notin {"updating", "tagged"}
        /\ \A w \in WaitQueues : w # at[p] => word'[w] = word[w]
        /\ \A r \in Procs \ {p} : pc'[r] = pc[r]
    BY <1>4, WordFields, SMT DEF Unlock, LockInv, HasQueue, TypeOK
  <2>2. \A r \in Procs : HasLock(r) /\ at[r] # at[p] => HasLock(r)'
    BY <2>1 DEF HasLock
  <2>3. ASSUME NEW w \in WaitQueues, word'[w].st \in {"updating", "tagged"}
        PROVE  \E r \in Procs : HasLock(r)' /\ at'[r] = w
    <3>1. w # at[p] /\ word'[w] = word[w]
      BY <2>1, <2>3
    <3>2. PICK r \in Procs : HasLock(r) /\ at[r] = w
      BY <2>3, <3>1 DEF HeldInv
    <3> QED  BY <2>1, <2>2, <3>1, <3>2
  <2> QED  BY <2>3 DEF HeldInv
<1>5. CASE \/ Lock(p) \/ LockNone(p) \/ LockReload(p)
           \/ (LockAlloc(p) /\ word[at[p]] # NULL) \/ (LockTag(p) /\ word[at[p]] # ptr[p])
  <2>1. /\ word' = word /\ pc[p] \in {"idle", "lock"}
        /\ \A r \in Procs \ {p} : pc'[r] = pc[r] /\ at'[r] = at[r]
    BY <1>5 DEF Lock, LockNone, LockReload, LockAlloc, LockTag, TypeOK
  <2> QED  BY <1>1, <2>1 DEF HasLock
<1>6. CASE AllocateQueue(p) \/ BuildPool(p) \/ PublishPool(p) \/ TakeQueue(p) \/ WithQueue(p)
  <2>1. /\ word' = word /\ at' = at
        /\ pc'[p] \in {"build", "take", "publish", "locked", "unlock"}
        /\ \A r \in Procs \ {p} : pc'[r] = pc[r]
    BY <1>6, WithQueueFrame DEF AllocateQueue, BuildPool, PublishPool, TakeQueue, TypeOK
  <2> QED  BY <1>1, <2>1 DEF HasLock
<1>7. CASE DeallocateQueue(p)
  <2>1. /\ word' = word /\ at' = at /\ pc[p] = "dealloc"
        /\ \A r \in Procs \ {p} : pc'[r] = pc[r]
    BY <1>7, SMT DEF DeallocateQueue
  <2> QED  BY <1>1, <2>1 DEF HasLock
<1> QED  BY <1>2, <1>3, <1>4, <1>5, <1>6, <1>7 DEF ProcStep

(* What with_queue may do to the contents: only a push adds a node, its own. *)
LEMMA ContentsShrink ==
  ASSUME TypeOK, LockInv, NEW p \in Procs, WithQueue(p)
  PROVE  /\ \A r \in Procs \ {p} : Queued(r)' => Queued(r)
         /\ op[p] # "push" /\ Queued(p)' => Queued(p)
<1> USE DEF TypeOK
<1>1. ptr[p].q \in Queues
  BY WithQueueFrame, WordFacts DEF LockInv, HasQueue
<1> DEFINE s == contents[ptr[p].q]
           t == contents'[ptr[p].q]
<1>2. s \in Seq(Procs)
  BY <1>1
<1>3. \A q \in Queues : q # ptr[p].q => contents'[q] = contents[q]
  BY DEF WithQueue
<1>4. ASSUME NEW r \in Procs, r # p \/ op[p] # "push", Position(t, r) # {} PROVE Position(s, r) # {}
  <2>1. CASE op[p] = "push" /\ t = Append(s, p)
    <3>1. Len(t) = Len(s) + 1 /\ t[Len(s) + 1] = p /\ \A i \in 1 .. Len(s) : t[i] = s[i]
      BY <1>2, <2>1, SMT
    <3>2. PICK i \in 1 .. Len(t) : t[i] = r
      BY <1>4 DEF Position
    <3>3. i \in 1 .. Len(s) /\ s[i] = r
      BY <1>2, <1>4, <2>1, <3>1, <3>2, SMT
    <3> QED  BY <3>3 DEF Position
  <2>2. ASSUME NEW k \in 1 .. Len(s), t = SubSeq(s, k + 1, Len(s))
        PROVE  Position(s, r) # {}
    <3>1. Len(t) = Len(s) - k /\ \A i \in 1 .. Len(t) : t[i] = s[k + i]
      BY <1>2, <2>2, SMT
    <3>2. PICK i \in 1 .. Len(t) : t[i] = r
      BY <1>4 DEF Position
    <3>3. k + i \in 1 .. Len(s) /\ s[k + i] = r
      BY <1>2, <3>1, <3>2, SMT
    <3> QED  BY <3>3 DEF Position
  <2>3. ASSUME NEW k \in 1 .. Len(s), t = Without(s, k)
        PROVE  Position(s, r) # {}
    <3>1. /\ Len(t) = Len(s) - 1
          /\ \A i \in 1 .. Len(t) : t[i] = IF i < k THEN s[i] ELSE s[i + 1]
      <4>1. /\ Len(Without(s, k)) = Len(s) - 1
            /\ \A i \in 1 .. Len(s) - 1 : Without(s, k)[i] = IF i < k THEN s[i] ELSE s[i + 1]
        <5> HIDE DEF s
        <5> QED  BY <1>2, WithoutFacts
      <4> QED  BY <2>3, <4>1
    <3>2. PICK i \in 1 .. Len(t) : t[i] = r
      BY <1>4 DEF Position
    <3>3. \E j \in 1 .. Len(s) : s[j] = r
      BY <1>2, <3>1, <3>2, SMT
    <3> QED  BY <3>3 DEF Position
  <2>4. CASE t = s
    BY <1>4, <2>4
  <2>5. \/ op[p] = "push" /\ t = Append(s, p)
        \/ \E k \in 1 .. Len(s) : t = SubSeq(s, k + 1, Len(s))
        \/ \E k \in Position(s, p) : t = Without(s, k)
        \/ t = s
    BY <1>1 DEF WithQueue, Without
  <2> QED  BY <2>1, <2>2, <2>3, <2>4, <2>5 DEF Position
<1> HIDE DEF s, t
<1>5. ASSUME NEW r \in Procs, r # p \/ op[p] # "push", Queued(r)' PROVE Queued(r)
  <2>1. PICK q \in Queues : Position(contents'[q], r) # {}
    BY <1>5 DEF Queued, Position
  <2>2. CASE q = ptr[p].q
    BY <1>1, <1>4, <1>5, <2>1, <2>2 DEF Queued, s, t
  <2>3. CASE q # ptr[p].q
    BY <1>3, <2>1, <2>3 DEF Queued
  <2> QED  BY <2>2, <2>3
<1> QED  BY <1>5

(* Nobody else pushes the node of a process on its way to do so. *)
LEMMA CallStep ==
  ASSUME TypeOK, LockInv, CallInv, NEW p \in Procs, ProcStep(p)
  PROVE  CallInv'
<1> USE DEF Goto, SetPtr, poolVars
<1>1. CASE WithQueue(p)
  <2>1. pc' = [pc EXCEPT ![p] = "unlock"] /\ op' = op
    BY <1>1, WithQueueFrame
  <2> QED  BY <1>1, <2>1, ContentsShrink DEF CallInv, TypeOK
<1>2. CASE Lock(p)
  <2>1. /\ op'[p] = "push" => ~Queued(p)
        /\ contents' = contents
        /\ \A r \in Procs \ {p} : op'[r] = op[r] /\ pc'[r] = pc[r]
    BY <1>2 DEF Lock, TypeOK
  <2> QED  BY <2>1 DEF CallInv, Queued
<1>3. CASE ~WithQueue(p) /\ ~Lock(p)
  <2>1. op' = op /\ contents' = contents
    BY <1>3 DEF ProcStep, LockNone, LockAlloc, AllocateQueue, BuildPool, PublishPool, TakeQueue,
        LockReload, LockTag, Unlock, DeallocateQueue
  <2>2. /\ \A r \in Procs \ {p} : pc'[r] = pc[r]
        /\ pc'[p] \in {"idle", "dealloc"}
           \/ pc[p] \in {"lock", "alloc", "build", "publish", "take", "locked"}
    BY <1>3 DEF ProcStep, LockNone, LockAlloc, AllocateQueue, BuildPool, PublishPool, TakeQueue,
        LockReload, LockTag, Unlock, DeallocateQueue, TypeOK
  <2> QED  BY <2>1, <2>2 DEF CallInv, Queued
<1> QED  BY <1>1, <1>2, <1>3

(* Steps that move no queue. *)
Quiet ==
    /\ UNCHANGED poolVars
    /\ \A w \in WaitQueues : word'[w].q = word[w].q
    /\ \A r \in Procs :
          /\ HasQueue(r)' <=> HasQueue(r)
          /\ HasQueue(r) => ptr'[r] = ptr[r] /\ at'[r] = at[r] /\ (HasLock(r)' <=> HasLock(r))
          /\ pc'[r] = "publish" <=> pc[r] = "publish"
          /\ pc'[r] = "take" => published \/ pc[r] = "take"

(* Loads of the word, failed compare-exchanges, becoming the allocator and   *)
(* work on the contents are such steps.                                      *)
LEMMA QuietSteps ==
  ASSUME TypeOK, NEW p \in Procs,
         \/ Lock(p) \/ LockNone(p) \/ LockAlloc(p) \/ AllocateQueue(p) \/ LockReload(p)
         \/ WithQueue(p) \/ (LockTag(p) /\ word[at[p]] # ptr[p])
  PROVE  Quiet
<1> USE DEF Goto, SetPtr
<1>1. CASE Lock(p)
  BY <1>1, SMT DEF Lock, HasLock, HasQueue, Quiet
<1>2. CASE LockNone(p)
  <2>1. word' = word /\ at' = at /\ pc[p] = "lock" /\ UNCHANGED poolVars
    BY <1>2 DEF LockNone
  <2>2. \A r \in Procs \ {p} : pc'[r] = pc[r] /\ ptr'[r] = ptr[r]
    BY <1>2 DEF LockNone, TypeOK
  <2>3. pc'[p] \in {"idle", "lock"}
    BY <1>2 DEF LockNone, TypeOK
  <2> QED  BY <2>1, <2>2, <2>3 DEF HasLock, HasQueue, Quiet
<1>3. CASE LockAlloc(p)
  <2>1. at' = at /\ pc[p] = "lock" /\ UNCHANGED poolVars
    BY <1>3 DEF LockAlloc
  <2>2. \A r \in Procs \ {p} : pc'[r] = pc[r] /\ ptr'[r] = ptr[r]
    BY <1>3 DEF LockAlloc, TypeOK
  <2>3. pc'[p] \in {"alloc", "lock"}
    BY <1>3 DEF LockAlloc, TypeOK
  <2>4. \A w \in WaitQueues : word'[w].q = word[w].q
    <3>1. word' = word \/ (word[at[p]] = NULL /\ word' = [word EXCEPT ![at[p]] = UPDATING])
      BY <1>3 DEF LockAlloc
    <3> QED  BY <3>1, WordFields DEF TypeOK
  <2> QED  BY <2>1, <2>2, <2>3, <2>4 DEF HasLock, HasQueue, Quiet
<1>4. CASE AllocateQueue(p)
  BY <1>4, SMT DEF AllocateQueue, HasLock, HasQueue, Quiet
<1>5. CASE LockReload(p)
  BY <1>5, SMT DEF LockReload, HasLock, HasQueue, Quiet
<1>6. CASE WithQueue(p)
  <2>1. /\ word' = word /\ at' = at /\ ptr' = ptr /\ UNCHANGED poolVars
        /\ pc[p] = "locked" /\ pc' = [pc EXCEPT ![p] = "unlock"]
    BY <1>6, WithQueueFrame
  <2> QED  BY <2>1, SMT DEF HasLock, HasQueue, Quiet
<1>7. CASE LockTag(p) /\ word[at[p]] # ptr[p]
  BY <1>7 DEF LockTag, HasLock, HasQueue, Quiet, TypeOK
<1> QED
  BY <1>1, <1>2, <1>3, <1>4, <1>5, <1>6, <1>7

(* They keep every queue where it is. *)
LEMMA QuietKeeps ==
  ASSUME PlaceInv, BuildInv, QueuesAccounted, Quiet
  PROVE  PlaceInv' /\ BuildInv' /\ QueuesAccounted'
<1>1. \A q : InUse(q)' <=> InUse(q)
  BY DEF Quiet, InUse
<1>2. PlaceInv'
  BY <1>1, SMT DEF Quiet, PlaceInv, poolVars
<1>3. BuildInv'
  BY DEF Quiet, BuildInv, poolVars
<1>4. QueuesAccounted'
  BY <1>1 DEF Quiet, QueuesAccounted, poolVars
<1> QED  BY <1>2, <1>3, <1>4

(* The steps that do move a queue. *)
Moving(p) ==
    \/ BuildPool(p) \/ PublishPool(p) \/ TakeQueue(p)
    \/ (LockTag(p) /\ word[at[p]] = ptr[p])
    \/ Unlock(p) \/ DeallocateQueue(p)

(* Each of them takes it from one place to another. *)
LEMMA PlaceStep ==
  ASSUME QueueInv, NEW p \in Procs, Moving(p)
  PROVE  PlaceInv'
<1> USE DEF Goto, SetPtr, poolVars
<1>1. CASE BuildPool(p)
  <2>1. /\ word' = word /\ ptr' = ptr /\ at' = at /\ pool' = pool
        /\ pc[p] = "build" /\ pc' = [pc EXCEPT ![p] = "publish"]
    BY <1>1 DEF BuildPool
  <2>2. \A r \in Procs : (HasQueue(r)' <=> HasQueue(r)) /\ (HasLock(r)' <=> HasLock(r))
    BY <2>1 DEF QueueInv, TypeOK, HasQueue, HasLock
  <2>3. \A q : InUse(q)' <=> InUse(q)
    BY <2>1, <2>2 DEF InUse
  <2>4. \A r \in Procs : \A q \in build'[r] : q \in build[r] \/ (q \in Queues /\ q \notin heap)
    BY <1>1 DEF BuildPool, Fresh, QueueInv, TypeOK
  <2>5. \A r \in Procs : \A q \in build'[r] : ~InUse(q)
    BY <2>4 DEF QueueInv, PlaceInv, QueuesAccounted
  <2> QED  BY <2>1, <2>2, <2>3, <2>5 DEF QueueInv, PlaceInv
<1>2. CASE PublishPool(p)
  <2>1. /\ word' = word /\ ptr' = ptr /\ at' = at
        /\ pc[p] = "publish" /\ pc' = [pc EXCEPT ![p] = "take"]
        /\ build' = [build EXCEPT ![p] = {}] /\ pool' \in {pool, build[p]}
    BY <1>2 DEF PublishPool
  <2>2. \A r \in Procs : (HasQueue(r)' <=> HasQueue(r)) /\ (HasLock(r)' <=> HasLock(r))
    BY <2>1 DEF QueueInv, TypeOK, HasQueue, HasLock
  <2>3. \A q : InUse(q)' <=> InUse(q)
    BY <2>1, <2>2 DEF InUse
  <2>4. \A r \in Procs : \A q \in build'[r] : q \in build[r]
    BY <2>1 DEF QueueInv, TypeOK
  <2> QED  BY <2>1, <2>2, <2>3, <2>4 DEF QueueInv, PlaceInv
<1>3. CASE TakeQueue(p)
  <2>1. PICK u \in Queues : /\ u \in pool \/ u \notin heap
                           /\ pool' = pool \ {u} /\ ptr' = [ptr EXCEPT ![p] = Ptr(u)]
    BY <1>3 DEF TakeQueue, Fresh, QueueInv, TypeOK
  <2>2. /\ word' = word /\ at' = at /\ build' = build
        /\ pc[p] = "take" /\ pc' = [pc EXCEPT ![p] = "locked"]
    BY <1>3 DEF TakeQueue
  <2>3. ~InUse(u) /\ \A r \in Procs : u \notin build[r]
    BY <2>1 DEF QueueInv, PlaceInv, QueuesAccounted
  <2>4. /\ \A r \in Procs : HasQueue(r)' <=> HasQueue(r) \/ r = p
        /\ \A r \in Procs : HasLock(r)' <=> HasLock(r)
        /\ \A r \in Procs \ {p} : ptr'[r] = ptr[r]
        /\ ptr'[p].q = u
    BY <2>1, <2>2, WordFields DEF QueueInv, TypeOK, HasQueue, HasLock
  <2>5. /\ \A r \in Procs \ {p} : HasQueue(r) => ptr[r].q # u
        /\ \A w \in WaitQueues : word[w].q # u
    BY <2>3 DEF InUse
  <2>6. \A q : InUse(q)' => InUse(q) \/ q = u
    BY <2>2, <2>4 DEF InUse
  <2>7. /\ \A q \in pool' : ~InUse(q)'
        /\ \A r \in Procs : \A q \in build'[r] : ~InUse(q)'
    BY <2>1, <2>2, <2>3, <2>6 DEF QueueInv, PlaceInv
  <2> QED  BY <2>2, <2>4, <2>5, <2>7, SMT DEF QueueInv, PlaceInv
<1>4. CASE LockTag(p) /\ word[at[p]] = ptr[p]
  <2>1. ptr[p].st = "queue" /\ ptr[p].q \in Queues /\ pc[p] = "lock"
    BY <1>4, WordFacts DEF LockTag, QueueInv, TypeOK
  <2>2. \A r \in Procs : HasLock(r) => at[r] # at[p]
    BY <1>4, <2>1, NobodyInside DEF QueueInv, TypeOK
  <2>3. \A r \in Procs : HasQueue(r) => ptr[r].q # ptr[p].q
    BY <1>4, <2>1, <2>2, SMT DEF QueueInv, PlaceInv, TypeOK
  <2>4. /\ word' = [word EXCEPT ![at[p]] = Tagged(ptr[p].q)]
        /\ pc' = [pc EXCEPT ![p] = "locked"]
        /\ ptr' = ptr /\ at' = at /\ pool' = pool /\ build' = build
    BY <1>4 DEF LockTag
  <2>5. \A w \in WaitQueues : word'[w].q = word[w].q
    BY <1>4, <2>4, WordFields, SMT DEF QueueInv, TypeOK
  <2>6. /\ \A r \in Procs : HasQueue(r)' <=> HasQueue(r) \/ r = p
        /\ \A r \in Procs : HasLock(r)' <=> HasLock(r) \/ r = p
    BY <2>4 DEF QueueInv, HasLock, HasQueue, TypeOK
  <2>7. \A q : InUse(q)' => InUse(q)
    BY <1>4, <2>4, <2>5, <2>6, SMT DEF QueueInv, InUse, TypeOK
  <2>8. /\ \A q \in pool' : ~InUse(q)'
        /\ \A r \in Procs : \A q \in build'[r] : ~InUse(q)'
    BY <2>4, <2>7 DEF QueueInv, PlaceInv
  <2>9. ASSUME NEW r \in Procs, NEW w \in WaitQueues, HasQueue(r)', word'[w].q = ptr'[r].q
        PROVE  HasLock(r)' /\ at'[r] = w
    <3>1. CASE r = p
      BY <1>4, <2>1, <2>4, <2>5, <2>6, <2>9, <3>1, SMT DEF QueueInv, PlaceInv, TypeOK
    <3>2. CASE r # p
      BY <2>4, <2>5, <2>6, <2>9, <3>2, SMT DEF QueueInv, PlaceInv
    <3> QED  BY <3>1, <3>2
  <2>10. \A r1, r2 \in Procs : HasQueue(r1)' /\ HasQueue(r2)' /\ ptr'[r1].q = ptr'[r2].q => r1 = r2
    BY <2>3, <2>4, <2>6 DEF QueueInv, PlaceInv
  <2> QED  BY <2>5, <2>8, <2>9, <2>10 DEF QueueInv, PlaceInv
<1>5. CASE Unlock(p)
  <2>1. /\ pc[p] = "unlock" /\ ptr' = ptr /\ at' = at /\ pool' = pool /\ build' = build
        /\ \A w \in WaitQueues : w # at[p] => word'[w] = word[w]
    BY <1>5 DEF Unlock, QueueInv, TypeOK
  <2>2. ptr[p].st = "queue" /\ ptr[p].q \in Queues
    BY <2>1, WordFacts DEF QueueInv, HasQueue, LockInv, TypeOK
  <2>3. CASE contents[ptr[p].q] = <<>>
    <3>1. word'[at[p]].q = NoQueue /\ pc' = [pc EXCEPT ![p] = "dealloc"]
      BY <1>5, <2>3, WordFields, SMT DEF Unlock, QueueInv, TypeOK
    <3>2. /\ \A r \in Procs : HasQueue(r)' <=> HasQueue(r)
          /\ \A r \in Procs : HasLock(r)' <=> HasLock(r) /\ r # p
          /\ HasQueue(p)
      BY <2>1, <3>1 DEF QueueInv, HasLock, HasQueue, TypeOK
    <3>3. \A w \in WaitQueues : word'[w].q = word[w].q \/ (w = at[p] /\ word'[w].q = NoQueue)
      BY <2>1, <3>1
    <3>4. \A q \in Queues : q # NoQueue
      BY NamesAssumption
    <3>5. \A r \in Procs : HasQueue(r) => ptr[r].q \in Queues
      BY WordFacts DEF QueueInv, LockInv, TypeOK
    <3>6. \A q \in Queues : InUse(q)' => InUse(q)
      BY <2>1, <3>2, <3>3, <3>4 DEF InUse
    <3>7. /\ \A q \in pool' : ~InUse(q)'
          /\ \A r \in Procs : \A q \in build'[r] : ~InUse(q)'
      BY <2>1, <3>6 DEF QueueInv, PlaceInv, TypeOK
    <3>8. ASSUME NEW r \in Procs, NEW w \in WaitQueues, HasQueue(r)', word'[w].q = ptr'[r].q
          PROVE  HasLock(r)' /\ at'[r] = w
      <4>1. w # at[p] /\ word[w].q = ptr[r].q /\ HasQueue(r)
        BY <2>1, <3>1, <3>2, <3>4, <3>5, <3>8
      <4>2. HasLock(r) /\ at[r] = w
        BY <4>1 DEF QueueInv, PlaceInv
      <4> QED  BY <2>1, <3>2, <4>1, <4>2
    <3>9. \A w1, w2 \in WaitQueues : word'[w1].q = word'[w2].q /\ word'[w1].q \in Queues => w1 = w2
      BY <2>1, <3>3, <3>4 DEF QueueInv, PlaceInv
    <3> QED  BY <2>1, <3>2, <3>7, <3>8, <3>9 DEF QueueInv, PlaceInv
  <2>4. CASE contents[ptr[p].q] # <<>>
    <3>1. word'[at[p]] = ptr[p] /\ pc' = [pc EXCEPT ![p] = "idle"]
      BY <1>5, <2>4 DEF Unlock, QueueInv, TypeOK
    <3>2. /\ \A r \in Procs : HasQueue(r)' <=> HasQueue(r) /\ r # p
          /\ \A r \in Procs : HasLock(r)' <=> HasLock(r) /\ r # p
          /\ HasQueue(p)
      BY <2>1, <3>1 DEF QueueInv, HasLock, HasQueue, TypeOK
    <3>3. \A w \in WaitQueues : w # at[p] => word'[w].q # ptr[p].q
      BY <2>1, <3>2 DEF QueueInv, PlaceInv
    <3>4. \A r \in Procs : HasQueue(r) /\ r # p => ptr[r].q # ptr[p].q
      BY <3>2 DEF QueueInv, PlaceInv
    <3>6. \A q \in Queues : InUse(q)' => InUse(q)
      BY <2>1, <3>1, <3>2 DEF InUse
    <3>7. /\ \A q \in pool' : ~InUse(q)'
          /\ \A r \in Procs : \A q \in build'[r] : ~InUse(q)'
      BY <2>1, <3>6 DEF QueueInv, PlaceInv, TypeOK
    <3>8. ASSUME NEW r \in Procs, NEW w \in WaitQueues, HasQueue(r)', word'[w].q = ptr'[r].q
          PROVE  HasLock(r)' /\ at'[r] = w
      <4>1. r # p /\ HasQueue(r) /\ w # at[p] /\ word[w].q = ptr[r].q
        BY <2>1, <3>1, <3>2, <3>4, <3>8
      <4>2. HasLock(r) /\ at[r] = w
        BY <4>1 DEF QueueInv, PlaceInv
      <4> QED  BY <2>1, <3>2, <4>1, <4>2
    <3>9. \A w1, w2 \in WaitQueues : word'[w1].q = word'[w2].q /\ word'[w1].q \in Queues => w1 = w2
      BY <2>1, <3>1, <3>3 DEF QueueInv, PlaceInv, TypeOK
    <3> QED  BY <2>1, <3>2, <3>7, <3>8, <3>9 DEF QueueInv, PlaceInv
  <2> QED  BY <2>3, <2>4
<1>6. CASE DeallocateQueue(p)
  <2>1. /\ word' = word /\ ptr' = ptr /\ at' = at /\ build' = build /\ pool' = pool \cup {ptr[p].q}
        /\ pc[p] = "dealloc" /\ pc' = [pc EXCEPT ![p] = "idle"]
    BY <1>6 DEF DeallocateQueue
  <2>2. /\ \A r \in Procs : HasQueue(r)' <=> HasQueue(r) /\ r # p
        /\ \A r \in Procs : HasLock(r)' <=> HasLock(r)
        /\ HasQueue(p) /\ ~HasLock(p)
    BY <2>1 DEF QueueInv, TypeOK, HasQueue, HasLock
  <2>3. \A q : InUse(q)' => InUse(q) /\ q # ptr[p].q
    BY <2>1, <2>2 DEF QueueInv, PlaceInv, InUse
  <2> QED  BY <2>1, <2>2, <2>3 DEF QueueInv, PlaceInv
<1> QED
  BY <1>1, <1>2, <1>3, <1>4, <1>5, <1>6 DEF Moving

(* The pool is published once, and no queue is used before. *)
LEMMA BuildStep ==
  ASSUME QueueInv, NEW p \in Procs, Moving(p)
  PROVE  BuildInv'
<1> USE DEF Goto, SetPtr, poolVars
<1>1. CASE BuildPool(p)
  BY <1>1 DEF BuildPool, QueueInv, BuildInv, HasQueue, TypeOK
<1>2. CASE PublishPool(p)
  BY <1>2 DEF PublishPool, QueueInv, BuildInv, TypeOK
<1>3. CASE TakeQueue(p)
  BY <1>3, SMT DEF TakeQueue, QueueInv, BuildInv
<1>4. CASE LockTag(p) /\ word[at[p]] = ptr[p]
  <2>1. ptr[p].q \in Queues /\ word[at[p]].q # NoQueue
    BY <1>4, WordFacts, NamesAssumption, SMT DEF LockTag, QueueInv, TypeOK
  <2>2. published
    BY <2>1 DEF QueueInv, BuildInv, TypeOK
  <2> QED  BY <1>4, <2>2 DEF LockTag, QueueInv, BuildInv, TypeOK
<1>5. CASE Unlock(p)
  BY <1>5 DEF Unlock, QueueInv, BuildInv, HasQueue, TypeOK
<1>6. CASE DeallocateQueue(p)
  BY <1>6, SMT DEF DeallocateQueue, QueueInv, BuildInv, HasQueue
<1> QED
  BY <1>1, <1>2, <1>3, <1>4, <1>5, <1>6 DEF Moving

(* No queue is lost, and none is freed in use. *)
LEMMA AccountStep ==
  ASSUME QueueInv, NEW p \in Procs, Moving(p)
  PROVE  QueuesAccounted'
<1> USE DEF Goto, SetPtr, poolVars
<1>1. CASE BuildPool(p)
  <2>1. \A q : InUse(q)' <=> InUse(q)
    BY <1>1, SMT DEF BuildPool, InUse, HasQueue
  <2>2. PICK qs \in SUBSET Queues : qs \cap heap = {} /\ build' = [build EXCEPT ![p] = qs] /\ heap' = heap \cup qs
    BY <1>1 DEF BuildPool, Fresh
  <2>3. pool' = pool /\ build[p] = {}
    BY <1>1 DEF BuildPool, QueueInv, BuildInv
  <2> QED  BY <2>1, <2>2, <2>3 DEF QueueInv, QueuesAccounted, TypeOK
<1>2. CASE PublishPool(p)
  <2>1. \A q : InUse(q)' <=> InUse(q)
    BY <1>2, SMT DEF PublishPool, InUse, HasQueue
  <2>2. CASE published
    <3>1. build' = [build EXCEPT ![p] = {}] /\ heap' = heap \ build[p] /\ pool' = pool
      BY <1>2, <2>2 DEF PublishPool
    <3> QED  BY <2>1, <3>1, SMT DEF QueueInv, PlaceInv, QueuesAccounted, TypeOK
  <2>3. CASE ~published
    <3>1. build' = [build EXCEPT ![p] = {}] /\ heap' = heap /\ pool' = build[p] /\ pool = {}
      BY <1>2, <2>3 DEF PublishPool, QueueInv, BuildInv
    <3> QED  BY <2>1, <3>1 DEF QueueInv, QueuesAccounted, TypeOK
  <2> QED  BY <2>2, <2>3
<1>3. CASE TakeQueue(p)
  <2>1. PICK q \in Queues : /\ q \in pool \/ (pool = {} /\ q \notin heap)
                           /\ pool' = pool \ {q} /\ heap' = heap \cup {q}
                           /\ ptr' = [ptr EXCEPT ![p] = Ptr(q)]
    BY <1>3 DEF TakeQueue, Fresh, QueueInv, TypeOK
  <2>2. pc[p] = "take" /\ pc' = [pc EXCEPT ![p] = "locked"] /\ word' = word /\ build' = build
    BY <1>3 DEF TakeQueue
  <2>3. \A u : InUse(u)' <=> InUse(u) \/ u = q
    BY <2>1, <2>2, WordFields DEF QueueInv, InUse, HasQueue, TypeOK
  <2> QED  BY <2>1, <2>2, <2>3 DEF QueueInv, QueuesAccounted
<1>4. CASE LockTag(p) /\ word[at[p]] = ptr[p]
  <2>1. /\ word' = [word EXCEPT ![at[p]] = Tagged(ptr[p].q)]
        /\ pc[p] = "lock" /\ pc' = [pc EXCEPT ![p] = "locked"]
        /\ ptr' = ptr /\ UNCHANGED poolVars
    BY <1>4 DEF LockTag
  <2>2. \A w \in WaitQueues : word'[w].q = word[w].q
    BY <1>4, <2>1, WordFields, SMT
  <2>3. \A u : InUse(u)' <=> InUse(u)
    BY <1>4, <2>1, <2>2, SMT DEF QueueInv, InUse, HasQueue, TypeOK
  <2> QED  BY <2>1, <2>3 DEF QueueInv, QueuesAccounted
<1>5. CASE Unlock(p)
  <2>1. /\ pc[p] = "unlock" /\ ptr' = ptr /\ at' = at /\ UNCHANGED poolVars
        /\ \A w \in WaitQueues : w # at[p] => word'[w] = word[w]
        /\ \A r \in Procs \ {p} : pc'[r] = pc[r]
    BY <1>5 DEF Unlock, QueueInv, TypeOK
  <2>2. word[at[p]].q \in {NoQueue, ptr[p].q} /\ HasQueue(p)
    BY <2>1, WordFields, SMT DEF QueueInv, LockInv, HasLock, HasQueue
  <2>3. \/ word'[at[p]].q = NoQueue /\ HasQueue(p)'
        \/ word'[at[p]].q = ptr[p].q /\ ~HasQueue(p)'
    BY <1>5, WordFields, SMT DEF Unlock, QueueInv, HasQueue, TypeOK
  <2>4. \A r \in Procs \ {p} : HasQueue(r)' <=> HasQueue(r)
    BY <2>1 DEF HasQueue
  <2>5. at[p] \in WaitQueues
    BY DEF QueueInv, TypeOK
  <2>6. \A u \in Queues : InUse(u)' <=> InUse(u)
    BY <2>1, <2>2, <2>3, <2>4, <2>5, NamesAssumption, SMT DEF InUse
  <2> QED  BY <2>1, <2>6 DEF QueueInv, QueuesAccounted
<1>6. CASE DeallocateQueue(p)
  <2>1. /\ pc[p] = "dealloc" /\ pc' = [pc EXCEPT ![p] = "idle"] /\ ptr' = ptr /\ word' = word
        /\ pool' = pool \cup {ptr[p].q} /\ heap' = heap /\ build' = build
    BY <1>6 DEF DeallocateQueue
  <2>2. /\ \A r \in Procs : HasQueue(r)' <=> HasQueue(r) /\ r # p
        /\ HasQueue(p) /\ ptr[p].q \in Queues
    BY <2>1, WordFacts DEF QueueInv, LockInv, HasQueue, TypeOK
  <2>3. \A u : InUse(u) <=> InUse(u)' \/ u = ptr[p].q
    BY <2>1, <2>2 DEF InUse
  <2>4. \A r \in Procs : ptr[p].q \notin build[r]
    BY <2>2, SMT DEF QueueInv, PlaceInv, InUse
  <2> QED  BY <2>1, <2>2, <2>3, <2>4 DEF QueueInv, QueuesAccounted
<1> QED
  BY <1>1, <1>2, <1>3, <1>4, <1>5, <1>6 DEF Moving

(* The contents of the queue a process works on, and no other. *)
LEMMA ContentsChange ==
  ASSUME TypeOK, NEW p \in Procs, ProcStep(p)
  PROVE  /\ contents' # contents => WithQueue(p)
         /\ \A q \in Queues : q # ptr[p].q => contents'[q] = contents[q]
<1>1. CASE WithQueue(p)
  BY <1>1 DEF WithQueue, TypeOK
<1>2. CASE ~WithQueue(p)
  BY <1>2 DEF ProcStep, Lock, LockNone, LockAlloc, AllocateQueue, BuildPool, PublishPool,
      TakeQueue, LockReload, LockTag, Unlock, DeallocateQueue
<1> QED  BY <1>1, <1>2

(* Nobody in line drops out of sight. *)
LEMMA ContentsStep ==
  ASSUME QueueInv, NEW p \in Procs, ProcStep(p)
  PROVE  ContentsInv'
<1>1. CASE WithQueue(p)
  <2>1. /\ word' = word /\ ptr' = ptr
        /\ pc[p] = "locked" /\ pc' = [pc EXCEPT ![p] = "unlock"]
    BY <1>1, WithQueueFrame
  <2>2. \A r \in Procs : HasLock(r) /\ HasQueue(r) => (HasLock(r) /\ HasQueue(r))'
    BY <2>1, SMT DEF HasLock, HasQueue
  <2>3. HasLock(p) /\ HasQueue(p)
    BY <2>1 DEF HasLock, HasQueue
  <2>4. \A q \in Queues : q # ptr[p].q => contents'[q] = contents[q]
    BY ContentsChange DEF QueueInv
  <2> QED  BY <2>1, <2>2, <2>3, <2>4 DEF QueueInv, ContentsInv
<1>2. CASE ~WithQueue(p) /\ ~Moving(p)
  <2>1. Quiet
    BY <1>2, QuietSteps DEF QueueInv, ProcStep, Moving
  <2>2. contents' = contents
    BY <1>2, ContentsChange DEF QueueInv
  <2> QED  BY <2>1, <2>2, SMT DEF QueueInv, ContentsInv, Quiet
<1>3. CASE BuildPool(p) \/ PublishPool(p) \/ TakeQueue(p) \/ DeallocateQueue(p)
  <2>1. /\ word' = word /\ contents' = contents
        /\ ~(HasLock(p) /\ HasQueue(p))
        /\ \A r \in Procs \ {p} : pc'[r] = pc[r] /\ ptr'[r] = ptr[r]
    BY <1>3 DEF BuildPool, PublishPool, TakeQueue, DeallocateQueue, Goto, SetPtr, QueueInv, TypeOK,
        HasLock, HasQueue
  <2>2. \A r \in Procs : HasLock(r) /\ HasQueue(r) => (HasLock(r) /\ HasQueue(r))' /\ ptr'[r] = ptr[r]
    BY <2>1 DEF HasLock, HasQueue
  <2> QED  BY <2>1, <2>2 DEF QueueInv, ContentsInv
<1>4. CASE LockTag(p) /\ word[at[p]] = ptr[p]
  <2>1. /\ word' = [word EXCEPT ![at[p]] = Tagged(ptr[p].q)] /\ contents' = contents
        /\ pc[p] = "lock" /\ pc' = [pc EXCEPT ![p] = "locked"] /\ ptr' = ptr
    BY <1>4 DEF LockTag, Goto
  <2>2. \A w \in WaitQueues : word'[w].q = word[w].q
    BY <1>4, <2>1, WordFields, SMT
  <2>3. \A r \in Procs : HasLock(r) /\ HasQueue(r) => (HasLock(r) /\ HasQueue(r))'
    BY <2>1, SMT DEF HasLock, HasQueue
  <2> QED  BY <2>1, <2>2, <2>3, SMT DEF QueueInv, ContentsInv
<1>5. CASE Unlock(p)
  <2>1. /\ pc[p] = "unlock" /\ ptr' = ptr /\ contents' = contents
        /\ \A w \in WaitQueues : w # at[p] => word'[w] = word[w]
        /\ \A r \in Procs \ {p} : pc'[r] = pc[r]
        /\ contents[ptr[p].q] # <<>> => word'[at[p]].q = ptr[p].q
    BY <1>5 DEF Unlock, Goto, QueueInv, TypeOK
  <2>2. word[at[p]].q \in {NoQueue, ptr[p].q} /\ at[p] \in WaitQueues
    BY <2>1, WordFields, SMT DEF QueueInv, TypeOK, LockInv, HasLock
  <2>3. \A r \in Procs \ {p} : (HasLock(r) /\ HasQueue(r))' <=> HasLock(r) /\ HasQueue(r)
    BY <2>1 DEF HasLock, HasQueue
  <2> QED  BY <2>1, <2>2, <2>3, NamesAssumption, SMT DEF QueueInv, ContentsInv
<1> QED  BY <1>1, <1>2, <1>3, <1>4, <1>5 DEF Moving

(* An empty queue is unpublished. *)
LEMMA NonEmptyStep ==
  ASSUME QueueInv, NEW p \in Procs, ProcStep(p)
  PROVE  PublishedNonEmpty'
<1>1. CASE WithQueue(p)
  <2>1. word' = word /\ pc[p] = "locked"
    BY <1>1, WithQueueFrame
  <2>2. \A w \in WaitQueues : word[w].q = ptr[p].q => word[w].st # "queue"
    BY <2>1, WordFields, SMT DEF QueueInv, LockInv, PlaceInv, HasQueue
  <2>3. \A w \in WaitQueues : word[w].st = "queue" => word[w].q \in Queues
    BY WordFacts DEF QueueInv, TypeOK
  <2>4. \A q \in Queues : q # ptr[p].q => contents'[q] = contents[q]
    BY ContentsChange DEF QueueInv
  <2> QED  BY <2>1, <2>2, <2>3, <2>4 DEF QueueInv, PublishedNonEmpty
<1>2. CASE ~WithQueue(p)
  <2>1. contents' = contents
    BY <1>2, ContentsChange DEF QueueInv
  <2>2. \A w \in WaitQueues :
           word'[w] = word[w] \/ word'[w].st # "queue" \/ contents[word'[w].q] # <<>>
    <3>1. CASE Unlock(p)
      BY <3>1, WordFields DEF Unlock, QueueInv, TypeOK
    <3>2. CASE LockAlloc(p) \/ LockTag(p)
      BY <3>2, WordFields DEF LockAlloc, LockTag, QueueInv, TypeOK
    <3>3. CASE ~Unlock(p) /\ ~LockAlloc(p) /\ ~LockTag(p)
      BY <1>2, <3>3 DEF ProcStep, Lock, LockNone, AllocateQueue, BuildPool, PublishPool, TakeQueue,
          LockReload, DeallocateQueue
    <3> QED  BY <3>1, <3>2, <3>3
  <2> QED  BY <2>1, <2>2 DEF QueueInv, PublishedNonEmpty
<1> QED  BY <1>1, <1>2

(* At the start there are no queues at all. *)
LEMMA InitInv == Init => QueueInv
<1> SUFFICES ASSUME Init PROVE QueueInv
  OBVIOUS
<1> USE WordFields, NamesAssumption DEF Init
<1>1. TypeOK
  <2>1. NULL \in Words /\ <<>> \in Seq(Procs)
    BY WordFacts, SMT
  <2> QED  BY <2>1 DEF TypeOK
<1>2. LockInv /\ HeldInv /\ CallInv /\ BuildInv
  BY DEF LockInv, HeldInv, CallInv, BuildInv, HasLock, HasQueue
<1>3. PlaceInv /\ QueuesAccounted
  BY DEF PlaceInv, QueuesAccounted, InUse, HasQueue
<1>4. ContentsInv /\ PublishedNonEmpty
  BY DEF ContentsInv, PublishedNonEmpty
<1> QED  BY <1>1, <1>2, <1>3, <1>4 DEF QueueInv

(* The invariant is inductive. *)
LEMMA InvStep == QueueInv /\ [Next]_vars => QueueInv'
<1> SUFFICES ASSUME QueueInv, [Next]_vars PROVE QueueInv'
  OBVIOUS
<1>1. ASSUME NEW p \in Procs, ProcStep(p) PROVE QueueInv'
  <2>1. TypeOK' /\ LockInv' /\ HeldInv' /\ CallInv' /\ ContentsInv' /\ PublishedNonEmpty'
    BY <1>1, TypeStep, LockStep, HeldStep, CallStep, ContentsStep, NonEmptyStep DEF QueueInv
  <2>2. PlaceInv' /\ BuildInv' /\ QueuesAccounted'
    <3>1. CASE Moving(p)
      BY <3>1, PlaceStep, BuildStep, AccountStep
    <3>2. CASE ~Moving(p)
      <4>1. Quiet
        BY <1>1, <3>2, QuietSteps DEF QueueInv, ProcStep, Moving
      <4> QED  BY <4>1, QuietKeeps DEF QueueInv
    <3> QED  BY <3>1, <3>2
  <2> QED  BY <2>1, <2>2 DEF QueueInv
<1>2. CASE UNCHANGED vars
  <2> USE <1>2 DEF vars, poolVars, QueueInv
  <2>1. \A r : (HasLock(r)' <=> HasLock(r)) /\ (HasQueue(r)' <=> HasQueue(r)) /\ (Queued(r)' <=> Queued(r))
    BY DEF HasLock, HasQueue, Queued
  <2>2. \A q : InUse(q)' <=> InUse(q)
    BY <2>1 DEF InUse
  <2>3. TypeOK' /\ PublishedNonEmpty'
    BY DEF TypeOK, PublishedNonEmpty
  <2>4. LockInv' /\ HeldInv' /\ CallInv'
    BY <2>1 DEF LockInv, HeldInv, CallInv
  <2>5. PlaceInv' /\ BuildInv' /\ ContentsInv'
    BY <2>1, <2>2 DEF PlaceInv, BuildInv, ContentsInv
  <2>6. QueuesAccounted'
    BY <2>2 DEF QueuesAccounted
  <2> QED  BY <2>3, <2>4, <2>5, <2>6
<1> QED  BY <1>1, <1>2 DEF Next, ProcStep

(* Every reachable state of any number of processes and wait queues          *)
(* satisfies the inductive invariant (lock, unlock, init_pool).              *)
THEOREM Invariance == Spec => []QueueInv
<1> QED  BY InitInv, InvStep, PTL DEF Spec

(* Stale copies of recycled addresses never let two processes into one queue, *)
(* and what is in the pool is empty and unreachable (lock, unlock).           *)
THEOREM ExclusiveHolds == Spec => []Exclusive
<1>1. QueueInv => Exclusive
  <2> SUFFICES ASSUME QueueInv PROVE Exclusive
    OBVIOUS
  <2>1. \A q \in pool : contents[q] = <<>> /\ ~InUse(q)
    BY SMT DEF QueueInv, TypeOK, PlaceInv, ContentsInv, InUse
  <2> QED  BY <2>1 DEF QueueInv, LockInv, PlaceInv, Exclusive
<1> QED  BY <1>1, Invariance, PTL

(* However many processes build the pool at once, no queue is lost and none  *)
(* is freed that is pooled or in use (init_pool).                            *)
THEOREM QueuesAccountedHolds == Spec => []QueuesAccounted
<1>1. QueueInv => QueuesAccounted
  BY DEF QueueInv
<1> QED  BY <1>1, Invariance, PTL

(* Who tags a published queue finds somebody in it (unlock).                 *)
THEOREM PublishedNonEmptyHolds == Spec => []PublishedNonEmpty
<1>1. QueueInv => PublishedNonEmpty
  BY DEF QueueInv
<1> QED  BY <1>1, Invariance, PTL

-----------------------------------------------------------------------------
(* Who has the lock is the holder. *)
LEMMA HolderIs ==
  ASSUME LockInv, NEW p \in Procs, HasLock(p)
  PROVE  Holder(at[p]) = p
BY DEF Holder, LockInv

(* If nobody has it there is none. *)
LEMMA HolderNone ==
  ASSUME NEW w \in WaitQueues, \A p \in Procs : HasLock(p) => at[p] # w
  PROVE  Holder(w) = NoProc
BY DEF Holder

(* lock(false) returns None only when nobody has the lock and nobody is in   *)
(* line, in every instance.                                                  *)
THEOREM NoneIsTrueHolds == Spec => NoneIsTrue
<1>1. ASSUME QueueInv, [Next]_vars
      PROVE  [\A p \in Procs : pc[p] = "lock" /\ pc'[p] = "idle" => Abstract(at[p])!NobodyInLine]_vars
  <2> SUFFICES ASSUME Next, NEW p \in Procs, pc[p] = "lock", pc'[p] = "idle"
               PROVE  Abstract(at[p])!NobodyInLine
    BY <1>1
  <2>1. LockNone(p) /\ word[at[p]] = NULL
    BY <1>1 DEF Next, QueueInv, TypeOK, Goto, Lock, LockNone, LockAlloc, AllocateQueue, BuildPool,
        PublishPool, TakeQueue, LockReload, LockTag, WithQueue, Unlock, DeallocateQueue
  <2>2. at[p] \in WaitQueues
    BY <1>1 DEF QueueInv, TypeOK
  <2>3. Holder(at[p]) = NoProc
    BY <1>1, <2>1, <2>2, NobodyInside, HolderNone, WordFields DEF QueueInv
  <2>4. Line(at[p]) = <<>>
    BY <2>1, NamesAssumption, WordFields DEF Line
  <2> QED  BY <2>3, <2>4 DEF Abstract!NobodyInLine
<1> QED  BY <1>1, Invariance, PTL DEF Spec, NoneIsTrue

(* The holder and the line, seen from the processes: the holder's own queue  *)
(* is the line; without a holder it is the published one.                    *)
Faithful ==
    \A w \in WaitQueues :
        /\ \A r \in Procs : HasLock(r) /\ at[r] = w =>
              Holder(w) = r /\ Line(w) = IF HasQueue(r) THEN contents[ptr[r].q] ELSE <<>>
        /\ (\A r \in Procs : HasLock(r) => at[r] # w) =>
              /\ Holder(w) = NoProc
              /\ Line(w) = IF word[w].q \in Queues THEN contents[word[w].q] ELSE <<>>

(* The refinement mapping is that view. *)
LEMMA MappingFaithful == QueueInv => Faithful
<1> SUFFICES ASSUME QueueInv, NEW w \in WaitQueues
             PROVE  /\ \A r \in Procs : HasLock(r) /\ at[r] = w =>
                          Holder(w) = r /\ Line(w) = IF HasQueue(r) THEN contents[ptr[r].q] ELSE <<>>
                    /\ (\A r \in Procs : HasLock(r) => at[r] # w) =>
                          /\ Holder(w) = NoProc
                          /\ Line(w) = IF word[w].q \in Queues THEN contents[word[w].q] ELSE <<>>
  BY DEF Faithful
<1>1. ASSUME NEW r \in Procs, HasLock(r), at[r] = w
      PROVE  Holder(w) = r /\ Line(w) = IF HasQueue(r) THEN contents[ptr[r].q] ELSE <<>>
  <2>1. Holder(w) = r
    BY <1>1, HolderIs DEF QueueInv
  <2>2. CASE HasQueue(r)
    <3>1. ptr[r].q \in Queues /\ word[w] \in {UPDATING, Tagged(ptr[r].q)}
      BY <1>1, <2>2, WordFacts DEF QueueInv, TypeOK, LockInv
    <3> QED  BY <2>1, <2>2, <3>1, NamesAssumption, WordFields, SMT DEF Line
  <2>3. CASE ~HasQueue(r)
    <3>1. word[w] = UPDATING
      BY <1>1, <2>3 DEF QueueInv, LockInv
    <3> QED  BY <2>1, <2>3, <3>1, NamesAssumption, WordFields DEF Line
  <2> QED  BY <2>1, <2>2, <2>3
<1>2. ASSUME \A r \in Procs : HasLock(r) => at[r] # w
      PROVE  /\ Holder(w) = NoProc
             /\ Line(w) = IF word[w].q \in Queues THEN contents[word[w].q] ELSE <<>>
  <2>1. word[w] # UPDATING
    BY <1>2, WordFields DEF QueueInv, HeldInv
  <2> QED  BY <1>2, <2>1, HolderNone DEF Line
<1> QED  BY <1>1, <1>2

(* p has the lock of w. *)
Inside(p, w) == HasLock(p) /\ at[p] = w

(* A wait queue the moving process is not inside of does not change. *)
LEMMA AsideStep ==
  ASSUME QueueInv, Faithful, Faithful', NEW p \in Procs, ProcStep(p), NEW w \in WaitQueues,
         ~Inside(p, w), ~Inside(p, w)'
  PROVE  Holder(w)' = Holder(w) /\ Line(w)' = Line(w)
<1> USE DEF Inside
<1>1. \A r \in Procs \ {p} : pc'[r] = pc[r] /\ at'[r] = at[r] /\ ptr'[r] = ptr[r]
  BY DEF QueueInv, TypeOK, ProcStep, Goto, SetPtr, Lock, LockNone, LockAlloc, AllocateQueue,
      BuildPool, PublishPool, TakeQueue, LockReload, LockTag, WithQueue, Unlock, DeallocateQueue
<1>2. \A r \in Procs \ {p} : (HasLock(r)' <=> HasLock(r)) /\ (HasQueue(r)' <=> HasQueue(r))
  BY <1>1 DEF HasLock, HasQueue
<1>3. word'[w] = word[w]
  <2>1. CASE Unlock(p)
    BY <2>1 DEF Unlock, HasLock, QueueInv, TypeOK
  <2>2. CASE LockAlloc(p) \/ LockTag(p)
    BY <2>2, SMT DEF LockAlloc, LockTag, Goto, HasLock, QueueInv, TypeOK
  <2>3. CASE ~Unlock(p) /\ ~LockAlloc(p) /\ ~LockTag(p)
    BY <2>3 DEF ProcStep, Lock, LockNone, AllocateQueue, BuildPool, PublishPool, TakeQueue,
        LockReload, WithQueue, DeallocateQueue
  <2> QED  BY <2>1, <2>2, <2>3
<1>4. contents' # contents => HasQueue(p) /\ HasLock(p)
  BY ContentsChange DEF QueueInv, WithQueue, HasQueue, HasLock
<1>5. \A q \in Queues : q # ptr[p].q => contents'[q] = contents[q]
  BY ContentsChange DEF QueueInv
<1>6. ASSUME NEW r \in Procs, Inside(r, w) PROVE Holder(w)' = Holder(w) /\ Line(w)' = Line(w)
  <2>1. r # p /\ HasLock(r) /\ at[r] = w /\ HasLock(r)' /\ at'[r] = w /\ ptr'[r] = ptr[r]
    BY <1>1, <1>2, <1>6
  <2>2. HasQueue(r) => contents'[ptr[r].q] = contents[ptr[r].q]
    <3>1. HasQueue(r) => ptr[r].q \in Queues
      BY WordFacts DEF QueueInv, TypeOK, LockInv
    <3>2. HasQueue(r) /\ HasQueue(p) => ptr[r].q # ptr[p].q
      BY <2>1 DEF QueueInv, PlaceInv
    <3> QED  BY <1>4, <1>5, <3>1, <3>2
  <2>3. Holder(w) = r /\ Line(w) = IF HasQueue(r) THEN contents[ptr[r].q] ELSE <<>>
    BY <2>1 DEF Faithful
  <2>4. Holder(w)' = r /\ Line(w)' = IF HasQueue(r)' THEN contents'[ptr'[r].q] ELSE <<>>
    BY <2>1 DEF Faithful
  <2> QED  BY <1>2, <2>1, <2>2, <2>3, <2>4
<1>7. CASE \A r \in Procs : ~Inside(r, w)
  <2>1. \A r \in Procs : HasLock(r)' => at'[r] # w
    BY <1>1, <1>2, <1>7
  <2>2. word[w].q \in Queues => contents'[word[w].q] = contents[word[w].q]
    <3>1. HasQueue(p) => word[w].q # ptr[p].q
      BY DEF QueueInv, PlaceInv
    <3> QED  BY <1>4, <1>5, <3>1
  <2>3. Holder(w) = NoProc /\ Line(w) = IF word[w].q \in Queues THEN contents[word[w].q] ELSE <<>>
    BY <1>7 DEF Faithful
  <2>4. Holder(w)' = NoProc /\ Line(w)' = IF word'[w].q \in Queues THEN contents'[word'[w].q] ELSE <<>>
    BY <2>1 DEF Faithful
  <2> QED  BY <1>3, <2>2, <2>3, <2>4
<1> QED  BY <1>6, <1>7

(* Every step is, for every wait queue, a step of QueueLock or none. *)
LEMMA RefineStep ==
  ASSUME QueueInv, QueueInv', Faithful, Faithful', NEW p \in Procs, ProcStep(p), NEW w \in WaitQueues
  PROVE  [Abstract(w)!QueueNext]_<<Holder(w), Line(w)>>
<1> USE DEF Inside
<1>a. Inside(p, w) => Holder(w) = p /\ Line(w) = IF HasQueue(p) THEN contents[ptr[p].q] ELSE <<>>
  BY DEF Faithful
<1>b. Inside(p, w)' => Holder(w)' = p /\ Line(w)' = IF HasQueue(p)' THEN contents'[ptr'[p].q] ELSE <<>>
  BY DEF Faithful
<1>c. (\A r \in Procs : ~Inside(r, w)) =>
         Holder(w) = NoProc /\ Line(w) = IF word[w].q \in Queues THEN contents[word[w].q] ELSE <<>>
  BY DEF Faithful
<1>1. CASE ~Inside(p, w) /\ ~Inside(p, w)'
  BY <1>1, AsideStep
<1>2. CASE ~Inside(p, w) /\ Inside(p, w)'
  <2>1. \/ LockAlloc(p) /\ word[w] = NULL /\ word' = [word EXCEPT ![w] = UPDATING]
           /\ ~HasQueue(p)' /\ at[p] = w
        \/ LockTag(p) /\ word[w] = ptr[p] /\ HasQueue(p)' /\ at[p] = w /\ ptr'[p] = ptr[p]
    BY <1>2 DEF QueueInv, TypeOK, ProcStep, Goto, SetPtr, HasLock, HasQueue, Lock, LockNone,
        LockAlloc, AllocateQueue, BuildPool, PublishPool, TakeQueue, LockReload, LockTag, WithQueue,
        Unlock, DeallocateQueue
  <2>2. word[w].st \in {"null", "queue"} /\ contents' = contents
    BY <2>1, WordFields DEF LockAlloc, LockTag
  <2>3. \A r \in Procs : ~Inside(r, w)
    BY <2>2, NobodyInside DEF QueueInv
  <2>4. Line(w)' = Line(w)
    <3>1. CASE LockAlloc(p) /\ word[w] = NULL /\ ~HasQueue(p)'
      BY <1>2, <1>b, <1>c, <2>3, <3>1, WordFields, NamesAssumption
    <3>2. CASE LockTag(p) /\ word[w] = ptr[p] /\ HasQueue(p)' /\ ptr'[p] = ptr[p]
      <4>1. ptr[p].q \in Queues
        BY <3>2, WordFacts DEF LockTag, QueueInv, TypeOK
      <4> QED  BY <1>2, <1>b, <1>c, <2>2, <2>3, <3>2, <4>1
    <3> QED  BY <2>1, <3>1, <3>2
  <2>5. Abstract(w)!LockQueue(p)
    BY <1>2, <1>b, <1>c, <2>3, <2>4 DEF Abstract!LockQueue
  <2> QED  BY <2>5 DEF Abstract!QueueNext
<1>3. CASE Inside(p, w) /\ ~Inside(p, w)'
  <2>1. Unlock(p)
    BY <1>3 DEF QueueInv, TypeOK, ProcStep, Goto, HasLock, Lock, LockNone, LockAlloc,
        AllocateQueue, BuildPool, PublishPool, TakeQueue, LockReload, LockTag, WithQueue,
        DeallocateQueue
  <2>2. /\ pc[p] = "unlock" /\ at' = at /\ contents' = contents /\ HasQueue(p)
        /\ \A r \in Procs \ {p} : pc'[r] = pc[r]
    BY <2>1 DEF Unlock, Goto, QueueInv, TypeOK, HasQueue
  <2>3. \A r \in Procs : ~Inside(r, w)'
    <3>1. \A r \in Procs \ {p} : ~Inside(r, w)
      BY <1>3 DEF QueueInv, LockInv
    <3> QED  BY <1>3, <2>2, <3>1 DEF HasLock
  <2>4. Holder(w)' = NoProc /\ Line(w)' = IF word'[w].q \in Queues THEN contents'[word'[w].q] ELSE <<>>
    BY <2>3 DEF Faithful
  <2>5. ptr[p].q \in Queues
    BY <2>2, WordFacts DEF QueueInv, TypeOK, LockInv
  <2>6. \/ contents[ptr[p].q] = <<>> /\ word'[w].q = NoQueue
        \/ word'[w].q = ptr[p].q
    BY <1>3, <2>1, WordFields DEF Unlock, QueueInv, TypeOK
  <2>7. Line(w)' = Line(w)
    BY <1>3, <1>a, <2>2, <2>4, <2>5, <2>6, NamesAssumption
  <2>8. Abstract(w)!UnlockQueue(p)
    BY <1>3, <1>a, <2>4, <2>7 DEF Abstract!UnlockQueue
  <2> QED  BY <2>8 DEF Abstract!QueueNext
<1>4. CASE Inside(p, w) /\ Inside(p, w)' /\ ~WithQueue(p)
  <2>1. AllocateQueue(p) \/ BuildPool(p) \/ PublishPool(p) \/ TakeQueue(p)
    BY <1>4 DEF QueueInv, TypeOK, ProcStep, Goto, HasLock, Lock, LockNone, LockAlloc,
        LockReload, LockTag, Unlock, DeallocateQueue
  <2>2. CASE ~TakeQueue(p)
    <3>1. ~HasQueue(p) /\ ~HasQueue(p)'
      BY <2>1, <2>2 DEF AllocateQueue, BuildPool, PublishPool, Goto, HasQueue, QueueInv, TypeOK
    <3> QED  BY <1>4, <1>a, <1>b, <3>1
  <2>3. CASE TakeQueue(p)
    <3>1. PICK q \in Queues : (q \in pool \/ q \notin heap) /\ ptr' = [ptr EXCEPT ![p] = Ptr(q)]
      BY <2>3 DEF TakeQueue, Fresh, SetPtr, QueueInv, TypeOK
    <3>2. ptr'[p].q = q /\ contents' = contents /\ ~HasQueue(p)
      BY <2>3, <3>1, WordFields DEF TakeQueue, QueueInv, TypeOK, HasQueue
    <3>3. ~InUse(q)
      BY <3>1 DEF QueueInv, PlaceInv, QueuesAccounted
    <3>4. contents[q] = <<>>
      BY <3>3 DEF QueueInv, ContentsInv, InUse
    <3> QED  BY <1>4, <1>a, <1>b, <3>2, <3>4, SMT
  <2> QED  BY <2>2, <2>3
<1>5. CASE Inside(p, w) /\ Inside(p, w)' /\ WithQueue(p)
  <2>1. ptr' = ptr /\ HasQueue(p) /\ HasQueue(p)'
    BY <1>5 DEF WithQueue, Goto, HasQueue, QueueInv, TypeOK
  <2>2. ptr[p].q \in Queues /\ contents[ptr[p].q] \in Seq(Procs)
    BY <2>1, WordFacts DEF QueueInv, TypeOK, LockInv
  <2>3. Holder(w) = p /\ Holder(w)' = p /\ Line(w) = contents[ptr[p].q] /\ Line(w)' = contents'[ptr[p].q]
    BY <1>5, <1>a, <1>b, <2>1
  <2>4. Line(w) \in Seq(Procs)
    BY <2>2, <2>3
  <2>5. \/ op[p] = "push" /\ Line(w)' = Append(Line(w), p)
        \/ \E k \in 1 .. Len(Line(w)) : Line(w)' = SubSeq(Line(w), k + 1, Len(Line(w)))
        \/ \E k \in Position(Line(w), p) :
              Line(w)' = SubSeq(Line(w), 1, k - 1) \o SubSeq(Line(w), k + 1, Len(Line(w)))
        \/ Line(w)' = Line(w)
    <3> DEFINE c == contents[ptr[p].q]
               d == contents'[ptr[p].q]
    <3>1. DOMAIN contents = Queues
      BY DEF QueueInv, TypeOK
    <3>2. ASSUME NEW v, contents' = [contents EXCEPT ![ptr[p].q] = v] PROVE d = v
      BY <2>2, <3>1, <3>2
    <3>3. \/ op[p] = "push" /\ d = Append(c, p)
          \/ \E k \in 1 .. Len(c) : d = SubSeq(c, k + 1, Len(c))
          \/ \E k \in Position(c, p) : d = SubSeq(c, 1, k - 1) \o SubSeq(c, k + 1, Len(c))
          \/ d = c
      <4>1. CASE op[p] = "push" /\ contents' = [contents EXCEPT ![ptr[p].q] = Append(c, p)]
        BY <3>2, <4>1
      <4>2. CASE \E k \in 1 .. Len(c) :
                    contents' = [contents EXCEPT ![ptr[p].q] = SubSeq(c, k + 1, Len(c))]
        <5>1. PICK k \in 1 .. Len(c) :
                    contents' = [contents EXCEPT ![ptr[p].q] = SubSeq(c, k + 1, Len(c))]
          BY <4>2
        <5>2. d = SubSeq(c, k + 1, Len(c))
          BY <3>2, <5>1
        <5> QED  BY <5>2
      <4>3. CASE \E k \in Position(c, p) :
                    contents' = [contents EXCEPT ![ptr[p].q] =
                                    SubSeq(c, 1, k - 1) \o SubSeq(c, k + 1, Len(c))]
        <5>1. PICK k \in Position(c, p) :
                    contents' = [contents EXCEPT ![ptr[p].q] =
                                    SubSeq(c, 1, k - 1) \o SubSeq(c, k + 1, Len(c))]
          BY <4>3
        <5>2. d = SubSeq(c, 1, k - 1) \o SubSeq(c, k + 1, Len(c))
          BY <3>2, <5>1
        <5> QED  BY <5>2
      <4>4. CASE contents' = contents
        BY <4>4
      <4> QED  BY <1>5, <4>1, <4>2, <4>3, <4>4 DEF WithQueue
    <3> QED  BY <2>3, <3>3
  <2>6. Abstract(w)!Position(p) = Position(Line(w), p)
    BY DEF Abstract!Position, Position
  <2>7. CASE op[p] = "push" /\ Line(w)' = Append(Line(w), p)
    <3>1. Position(Line(w), p) = {}
      BY <1>5, <2>2, <2>3, <2>7 DEF QueueInv, CallInv, Queued, WithQueue
    <3>2. Abstract(w)!PushNode(p, p)
      BY <2>3, <2>7 DEF Abstract!PushNode
    <3> QED  BY <2>3, <2>6, <3>1, <3>2 DEF Abstract!QueueNext
  <2>8. ASSUME NEW k \in 1 .. Len(Line(w)), Line(w)' = SubSeq(Line(w), k + 1, Len(Line(w)))
        PROVE  Abstract(w)!QueueNext
    <3>1. Abstract(w)!PopNodes(p, k)
      BY <2>3, <2>8 DEF Abstract!PopNodes
    <3> QED  BY <2>3, <2>8, <3>1 DEF Abstract!QueueNext
  <2>9. CASE \E k \in Position(Line(w), p) :
                Line(w)' = SubSeq(Line(w), 1, k - 1) \o SubSeq(Line(w), k + 1, Len(Line(w)))
    <3>1. Abstract(w)!RemoveNode(p, p)
      BY <2>3, <2>6, <2>9 DEF Abstract!RemoveNode
    <3> QED  BY <2>3, <3>1 DEF Abstract!QueueNext
  <2>10. CASE Line(w)' = Line(w)
    BY <2>3, <2>10
  <2> QED  BY <2>5, <2>7, <2>8, <2>9, <2>10
<1> QED  BY <1>1, <1>2, <1>3, <1>4, <1>5

(* Each wait queue, any number of them sharing one pool, is one lock over    *)
(* one FIFO line to its callers, whatever CASes fail and whichever addresses *)
(* come back (WaitQueue::lock, LockedQueue::unlock).                         *)
THEOREM ImplementsQueueLockHolds == Spec => ImplementsQueueLock
<1>1. Init => \A w \in WaitQueues : Abstract(w)!QueueInit
  <2> SUFFICES ASSUME Init, NEW w \in WaitQueues PROVE Abstract(w)!QueueInit
    OBVIOUS
  <2>1. \A p \in Procs : ~HasLock(p)
    BY DEF Init, HasLock
  <2>2. Holder(w) = NoProc
    BY <2>1 DEF Holder
  <2>3. word[w] = NULL
    BY DEF Init
  <2>4. Line(w) = <<>>
    BY <2>3, WordFields, NamesAssumption DEF Line
  <2> QED  BY <2>2, <2>4 DEF Abstract!QueueInit
<1>2. QueueInv /\ QueueInv' /\ Faithful /\ Faithful' /\ [Next]_vars =>
         [\A w \in WaitQueues : [Abstract(w)!QueueNext]_<<Holder(w), Line(w)>>]_vars
  <2> SUFFICES ASSUME QueueInv, QueueInv', Faithful, Faithful', Next
               PROVE  \A w \in WaitQueues : [Abstract(w)!QueueNext]_<<Holder(w), Line(w)>>
    OBVIOUS
  <2>1. PICK p \in Procs : ProcStep(p)
    BY DEF Next, ProcStep
  <2> QED  BY <2>1, RefineStep
<1>3. Spec => []Faithful
  BY Invariance, MappingFaithful, PTL
<1> QED  BY <1>1, <1>2, <1>3, Invariance, PTL DEF Spec, ImplementsQueueLock

-----------------------------------------------------------------------------
(* The waker slot of one queued future, for any set of wakers: register and  *)
(* take exclude each other, and the waker the signaler took is woken.        *)

(* What the second property needs to be inductive: the value is stored      *)
(* before the wake, and after the wake only a poll that finds the value     *)
(* takes the wake-up back.                                                  *)
WakerInv ==
    /\ updating \in BOOLEAN
    /\ SlotExclusive
    /\ value = "signaled" <=> signaler \in {"wake", "done"}
    /\ signaler = "done" /\ task # "ready" => taken \in woken

(* Initially nobody is near the slot. *)
LEMMA WakerInit == SlotInit => WakerInv
BY DEF SlotInit, WakerInv, SlotExclusive

(* Every step of the task and of the signaler keeps the invariant. *)
LEMMA WakerStep == WakerInv /\ [SlotNext]_slotVars => WakerInv'
<1> SUFFICES ASSUME WakerInv, [SlotNext]_slotVars PROVE WakerInv'
  OBVIOUS
<1> USE DEF WakerInv, SlotExclusive, taskVars, signalerVars
<1>1. ASSUME NEW w \in Wakers, Poll(w) PROVE WakerInv'
  BY <1>1 DEF Poll
<1>2. CASE Register
  BY <1>2 DEF Register
<1>3. CASE StoreAsync
  BY <1>3 DEF StoreAsync
<1>4. CASE Registered
  BY <1>4 DEF Registered
<1>5. CASE Reload
  BY <1>5 DEF Reload
<1>6. CASE Take
  BY <1>6 DEF Take
<1>7. CASE Replace
  BY <1>7 DEF Replace
<1>8. CASE Taken
  BY <1>8 DEF Taken
<1>9. CASE Publish
  BY <1>9 DEF Publish
<1>10. CASE Wake
  BY <1>10 DEF Wake
<1>11. CASE UNCHANGED slotVars
  BY <1>11 DEF slotVars
<1> QED
  BY <1>1, <1>2, <1>3, <1>4, <1>5, <1>6, <1>7, <1>8, <1>9, <1>10, <1>11 DEF SlotNext

(* DynamicWaker's spin lock keeps register and take out of each other's way, *)
(* whatever wakers the executor uses.                                        *)
THEOREM SlotExclusiveHolds == SlotSpec => []SlotExclusive
<1>1. WakerInv => SlotExclusive
  BY DEF WakerInv
<1> QED  BY <1>1, WakerInit, WakerStep, PTL DEF SlotSpec

(* signal_node's order (take, store, wake) leaves no pending future asleep   *)
(* whose latest waker was the one taken.                                     *)
THEOREM TakenWakerWokenHolds == SlotSpec => []TakenWakerWoken
<1>1. WakerInv => TakenWakerWoken
  BY DEF WakerInv, TakenWakerWoken
<1> QED  BY <1>1, WakerInit, WakerStep, PTL DEF SlotSpec
=============================================================================
