----------------------------- MODULE MutexProofs -----------------------------
(***************************************************************************)
(* Safety of the mutex for any number of threads, tasks and queues: the    *)
(* invariant IInv of module Mutex is inductive.  First its types and the   *)
(* ownership of queues: every step preserves TypeOK, TagInv and PoolInv,   *)
(* and moves only its own process; steps that let nobody into a queue are  *)
(* discharged by the frame lemmas, the others by showing that no other     *)
(* process is inside.  Then the line of waiters, the handoff of the lock   *)
(* to one of them, and the theorems.  On top of it SleepInv, who has to    *)
(* wake whom, and the refinement of FifoLock: the mutex is a lock whose    *)
(* waiters are served in the order of the line.                            *)
(***************************************************************************)
EXTENDS MutexRefinement, TLAPS

(* Zenon is tried on every leaf that names no other prover. *)
USE Zenon

(* The disjuncts of Next, for one process. *)
ProcStep(p) ==
    \/ Lock(p) \/ PollFirst(p) \/ ParkReturn(p) \/ Poll(p) \/ DropRequest(p)
    \/ Acquiring(p) \/ Waiting(p) \/ Leaving(p) \/ Releasing(p)

(* What membership in Words says. *)
LEMMA WordFacts ==
  /\ \A w \in Words : w.st = "queue" => w.q \in Queues /\ w = Ptr(w.q)
  /\ \A w \in Words : w.st \in {"unlocked", "locked", "updating", "queue", "tagged"}
  /\ \A w \in Words : w.q \in Queues \cup {NoQueue}
  /\ \A w \in Words : w.st = "unlocked" => w = UNLOCKED
  /\ \A q \in Queues : Ptr(q) \in Words /\ Tagged(q) \in Words
  /\ UNLOCKED \in Words /\ LOCKED \in Words /\ UPDATING \in Words
<1> USE DEF Ptr, Tagged, UNLOCKED, LOCKED, UPDATING
<1>1. ASSUME NEW w \in Words
      PROVE  /\ w.st = "queue" => w.q \in Queues /\ w = Ptr(w.q)
             /\ w.st \in {"unlocked", "locked", "updating", "queue", "tagged"}
             /\ w.q \in Queues \cup {NoQueue}
             /\ w.st = "unlocked" => w = UNLOCKED
  <2>1. CASE w \in {UNLOCKED, LOCKED, UPDATING}
    BY <2>1, SMT
  <2>2. CASE w \in {Ptr(q) : q \in Queues}
    BY <2>2, SMT
  <2>3. CASE w \in {Tagged(q) : q \in Queues}
    BY <2>3, SMT
  <2> QED  BY <2>1, <2>2, <2>3 DEF Words
<1> QED  BY <1>1 DEF Words

(* The sentinels and the queue words differ. *)
LEMMA WordDistinct ==
  /\ LOCKED # UNLOCKED /\ UPDATING # UNLOCKED /\ UPDATING # LOCKED
  /\ \A q : Ptr(q) # UNLOCKED /\ Tagged(q) # UNLOCKED
  /\ \A w : IsQueue(w) => w # UNLOCKED
  BY SMT DEF LOCKED, UNLOCKED, UPDATING, Ptr, Tagged, IsQueue

(* Removing the i-th node shifts the later ones by one. *)
LEMMA RemoveNodeFacts ==
  ASSUME NEW S, NEW s \in Seq(S), NEW i \in 1 .. Len(s)
  PROVE  /\ RemoveNode(s, i) \in Seq(S)
         /\ Len(RemoveNode(s, i)) = Len(s) - 1
         /\ \A j \in 1 .. Len(s) - 1 :
              RemoveNode(s, i)[j] = IF j < i THEN s[j] ELSE s[j + 1]
BY SMT DEF RemoveNode

(* Types are preserved; a queue is touched only through a queue pointer. *)
LEMMA TypeStep ==
  ASSUME TypeOK, TagInv, NEW p \in Procs, ProcStep(p)
  PROVE  TypeOK'
<1> USE DEF Goto, IsQueue, TypeOK, TagInv, TagHeld, Signals, PCs
<1>1. CASE ParkReturn(p) \/ Poll(p) \/ DropRequest(p)
  BY <1>1 DEF ParkReturn, Poll, DropRequest
<1>2. CASE Lock(p)
  <2>1. word' \in Words
    BY <1>2, WordFacts DEF Lock
  <2> QED  BY <1>2, <2>1 DEF Lock
<1>3. CASE PollFirst(p)
  <2>1. word' \in Words /\ ptr' \in [Procs -> Words]
    BY <1>3, WordFacts, SMT DEF PollFirst
  <2> QED  BY <1>3, <2>1 DEF PollFirst
<1>4. CASE RetryLock(p)
  <2>1. word' \in Words /\ ptr' \in [Procs -> Words]
    BY <1>4, WordFacts DEF RetryLock
  <2> QED  BY <1>4, <2>1 DEF RetryLock
<1>5. CASE Branch(p)
  <2>1. word' \in Words /\ ptr' \in [Procs -> Words]
    BY <1>5, WordFacts, SMT DEF Branch
  <2> QED  BY <1>5, <2>1 DEF Branch
<1>6. CASE AllocateQueue(p)
  <2>1. word' \in Words /\ ptr' \in [Procs -> Words]
    BY <1>6, WordFacts, SMT DEF AllocateQueue
  <2> QED  BY <1>6, <2>1 DEF AllocateQueue
<1>7. CASE Push(p)
  <2>1. ptr[p].q \in Queues
    BY <1>7, WordFacts DEF Push
  <2> QED  BY <1>7, <2>1, SMT DEF Push
<1>8. CASE Publish(p)
  <2>1. word' \in Words
    BY <1>8, WordFacts DEF Publish
  <2> QED  BY <1>8, <2>1 DEF Publish
<1>9. CASE Spin(p) \/ Swap(p) \/ CheckSignal(p) \/ Rearm(p) \/ Reload(p)
  BY <1>9 DEF Spin, Swap, CheckSignal, Rearm, Reload
<1>10. CASE Leave(p)
  <2>1. ptr' \in [Procs -> Words]
    BY <1>10, WordFacts DEF Leave
  <2> QED  BY <1>10, <2>1 DEF Leave
<1>11. CASE LeaveTag(p)
  <2>1. word' \in Words
    BY <1>11, WordFacts, SMT DEF LeaveTag
  <2> QED  BY <1>11, <2>1 DEF LeaveTag
<1>12. CASE Remove(p)
  <2>1. ptr[p].q \in Queues
    BY <1>12, WordFacts DEF Remove
  <2>2. \A i \in 1 .. Len(contents[ptr[p].q]) :
           RemoveNode(contents[ptr[p].q], i) \in Seq(Procs)
    BY <2>1, RemoveNodeFacts
  <2> QED  BY <1>12, <2>2 DEF Remove
<1>13. CASE LeaveUntag(p)  BY <1>13 DEF LeaveUntag
<1>14. CASE AwaitSignal(p)  BY <1>14 DEF AwaitSignal
<1>15. CASE Unlock(p)
  <2>1. word' \in Words
    BY <1>15, WordFacts DEF Unlock
  <2> QED  BY <1>15, <2>1 DEF Unlock
<1>16. CASE UnlockTag(p)
  <2>1. word' \in Words /\ ptr' \in [Procs -> Words]
    BY <1>16, WordFacts, SMT DEF UnlockTag
  <2> QED  BY <1>16, <2>1 DEF UnlockTag
<1>17. CASE Pop(p)
  <2>1. ptr[p].q \in Queues
    BY <1>17, WordFacts DEF Pop
  <2>2. CASE contents[ptr[p].q] = <<>>
    BY <1>17, <2>2 DEF Pop
  <2>3. CASE contents[ptr[p].q] # <<>>
    <3>1. /\ Head(contents[ptr[p].q]) \in Procs
          /\ Tail(contents[ptr[p].q]) \in Seq(Procs)
      BY <2>1, <2>3, SMT
    <3>2. contents' \in [Queues -> Seq(Procs)]
      BY <1>17, <2>3, <3>1 DEF Pop
    <3>3. node' \in [Procs -> Procs \cup {NoProc}]
      BY <1>17, <2>3, <3>1 DEF Pop
    <3> QED  BY <1>17, <2>3, <3>2, <3>3 DEF Pop
  <2> QED  BY <2>2, <2>3
<1>18. CASE Untag(p)  BY <1>18 DEF Untag
<1>19. CASE TakeWaker(p)  BY <1>19 DEF TakeWaker
<1>20. CASE StoreSignal(p)  BY <1>20 DEF StoreSignal
<1>21. CASE Wake(p)  BY <1>21 DEF Wake
<1>22. CASE Release(p)
  <2>1. word' \in Words
    BY <1>22, WordFacts DEF Release
  <2> QED  BY <1>22, <2>1 DEF Release
<1>23. CASE DeallocateQueue(p)
  <2>1. ptr[p].q \in Queues
    BY <1>23, WordFacts DEF DeallocateQueue
  <2> QED  BY <1>23, <2>1 DEF DeallocateQueue
<1> QED  BY <1>1, <1>2, <1>3, <1>4, <1>5, <1>6, <1>7, <1>8, <1>9, <1>10, <1>11,
            <1>12, <1>13, <1>14, <1>15, <1>16, <1>17, <1>18, <1>19,
            <1>20, <1>21, <1>22, <1>23
          DEF ProcStep, Acquiring, Waiting, Leaving, Releasing

(* A step moves only its own process. *)
LEMMA OnlyOwnPC ==
  ASSUME TypeOK, NEW p \in Procs, ProcStep(p)
  PROVE  \A r \in Procs \ {p} : pc'[r] = pc[r]
<1> USE DEF Goto, TypeOK
<1>1. CASE Lock(p) \/ PollFirst(p) \/ ParkReturn(p) \/ Poll(p) \/ DropRequest(p)
  BY <1>1 DEF Lock, PollFirst, ParkReturn, Poll, DropRequest
<1>2. CASE Acquiring(p)
  BY <1>2 DEF Acquiring, RetryLock, Branch, AllocateQueue, Push, Publish
<1>3. CASE Waiting(p)
  BY <1>3 DEF Waiting, Spin, Swap, CheckSignal, Rearm, Reload
<1>4. CASE Leaving(p)
  BY <1>4 DEF Leaving, Leave, LeaveTag, Remove, LeaveUntag, AwaitSignal
<1>5. CASE Releasing(p)
  BY <1>5 DEF Releasing, Unlock, UnlockTag, Pop, Untag, TakeWaker, StoreSignal,
      Wake, Release, DeallocateQueue
<1> QED  BY <1>1, <1>2, <1>3, <1>4, <1>5 DEF ProcStep

-----------------------------------------------------------------------------
(* Queue ownership.                                                        *)

(* While the word is not in a transient state nobody has the queue. *)
LEMMA NobodyInside ==
  ASSUME TagInv, word.st \notin {"updating", "tagged"}
  PROVE  \A r \in Procs : ~HasQueue(r)
  BY SMT DEF TagInv, TagHeld, HasQueue, UPDATING, Tagged

(* A step that lets nobody in keeps the invariant. *)
LEMMA TagFrame ==
  ASSUME TagInv,
         word' = word \/ word.st \notin {"updating", "tagged"},
         \A r \in Procs : HasQueue(r)' => HasQueue(r) /\ pc'[r] = pc[r] /\ ptr'[r] = ptr[r],
         \A r \in Procs : pc'[r] \in {"leaveTag", "dealloc"} => IsQueue(ptr'[r])
  PROVE  TagInv'
<1>1. \A r \in Procs : HasQueue(r)' => word' = word
  BY NobodyInside
<1>2. ASSUME NEW r \in Procs PROVE TagHeld(r)'
  <2>1. CASE HasQueue(r)'
    <3>1. word' = word /\ pc'[r] = pc[r] /\ ptr'[r] = ptr[r] /\ TagHeld(r)
      BY <1>1, <2>1 DEF TagInv
    <3> QED  BY <3>1 DEF TagHeld
  <2>2. CASE ~HasQueue(r)'
    BY <2>2 DEF TagHeld, HasQueue, IsQueue
  <2> QED  BY <2>1, <2>2
<1> QED  BY <1>2 DEF TagInv

(* A step of a process when no other has the queue keeps the invariant if  *)
(* the process itself ends in order.                                       *)
LEMMA TagOwn ==
  ASSUME TagInv, NEW p \in Procs, TagHeld(p)',
         \A r \in Procs \ {p} : ~HasQueue(r) /\ pc'[r] = pc[r] /\ ptr'[r] = ptr[r]
  PROVE  TagInv'
<1>1. \A r \in Procs \ {p} : ~HasQueue(r)'
  BY DEF HasQueue
<1>2. ASSUME NEW r \in Procs \ {p} PROVE TagHeld(r)'
  <2>1. pc'[r] = pc[r] /\ ptr'[r] = ptr[r] /\ TagHeld(r) /\ ~HasQueue(r)
    BY DEF TagInv
  <2> QED  BY <2>1 DEF TagHeld, HasQueue, IsQueue
<1> QED  BY <1>1, <1>2 DEF TagInv

(* The tag and UPDATING keep everybody else away from the queue. *)
LEMMA TagStep ==
  ASSUME TypeOK, TagInv, NEW p \in Procs, ProcStep(p)
  PROVE  TagInv'
<1>a. \A r \in Procs \ {p} : pc'[r] = pc[r]
  BY OnlyOwnPC
<1>b. HasQueue(p) => \A r \in Procs \ {p} : ~HasQueue(r)
  BY DEF TagInv
<1>c. TagHeld(p) /\ \A r \in Procs : pc[r] \in {"leaveTag", "dealloc"} => IsQueue(ptr[r])
  BY DEF TagInv, TagHeld
<1> DEFINE Nobody == \A r \in Procs : ~HasQueue(r)
           Outside == /\ ~HasQueue(p)' /\ \A r \in Procs \ {p} : ptr'[r] = ptr[r]
                      /\ pc'[p] \in {"leaveTag", "dealloc"} => IsQueue(ptr'[p])
           Inside == TagHeld(p)' /\ \A r \in Procs \ {p} : ptr'[r] = ptr[r]
<1>d. Outside /\ (word' = word \/ word.st \notin {"updating", "tagged"}) => TagInv'
  <2> SUFFICES ASSUME Outside, word' = word \/ word.st \notin {"updating", "tagged"}
               PROVE  TagInv'
    OBVIOUS
  <2>1. \A r \in Procs : HasQueue(r)' => HasQueue(r) /\ pc'[r] = pc[r] /\ ptr'[r] = ptr[r]
    BY <1>a DEF HasQueue
  <2>2. \A r \in Procs : pc'[r] \in {"leaveTag", "dealloc"} => IsQueue(ptr'[r])
    BY <1>a, <1>c
  <2> QED  BY <2>1, <2>2, TagFrame
<1>e. Inside /\ (HasQueue(p) \/ Nobody) => TagInv'
  BY <1>a, <1>b, TagOwn
<1>1. CASE Lock(p) \/ PollFirst(p) \/ RetryLock(p) \/ ParkReturn(p) \/ Poll(p) \/ DropRequest(p)
  <2>1. Outside /\ (word' = word \/ word = UNLOCKED)
    BY <1>1 DEF Lock, PollFirst, RetryLock, ParkReturn, Poll, DropRequest, Goto, TypeOK, HasQueue
  <2> QED  BY <1>d, <2>1, SMT DEF UNLOCKED
<1>2. CASE Branch(p)
  <2>1. CASE pc'[p] = "alloc"
    <3>1. Inside /\ word = LOCKED
      BY <1>2, <2>1 DEF Branch, Goto, TypeOK, TagHeld
    <3>2. Nobody
      BY <3>1, NobodyInside DEF LOCKED
    <3> HIDE DEF Inside, Nobody
    <3> QED  BY <1>e, <3>1, <3>2
  <2>2. CASE pc'[p] = "push"
    <3>1. Inside /\ IsQueue(word)
      BY <1>2, <2>2 DEF Branch, Goto, TypeOK, TagHeld
    <3>2. Nobody
      BY <3>1, NobodyInside DEF IsQueue
    <3> HIDE DEF Inside, Nobody
    <3> QED  BY <1>e, <3>1, <3>2
  <2>3. CASE pc'[p] = "lock"
    <3>1. Outside /\ word' = word
      BY <1>2, <2>3 DEF Branch, Goto, TypeOK, HasQueue
    <3> QED  BY <1>d, <3>1
  <2> QED  BY <1>2, <2>1, <2>2, <2>3 DEF Branch, Goto, TypeOK
<1>3. CASE AllocateQueue(p)
  <2>1. HasQueue(p)
    BY <1>3 DEF AllocateQueue, HasQueue
  <2>2. pc[p] = "alloc" /\ pc'[p] = "push" /\ \E q \in pool : ptr' = [ptr EXCEPT ![p] = Ptr(q)]
    BY <1>3 DEF AllocateQueue, Goto, TypeOK
  <2>3. IsQueue(ptr'[p]) /\ word' = UPDATING /\ \A r \in Procs \ {p} : ptr'[r] = ptr[r]
    BY <1>3, <1>c, <2>2, SMT DEF AllocateQueue, TagHeld, TypeOK, Ptr, IsQueue
  <2>4. Inside
    BY <2>2, <2>3 DEF TagHeld, IsQueue
  <2> HIDE DEF Inside
  <2> QED  BY <1>e, <2>1, <2>4
<1>4. CASE Push(p)
  <2>1. HasQueue(p) /\ Inside
    BY <1>4, <1>c DEF Push, Goto, TypeOK, HasQueue, TagHeld, IsQueue
  <2> HIDE DEF Inside
  <2> QED  BY <1>e, <2>1
<1>5. CASE Publish(p)
  <2>1. HasQueue(p) /\ Inside
    BY <1>5 DEF Publish, Goto, TypeOK, HasQueue, TagHeld
  <2> HIDE DEF Inside
  <2> QED  BY <1>e, <2>1
<1>6. CASE Spin(p) \/ Swap(p) \/ CheckSignal(p) \/ Rearm(p) \/ Reload(p)
  <2>1. Outside /\ word' = word
    BY <1>6 DEF Spin, Swap, CheckSignal, Rearm, Reload, Goto, TypeOK, HasQueue
  <2> QED  BY <1>d, <2>1
<1>7. CASE Leave(p) \/ AwaitSignal(p)
  <2>1. Outside /\ word' = word
    BY <1>7 DEF Leave, AwaitSignal, Goto, TypeOK, HasQueue
  <2> QED  BY <1>d, <2>1
<1>8. CASE LeaveTag(p)
  <2>1. CASE word = ptr[p]
    <3>1. Inside /\ IsQueue(word)
      BY <1>8, <1>c, <2>1 DEF LeaveTag, Goto, TypeOK, TagHeld
    <3>2. Nobody
      BY <3>1, NobodyInside DEF IsQueue
    <3> HIDE DEF Inside, Nobody
    <3> QED  BY <1>e, <3>1, <3>2
  <2>2. CASE word # ptr[p]
    <3>1. Outside /\ word' = word
      BY <1>8, <2>2 DEF LeaveTag, Goto, TypeOK, HasQueue
    <3> QED  BY <1>d, <3>1
  <2> QED  BY <2>1, <2>2
<1>9. CASE Remove(p)
  <2>1. pc[p] = "remove" /\ pc'[p] \in {"removed", "missed"} /\ UNCHANGED <<word, ptr>>
    BY <1>9 DEF Remove, Goto, TypeOK
  <2>2. HasQueue(p) /\ Inside
    BY <1>c, <2>1 DEF HasQueue, TagHeld, IsQueue
  <2> HIDE DEF Inside
  <2> QED  BY <1>e, <2>2
<1>10. CASE LeaveUntag(p)
  <2>1. HasQueue(p) /\ Inside
    BY <1>10 DEF LeaveUntag, Goto, TypeOK, HasQueue, TagHeld
  <2> HIDE DEF Inside
  <2> QED  BY <1>e, <2>1
<1>11. CASE Unlock(p)
  <2>1. Outside /\ (word' = word \/ word = LOCKED)
    BY <1>11 DEF Unlock, Goto, TypeOK, HasQueue
  <2> QED  BY <1>d, <2>1, SMT DEF LOCKED
<1>12. CASE UnlockTag(p)
  <2>1. CASE IsQueue(ptr[p]) /\ word = ptr[p]
    <3>1. pc'[p] = "pop" /\ word' = Tagged(ptr[p].q) /\ ptr' = ptr
      BY <1>12, <2>1 DEF UnlockTag, Goto, TypeOK
    <3>2. Inside
      BY <2>1, <3>1 DEF TagHeld, IsQueue
    <3>3. Nobody
      BY <2>1, NobodyInside DEF IsQueue
    <3> HIDE DEF Inside, Nobody
    <3> QED  BY <1>e, <3>2, <3>3
  <2>2. CASE ~(IsQueue(ptr[p]) /\ word = ptr[p])
    <3>1. Outside /\ word' = word
      BY <1>12, <2>2 DEF UnlockTag, TypeOK, HasQueue
    <3> QED  BY <1>d, <3>1
  <2> QED  BY <2>1, <2>2
<1>13. CASE Pop(p)
  <2>1. pc[p] = "pop" /\ pc'[p] \in {"untag", "release"} /\ UNCHANGED <<word, ptr>>
    BY <1>13 DEF Pop, Goto, TypeOK
  <2>2. HasQueue(p) /\ Inside
    BY <1>c, <2>1 DEF HasQueue, TagHeld, IsQueue
  <2> HIDE DEF Inside
  <2> QED  BY <1>e, <2>2
<1>14. CASE Untag(p)
  <2>1. HasQueue(p) /\ Inside
    BY <1>14 DEF Untag, Goto, TypeOK, HasQueue, TagHeld
  <2> HIDE DEF Inside
  <2> QED  BY <1>e, <2>1
<1>15. CASE TakeWaker(p) \/ StoreSignal(p) \/ Wake(p) \/ DeallocateQueue(p)
  <2>1. Outside /\ word' = word
    BY <1>15, SMT DEF TakeWaker, StoreSignal, Wake, DeallocateQueue, Goto, TypeOK, HasQueue
  <2> QED  BY <1>d, <2>1
<1>16. CASE Release(p)
  <2>1. HasQueue(p) /\ Inside
    BY <1>16, <1>c DEF Release, Goto, TypeOK, HasQueue, TagHeld, IsQueue
  <2> HIDE DEF Inside
  <2> QED  BY <1>e, <2>1
<1> QED  BY <1>1, <1>2, <1>3, <1>4, <1>5, <1>6, <1>7, <1>8, <1>9, <1>10, <1>11,
            <1>12, <1>13, <1>14, <1>15, <1>16
          DEF ProcStep, Acquiring, Waiting, Leaving, Releasing

(* A step that keeps the queues, the pool and the word's queue, and makes  *)
(* nobody a user of a queue, keeps PoolInv.                                *)
LEMMA PoolFrame ==
  ASSUME PoolInv, UNCHANGED <<contents, pool>>, word'.q = word.q,
         \A r \in Procs : UsesQueue(r)' => UsesQueue(r) /\ pc'[r] = pc[r] /\ ptr'[r] = ptr[r]
  PROVE  PoolInv'
<1>1. \A r \in Procs : pc'[r] \in {"release", "dealloc"} => UsesQueue(r)'
  BY DEF UsesQueue, HasQueue
<1>2. \A r \in Procs : pc'[r] \in {"release", "dealloc"} => contents'[ptr'[r].q] = <<>>
  BY <1>1 DEF PoolInv
<1>3. \A r \in Procs : pc'[r] = "dealloc" => word'.q # ptr'[r].q
  BY <1>1 DEF PoolInv
<1>4. \A q \in pool' : /\ contents'[q] = <<>> /\ word'.q # q
                       /\ \A r \in Procs : UsesQueue(r)' => ptr'[r].q # q
  BY DEF PoolInv
<1>5. \A p, r \in Procs : UsesQueue(p)' /\ UsesQueue(r)' /\ ptr'[p].q = ptr'[r].q => p = r
  BY DEF PoolInv
<1> QED  BY <1>2, <1>3, <1>4, <1>5 DEF PoolInv

(* A step of a process on a queue Q that no other uses and that is not     *)
(* pooled keeps PoolInv if the process itself ends in order.               *)
LEMMA PoolOwn ==
  ASSUME TypeOK, TagInv, PoolInv, NEW p \in Procs, NEW Q \in Queues,
         \A r \in Procs \ {p} : pc'[r] = pc[r] /\ ptr'[r] = ptr[r],
         \A r \in Procs \ {p} : UsesQueue(r) => ptr[r].q # Q,
         \A q \in Queues \ {Q} : contents'[q] = contents[q],
         pool' \subseteq pool, Q \notin pool', ptr'[p].q = Q,
         word'.q \in {Q, word.q, NoQueue},
         pc'[p] \in {"release", "dealloc"} => contents'[Q] = <<>>,
         pc'[p] = "dealloc" => word'.q # Q
  PROVE  PoolInv'
<1>1. \A r \in Procs \ {p} : UsesQueue(r)' <=> UsesQueue(r)
  BY DEF UsesQueue, HasQueue
<1>2. \A r \in Procs : UsesQueue(r) => ptr[r].q \in Queues
  <2>1. \A r \in Procs : UsesQueue(r) => IsQueue(ptr[r])
    BY DEF TagInv, TagHeld, UsesQueue, HasQueue
  <2> QED  BY <2>1, WordFacts DEF IsQueue, TypeOK
<1>3. \A r \in Procs \ {p} : pc[r] \in {"release", "dealloc"} => UsesQueue(r)
  BY DEF UsesQueue, HasQueue
<1>4. pool \subseteq Queues /\ NoQueue \notin Queues
  BY QueueAssumption DEF TypeOK
<1>5. \A r \in Procs : pc'[r] \in {"release", "dealloc"} => contents'[ptr'[r].q] = <<>>
  <2> SUFFICES ASSUME NEW r \in Procs \ {p}, pc'[r] \in {"release", "dealloc"}
               PROVE  contents'[ptr'[r].q] = <<>>
    OBVIOUS
  <2>1. pc'[r] = pc[r] /\ ptr'[r] = ptr[r] /\ UsesQueue(r)
    BY <1>3
  <2>2. ptr[r].q \in Queues \ {Q} /\ contents[ptr[r].q] = <<>>
    BY <1>2, <2>1 DEF PoolInv
  <2> QED  BY <2>1, <2>2
<1>6. \A r \in Procs : pc'[r] = "dealloc" => word'.q # ptr'[r].q
  <2> SUFFICES ASSUME NEW r \in Procs \ {p}, pc'[r] = "dealloc"
               PROVE  word'.q # ptr'[r].q
    OBVIOUS
  <2>1. pc[r] = "dealloc" /\ ptr'[r] = ptr[r] /\ UsesQueue(r)
    BY <1>3
  <2>2. ptr[r].q \in Queues \ {Q} /\ word.q # ptr[r].q
    BY <1>2, <2>1 DEF PoolInv
  <2> QED  BY <1>4, <2>1, <2>2
<1>7. \A r, s \in Procs : UsesQueue(r)' /\ UsesQueue(s)' /\ ptr'[r].q = ptr'[s].q => r = s
  BY <1>1, SMT DEF PoolInv
<1>8. ASSUME NEW q \in pool'
      PROVE  /\ contents'[q] = <<>> /\ word'.q # q
             /\ \A r \in Procs : UsesQueue(r)' => ptr'[r].q # q
  <2>1. q \in Queues \ {Q} /\ q # NoQueue /\ q \in pool
    BY <1>4
  <2>2. contents[q] = <<>> /\ word.q # q /\ \A r \in Procs : UsesQueue(r) => ptr[r].q # q
    BY <2>1 DEF PoolInv
  <2> QED  BY <1>1, <2>1, <2>2
<1> QED  BY <1>5, <1>6, <1>7, <1>8 DEF PoolInv

(* Setting the tag of the published queue keeps PoolInv. *)
LEMMA PoolTag ==
  ASSUME TypeOK, TagInv, PoolInv, NEW p \in Procs, IsQueue(word), ptr[p] = word,
         word' = Tagged(word.q), UNCHANGED <<contents, pool, ptr>>,
         pc'[p] \in {"push", "remove", "pop"}, \A r \in Procs \ {p} : pc'[r] = pc[r]
  PROVE  PoolInv'
<1>1. word.q \in Queues /\ word'.q = word.q
  BY WordFacts DEF TypeOK, IsQueue, Tagged
<1>2. \A r \in Procs : UsesQueue(r) => pc[r] = "dealloc"
  BY NobodyInside DEF IsQueue, UsesQueue
<1>3. \A r \in Procs : UsesQueue(r) => ptr[r].q # word.q
  BY <1>2 DEF PoolInv
<1>4. word.q \notin pool
  BY DEF PoolInv
<1> QED  BY <1>1, <1>3, <1>4, PoolOwn

(* A queue reaches the pool empty, and out of everybody's hands. *)
LEMMA PoolStep ==
  ASSUME TypeOK, TagInv, PoolInv, NEW p \in Procs, ProcStep(p)
  PROVE  PoolInv'
<1> DEFINE Q == ptr[p].q
<1>a. \A r \in Procs \ {p} : pc'[r] = pc[r]
  BY OnlyOwnPC
<1>b. TagHeld(p)
  BY DEF TagInv
<1>c. UsesQueue(p) => /\ IsQueue(ptr[p]) /\ Q \in Queues /\ Q \notin pool
                      /\ \A r \in Procs \ {p} : UsesQueue(r) => ptr[r].q # Q
  <2>1. UsesQueue(p) => IsQueue(ptr[p])
    BY <1>b DEF TagHeld, UsesQueue, HasQueue
  <2>2. UsesQueue(p) => Q \in Queues
    BY <2>1, WordFacts DEF IsQueue, TypeOK
  <2> QED  BY <2>1, <2>2 DEF PoolInv
<1> DEFINE Passive == /\ UNCHANGED <<contents, pool>> /\ ~UsesQueue(p)'
                      /\ \A r \in Procs \ {p} : ptr'[r] = ptr[r]
<1>d. Passive /\ word'.q = word.q => PoolInv'
  <2> SUFFICES ASSUME Passive, word'.q = word.q PROVE PoolInv'
    OBVIOUS
  <2>1. \A r \in Procs : UsesQueue(r)' => UsesQueue(r) /\ pc'[r] = pc[r] /\ ptr'[r] = ptr[r]
    BY <1>a DEF UsesQueue, HasQueue
  <2> QED  BY <2>1, PoolFrame
<1>1. CASE Lock(p) \/ PollFirst(p) \/ RetryLock(p) \/ ParkReturn(p) \/ Poll(p) \/ DropRequest(p)
  <2>1. /\ pc'[p] \in {"held", "lock", "branch", "check", "rearm", "leave"}
        /\ UNCHANGED <<contents, pool>> /\ \A r \in Procs \ {p} : ptr'[r] = ptr[r]
    BY <1>1 DEF Lock, PollFirst, RetryLock, ParkReturn, Poll, DropRequest, Goto, TypeOK
  <2>2. word'.q = word.q
    BY <1>1, SMT DEF Lock, PollFirst, RetryLock, ParkReturn, Poll, DropRequest, UNLOCKED, LOCKED
  <2>3. Passive
    BY <2>1 DEF UsesQueue, HasQueue
  <2> HIDE DEF Passive
  <2> QED  BY <1>d, <2>2, <2>3
<1>2. CASE Branch(p)
  <2>1. CASE pc'[p] = "push"
    BY <1>2, <1>a, <2>1, PoolTag DEF Branch, Goto, TypeOK
  <2>2. CASE pc'[p] # "push"
    <3>1. pc'[p] \in {"alloc", "lock"} /\ UNCHANGED <<contents, pool, ptr>>
      BY <1>2, <2>2 DEF Branch, Goto, TypeOK
    <3>2. word'.q = word.q
      BY <1>2, <2>2, SMT DEF Branch, Goto, TypeOK, LOCKED, UPDATING
    <3>3. Passive
      BY <3>1 DEF UsesQueue, HasQueue
    <3> HIDE DEF Passive
    <3> QED  BY <1>d, <3>2, <3>3
  <2> QED  BY <2>1, <2>2
<1>3. CASE AllocateQueue(p)
  <2>1. PICK q \in pool : pool' = pool \ {q} /\ ptr' = [ptr EXCEPT ![p] = Ptr(q)]
    BY <1>3 DEF AllocateQueue
  <2>2. /\ pc'[p] = "push" /\ UNCHANGED <<word, contents>>
        /\ ptr'[p].q = q /\ \A r \in Procs \ {p} : ptr'[r] = ptr[r]
    BY <1>3, <2>1 DEF AllocateQueue, Goto, TypeOK, Ptr
  <2>3. q \in Queues /\ \A r \in Procs : UsesQueue(r) => ptr[r].q # q
    BY DEF PoolInv, TypeOK
  <2> QED  BY <1>a, <2>1, <2>2, <2>3, PoolOwn
<1>4. CASE Push(p)
  <2>1. UsesQueue(p)
    BY <1>4 DEF Push, UsesQueue, HasQueue
  <2>2. /\ pc'[p] \in {"publishFirst", "publish"} /\ UNCHANGED <<word, pool, ptr>>
        /\ \A q \in Queues \ {Q} : contents'[q] = contents[q]
    BY <1>4 DEF Push, Goto, TypeOK
  <2> QED  BY <1>a, <1>c, <2>1, <2>2, PoolOwn, SMT
<1>5. CASE Publish(p)
  <2>1. UsesQueue(p) /\ pc'[p] \in {"pending", "spin", "swap"}
    BY <1>5 DEF Publish, UsesQueue, HasQueue, Goto, TypeOK
  <2>2. word' = ptr[p] /\ UNCHANGED <<contents, pool, ptr>>
    BY <1>5 DEF Publish
  <2> QED  BY <1>a, <1>c, <2>1, <2>2, PoolOwn, SMT
<1>6. CASE Spin(p) \/ Swap(p) \/ CheckSignal(p) \/ Rearm(p) \/ Reload(p)
  <2>1. Passive /\ word' = word
    BY <1>6 DEF Spin, Swap, CheckSignal, Rearm, Reload, Goto, TypeOK, UsesQueue, HasQueue
  <2> QED  BY <1>d, <2>1
<1>7. CASE Leave(p) \/ AwaitSignal(p)
  <2>1. Passive /\ word' = word
    BY <1>7 DEF Leave, AwaitSignal, Goto, TypeOK, UsesQueue, HasQueue
  <2> QED  BY <1>d, <2>1
<1>8. CASE LeaveTag(p)
  <2>1. CASE word = ptr[p]
    <3>1. IsQueue(word)
      BY <1>8, <1>b, <2>1 DEF LeaveTag, TagHeld
    <3> QED  BY <1>8, <1>a, <2>1, <3>1, PoolTag DEF LeaveTag, Goto, TypeOK
  <2>2. CASE word # ptr[p]
    <3>1. Passive /\ word' = word
      BY <1>8, <2>2 DEF LeaveTag, Goto, TypeOK, UsesQueue, HasQueue
    <3> QED  BY <1>d, <3>1
  <2> QED  BY <2>1, <2>2
<1>9. CASE Remove(p)
  <2>1. UsesQueue(p)
    BY <1>9 DEF Remove, UsesQueue, HasQueue
  <2>2. /\ pc'[p] \in {"removed", "missed"} /\ UNCHANGED <<word, pool, ptr>>
        /\ \A q \in Queues \ {Q} : contents'[q] = contents[q]
    BY <1>9 DEF Remove, Goto, TypeOK
  <2> QED  BY <1>a, <1>c, <2>1, <2>2, PoolOwn, SMT
<1>10. CASE LeaveUntag(p) \/ Untag(p)
  <2>1. /\ pc[p] \in {"removed", "missed", "untag"} /\ pc'[p] \in {"idle", "await", "take"}
        /\ word' = ptr[p] /\ UNCHANGED <<contents, pool, ptr>>
    BY <1>10 DEF LeaveUntag, Untag, Goto, TypeOK
  <2>2. word = Tagged(Q)
    BY <1>b, <2>1 DEF TagHeld
  <2>3. Passive
    BY <2>1 DEF UsesQueue, HasQueue
  <2>4. word'.q = word.q
    BY <2>1, <2>2 DEF Tagged
  <2> HIDE DEF Passive
  <2> QED  BY <1>d, <2>3, <2>4
<1>11. CASE Unlock(p)
  <2>1. Passive
    BY <1>11 DEF Unlock, Goto, TypeOK, UsesQueue, HasQueue
  <2>2. word'.q = word.q
    BY <1>11, SMT DEF Unlock, LOCKED, UNLOCKED
  <2> HIDE DEF Passive
  <2> QED  BY <1>d, <2>1, <2>2
<1>12. CASE UnlockTag(p)
  <2>1. CASE IsQueue(ptr[p]) /\ word = ptr[p]
    BY <1>12, <1>a, <2>1, PoolTag DEF UnlockTag, Goto, TypeOK
  <2>2. CASE ~(IsQueue(ptr[p]) /\ word = ptr[p])
    <3>1. Passive /\ word' = word
      BY <1>12, <2>2 DEF UnlockTag, TypeOK, UsesQueue, HasQueue
    <3> QED  BY <1>d, <3>1
  <2> QED  BY <2>1, <2>2
<1>13. CASE Pop(p)
  <2>1. UsesQueue(p)
    BY <1>13 DEF Pop, UsesQueue, HasQueue
  <2>2. /\ pc'[p] \in {"untag", "release"} /\ UNCHANGED <<word, pool, ptr>>
        /\ pc'[p] = "release" => contents'[Q] = <<>>
        /\ \A q \in Queues \ {Q} : contents'[q] = contents[q]
    BY <1>13 DEF Pop, Goto, TypeOK
  <2> QED  BY <1>a, <1>c, <2>1, <2>2, PoolOwn, SMT
<1>14. CASE TakeWaker(p) \/ StoreSignal(p) \/ Wake(p)
  <2>1. Passive /\ word' = word
    BY <1>14, SMT DEF TakeWaker, StoreSignal, Wake, Goto, TypeOK, UsesQueue, HasQueue
  <2> QED  BY <1>d, <2>1
<1>15. CASE Release(p)
  <2>1. UsesQueue(p) /\ contents[Q] = <<>>
    BY <1>15 DEF Release, UsesQueue, HasQueue, PoolInv
  <2>2. pc'[p] = "dealloc" /\ word'.q = NoQueue /\ UNCHANGED <<contents, pool, ptr>>
    BY <1>15 DEF Release, Goto, TypeOK, UNLOCKED
  <2>3. NoQueue # Q
    BY <1>c, <2>1, QueueAssumption
  <2> QED  BY <1>a, <1>c, <2>1, <2>2, <2>3, PoolOwn
<1>16. CASE DeallocateQueue(p)
  <2>1. /\ UsesQueue(p) /\ ~UsesQueue(p)' /\ contents[Q] = <<>> /\ word.q # Q
        /\ UNCHANGED <<word, contents, ptr>> /\ pool' = pool \cup {Q}
    BY <1>16 DEF DeallocateQueue, Goto, TypeOK, UsesQueue, HasQueue, PoolInv
  <2>2. \A r \in Procs : UsesQueue(r)' => UsesQueue(r) /\ r # p /\ pc'[r] = pc[r]
    BY <1>a, <2>1 DEF UsesQueue, HasQueue
  <2>3. \A r \in Procs : pc'[r] \in {"release", "dealloc"} => UsesQueue(r)'
    BY DEF UsesQueue, HasQueue
  <2>4. \A q \in pool' : /\ contents'[q] = <<>> /\ word'.q # q
                         /\ \A r \in Procs : UsesQueue(r)' => ptr'[r].q # q
    BY <1>c, <2>1, <2>2 DEF PoolInv
  <2> QED  BY <2>1, <2>2, <2>3, <2>4 DEF PoolInv
<1> QED  BY <1>1, <1>2, <1>3, <1>4, <1>5, <1>6, <1>7, <1>8, <1>9, <1>10, <1>11,
            <1>12, <1>13, <1>14, <1>15, <1>16
          DEF ProcStep, Acquiring, Waiting, Leaving, Releasing

-----------------------------------------------------------------------------
(* Removing a node adds none. *)
LEMMA RemoveNodeMembers ==
  ASSUME NEW S, NEW s \in Seq(S), NEW i \in 1 .. Len(s)
  PROVE  \A j \in 1 .. Len(RemoveNode(s, i)) : \E k \in 1 .. Len(s) : RemoveNode(s, i)[j] = s[k]
<1> TAKE j \in 1 .. Len(RemoveNode(s, i))
<1>1. Len(s) \in Nat /\ j \in 1 .. Len(s) - 1
  BY RemoveNodeFacts, SMT
<1>2. CASE j < i
  BY <1>1, <1>2, RemoveNodeFacts, SMT
<1>3. CASE ~(j < i)
  <2>1. j + 1 \in 1 .. Len(s) /\ RemoveNode(s, i)[j] = s[j + 1]
    BY <1>1, <1>3, RemoveNodeFacts, SMT
  <2> QED  BY <2>1
<1> QED  BY <1>2, <1>3

(* Only push, pop and remove touch the queue contents. *)
LEMMA QueueChanges ==
  ASSUME TypeOK, NEW p \in Procs, ProcStep(p), ~Push(p), ~Pop(p), ~Remove(p)
  PROVE  contents' = contents
<1> USE DEF Goto, TypeOK
<1>1. CASE Lock(p) \/ PollFirst(p) \/ ParkReturn(p) \/ Poll(p) \/ DropRequest(p)
  BY <1>1 DEF Lock, PollFirst, ParkReturn, Poll, DropRequest
<1>2. CASE Acquiring(p)
  BY <1>2 DEF Acquiring, RetryLock, Branch, AllocateQueue, Publish
<1>3. CASE Waiting(p)
  BY <1>3 DEF Waiting, Spin, Swap, CheckSignal, Rearm, Reload
<1>4. CASE Leaving(p)
  BY <1>4 DEF Leaving, Leave, LeaveTag, LeaveUntag, AwaitSignal
<1>5. CASE Releasing(p)
  BY <1>5 DEF Releasing, Unlock, UnlockTag, Untag, TakeWaker, StoreSignal, Wake,
      Release, DeallocateQueue
<1> QED  BY <1>1, <1>2, <1>3, <1>4, <1>5 DEF ProcStep

(* A parked process that is not signaled stays so, except when it removes itself
   or when somebody signals. *)
LEMMA ParkedStays ==
  ASSUME TypeOK, NEW p \in Procs, ProcStep(p), ~Remove(p), ~StoreSignal(p)
  PROVE  \A r \in Procs : Parked(r) /\ value[r] # "signaled" => Parked(r)' /\ value'[r] # "signaled"
<1> USE DEF Goto, TypeOK, Parked
<1>1. CASE Lock(p) \/ PollFirst(p) \/ ParkReturn(p) \/ Poll(p) \/ DropRequest(p)
  BY <1>1 DEF Lock, PollFirst, ParkReturn, Poll, DropRequest
<1>2. CASE Acquiring(p)
  BY <1>2 DEF Acquiring, RetryLock, Branch, AllocateQueue, Push, Publish
<1>3. CASE Waiting(p)
  BY <1>3 DEF Waiting, Spin, Swap, CheckSignal, Rearm, Reload
<1>4. CASE Leaving(p)
  BY <1>4 DEF Leaving, Leave, LeaveTag, LeaveUntag, AwaitSignal
<1>5. CASE Releasing(p)
  BY <1>5 DEF Releasing, Unlock, UnlockTag, Pop, Untag, TakeWaker, Wake, Release,
      DeallocateQueue
<1> QED  BY <1>1, <1>2, <1>3, <1>4, <1>5 DEF ProcStep

(* Only a pop starts a handoff. *)
LEMMA HandoffKept ==
  ASSUME TypeOK, NEW p \in Procs, ProcStep(p), ~Pop(p)
  PROVE  \A r \in Procs : HandingOff(r)' => HandingOff(r) /\ node'[r] = node[r]
<1> USE DEF Goto, TypeOK, HandingOff
<1>1. CASE Lock(p) \/ PollFirst(p) \/ ParkReturn(p) \/ Poll(p) \/ DropRequest(p)
  BY <1>1 DEF Lock, PollFirst, ParkReturn, Poll, DropRequest
<1>2. CASE Acquiring(p)
  BY <1>2 DEF Acquiring, RetryLock, Branch, AllocateQueue, Push, Publish
<1>3. CASE Waiting(p)
  BY <1>3 DEF Waiting, Spin, Swap, CheckSignal, Rearm, Reload
<1>4. CASE Leaving(p)
  BY <1>4 DEF Leaving, Leave, LeaveTag, Remove, LeaveUntag, AwaitSignal
<1>5. CASE Releasing(p)
  BY <1>5 DEF Releasing, Unlock, UnlockTag, Untag, TakeWaker, StoreSignal, Wake,
      Release, DeallocateQueue
<1> QED  BY <1>1, <1>2, <1>3, <1>4, <1>5 DEF ProcStep

(* A node is pushed once, and leaves the queue by pop or by its own remove. *)
LEMMA LineStep ==
  ASSUME TypeOK, TagInv, LineInv, HandoffInv, SignalInv, NEW p \in Procs, ProcStep(p)
  PROVE  LineInv'
<1> DEFINE Q == ptr[p].q
<1>0. Push(p) \/ Pop(p) \/ Remove(p) => Q \in Queues /\ contents[Q] \in Seq(Procs)
  BY WordFacts DEF Push, Pop, Remove, TypeOK, TagInv, TagHeld, IsQueue
<1>1. CASE Push(p)
  <2>1. /\ contents' = [contents EXCEPT ![Q] = Append(contents[Q], p)]
        /\ contents'[Q] = Append(contents[Q], p)
        /\ \A q \in Queues \ {Q} : contents'[q] = contents[q]
    BY <1>0, <1>1 DEF Push, TypeOK
  <2>2. /\ Len(contents'[Q]) = Len(contents[Q]) + 1
        /\ contents'[Q][Len(contents[Q]) + 1] = p
        /\ \A i \in 1 .. Len(contents[Q]) : contents'[Q][i] = contents[Q][i]
    BY <1>0, <1>1, <2>1, SMT
  <2>3. \A q \in Queues : \A i \in 1 .. Len(contents[q]) : contents[q][i] # p
    BY <1>1 DEF Push, LineInv, Parked
  <2>4. /\ \A r \in Procs \ {p} : pc'[r] = pc[r]
        /\ Parked(p)' /\ value' = value /\ value[p] # "signaled"
    BY <1>1, OnlyOwnPC DEF Push, Parked, SignalInv, Goto, TypeOK
  <2>5. \A q \in Queues : \A i \in 1 .. Len(contents'[q]) :
           \/ i \in 1 .. Len(contents[q]) /\ contents'[q][i] = contents[q][i]
           \/ q = Q /\ i = Len(contents[Q]) + 1 /\ contents'[q][i] = p
    BY <1>0, <1>1, <2>1, <2>2, SMT DEF TypeOK
  <2>6. \A q \in Queues : \A i \in 1 .. Len(contents'[q]) :
           Parked(contents[q][i])' /\ value'[contents'[q][i]] # "signaled"
    BY <2>4, <2>5, <2>3, SMT DEF LineInv, Parked, TypeOK
  <2>7. \A q1, q2 \in Queues : \A i \in 1 .. Len(contents'[q1]), j \in 1 .. Len(contents'[q2]) :
           contents'[q1][i] = contents'[q2][j] => q1 = q2 /\ i = j
    BY <2>3, <2>5, SMT DEF LineInv
  <2> QED  BY <2>6, <2>7 DEF LineInv
<1>2. CASE Pop(p)
  <2>1. CASE contents[Q] = <<>>
    BY <1>2, <2>1, ParkedStays, SMT DEF Pop, Remove, StoreSignal, LineInv, TypeOK
  <2>2. CASE contents[Q] # <<>>
    <3>1. /\ contents'[Q] = Tail(contents[Q])
          /\ \A q \in Queues \ {Q} : contents'[q] = contents[q]
      BY <1>0, <1>2, <2>2 DEF Pop, TypeOK
    <3>2. /\ Len(contents'[Q]) = Len(contents[Q]) - 1
          /\ \A i \in 1 .. Len(contents[Q]) - 1 : contents'[Q][i] = contents[Q][i + 1]
      BY <1>0, <1>2, <2>2, <3>1, SMT
    <3>3. \A r \in Procs : Parked(r) /\ value[r] # "signaled" => Parked(r)' /\ value'[r] # "signaled"
      BY <1>2, ParkedStays DEF Pop, Remove, StoreSignal
    <3> DEFINE Old(q, i) == IF q = Q THEN i + 1 ELSE i
    <3>4. \A q \in Queues : \A i \in 1 .. Len(contents'[q]) :
             Old(q, i) \in 1 .. Len(contents[q]) /\ contents'[q][i] = contents[q][Old(q, i)]
      <4> TAKE q \in Queues
      <4>1. CASE q = Q
        <5>1. Len(contents[Q]) \in Nat
          BY <1>0, <1>2, SMT
        <5> QED  BY <3>2, <4>1, <5>1, SMT
      <4>2. CASE q # Q
        BY <3>1, <4>2
      <4> QED  BY <4>1, <4>2
    <3>5. \A q \in Queues : \A i \in 1 .. Len(contents'[q]) :
             Parked(contents[q][i])' /\ value'[contents'[q][i]] # "signaled"
      <4> HIDE DEF Old
      <4> SUFFICES ASSUME NEW q \in Queues, NEW i \in 1 .. Len(contents'[q])
                   PROVE  Parked(contents[q][i])' /\ value'[contents'[q][i]] # "signaled"
        OBVIOUS
      <4>1. PICK j \in 1 .. Len(contents[q]) : contents'[q][i] = contents[q][j]
        BY <3>4
      <4>2. contents[q][j] \in Procs /\ Parked(contents[q][j]) /\ value[contents[q][j]] # "signaled"
        BY SMT DEF LineInv, TypeOK
      <4> QED  BY <3>3, <4>1, <4>2 DEF Parked
    <3>6. \A q1, q2 \in Queues : \A i \in 1 .. Len(contents'[q1]), j \in 1 .. Len(contents'[q2]) :
             contents'[q1][i] = contents'[q2][j] => q1 = q2 /\ i = j
      <4>1. \A q \in Queues : Len(contents'[q]) \in Nat
        BY <3>1, <3>2, <1>0, <1>2, SMT DEF TypeOK
      <4>2. \A q \in Queues : \A i, j \in 1 .. Len(contents'[q]) : Old(q, i) = Old(q, j) => i = j
        BY <4>1, SMT
      <4> HIDE DEF Old
      <4>3. SUFFICES ASSUME NEW q1 \in Queues, NEW q2 \in Queues,
                            NEW i \in 1 .. Len(contents'[q1]), NEW j \in 1 .. Len(contents'[q2]),
                            contents'[q1][i] = contents'[q2][j]
                     PROVE  q1 = q2 /\ i = j
        OBVIOUS
      <4>4. q1 = q2 /\ Old(q1, i) = Old(q2, j)
        <5>1. /\ Old(q1, i) \in 1 .. Len(contents[q1]) /\ Old(q2, j) \in 1 .. Len(contents[q2])
              /\ contents[q1][Old(q1, i)] = contents[q2][Old(q2, j)]
          BY <3>4, <4>3
        <5> QED  BY <5>1, SMT DEF LineInv
      <4> QED  BY <4>2, <4>4
    <3> QED  BY <3>5, <3>6 DEF LineInv
  <2> QED  BY <2>1, <2>2
<1>3. CASE Remove(p)
  <2>1. CASE \A i \in 1 .. Len(contents[Q]) : contents[Q][i] # p
    <3>1. /\ contents' = contents
          /\ \A r \in Procs : Parked(r) => Parked(r)'
          /\ value' = value
      BY <1>3, <2>1 DEF Remove, Parked, Goto, TypeOK
    <3> QED  BY <3>1, SMT DEF LineInv, TypeOK
  <2>2. CASE \E i \in 1 .. Len(contents[Q]) : contents[Q][i] = p
    <3>1. PICK k \in 1 .. Len(contents[Q]) :
             contents[Q][k] = p /\ contents' = [contents EXCEPT ![Q] = RemoveNode(contents[Q], k)]
      BY <1>3, <2>2 DEF Remove
    <3>2. /\ contents'[Q] = RemoveNode(contents[Q], k)
          /\ \A q \in Queues \ {Q} : contents'[q] = contents[q]
      BY <1>0, <1>3, <3>1 DEF TypeOK
    <3>3. /\ Len(contents'[Q]) = Len(contents[Q]) - 1
          /\ \A i \in 1 .. Len(contents[Q]) - 1 :
                contents'[Q][i] = contents[Q][IF i < k THEN i ELSE i + 1]
      <4> DEFINE s == contents[Q]
      <4>1. s \in Seq(Procs) /\ k \in 1 .. Len(s) /\ contents'[Q] = RemoveNode(s, k)
        BY <1>0, <1>3, <3>2
      <4> HIDE DEF s
      <4>2. /\ Len(contents'[Q]) = Len(s) - 1
            /\ \A i \in 1 .. Len(s) - 1 : contents'[Q][i] = IF i < k THEN s[i] ELSE s[i + 1]
        BY <4>1, RemoveNodeFacts
      <4> QED  BY <4>2 DEF s
    <3> DEFINE Old(q, i) == IF q = Q /\ i >= k THEN i + 1 ELSE i
    <3>4. \A q \in Queues : \A i \in 1 .. Len(contents'[q]) :
             /\ Old(q, i) \in 1 .. Len(contents[q])
             /\ contents'[q][i] = contents[q][Old(q, i)]
             /\ q = Q => Old(q, i) # k
      <4>1. Len(contents[Q]) \in Nat /\ k \in Nat /\ 1 <= k /\ k <= Len(contents[Q])
        BY <1>0, <1>3, SMT
      <4> TAKE q \in Queues
      <4> TAKE i \in 1 .. Len(contents'[q])
      <4>2. CASE q # Q
        <5>1. Old(q, i) = i /\ contents'[q] = contents[q]
          BY <3>2, <4>2
        <5> QED  BY <4>2, <5>1
      <4>3. CASE q = Q
        <5>1. i \in 1 .. Len(contents[Q]) - 1 /\ contents'[Q][i] = contents[Q][IF i < k THEN i ELSE i + 1]
          BY <3>3, <4>3
        <5>2. /\ Old(Q, i) = IF i < k THEN i ELSE i + 1
              /\ Old(Q, i) \in 1 .. Len(contents[Q]) /\ Old(Q, i) # k
          BY <4>1, <5>1, SMT
        <5> QED  BY <4>3, <5>1, <5>2
      <4> QED  BY <4>2, <4>3
    <3>5. \A q \in Queues : \A i \in 1 .. Len(contents'[q]) : contents'[q][i] # p
      <4> HIDE DEF Old
      <4> SUFFICES ASSUME NEW q \in Queues, NEW i \in 1 .. Len(contents'[q]), contents'[q][i] = p
                   PROVE  FALSE
        OBVIOUS
      <4>1. /\ Old(q, i) \in 1 .. Len(contents[q])
            /\ contents[q][Old(q, i)] = contents[Q][k]
            /\ q = Q => Old(q, i) # k
        BY <3>1, <3>4
      <4> QED  BY <1>0, <1>3, <4>1, SMT DEF LineInv
    <3>6. value' = value /\ \A r \in Procs \ {p} : pc'[r] = pc[r]
      BY <1>3, OnlyOwnPC DEF Remove
    <3>7. \A q \in Queues : \A i \in 1 .. Len(contents'[q]) :
             Parked(contents[q][i])' /\ value'[contents'[q][i]] # "signaled"
      <4> HIDE DEF Old
      <4> SUFFICES ASSUME NEW q \in Queues, NEW i \in 1 .. Len(contents'[q])
                   PROVE  Parked(contents[q][i])' /\ value'[contents'[q][i]] # "signaled"
        OBVIOUS
      <4>1. PICK j \in 1 .. Len(contents[q]) : contents'[q][i] = contents[q][j]
        BY <3>4
      <4>2. contents[q][j] \in Procs /\ Parked(contents[q][j]) /\ value[contents[q][j]] # "signaled"
        BY SMT DEF LineInv, TypeOK
      <4> QED  BY <3>5, <3>6, <4>1, <4>2 DEF Parked
    <3>8. \A q1, q2 \in Queues : \A i \in 1 .. Len(contents'[q1]), j \in 1 .. Len(contents'[q2]) :
             contents'[q1][i] = contents'[q2][j] => q1 = q2 /\ i = j
      <4>1. \A q \in Queues : Len(contents'[q]) \in Nat
        BY <3>2, <3>3, <1>0, <1>3, SMT DEF TypeOK
      <4>2. \A q \in Queues : \A i, j \in 1 .. Len(contents'[q]) : Old(q, i) = Old(q, j) => i = j
        BY <4>1, SMT
      <4> HIDE DEF Old
      <4>3. SUFFICES ASSUME NEW q1 \in Queues, NEW q2 \in Queues,
                            NEW i \in 1 .. Len(contents'[q1]), NEW j \in 1 .. Len(contents'[q2]),
                            contents'[q1][i] = contents'[q2][j]
                     PROVE  q1 = q2 /\ i = j
        OBVIOUS
      <4>4. q1 = q2 /\ Old(q1, i) = Old(q2, j)
        <5>1. /\ Old(q1, i) \in 1 .. Len(contents[q1]) /\ Old(q2, j) \in 1 .. Len(contents[q2])
              /\ contents[q1][Old(q1, i)] = contents[q2][Old(q2, j)]
          BY <3>4, <4>3
        <5> QED  BY <5>1, SMT DEF LineInv
      <4> QED  BY <4>2, <4>4
    <3> QED  BY <3>7, <3>8 DEF LineInv
  <2> QED  BY <2>1, <2>2
<1>4. CASE StoreSignal(p)
  <2>1. contents' = contents /\ \A r \in Procs : Parked(r) => Parked(r)'
    BY <1>4 DEF StoreSignal, Parked, Goto, TypeOK
  <2>2. \A r \in Procs \ {node[p]} : value'[r] = value[r]
    BY <1>4 DEF StoreSignal, TypeOK
  <2>3. \A q \in Queues : \A i \in 1 .. Len(contents[q]) : contents[q][i] # node[p]
    BY <1>4 DEF StoreSignal, HandoffInv, HandingOff, InQueue
  <2>4. ASSUME NEW q \in Queues, NEW i \in 1 .. Len(contents'[q])
        PROVE  Parked(contents[q][i])' /\ value'[contents'[q][i]] # "signaled"
    <3>1. i \in 1 .. Len(contents[q]) /\ contents'[q][i] = contents[q][i]
      BY <2>1, <2>4
    <3>2. contents[q][i] \in Procs /\ contents[q] \in Seq(Procs)
      BY <3>1, SMT DEF TypeOK
    <3>3. Parked(contents[q][i]) /\ value[contents[q][i]] # "signaled" /\ contents[q][i] # node[p]
      BY <2>3, <3>1 DEF LineInv
    <3>4. value'[contents[q][i]] = value[contents[q][i]] /\ contents[q][i] \in Procs
      BY <2>2, <3>2, <3>3
    <3>5. Parked(contents[q][i])'
      BY <2>1, <3>2, <3>3 DEF Parked
    <3> QED  BY <3>1, <3>3, <3>4, <3>5
  <2>5. \A q1, q2 \in Queues : \A i \in 1 .. Len(contents'[q1]), j \in 1 .. Len(contents'[q2]) :
          contents'[q1][i] = contents'[q2][j] => q1 = q2 /\ i = j
    BY <2>1 DEF LineInv
  <2> QED  BY <2>4, <2>5 DEF LineInv
<1>5. CASE ~(Push(p) \/ Pop(p) \/ Remove(p) \/ StoreSignal(p))
  <2>1. /\ contents' = contents
        /\ \A r \in Procs : Parked(r) /\ value[r] # "signaled" => Parked(r)' /\ value'[r] # "signaled"
    <3>1. contents' = contents
      BY <1>5, QueueChanges
    <3>2. \A r \in Procs : Parked(r) /\ value[r] # "signaled" => Parked(r)' /\ value'[r] # "signaled"
      BY ONLY <1>5, TypeOK, p \in Procs, ProcStep(p), ParkedStays
    <3> QED  BY <3>1, <3>2
  <2>2. \A q \in Queues : \A i \in 1 .. Len(contents[q]) :
           Parked(contents[q][i])' /\ value'[contents[q][i]] # "signaled"
    <3> SUFFICES ASSUME NEW q \in Queues, NEW i \in 1 .. Len(contents[q])
                 PROVE  Parked(contents[q][i])' /\ value'[contents[q][i]] # "signaled"
      OBVIOUS
    <3>1. contents[q][i] \in Procs /\ Parked(contents[q][i]) /\ value[contents[q][i]] # "signaled"
      BY SMT DEF LineInv, TypeOK
    <3> QED  BY <2>1, <3>1 DEF Parked
  <2> QED  BY <2>1, <2>2, SMT DEF LineInv
<1> QED  BY <1>1, <1>2, <1>3, <1>4, <1>5

(* A signal is consumed before its receiver stops being parked. *)
LEMMA SignalStep ==
  ASSUME TypeOK, TagInv, LineInv, HandoffInv, SignalInv, NEW p \in Procs, ProcStep(p)
  PROVE  SignalInv'
<1> USE DEF Goto, TypeOK, SignalInv, HandoffInv, HandingOff, Parked
<1>1. CASE Lock(p) \/ PollFirst(p) \/ ParkReturn(p) \/ Poll(p) \/ DropRequest(p)
  BY <1>1, SMT DEF Lock, PollFirst, ParkReturn, Poll, DropRequest
<1>2. CASE RetryLock(p) \/ Branch(p) \/ AllocateQueue(p) \/ Push(p) \/ Publish(p)
  BY <1>2, SMT DEF RetryLock, Branch, AllocateQueue, Push, Publish
<1>3. CASE Spin(p) \/ Swap(p) \/ CheckSignal(p) \/ Rearm(p) \/ Reload(p)
  BY <1>3, SMT DEF Spin, Swap, CheckSignal, Rearm, Reload
<1>4. CASE Leave(p) \/ LeaveTag(p) \/ LeaveUntag(p) \/ AwaitSignal(p)
  BY <1>4, SMT DEF Leave, LeaveTag, LeaveUntag, AwaitSignal
<1>5. CASE Remove(p)
  <2>1. /\ value' = value
        /\ \A r \in Procs \ {p} : pc'[r] = pc[r]
        /\ pc[p] = "remove" /\ (pc'[p] = "missed" \/ \E i \in 1 .. Len(contents[ptr[p].q]) :
                                                      contents[ptr[p].q][i] = p)
    BY <1>5 DEF Remove
  <2>2. ptr[p].q \in Queues
    BY <1>5, WordFacts DEF Remove, TagInv, TagHeld, IsQueue
  <2>3. pc'[p] = "missed" \/ value[p] # "signaled"
    <3>1. ASSUME NEW i \in 1 .. Len(contents[ptr[p].q]), contents[ptr[p].q][i] = p
          PROVE  value[p] # "signaled"
      <4>1. value[contents[ptr[p].q][i]] # "signaled"
        BY <2>2 DEF LineInv
      <4> QED  BY <3>1, <4>1
    <3> QED  BY <2>1, <3>1
  <2> QED  BY <2>1, <2>3
<1>6. CASE Unlock(p) \/ UnlockTag(p) \/ Pop(p) \/ Untag(p) \/ TakeWaker(p) \/ StoreSignal(p) \/ Wake(p) \/ Release(p) \/ DeallocateQueue(p)
  BY <1>6, SMT DEF Unlock, UnlockTag, Pop, Untag, TakeWaker, StoreSignal, Wake, Release,
      DeallocateQueue
<1> QED  BY <1>1, <1>2, <1>3, <1>4, <1>5, <1>6
          DEF ProcStep, Acquiring, Waiting, Leaving, Releasing

(* A popped node stays parked, unsignaled and out of every queue until its
   one signaler stores the signal. *)
LEMMA HandoffStep ==
  ASSUME TypeOK, TagInv, LineInv, HandoffInv, MutualExclusion, NEW p \in Procs, ProcStep(p)
  PROVE  HandoffInv'
<1> DEFINE Q == ptr[p].q
<1>0. Push(p) \/ Pop(p) \/ Remove(p) => Q \in Queues /\ contents[Q] \in Seq(Procs)
  BY WordFacts DEF Push, Pop, Remove, TypeOK, TagInv, TagHeld, IsQueue
<1>1. CASE Push(p)
  <2>1. /\ \A r \in Procs : HandingOff(r)' => HandingOff(r) /\ node'[r] = node[r]
        /\ \A r \in Procs : Parked(r) /\ value[r] # "signaled" => Parked(r)' /\ value'[r] # "signaled"
    BY <1>1, HandoffKept, ParkedStays DEF Push, Pop, Remove, StoreSignal
  <2>2. \A r \in Procs : \A q \in Queues : InQueue(r, q)' => InQueue(r, q) \/ r = p
    BY <1>0, <1>1, SMT DEF Push, InQueue, TypeOK
  <2>3. ~Parked(p)
    BY <1>1 DEF Push, Parked
  <2>4. HandoffInv
    OBVIOUS
  <2> QED  BY ONLY <2>1, <2>2, <2>3, <2>4 DEF HandoffInv
<1>2. CASE Pop(p)
  <2>1. \A r \in Procs : HandingOff(r)' => r = p
    BY <1>2, OnlyOwnPC DEF Pop, MutualExclusion, Owns, HandingOff
  <2>2. CASE contents[Q] = <<>>
    BY <1>2, <2>1, <2>2 DEF Pop, HandoffInv, HandingOff, Goto, TypeOK
  <2>3. CASE contents[Q] # <<>>
    <3>1. /\ contents' = [contents EXCEPT ![Q] = Tail(contents[Q])]
          /\ node'[p] = contents[Q][1]
          /\ 1 \in 1 .. Len(contents[Q])
          /\ node'[p] \in Procs
      BY <1>0, <1>2, <2>3, SMT DEF Pop, TypeOK
    <3>2. Parked(node'[p]) /\ value[node'[p]] # "signaled"
      BY <1>0, <1>2, <3>1, SMT DEF LineInv
    <3>3. Parked(node[p])' /\ value'[node'[p]] # "signaled"
      <4>1. value' = value /\ \A r \in Procs \ {p} : pc'[r] = pc[r]
        BY <1>2, OnlyOwnPC DEF Pop
      <4>2. pc[p] = "pop"
        BY <1>2 DEF Pop
      <4> QED  BY <3>1, <3>2, <4>1, <4>2 DEF Parked
    <3>4. \A q \in Queues : \A i \in 1 .. Len(contents'[q]) : contents'[q][i] # node'[p]
      <4>1. /\ contents'[Q] = Tail(contents[Q])
            /\ \A q \in Queues \ {Q} : contents'[q] = contents[q]
        BY <1>0, <1>2, <3>1 DEF TypeOK
      <4>2. \A i \in 1 .. Len(contents'[Q]) :
               i + 1 \in 1 .. Len(contents[Q]) /\ i + 1 # 1 /\ contents'[Q][i] = contents[Q][i + 1]
        BY <1>0, <1>2, <2>3, <4>1, SMT
      <4>3. \A i \in 1 .. Len(contents'[Q]) : contents'[Q][i] # node'[p]
        BY <1>0, <1>2, <3>1, <4>2, SMT DEF LineInv
      <4>4. \A q \in Queues \ {Q} : \A i \in 1 .. Len(contents[q]) : contents[q][i] # node'[p]
        BY <1>0, <1>2, <3>1, SMT DEF LineInv
      <4> QED  BY <4>1, <4>3, <4>4
    <3> QED  BY <2>1, <3>1, <3>3, <3>4 DEF HandoffInv, InQueue
  <2> QED  BY <2>2, <2>3
<1>3. CASE Remove(p)
  <2>1. \A r \in Procs : HandingOff(r)' => HandingOff(r) /\ node'[r] = node[r]
    BY <1>3, HandoffKept DEF Remove, Pop
  <2>2. value' = value /\ \A r \in Procs \ {p} : pc'[r] = pc[r]
    BY <1>3, OnlyOwnPC DEF Remove
  <2>3. \A r \in Procs : \A q \in Queues : InQueue(r, q)' => InQueue(r, q)
    <3>1. CASE contents' = contents
      BY <3>1 DEF InQueue
    <3>2. CASE \E i \in 1 .. Len(contents[Q]) :
                  contents' = [contents EXCEPT ![Q] = RemoveNode(contents[Q], i)]
      <4>1. PICK i \in 1 .. Len(contents[Q]) :
                  contents' = [contents EXCEPT ![Q] = RemoveNode(contents[Q], i)]
        BY <3>2
      <4>2. /\ contents'[Q] = RemoveNode(contents[Q], i)
            /\ \A q \in Queues \ {Q} : contents'[q] = contents[q]
        BY <1>0, <1>3, <4>1 DEF TypeOK
      <4>3. \A j \in 1 .. Len(contents'[Q]) :
               \E k \in 1 .. Len(contents[Q]) : contents'[Q][j] = contents[Q][k]
        BY <1>0, <1>3, <4>2, RemoveNodeMembers, SMT
      <4>4. \A q \in Queues : \A j \in 1 .. Len(contents'[q]) :
               \E k \in 1 .. Len(contents[q]) : contents'[q][j] = contents[q][k]
        BY <4>2, <4>3
      <4> QED  BY <4>4, SMT DEF InQueue
    <3> QED  BY <1>3, <3>1, <3>2 DEF Remove
  <2>4. Parked(p)' \/ InQueue(p, Q)
    BY <1>3 DEF Remove, Parked, Goto, InQueue, TypeOK
  <2>5. \A r \in Procs : HandingOff(r)' => Parked(node[r])'
    <3> SUFFICES ASSUME NEW r \in Procs, HandingOff(r)'
                 PROVE  \/ pc'[node[r]] = pc[node[r]] /\ Parked(node[r])
                        \/ node[r] = p /\ Parked(p)'
      BY <2>1 DEF Parked
    <3>1. node[r] \in Procs /\ Parked(node[r]) /\ ~InQueue(node[r], Q)
      BY <1>0, <1>3, <2>1 DEF HandoffInv
    <3>2. CASE node[r] = p
      BY <2>4, <3>1, <3>2
    <3>3. CASE node[r] # p
      BY <2>2, <3>1, <3>3
    <3> QED  BY <3>2, <3>3
  <2> QED  BY <2>1, <2>2, <2>3, <2>5 DEF HandoffInv
<1>4. CASE StoreSignal(p)
  <2>1. \A r \in Procs : ~HandingOff(r)'
    BY <1>4, OnlyOwnPC, SMT DEF StoreSignal, MutualExclusion, Owns, HandingOff, Goto, TypeOK
  <2> QED  BY <2>1 DEF HandoffInv
<1>5. CASE ~(Push(p) \/ Pop(p) \/ Remove(p) \/ StoreSignal(p))
  <2>1. /\ contents' = contents
        /\ \A r \in Procs : HandingOff(r)' => HandingOff(r) /\ node'[r] = node[r]
        /\ \A r \in Procs : Parked(r) /\ value[r] # "signaled" => Parked(r)' /\ value'[r] # "signaled"
    <3>1. contents' = contents
      BY <1>5, QueueChanges
    <3>2. \A r \in Procs : HandingOff(r)' => HandingOff(r) /\ node'[r] = node[r]
      BY ONLY <1>5, TypeOK, p \in Procs, ProcStep(p), HandoffKept
    <3>3. \A r \in Procs : Parked(r) /\ value[r] # "signaled" => Parked(r)' /\ value'[r] # "signaled"
      BY ONLY <1>5, TypeOK, p \in Procs, ProcStep(p), ParkedStays
    <3> QED  BY <3>1, <3>2, <3>3
  <2>2. ASSUME NEW r \in Procs, HandingOff(r)'
        PROVE  /\ node'[r] \in Procs /\ Parked(node[r])' /\ value'[node'[r]] # "signaled"
               /\ \A q \in Queues : ~InQueue(node[r], q)'
    <3>1. /\ node'[r] = node[r] /\ node[r] \in Procs
          /\ Parked(node[r]) /\ value[node[r]] # "signaled"
          /\ \A q \in Queues : ~InQueue(node[r], q)
      BY <2>1, <2>2 DEF HandoffInv
    <3>2. pc'[node[r]] \in {"publish", "publishFirst", "spin", "swap", "park", "check", "pending",
                            "rearm", "reload", "leave", "leaveTag", "remove", "missed", "await"}
          /\ value'[node[r]] # "signaled"
      BY <2>1, <3>1 DEF Parked
    <3>3. Parked(node[r])' /\ value'[node'[r]] # "signaled"
      BY <3>1, <3>2 DEF Parked
    <3>4. \A q \in Queues : ~InQueue(node[r], q)'
      BY <2>1, <3>1 DEF InQueue
    <3> QED  BY <3>1, <3>3, <3>4
  <2> QED  BY <2>2 DEF HandoffInv
<1> QED  BY <1>1, <1>2, <1>3, <1>4, <1>5

(* Ownership changes hands only in these seven steps. *)
LEMMA OwnerKept ==
  ASSUME TypeOK, SignalInv, NEW p \in Procs, ProcStep(p),
         ~Lock(p), ~PollFirst(p), ~RetryLock(p), ~Remove(p), ~StoreSignal(p), ~Unlock(p), ~Release(p)
  PROVE  \A r \in Procs : Owns(r)' <=> Owns(r)
<1> USE DEF Goto, TypeOK, SignalInv, Owns, HandingOff, Parked
<1>1. CASE Lock(p) \/ PollFirst(p) \/ ParkReturn(p) \/ Poll(p) \/ DropRequest(p)
  BY <1>1, SMT DEF ParkReturn, Poll, DropRequest
<1>2. CASE Acquiring(p)
  BY <1>2, SMT DEF Acquiring, Branch, AllocateQueue, Push, Publish
<1>3. CASE Waiting(p)
  BY <1>3, SMT DEF Waiting, Spin, Swap, CheckSignal, Rearm, Reload
<1>4. CASE Leaving(p)
  BY <1>4, SMT DEF Leaving, Leave, LeaveTag, LeaveUntag, AwaitSignal
<1>5. CASE Releasing(p)
  BY <1>5, SMT DEF Releasing, UnlockTag, Pop, Untag, TakeWaker, Wake, DeallocateQueue
<1> QED  BY <1>1, <1>2, <1>3, <1>4, <1>5 DEF ProcStep

(* The word becomes or stops being UNLOCKED only by acquiring and releasing. *)
LEMMA LockStateKept ==
  ASSUME TypeOK, TagInv, NEW p \in Procs, ProcStep(p),
         ~Lock(p), ~PollFirst(p), ~RetryLock(p), ~Unlock(p), ~Release(p)
  PROVE  word' = UNLOCKED <=> word = UNLOCKED
<1>1. CASE Lock(p) \/ PollFirst(p) \/ ParkReturn(p) \/ Poll(p) \/ DropRequest(p)
  <2>1. word' = word
    BY <1>1 DEF ParkReturn, Poll, DropRequest
  <2> QED  BY <2>1
<1>2. CASE Acquiring(p)
  <2>1. CASE AllocateQueue(p) \/ Push(p)
    BY <2>1 DEF AllocateQueue, Push
  <2>2. CASE Branch(p)
    BY <2>2, WordDistinct DEF Branch, TypeOK
  <2>3. CASE Publish(p)
    BY <2>3, WordDistinct DEF Publish, TypeOK, TagInv, TagHeld
  <2> QED  BY <1>2, <2>1, <2>2, <2>3 DEF Acquiring
<1>3. CASE Waiting(p)
  <2>1. word' = word
    BY <1>3 DEF Waiting, Spin, Swap, CheckSignal, Rearm, Reload
  <2> QED  BY <2>1
<1>4. CASE Leaving(p)
  <2>1. CASE Leave(p) \/ Remove(p) \/ AwaitSignal(p)
    BY <2>1 DEF Leave, Remove, AwaitSignal
  <2>2. CASE LeaveTag(p)
    BY <2>2, WordDistinct DEF LeaveTag, TypeOK, TagInv, TagHeld
  <2>3. CASE LeaveUntag(p)
    BY <2>3, WordDistinct DEF LeaveUntag, TypeOK, TagInv, TagHeld
  <2> QED  BY <1>4, <2>1, <2>2, <2>3 DEF Leaving
<1>5. CASE Releasing(p)
  <2>1. CASE Pop(p) \/ TakeWaker(p) \/ StoreSignal(p) \/ Wake(p) \/ DeallocateQueue(p)
    BY <2>1 DEF Pop, TakeWaker, StoreSignal, Wake, DeallocateQueue
  <2>2. CASE UnlockTag(p)
    BY <2>2, WordDistinct DEF UnlockTag, TypeOK
  <2>3. CASE Untag(p)
    BY <2>3, WordDistinct DEF Untag, TypeOK, TagInv, TagHeld
  <2> QED  BY <1>5, <2>1, <2>2, <2>3 DEF Releasing
<1> QED  BY ONLY ProcStep(p), <1>1, <1>2, <1>3, <1>4, <1>5 DEF ProcStep

(* Leaving the line changes no owner: a signal is not in the queue any more. *)
LEMMA RemoveOwner ==
  ASSUME TypeOK, TagInv, LineInv, NEW p \in Procs, Remove(p)
  PROVE  \A r \in Procs : Owns(r)' <=> Owns(r)
<1>0. \A r \in Procs \ {p} : pc'[r] = pc[r]
  BY DEF Remove, Goto, TypeOK
<1>1. Owns(p)' <=> Owns(p)
  <2>1. CASE pc'[p] = "missed"
    BY <2>1 DEF Remove, Owns, HandingOff, Parked
  <2>2. CASE pc'[p] # "missed"
    <3>1. ptr[p].q \in Queues /\ InQueue(p, ptr[p].q) /\ pc'[p] = "removed"
      BY <2>2, WordFacts DEF Remove, InQueue, TagInv, TagHeld, IsQueue, TypeOK, Goto
    <3>2. value[p] # "signaled"
      BY <3>1, SMT DEF InQueue, LineInv
    <3> QED  BY <3>1, <3>2 DEF Remove, Owns, HandingOff, Parked
  <2> QED  BY <2>1, <2>2
<1> QED  BY <1>0, <1>1 DEF Remove, Owns, HandingOff, Parked

(* One owner at a time, and UNLOCKED exactly when there is none. *)
LEMMA MutexStep ==
  ASSUME TypeOK, TagInv, LineInv, HandoffInv, SignalInv, MutualExclusion,
         NEW p \in Procs, ProcStep(p)
  PROVE  MutualExclusion'
<1>0. \A r \in Procs \ {p} : pc'[r] = pc[r]
  BY OnlyOwnPC
<1>1. CASE Lock(p) \/ PollFirst(p) \/ RetryLock(p)
  <2>1. CASE word = UNLOCKED
    <3>1. word' = LOCKED /\ pc'[p] = "held" /\ \A r \in Procs \ {p} : value'[r] = value[r]
      BY <1>1, <2>1 DEF Lock, PollFirst, RetryLock, Goto, TypeOK
    <3>2. \A r \in Procs : Owns(r)' <=> r = p
      BY <1>0, <2>1, <3>1 DEF MutualExclusion, Owns, HandingOff, Parked
    <3> QED  BY <3>1, <3>2, WordDistinct DEF MutualExclusion
  <2>2. CASE word # UNLOCKED
    <3>1. /\ word' = word
          /\ pc[p] \in {"idle", "lock"} /\ pc'[p] \in {"lock", "branch"}
          /\ \A r \in Procs \ {p} : value'[r] = value[r]
      BY <1>1, <2>2 DEF Lock, PollFirst, RetryLock, Goto, TypeOK
    <3>2. \A r \in Procs : Owns(r)' <=> Owns(r)
      BY <1>0, <3>1 DEF Owns, HandingOff, Parked
    <3> QED  BY <3>1, <3>2 DEF MutualExclusion
  <2> QED  BY <2>1, <2>2
<1>2. CASE Unlock(p) \/ Release(p)
  <2>1. CASE word' = UNLOCKED
    <3>0. Owns(p) /\ word # UNLOCKED
      BY <1>2 DEF Unlock, Release, Owns, MutualExclusion
    <3>1. /\ pc'[p] \in {"idle", "dealloc"}
          /\ \A r \in Procs \ {p} : value'[r] = value[r]
      BY <1>2, <2>1, <3>0 DEF Unlock, Release, Goto, TypeOK
    <3>2. \A r \in Procs : ~Owns(r)'
      BY <1>0, <3>0, <3>1 DEF MutualExclusion, Owns, HandingOff, Parked
    <3> QED  BY <2>1, <3>2 DEF MutualExclusion
  <2>2. CASE word' # UNLOCKED
    <3>1. /\ word # UNLOCKED /\ pc[p] = "held" /\ pc'[p] = "unlock"
          /\ \A r \in Procs \ {p} : value'[r] = value[r]
      BY <1>2, <2>2, WordDistinct DEF Unlock, Release, Goto, TypeOK
    <3>2. \A r \in Procs : Owns(r)' <=> Owns(r)
      BY <1>0, <3>1 DEF Owns, HandingOff, Parked
    <3> QED  BY <2>2, <3>1, <3>2 DEF MutualExclusion
  <2> QED  BY <2>1, <2>2
<1>3. CASE Remove(p)
  BY <1>3, RemoveOwner, LockStateKept DEF Remove, MutualExclusion
<1>4. CASE StoreSignal(p)
  <2>1. /\ HandingOff(p) /\ Owns(p) /\ pc'[p] \in {"wake", "idle"}
        /\ value' = [value EXCEPT ![node[p]] = "signaled"] /\ word' = word
    BY <1>4 DEF StoreSignal, HandingOff, Owns, Goto, TypeOK
  <2>2. node[p] \in Procs /\ Parked(node[p]) /\ node[p] # p
    BY <2>1 DEF HandoffInv, HandingOff, Parked
  <2>3. \A r \in Procs : Owns(r)' <=> r = node[p]
    BY <1>0, <2>1, <2>2, SMT DEF MutualExclusion, Owns, HandingOff, Parked, TypeOK
  <2> QED  BY <2>1, <2>2, <2>3 DEF MutualExclusion
<1>5. CASE ~(\/ Lock(p) \/ PollFirst(p) \/ RetryLock(p) \/ Unlock(p) \/ Release(p)
             \/ Remove(p) \/ StoreSignal(p))
  BY <1>5, OwnerKept, LockStateKept DEF MutualExclusion
<1> QED  BY <1>1, <1>2, <1>3, <1>4, <1>5

-----------------------------------------------------------------------------
(* Nobody sleeps through the handoff.                                      *)

(* The waker of p is in the hands of a signaler. *)
Taken(p) == \E r \in Procs : pc[r] \in {"signal", "signalWake"} /\ node[r] = p

(* p sleeps, or is about to without looking at its Signal again. *)
Asleep(p) == pc[p] \in {"park", "pending", "rearm"}

WakeComing(p) == awake[p] = TRUE \/ \E r \in Procs : pc[r] = "wake" /\ node[r] = p

(* What p knows of its own Signal: who has not announced itself is a thread. *)
OwnSignal(p) ==
    /\ pc[p] \in {"lock", "branch", "alloc", "push"} =>
          slot[p] = TRUE /\ value[p] = IF p \in Tasks THEN "waiting" ELSE "uninit"
    /\ pc[p] \in {"idle", "unlock", "pop", "release", "dealloc", "wake"} \/ HandingOff(p) =>
          value[p] = "uninit"
    /\ pc[p] \in {"publishFirst", "spin", "swap", "park", "check"} => p \in Threads
    /\ pc[p] \in {"pending", "rearm", "reload", "leave", "leaveTag", "remove", "missed", "await"} =>
          p \in Tasks
    /\ Parked(p) /\ p \in Tasks => value[p] \in {"waiting", "signaled"}
    /\ pc[p] \in {"park", "check"} => value[p] \in {"waiting", "signaled"}
    /\ pc[p] \in {"publish", "publishFirst"} => value[p] # "signaled"

(* What becomes of it: its waker is armed until a signaler takes it, and    *)
(* the signaler, who always finds it armed, wakes whom it has signaled.     *)
SleepOf(p) ==
    /\ Parked(p) /\ value[p] # "signaled" => slot[p] = TRUE \/ Taken(p)
    /\ Asleep(p) /\ value[p] = "signaled" => WakeComing(p)
    /\ pc[p] # "signal"
    /\ HandingOff(p) => pc[node[p]] \notin {"publish", "publishFirst"}

SleepInv == \A p \in Procs : OwnSignal(p) /\ SleepOf(p)

(* Steps that neither take a waker nor store a signal nor wake anybody. *)
SignalerStep(p) == TakeWaker(p) \/ StoreSignal(p) \/ Wake(p)

(* They touch only their own process's Signal. *)
LEMMA QuietFacts ==
  ASSUME TypeOK, NEW p \in Procs, ProcStep(p), ~SignalerStep(p)
  PROVE  /\ \A r \in Procs \ {p} : /\ pc'[r] = pc[r] /\ value'[r] = value[r] /\ slot'[r] = slot[r]
                                   /\ awake'[r] = awake[r] /\ node'[r] = node[r]
         /\ pc[p] \notin {"take", "signal", "signalWake", "wake"}
         /\ pc'[p] \in {"publish", "publishFirst"} => pc[p] = "push"
<1>1. \A r \in Procs \ {p} : pc'[r] = pc[r]
  BY OnlyOwnPC
<1> USE DEF TypeOK, Goto
<1>2. CASE Lock(p) \/ PollFirst(p) \/ ParkReturn(p) \/ Poll(p) \/ DropRequest(p)
  BY <1>1, <1>2 DEF Lock, PollFirst, ParkReturn, Poll, DropRequest
<1>3. CASE Acquiring(p)
  BY <1>1, <1>3 DEF Acquiring, RetryLock, Branch, AllocateQueue, Push, Publish
<1>4. CASE Waiting(p)
  BY <1>1, <1>4 DEF Waiting, Spin, Swap, CheckSignal, Rearm, Reload
<1>5. CASE Leaving(p)
  BY <1>1, <1>5 DEF Leaving, Leave, LeaveTag, Remove, LeaveUntag, AwaitSignal
<1>6. CASE Releasing(p)
  BY <1>1, <1>6 DEF Releasing, SignalerStep, Unlock, UnlockTag, Pop, Untag, Release, DeallocateQueue
<1> QED  BY <1>2, <1>3, <1>4, <1>5, <1>6 DEF ProcStep

(* They leave it in order, and put nobody to sleep who has been signaled. *)
LEMMA QuietOwn ==
  ASSUME TypeOK, SleepInv, NEW p \in Procs, ProcStep(p), ~SignalerStep(p)
  PROVE  /\ OwnSignal(p)' /\ pc'[p] # "signal"
         /\ Parked(p)' /\ value'[p] # "signaled" =>
               slot'[p] = TRUE \/ (Parked(p) /\ value[p] # "signaled" /\ slot'[p] = slot[p])
         /\ Asleep(p)' /\ value'[p] = "signaled" =>
               Asleep(p) /\ value[p] = "signaled" /\ awake'[p] = awake[p]
<1> DEFINE Goal == /\ OwnSignal(p)' /\ pc'[p] # "signal"
                   /\ Parked(p)' /\ value'[p] # "signaled" =>
                         slot'[p] = TRUE \/ (Parked(p) /\ value[p] # "signaled" /\ slot'[p] = slot[p])
                   /\ Asleep(p)' /\ value'[p] = "signaled" =>
                         Asleep(p) /\ value[p] = "signaled" /\ awake'[p] = awake[p]
<1>p. p \in Threads \/ p \in Tasks
  BY DEF Procs
<1>d. ~(p \in Threads /\ p \in Tasks)
  BY ProcAssumption
<1>s. OwnSignal(p)
  BY DEF SleepInv
<1> USE DEF Goto, TypeOK
<1>1. CASE Lock(p) \/ PollFirst(p)
  <2>1. /\ value[p] = "uninit" /\ pc'[p] \in {"held", "lock", "branch"}
        /\ pc'[p] \in {"lock", "branch"} => slot'[p] = TRUE /\ value'[p] = IF p \in Tasks THEN "waiting" ELSE "uninit"
    BY <1>1, <1>s, <1>d DEF Lock, PollFirst, OwnSignal
  <2> QED  BY <2>1 DEF OwnSignal, Parked, Asleep, HandingOff
<1>2. CASE RetryLock(p) \/ Branch(p) \/ AllocateQueue(p)
  <2>1. /\ pc[p] \in {"lock", "branch", "alloc"} /\ pc'[p] \in {"held", "lock", "branch", "alloc", "push"}
        /\ slot'[p] = slot[p]
        /\ pc'[p] # "held" => value'[p] = value[p]
    BY <1>2 DEF RetryLock, Branch, AllocateQueue
  <2> QED  BY <1>s, <2>1 DEF OwnSignal, Parked, Asleep, HandingOff
<1>3. CASE Push(p)
  <2>1. /\ pc[p] = "push" /\ pc'[p] \in {"publish", "publishFirst"} /\ slot'[p] = slot[p] /\ value'[p] = value[p]
        /\ pc'[p] = "publishFirst" => p \in Threads
    BY <1>3 DEF Push
  <2> QED  BY <1>s, <1>p, <1>d, <2>1 DEF OwnSignal, Parked, Asleep, HandingOff
<1>4. CASE Publish(p)
  <2>1. /\ pc[p] \in {"publish", "publishFirst"} /\ slot'[p] = slot[p] /\ value'[p] = value[p]
        /\ pc'[p] \in {"pending", "spin", "swap"}
        /\ pc'[p] = "pending" <=> p \in Tasks
    BY <1>4 DEF Publish
  <2> QED  BY <1>s, <1>p, <1>d, <2>1 DEF OwnSignal, Parked, Asleep, HandingOff
<1>5. CASE Spin(p) \/ Swap(p) \/ ParkReturn(p) \/ CheckSignal(p)
  <2>1. /\ pc[p] \in {"spin", "swap", "park", "check"} /\ pc'[p] \in {"held", "swap", "park", "check"}
        /\ slot'[p] = slot[p]
        /\ pc'[p] = "park" => value[p] # "signaled" /\ value'[p] \in {"waiting", value[p]}
        /\ value'[p] = value[p] \/ (value'[p] = "waiting" /\ pc'[p] \in {"held", "park"})
        /\ pc[p] = "swap" => value'[p] = "waiting"
        /\ pc'[p] = "check" => pc[p] = "park"
        /\ pc[p] = "spin" => pc'[p] # "park"
        /\ pc'[p] \in {"check", "swap"} => value'[p] = value[p]
    BY <1>5 DEF Spin, Swap, ParkReturn, CheckSignal
  <2>2. p \in Threads /\ Parked(p) /\ (pc[p] = "park" => value[p] \in {"waiting", "signaled"})
    BY <1>s, <2>1 DEF OwnSignal, Parked
  <2>3. pc[p] = "check" => value[p] \in {"waiting", "signaled"}
    BY <1>s DEF OwnSignal
  <2>4. OwnSignal(p)' /\ pc'[p] # "signal"
    BY <1>d, <2>1, <2>2, <2>3 DEF OwnSignal, Parked, HandingOff
  <2>5. Asleep(p)' => value'[p] # "signaled"
    BY <2>1 DEF Asleep
  <2>6. Parked(p)' => value[p] # "signaled" \/ value'[p] = "signaled"
    BY <2>1 DEF Parked
  <2> QED  BY <2>1, <2>2, <2>4, <2>5, <2>6
<1>6. CASE Poll(p) \/ Rearm(p) \/ Reload(p) \/ DropRequest(p)
  <2>1. /\ pc[p] \in {"pending", "rearm", "reload"} /\ pc'[p] \in {"held", "pending", "rearm", "reload", "leave"}
        /\ slot'[p] = slot[p] \/ slot'[p] = TRUE
        /\ pc'[p] # "held" => value'[p] = value[p]
        /\ pc'[p] \in {"rearm", "leave"} => value[p] # "signaled"
        /\ pc'[p] = "pending" => (pc[p] = "rearm" /\ awake'[p] = awake[p]) \/ value[p] # "signaled"
    BY <1>6 DEF Poll, Rearm, Reload, DropRequest
  <2> QED  BY <1>s, <1>p, <1>d, <2>1 DEF OwnSignal, Parked, Asleep, HandingOff
<1>7. CASE Leaving(p)
  <2>1. /\ pc[p] \in {"leave", "leaveTag", "remove", "removed", "missed", "await"}
        /\ pc'[p] \in {"leave", "leaveTag", "remove", "removed", "missed", "await", "idle", "held"}
        /\ pc'[p] # "idle" => value'[p] = value[p] /\ slot'[p] = slot[p]
        /\ pc'[p] = "idle" => value'[p] = "uninit"
        /\ pc[p] = "removed" => pc'[p] = "idle"
    BY <1>7 DEF Leaving, Leave, LeaveTag, Remove, LeaveUntag, AwaitSignal
  <2> QED  BY <1>s, <1>p, <1>d, <2>1 DEF OwnSignal, Parked, Asleep, HandingOff
<1>8. CASE Releasing(p)
  <2>1. /\ pc[p] \in {"held", "unlock", "pop", "untag", "release", "dealloc"}
        /\ pc'[p] \in {"idle", "unlock", "pop", "untag", "take", "release", "dealloc"}
        /\ value'[p] = value[p] \/ value'[p] = "uninit"
        /\ pc[p] = "held" => value'[p] = "uninit"
    BY <1>8 DEF Releasing, SignalerStep, Unlock, UnlockTag, Pop, Untag, Release, DeallocateQueue
  <2> QED  BY <1>s, <2>1 DEF OwnSignal, Parked, Asleep, HandingOff
<1> QED  BY <1>1, <1>2, <1>3, <1>4, <1>5, <1>6, <1>7, <1>8 DEF ProcStep, Acquiring, Waiting


(* A popped node is not its popper, and nobody else is handing over. *)
LEMMA HandoffFacts ==
  ASSUME IInv, NEW p \in Procs, HandingOff(p)
  PROVE  /\ node[p] \in Procs /\ Parked(node[p]) /\ value[node[p]] # "signaled" /\ node[p] # p
         /\ \A r \in Procs : HandingOff(r) => r = p
<1>1. node[p] \in Procs /\ Parked(node[p]) /\ value[node[p]] # "signaled"
  BY DEF IInv, HandoffInv
<1>2. ~Parked(p)
  BY DEF HandingOff, Parked
<1>3. \A r \in Procs : HandingOff(r) => r = p
  BY DEF IInv, MutualExclusion, Owns
<1> QED  BY <1>1, <1>2, <1>3

(* Quiet steps keep the invariant. *)
LEMMA QuietSleep ==
  ASSUME IInv, SleepInv, NEW p \in Procs, ProcStep(p), ~SignalerStep(p)
  PROVE  SleepInv'
<1>t. TypeOK
  BY DEF IInv
<1>f. /\ \A r \in Procs \ {p} : /\ pc'[r] = pc[r] /\ value'[r] = value[r] /\ slot'[r] = slot[r]
                                /\ awake'[r] = awake[r] /\ node'[r] = node[r]
      /\ pc[p] \notin {"take", "signal", "signalWake", "wake"}
      /\ pc'[p] \in {"publish", "publishFirst"} => pc[p] = "push"
  BY <1>t, QuietFacts
<1>o. /\ OwnSignal(p)' /\ pc'[p] # "signal"
      /\ Parked(p)' /\ value'[p] # "signaled" =>
            slot'[p] = TRUE \/ (Parked(p) /\ value[p] # "signaled" /\ slot'[p] = slot[p])
      /\ Asleep(p)' /\ value'[p] = "signaled" =>
            Asleep(p) /\ value[p] = "signaled" /\ awake'[p] = awake[p]
  BY <1>t, QuietOwn
<1>1. \A q : Taken(q) => Taken(q)'
  BY <1>f DEF Taken
<1>2. \A q : (\E r \in Procs : pc[r] = "wake" /\ node[r] = q) => \E r \in Procs : pc'[r] = "wake" /\ node'[r] = q
  BY <1>f
<1>3. ASSUME NEW q \in Procs, HandingOff(q)' PROVE pc'[node'[q]] \notin {"publish", "publishFirst"}
  <2>1. CASE Pop(p) /\ q = p
    <3>1. ptr[p].q \in Queues
      BY <2>1, WordFacts DEF Pop, IInv, TypeOK, TagInv, TagHeld, IsQueue
    <3>2. contents[ptr[p].q] # <<>> /\ node'[p] = Head(contents[ptr[p].q])
      BY <1>3, <1>t, <2>1 DEF Pop, TypeOK, Goto, HandingOff
    <3>3. contents[ptr[p].q] \in Seq(Procs)
      BY <1>t, <3>1 DEF TypeOK
    <3>4. 1 \in 1 .. Len(contents[ptr[p].q]) /\ node'[p] = contents[ptr[p].q][1] /\ node'[p] \in Procs
      BY <3>2, <3>3, SMT
    <3>5. Parked(node'[p])
      <4>1. Parked(contents[ptr[p].q][1])
        BY <3>1, <3>4 DEF IInv, LineInv
      <4> QED  BY <3>4, <4>1
    <3>6. node'[p] # p /\ HasQueue(p)
      BY <2>1, <3>5 DEF Pop, Parked, HasQueue
    <3>7. ~HasQueue(node'[p])
      BY <3>4, <3>6 DEF IInv, TagInv
    <3> QED  BY <1>f, <2>1, <3>4, <3>6, <3>7 DEF HasQueue
  <2>2. CASE ~(Pop(p) /\ q = p)
    <3>1. HandingOff(q) /\ node'[q] = node[q]
      <4>1. CASE Pop(p)
        BY <1>3, <1>f, <2>2, <4>1 DEF HandingOff
      <4>2. CASE ~Pop(p)
        BY <1>3, <1>t, <4>2, HandoffKept
      <4> QED  BY <4>1, <4>2
    <3>2. node[q] \in Procs /\ Parked(node[q])
      BY <3>1, HandoffFacts
    <3>3. pc[node[q]] \notin {"publish", "publishFirst"}
      BY <3>1 DEF SleepInv, SleepOf
    <3>4. pc'[node[q]] \notin {"publish", "publishFirst"}
      BY <1>f, <3>2, <3>3 DEF Parked
    <3> QED  BY <3>1, <3>4
  <2> QED  BY <2>1, <2>2
<1>4. ASSUME NEW q \in Procs, q # p PROVE OwnSignal(q)' /\ SleepOf(q)'
  <2>1. /\ pc'[q] = pc[q] /\ value'[q] = value[q] /\ slot'[q] = slot[q] /\ awake'[q] = awake[q]
        /\ OwnSignal(q) /\ SleepOf(q)
    BY <1>f, <1>4 DEF SleepInv
  <2>2. OwnSignal(q)'
    BY <2>1 DEF OwnSignal, Parked, HandingOff
  <2>3. Parked(q)' /\ value'[q] # "signaled" => slot'[q] = TRUE \/ Taken(q)'
    BY <1>1, <2>1 DEF SleepOf, Parked
  <2>4. Asleep(q)' /\ value'[q] = "signaled" => WakeComing(q)'
    BY <1>2, <2>1 DEF SleepOf, Asleep, WakeComing
  <2> QED  BY <1>3, <2>1, <2>2, <2>3, <2>4 DEF SleepOf
<1>5. SleepOf(p)'
  <2>1. SleepOf(p)
    BY DEF SleepInv
  <2>2. Parked(p)' /\ value'[p] # "signaled" => slot'[p] = TRUE \/ Taken(p)'
    BY <1>o, <1>1, <2>1 DEF SleepOf
  <2>3. Asleep(p)' /\ value'[p] = "signaled" => WakeComing(p)'
    BY <1>o, <1>2, <2>1 DEF SleepOf, WakeComing
  <2> QED  BY <1>o, <1>3, <2>2, <2>3 DEF SleepOf
<1> QED  BY <1>o, <1>4, <1>5 DEF SleepInv


(* So do the steps of a signaler. *)
LEMMA SignalerSleep ==
  ASSUME IInv, SleepInv, NEW p \in Procs, ProcStep(p), SignalerStep(p)
  PROVE  SleepInv'
<1>t. /\ value \in [Procs -> Signals] /\ slot \in [Procs -> BOOLEAN] /\ awake \in [Procs -> BOOLEAN]
      /\ pc \in [Procs -> PCs] /\ node \in [Procs -> Procs \cup {NoProc}] /\ TypeOK
  BY DEF IInv, TypeOK
<1>f. \A r \in Procs \ {p} : pc'[r] = pc[r]
  BY <1>t, OnlyOwnPC
<1>o. \A q \in Procs : OwnSignal(q) /\ SleepOf(q)
  BY DEF SleepInv
<1>1. CASE TakeWaker(p)
  <2>1. /\ pc[p] = "take" /\ HandingOff(p) /\ value' = value /\ awake' = awake /\ node' = node
        /\ slot' = [slot EXCEPT ![node[p]] = FALSE]
    BY <1>1 DEF TakeWaker, HandingOff
  <2>2. /\ node[p] \in Procs /\ Parked(node[p]) /\ value[node[p]] # "signaled" /\ node[p] # p
        /\ \A r \in Procs : HandingOff(r) => r = p
    BY <2>1, HandoffFacts
  <2>3. \A q : ~Taken(q)
    BY <2>1, <2>2 DEF Taken, HandingOff
  <2>4. slot[node[p]] = TRUE
    BY <1>o, <2>2, <2>3 DEF SleepOf
  <2>5. pc'[p] = "signalWake"
    BY <1>t, <1>1, <2>4 DEF TakeWaker, Goto
  <2>6. /\ \A q \in Procs : q # node[p] => slot'[q] = slot[q]
        /\ \A q \in Procs : q = node[p] => Taken(q)'
    BY <1>t, <2>1, <2>5 DEF Taken
  <2>7. ASSUME NEW q \in Procs PROVE OwnSignal(q)'
    <3>1. OwnSignal(q) /\ value'[q] = value[q]
      BY <1>o, <2>1
    <3>2. CASE q = p
      BY <2>1, <2>5, <3>1, <3>2 DEF OwnSignal, Parked, HandingOff
    <3>3. CASE q = node[p]
      BY <1>f, <2>2, <3>1, <3>3 DEF OwnSignal, Parked, HandingOff
    <3>4. CASE q # p /\ q # node[p]
      BY <1>f, <2>6, <3>1, <3>4 DEF OwnSignal, Parked, HandingOff
    <3> QED  BY <3>2, <3>3, <3>4
  <2>8. ASSUME NEW q \in Procs PROVE SleepOf(q)'
    <3>1. SleepOf(q) /\ value'[q] = value[q] /\ awake'[q] = awake[q] /\ node'[q] = node[q]
      BY <1>o, <2>1
    <3>2. Parked(q)' => Parked(q)
      BY <1>f, <2>5 DEF Parked
    <3>3. Parked(q)' /\ value'[q] # "signaled" => slot'[q] = TRUE \/ Taken(q)'
      BY <2>3, <2>6, <3>1, <3>2 DEF SleepOf
    <3>4. Asleep(q)' => Asleep(q)
      BY <1>f, <2>5 DEF Asleep
    <3>5. WakeComing(q) => WakeComing(q)'
      BY <1>f, <2>1 DEF WakeComing
    <3>6. pc'[q] # "signal"
      BY <1>f, <2>5, <3>1 DEF SleepOf
    <3>7. HandingOff(q)' => q = p
      BY <1>f, <2>2 DEF HandingOff
    <3>8. pc'[node[p]] \notin {"publish", "publishFirst"}
      BY <1>f, <1>o, <2>1, <2>2 DEF SleepOf
    <3> QED  BY <2>1, <3>1, <3>3, <3>4, <3>5, <3>6, <3>7, <3>8 DEF SleepOf
  <2> QED  BY <2>7, <2>8 DEF SleepInv
<1>2. CASE StoreSignal(p)
  <2>1. /\ pc[p] = "signalWake" /\ HandingOff(p) /\ awake' = awake /\ slot' = slot
        /\ value' = [value EXCEPT ![node[p]] = "signaled"]
    BY <1>2, <1>o DEF StoreSignal, HandingOff, SleepOf
  <2>2. /\ node[p] \in Procs /\ Parked(node[p]) /\ value[node[p]] # "signaled" /\ node[p] # p
        /\ \A r \in Procs : HandingOff(r) => r = p
    BY <2>1, HandoffFacts
  <2>3. /\ pc'[p] \in {"wake", "idle"} /\ value'[node[p]] = "signaled"
        /\ \A q \in Procs : q # node[p] => value'[q] = value[q] /\ ~Taken(q)
        /\ \A r \in Procs \ {p} : node'[r] = node[r]
    <3>1. pc'[p] \in {"wake", "idle"} /\ \A r \in Procs \ {p} : node'[r] = node[r]
      BY <1>t, <1>2 DEF StoreSignal, Goto
    <3>2. \A q \in Procs : q # node[p] => ~Taken(q)
      BY <2>2 DEF Taken, HandingOff
    <3>3. value'[node[p]] = "signaled" /\ \A q \in Procs : q # node[p] => value'[q] = value[q]
      BY <1>t, <2>1, <2>2
    <3> QED  BY <3>1, <3>2, <3>3
  <2>4. pc[node[p]] \notin {"publish", "publishFirst"}
    BY <1>o, <2>1 DEF SleepOf
  <2>5. Asleep(node[p]) => pc'[p] = "wake" /\ node'[p] = node[p]
    <3>1. Asleep(node[p]) /\ node[p] \in Threads => value[node[p]] = "waiting"
      BY <1>o, <2>2, ProcAssumption DEF OwnSignal, Asleep
    <3> QED  BY <1>t, <1>2, <2>1, <3>1 DEF StoreSignal, Goto
  <2>6. ASSUME NEW q \in Procs PROVE OwnSignal(q)'
    <3>1. OwnSignal(q) /\ slot'[q] = slot[q]
      BY <1>o, <2>1
    <3>2. CASE q = p
      BY <2>1, <2>2, <2>3, <3>1, <3>2 DEF OwnSignal, Parked, HandingOff
    <3>3. CASE q = node[p]
      BY <1>f, <2>2, <2>3, <2>4, <3>1, <3>3 DEF OwnSignal, Parked, HandingOff
    <3>4. CASE q # p /\ q # node[p]
      BY <1>f, <2>3, <3>1, <3>4 DEF OwnSignal, Parked, HandingOff
    <3> QED  BY <3>2, <3>3, <3>4
  <2>7. ASSUME NEW q \in Procs PROVE SleepOf(q)'
    <3>1. SleepOf(q) /\ slot'[q] = slot[q] /\ awake'[q] = awake[q]
      BY <1>o, <2>1
    <3>2. (Parked(q)' => Parked(q)) /\ (Asleep(q)' => Asleep(q)) /\ pc'[q] # "signal"
      BY <1>f, <2>3, <3>1 DEF Parked, Asleep, SleepOf
    <3>3. Parked(q)' /\ value'[q] # "signaled" => slot'[q] = TRUE \/ Taken(q)'
      BY <2>3, <3>1, <3>2 DEF SleepOf
    <3>4. WakeComing(q) => WakeComing(q)'
      BY <1>f, <2>1, <2>3 DEF WakeComing
    <3>5. Asleep(q)' /\ value'[q] = "signaled" => WakeComing(q)'
      <4>1. CASE q = node[p]
        BY <2>5, <3>2, <4>1 DEF WakeComing
      <4>2. CASE q # node[p]
        BY <2>3, <3>1, <3>2, <3>4, <4>2 DEF SleepOf
      <4> QED  BY <4>1, <4>2
    <3>6. ~HandingOff(q)'
      BY <1>f, <2>2, <2>3 DEF HandingOff
    <3> QED  BY <3>2, <3>3, <3>5, <3>6 DEF SleepOf
  <2> QED  BY <2>6, <2>7 DEF SleepInv
<1>3. CASE Wake(p)
  <2>1. /\ pc[p] = "wake" /\ pc'[p] = "idle" /\ value' = value /\ slot' = slot
        /\ awake' = [awake EXCEPT ![node[p]] = TRUE]
        /\ \A r \in Procs \ {p} : node'[r] = node[r]
    BY <1>t, <1>3 DEF Wake, Goto
  <2>2. \A q \in Procs : (awake[q] = TRUE => awake'[q] = TRUE) /\ (node[p] = q => awake'[q] = TRUE)
    BY <1>t, <2>1
  <2>3. ASSUME NEW q \in Procs PROVE OwnSignal(q)'
    BY <1>f, <1>o, <2>1 DEF OwnSignal, Parked, HandingOff
  <2>4. ASSUME NEW q \in Procs PROVE SleepOf(q)'
    <3>1. SleepOf(q) /\ slot'[q] = slot[q] /\ value'[q] = value[q]
      BY <1>o, <2>1
    <3>2. (Parked(q)' => Parked(q)) /\ (Asleep(q)' => Asleep(q)) /\ pc'[q] # "signal"
      BY <1>f, <2>1, <3>1 DEF Parked, Asleep, SleepOf
    <3>3. Taken(q) => Taken(q)'
      BY <1>f, <2>1 DEF Taken
    <3>4. WakeComing(q) => WakeComing(q)'
      BY <1>f, <2>1, <2>2 DEF WakeComing
    <3>5. HandingOff(q)' => pc'[node'[q]] \notin {"publish", "publishFirst"}
      <4>1. HandingOff(q)' => HandingOff(q) /\ node'[q] = node[q] /\ node[q] \in Procs
        BY <1>f, <2>1, HandoffFacts DEF HandingOff
      <4> QED  BY <1>f, <2>1, <3>1, <4>1 DEF SleepOf
    <3> QED  BY <3>1, <3>2, <3>3, <3>4, <3>5 DEF SleepOf
  <2> QED  BY <2>3, <2>4 DEF SleepInv
<1> QED  BY <1>1, <1>2, <1>3 DEF SignalerStep


(* The invariant holds initially. *)
LEMMA InitIInv == Init => IInv
<1> SUFFICES ASSUME Init PROVE IInv
  OBVIOUS
<1> USE DEF Init
<1>1. TypeOK
  BY WordFacts, SMT DEF TypeOK, PCs, Signals
<1>2. TagInv
  BY DEF TagInv, TagHeld, HasQueue
<1>3. LineInv
  BY SMT DEF LineInv
<1>4. HandoffInv /\ SignalInv
  BY DEF HandoffInv, SignalInv, HandingOff
<1>5. PoolInv
  BY QueueAssumption DEF PoolInv, UsesQueue, HasQueue, UNLOCKED
<1>6. MutualExclusion
  BY DEF MutualExclusion, Owns, HandingOff, Parked
<1> QED  BY <1>1, <1>2, <1>3, <1>4, <1>5, <1>6 DEF IInv

(* Stuttering changes nothing it speaks about. *)
LEMMA Frame == IInv /\ UNCHANGED vars => IInv'
<1> SUFFICES ASSUME IInv, UNCHANGED vars PROVE IInv'
  OBVIOUS
<1> USE DEF IInv, vars
<1>1. TypeOK' /\ TagInv'
  BY DEF TypeOK, TagInv, TagHeld, HasQueue
<1>2. LineInv'
  BY SMT DEF LineInv, Parked
<1>3. HandoffInv'
  BY DEF HandoffInv, HandingOff, Parked, InQueue
<1>4. SignalInv' /\ MutualExclusion'
  BY SMT DEF SignalInv, MutualExclusion, Owns, HandingOff, Parked
<1>5. PoolInv'
  BY DEF PoolInv, UsesQueue, HasQueue
<1> QED  BY <1>1, <1>2, <1>3, <1>4, <1>5

(* The inductive invariant holds in every reachable state of the mutex. *)
THEOREM Invariance == Spec => []IInv
<1>1. IInv /\ [Next]_vars => IInv'
  <2> SUFFICES ASSUME IInv, [Next]_vars  PROVE IInv'
    OBVIOUS
  <2>1. CASE Next
    <3>1. PICK p \in Procs : ProcStep(p)
      BY <2>1 DEF Next, ProcStep
    <3> QED  BY <3>1, TypeStep, TagStep, LineStep, HandoffStep, SignalStep, PoolStep, MutexStep
             DEF IInv
  <2>2. CASE UNCHANGED vars
    BY <2>2, Frame
  <2> QED  BY <2>1, <2>2
<1> QED  BY <1>1, InitIInv, PTL DEF Spec

(* Type correctness of the mutex, for any threads, tasks and queues. *)
THEOREM TypeCorrect == Spec => []TypeOK
  BY Invariance, PTL DEF IInv

(* Mutual exclusion and no leaked lock: at most one process owns the lock,   *)
(* whether through a guard, a guard being dropped or a handoff in flight to  *)
(* a parked or cancelled waiter, and the word is UNLOCKED iff nobody does.   *)
THEOREM MutualExclusionHolds == Spec => []MutualExclusion
  BY Invariance, PTL DEF IInv

(* No queued or popped Signal is freed: its owner is still parked on it. *)
THEOREM NodesAliveHolds == Spec => []NodesAlive
<1>1. IInv => NodesAlive
  BY DEF IInv, LineInv, HandoffInv, NodesAlive
<1> QED  BY <1>1, Invariance, PTL

(* Exclusive access to the queue, and a pooled queue is empty and unreachable. *)
THEOREM QueueExclusiveHolds == Spec => []QueueExclusive
<1>1. IInv => QueueExclusive
  BY DEF IInv, TagInv, PoolInv, UsesQueue, QueueExclusive
<1> QED  BY <1>1, Invariance, PTL
(* The word moves along its protocol. *)
LEMMA ProtocolStep ==
  ASSUME IInv, IInv', NEW p \in Procs, ProcStep(p), word' # word
  PROVE  /\ word = LOCKED => word' \in {UNLOCKED, UPDATING}
         /\ word = UPDATING => IsQueue(word')
         /\ IsQueue(word) => word' = Tagged(word.q)
         /\ word.st = "tagged" => word' \in {UNLOCKED, Ptr(word.q)}
         /\ word' = UNLOCKED => \E r \in Procs : Owns(r) /\ ~Owns(r)'
<1>t. TypeOK /\ TagInv /\ MutualExclusion /\ MutualExclusion'
  BY DEF IInv
<1>w. /\ UNLOCKED.st = "unlocked" /\ LOCKED.st = "locked" /\ UPDATING.st = "updating"
      /\ \A q : Ptr(q).st = "queue" /\ Ptr(q).q = q /\ Tagged(q).st = "tagged" /\ Tagged(q).q = q
  BY SMT DEF UNLOCKED, LOCKED, UPDATING, Ptr, Tagged
<1>1. \/ word = UNLOCKED /\ word' = LOCKED
      \/ word = LOCKED /\ word' = UPDATING
      \/ IsQueue(word) /\ word' = Tagged(word.q)
      \/ IsQueue(word') /\ (word = UPDATING \/ word = Tagged(word'.q))
      \/ word' = UNLOCKED /\ Owns(p) /\ (word = LOCKED \/ \E q : word = Tagged(q))
  <2>1. CASE Lock(p) \/ PollFirst(p) \/ RetryLock(p)
    BY <2>1 DEF Lock, PollFirst, RetryLock
  <2>2. CASE Branch(p) \/ LeaveTag(p) \/ UnlockTag(p)
    <3>1. pc[p] = "leaveTag" => IsQueue(ptr[p])
      BY <1>t DEF TagInv, TagHeld
    <3> QED  BY <2>2, <3>1 DEF Branch, LeaveTag, UnlockTag
  <2>3. CASE Publish(p) \/ LeaveUntag(p) \/ Untag(p)
    <3>1. IsQueue(ptr[p]) /\ word \in {UPDATING, Tagged(ptr[p].q)} /\ word' = ptr[p]
      BY <1>t, <2>3 DEF Publish, LeaveUntag, Untag, TagInv, TagHeld
    <3> QED  BY <3>1
  <2>4. CASE Unlock(p) \/ Release(p)
    <3>1. Owns(p) /\ word' = UNLOCKED /\ ((Unlock(p) /\ word = LOCKED) \/ pc[p] = "release")
      BY <2>4 DEF Unlock, Release, Owns
    <3>2. pc[p] = "release" => word = Tagged(ptr[p].q)
      BY <1>t DEF TagInv, TagHeld
    <3> QED  BY <3>1, <3>2
  <2> QED  BY <2>1, <2>2, <2>3, <2>4 DEF ProcStep, Acquiring, Waiting, Leaving, Releasing, ParkReturn,
                Poll, DropRequest, AllocateQueue, Push, Spin, Swap, CheckSignal, Rearm, Reload, Leave,
                Remove, AwaitSignal, Pop, TakeWaker, StoreSignal, Wake, DeallocateQueue
<1>2. IsQueue(word') => word' = Ptr(word'.q)
  BY WordFacts DEF IInv, TypeOK, IsQueue
<1>3. word' = UNLOCKED => \A r \in Procs : ~Owns(r)'
  BY <1>t DEF MutualExclusion
<1> QED  BY <1>w, <1>1, <1>2, <1>3 DEF IsQueue

(* The word keeps to the transitions that the comments of                   *)
(* MutexGuard::drop_slow rely on, and only the owner makes it UNLOCKED.     *)
THEOREM WordProtocolHolds == Spec => WordProtocol
<1>1. ASSUME IInv, IInv', [Next]_vars
      PROVE  [ /\ word = LOCKED => word' \in {UNLOCKED, UPDATING}
               /\ word = UPDATING => IsQueue(word')
               /\ IsQueue(word) => word' = Tagged(word.q)
               /\ word.st = "tagged" => word' \in {UNLOCKED, Ptr(word.q)}
               /\ word' = UNLOCKED => \E p \in Procs : Owns(p) /\ ~Owns(p)'
             ]_word
  <2>1. CASE UNCHANGED vars
    BY <2>1 DEF vars
  <2>2. CASE Next
    <3>1. PICK p \in Procs : ProcStep(p)
      BY <2>2 DEF Next, ProcStep
    <3> QED  BY <1>1, <3>1, ProtocolStep
  <2> QED  BY <1>1, <2>1, <2>2
<1> QED  BY <1>1, Invariance, PTL DEF Spec, WordProtocol

(* What keeps a waiter from sleeping through its handoff is inductive too:   *)
(* a Signal's waker is armed until its signaler has it, and whoever sleeps   *)
(* on a stored signal has its token coming.                                  *)
THEOREM SleepInvariance == Spec => []SleepInv
<1>1. ASSUME Init PROVE SleepInv
  BY <1>1 DEF Init, SleepInv, OwnSignal, SleepOf, Parked, Asleep, HandingOff
<1>2. ASSUME IInv, SleepInv, [Next]_vars PROVE SleepInv'
  <2>1. CASE UNCHANGED vars
    <3>1. \A q \in Procs : (Taken(q)' <=> Taken(q)) /\ (WakeComing(q)' <=> WakeComing(q))
      BY <2>1 DEF vars, Taken, WakeComing
    <3> QED  BY <1>2, <2>1, <3>1 DEF vars, SleepInv, OwnSignal, SleepOf, Parked, Asleep, HandingOff
  <2>2. CASE Next
    <3>1. PICK p \in Procs : ProcStep(p)
      BY <2>2 DEF Next, ProcStep
    <3> QED  BY <1>2, <3>1, QuietSleep, SignalerSleep
  <2> QED  BY <1>2, <2>1, <2>2
<1> QED  BY <1>1, <1>2, Invariance, PTL DEF Spec

(* A waiter that has been handed the lock and sleeps will be woken: the      *)
(* take-store-wake order of signal_node against lock_slow's swap and rearm. *)
THEOREM NoLostWakeupHolds == Spec => []NoLostWakeup
<1>1. SleepInv => NoLostWakeup
  BY DEF SleepInv, SleepOf, Asleep, WakeComing, NoLostWakeup
<1> QED  BY <1>1, SleepInvariance, PTL
-----------------------------------------------------------------------------
(* The mutex implements FifoLock.                                          *)

(* Whoever waits is in the queue the word shows, or in the one its allocator *)
(* is about to publish.                                                      *)
OneLine ==
    \A q \in Queues : contents[q] # <<>> =>
        \/ word.q = q
        \/ word = UPDATING /\ \E p \in Procs : pc[p] \in {"publish", "publishFirst"} /\ ptr[p].q = q

(* No process is at these words' queue, for there is none. *)
LEMMA NoLine ==
  ASSUME OneLine, word \in {UNLOCKED, LOCKED}
  PROVE  \A q \in Queues : contents[q] = <<>>
<1>1. word.q = NoQueue /\ word # UPDATING
  BY SMT DEF UNLOCKED, LOCKED, UPDATING
<1> QED  BY <1>1, QueueAssumption DEF OneLine

(* There is one line. *)
LEMMA OneLineStep ==
  ASSUME IInv, OneLine, NEW p \in Procs, ProcStep(p)
  PROVE  OneLine'
<1>t. TypeOK /\ TagInv
  BY DEF IInv
<1>f. \A r \in Procs \ {p} : pc'[r] = pc[r]
  BY <1>t, OnlyOwnPC
<1>w. /\ UNLOCKED.q = NoQueue /\ LOCKED.q = NoQueue /\ UPDATING.q = NoQueue
      /\ \A q : Ptr(q).q = q /\ Tagged(q).q = q /\ Ptr(q) # UPDATING /\ Tagged(q) # UPDATING
      /\ UPDATING.st # "queue"
  BY SMT DEF UNLOCKED, LOCKED, UPDATING, Ptr, Tagged
<1>n. NoQueue \notin Queues
  BY QueueAssumption
<1> SUFFICES ASSUME NEW q \in Queues, contents'[q] # <<>>
             PROVE  \/ word'.q = q
                    \/ word' = UPDATING /\ \E r \in Procs : pc'[r] \in {"publish", "publishFirst"} /\ ptr'[r].q = q
  BY DEF OneLine
<1>1. CASE Push(p)
  <2>1. /\ word' = word /\ ptr' = ptr /\ pc[p] = "push" /\ pc'[p] \in {"publish", "publishFirst"}
        /\ q # ptr[p].q => contents'[q] = contents[q]
    BY <1>t, <1>1 DEF Push, Goto, TypeOK
  <2>2. word \in {UPDATING, Tagged(ptr[p].q)}
    BY <1>t, <2>1 DEF TagInv, TagHeld
  <2>3. CASE q = ptr[p].q
    BY <1>w, <2>1, <2>2, <2>3
  <2>4. CASE q # ptr[p].q
    BY <1>f, <2>1, <2>4 DEF OneLine
  <2> QED  BY <2>3, <2>4
<1>2. CASE Pop(p) \/ Remove(p)
  <2>1. /\ word' = word /\ ptr' = ptr /\ pc[p] \in {"pop", "remove"}
        /\ contents[q] # <<>>
    <3>1. word' = word /\ ptr' = ptr /\ pc[p] \in {"pop", "remove"}
      BY <1>2 DEF Pop, Remove
    <3>2. ptr[p].q \in Queues
      BY <1>t, <3>1, WordFacts DEF TagInv, TagHeld, TypeOK, IsQueue
    <3>3. q # ptr[p].q => contents'[q] = contents[q]
      BY <1>t, <1>2, <3>2 DEF Pop, Remove, TypeOK
    <3>4. CASE Pop(p)
      BY <1>t, <3>2, <3>3, <3>4 DEF Pop, TypeOK
    <3>5. CASE Remove(p)
      <4>1. contents'[q] = contents[q] \/ (q = ptr[p].q /\ \E i \in 1 .. Len(contents[q]) : contents[q][i] = p)
        BY <3>3, <3>5 DEF Remove
      <4>2. ASSUME contents[q] = <<>> PROVE \A i \in 1 .. Len(contents[q]) : FALSE
        BY ONLY <4>2, SMT
      <4> QED  BY <3>1, <4>1, <4>2
    <3> QED  BY <1>2, <3>1, <3>4, <3>5
  <2> QED  BY <1>f, <2>1 DEF OneLine
<1>3. CASE ~Push(p) /\ ~Pop(p) /\ ~Remove(p)
  <2>1. contents' = contents /\ contents[q] # <<>>
    BY <1>t, <1>3, QueueChanges
  <2>2. word \notin {UNLOCKED, LOCKED}
    BY <2>1, NoLine
  <2>3. \/ word.q = q /\ word # UPDATING
        \/ word = UPDATING /\ \E r \in Procs : pc[r] \in {"publish", "publishFirst"} /\ ptr[r].q = q
    BY <1>w, <1>n, <2>1 DEF OneLine
  <2>4. CASE Publish(p)
    <3>1. /\ IsQueue(ptr[p]) /\ word \in {UPDATING, Tagged(ptr[p].q)} /\ word' = ptr[p] /\ HasQueue(p)
      BY <1>t, <2>4 DEF Publish, TagInv, TagHeld, HasQueue
    <3>2. \A r \in Procs : pc[r] \in {"publish", "publishFirst"} => r = p
      BY <1>t, <3>1 DEF TagInv, HasQueue
    <3> QED  BY <1>w, <2>3, <3>1, <3>2
  <2>5. CASE LeaveUntag(p) \/ Untag(p)
    <3>1. word = Tagged(ptr[p].q) /\ word' = ptr[p]
      BY <1>t, <2>5 DEF LeaveUntag, Untag, TagInv, TagHeld
    <3> QED  BY <1>w, <2>3, <3>1
  <2>6. CASE Branch(p) \/ LeaveTag(p) \/ UnlockTag(p)
    <3>1. /\ (word' = word \/ (IsQueue(word) /\ word' = Tagged(word.q)))
          /\ pc[p] \notin {"publish", "publishFirst"} /\ \A r \in Procs \ {p} : ptr'[r] = ptr[r]
      BY <1>t, <2>2, <2>6 DEF Branch, LeaveTag, UnlockTag, TypeOK, TagInv, TagHeld
    <3> QED  BY <1>f, <1>w, <2>3, <3>1 DEF IsQueue
  <2>7. CASE Release(p)
    <3>1. word = Tagged(ptr[p].q) /\ contents[ptr[p].q] = <<>>
      BY <2>7 DEF Release, IInv, TagInv, TagHeld, PoolInv
    <3> QED  BY <1>w, <2>1, <2>3, <3>1
  <2>8. CASE ~(\/ Publish(p) \/ LeaveUntag(p) \/ Untag(p) \/ Branch(p) \/ LeaveTag(p) \/ UnlockTag(p)
               \/ Release(p))
    <3>1. /\ word' = word /\ pc[p] \notin {"publish", "publishFirst"}
          /\ \A r \in Procs \ {p} : ptr'[r] = ptr[r]
      BY <1>t, <1>3, <2>2, <2>8 DEF ProcStep, Acquiring, Waiting, Leaving, Releasing, Lock, PollFirst,
         RetryLock, Unlock, ParkReturn, Poll, DropRequest, AllocateQueue, Spin, Swap, CheckSignal, Rearm,
         Reload, Leave, AwaitSignal, TakeWaker, StoreSignal, Wake, DeallocateQueue, TypeOK
    <3> QED  BY <1>f, <2>3, <3>1
  <2> QED  BY <2>4, <2>5, <2>6, <2>7, <2>8
<1> QED  BY <1>1, <1>2, <1>3
(* What the abstract lock's state is, without the CHOOSE. *)
Mapped ==
    /\ \A p \in Procs : Owns(p) => LockOwner = IF HandingOff(p) THEN node[p] ELSE p
    /\ (\A p \in Procs : ~Owns(p)) => LockOwner = NoProc
    /\ \A q \in Queues : contents[q] # <<>> => LockLine = contents[q]
    /\ (\A q \in Queues : contents[q] = <<>>) => LockLine = <<>>

(* There is one owner and one line, so the choice is no choice. *)
LEMMA MappedFacts ==
  ASSUME IInv, OneLine
  PROVE  Mapped
<1>1. ASSUME NEW p \in Procs, Owns(p)
      PROVE  LockOwner = IF HandingOff(p) THEN node[p] ELSE p
  <2>1. (CHOOSE r \in Procs : Owns(r)) = p
    BY <1>1 DEF IInv, MutualExclusion
  <2> QED  BY <1>1, <2>1 DEF LockOwner
<1>2. (\A p \in Procs : ~Owns(p)) => LockOwner = NoProc
  BY DEF LockOwner
<1>3. ASSUME NEW q \in Queues, contents[q] # <<>>
      PROVE  LockLine = contents[q]
  <2>1. UPDATING.q = NoQueue
    BY SMT DEF UPDATING
  <2>2. ASSUME NEW r \in Queues, contents[r] # <<>> PROVE r = q
    <3>1. CASE word = UPDATING
      <4>1. /\ \E p \in Procs : pc[p] \in {"publish", "publishFirst"} /\ ptr[p].q = q
            /\ \E p \in Procs : pc[p] \in {"publish", "publishFirst"} /\ ptr[p].q = r
        BY <1>3, <2>1, <2>2, <3>1, QueueAssumption DEF OneLine
      <4>2. \A p, s \in Procs : HasQueue(p) /\ HasQueue(s) => p = s
        BY DEF IInv, TagInv
      <4> QED  BY <4>1, <4>2 DEF HasQueue
    <3> QED  BY <1>3, <2>2, <3>1 DEF OneLine
  <2>3. (CHOOSE r \in Queues : contents[r] # <<>>) = q
    BY <1>3, <2>2
  <2> QED  BY <1>3, <2>3 DEF LockLine
<1>4. (\A q \in Queues : contents[q] = <<>>) => LockLine = <<>>
  BY DEF LockLine
<1> QED  BY <1>1, <1>2, <1>3, <1>4 DEF Mapped

(* The step changes neither owner nor line. *)
LEMMA OwnerStays ==
  ASSUME Mapped, Mapped', \A r \in Procs : Owns(r)' <=> Owns(r),
         \A r \in Procs : Owns(r) => (HandingOff(r)' <=> HandingOff(r)) /\ (HandingOff(r) => node'[r] = node[r])
  PROVE  LockOwner' = LockOwner
<1>1. CASE \E r \in Procs : Owns(r)
  <2>1. PICK r \in Procs : Owns(r)
    BY <1>1
  <2>2. LockOwner = IF HandingOff(r) THEN node[r] ELSE r
    BY <2>1 DEF Mapped
  <2>3. LockOwner' = IF HandingOff(r)' THEN node'[r] ELSE r
    BY <2>1 DEF Mapped
  <2> QED  BY <2>1, <2>2, <2>3
<1>2. CASE \A r \in Procs : ~Owns(r)
  BY <1>2 DEF Mapped
<1> QED  BY <1>1, <1>2

(* The line is what the queues hold. *)
LEMMA LineStays ==
  ASSUME Mapped, Mapped', contents' = contents
  PROVE  LockLine' = LockLine
<1>1. CASE \E q \in Queues : contents[q] # <<>>
  <2>1. PICK q \in Queues : contents[q] # <<>>
    BY <1>1
  <2>2. LockLine = contents[q]
    BY <2>1 DEF Mapped
  <2>3. LockLine' = contents'[q]
    BY <2>1 DEF Mapped
  <2> QED  BY <2>2, <2>3
<1>2. CASE \A q \in Queues : contents[q] = <<>>
  BY <1>2 DEF Mapped
<1> QED  BY <1>1, <1>2

(* A handoff lasts from the pop to the signal. *)
LEMMA HandoffLasts ==
  ASSUME TypeOK, NEW p \in Procs, ProcStep(p), ~Pop(p), ~StoreSignal(p)
  PROVE  \A r \in Procs : (HandingOff(r)' <=> HandingOff(r)) /\ (HandingOff(r) => node'[r] = node[r])
<1>1. \A r \in Procs \ {p} : pc'[r] = pc[r]
  BY OnlyOwnPC
<1>2. HandingOff(p) => HandingOff(p)'
  BY DEF ProcStep, Acquiring, Waiting, Leaving, Releasing, Lock, PollFirst, RetryLock, Branch,
     AllocateQueue, Push, Publish, ParkReturn, Poll, DropRequest, Spin, Swap, CheckSignal, Rearm, Reload,
     Leave, LeaveTag, Remove, LeaveUntag, AwaitSignal, Unlock, UnlockTag, Untag, TakeWaker, Wake, Release,
     DeallocateQueue, HandingOff, Goto, TypeOK
<1> QED  BY <1>1, <1>2, HandoffKept DEF HandingOff
(* The line is the queue of the process that has the queue to itself. *)
LEMMA HolderLine ==
  ASSUME IInv, OneLine, Mapped, Mapped', NEW p \in Procs, pc[p] \in {"push", "pop", "remove"},
         \A q \in Queues : q # ptr[p].q => contents'[q] = contents[q]
  PROVE  /\ ptr[p].q \in Queues /\ contents[ptr[p].q] \in Seq(Procs)
         /\ LockLine = contents[ptr[p].q] /\ LockLine' = contents'[ptr[p].q]
<1>1. TypeOK /\ TagInv
  BY DEF IInv
<1>2. /\ ptr[p].q \in Queues /\ contents[ptr[p].q] \in Seq(Procs)
      /\ word \in {UPDATING, Tagged(ptr[p].q)}
  BY <1>1, WordFacts DEF TagInv, TagHeld, IsQueue, TypeOK
<1>3. UPDATING.q = NoQueue /\ Tagged(ptr[p].q).q = ptr[p].q
  BY SMT DEF UPDATING, Tagged
<1>4. \A r \in Procs : pc[r] \notin {"publish", "publishFirst"}
  BY <1>1 DEF TagInv, HasQueue
<1>5. \A q \in Queues : q # ptr[p].q => contents[q] = <<>> /\ contents'[q] = <<>>
  BY <1>2, <1>3, <1>4, QueueAssumption DEF OneLine
<1>6. LockLine = contents[ptr[p].q]
  <2>1. CASE contents[ptr[p].q] = <<>>
    <3>1. \A q \in Queues : contents[q] = <<>>
      BY <1>5, <2>1
    <3> QED  BY <2>1, <3>1 DEF Mapped
  <2> QED  BY <1>2, <2>1 DEF Mapped
<1>7. LockLine' = contents'[ptr[p].q]
  <2>1. CASE contents'[ptr[p].q] = <<>>
    <3>1. \A q \in Queues : contents'[q] = <<>>
      BY <1>5, <2>1
    <3> QED  BY <2>1, <3>1 DEF Mapped
  <2>2. CASE contents'[ptr[p].q] # <<>>
    <3>1. \A q \in Queues : contents'[q] # <<>> => LockLine' = contents'[q]
      BY DEF Mapped
    <3> QED  BY <1>2, <2>2, <3>1
  <2> QED  BY <2>1, <2>2
<1> QED  BY <1>2, <1>6, <1>7

(* Who owns the lock, or is being handed it, is not at the push. *)
LEMMA OwnerAway ==
  ASSUME IInv, Mapped, NEW p \in Procs, Owns(p)
  PROVE  LockOwner \in Procs /\ LockOwner # NoProc /\ pc[LockOwner] # "push"
<1>1. LockOwner = IF HandingOff(p) THEN node[p] ELSE p
  BY DEF Mapped
<1>2. HandingOff(p) => node[p] \in Procs /\ Parked(node[p])
  BY DEF IInv, HandoffInv
<1>3. NoProc \notin Procs
  BY ProcAssumption DEF Procs
<1> QED  BY <1>1, <1>2, <1>3 DEF Owns, Parked, HandingOff

(* Push joins the line: nobody queues on a free lock, or twice. *)
LEMMA JoinStep ==
  ASSUME IInv, OneLine, Mapped, Mapped', NEW p \in Procs, Push(p)
  PROVE  Abstract!Join(p)
<1>1. TypeOK /\ TagInv /\ LineInv /\ SignalInv /\ MutualExclusion /\ ProcStep(p)
  BY DEF IInv, ProcStep, Acquiring
<1>2. pc[p] = "push" /\ \A q \in Queues : q # ptr[p].q => contents'[q] = contents[q]
  BY <1>1 DEF Push, TypeOK
<1>3. /\ ptr[p].q \in Queues /\ contents[ptr[p].q] \in Seq(Procs)
      /\ LockLine = contents[ptr[p].q] /\ LockLine' = contents'[ptr[p].q]
  BY <1>2, HolderLine
<1>4. LockLine' = Append(LockLine, p)
  BY <1>1, <1>3 DEF Push, TypeOK
<1>5. LockOwner' = LockOwner
  <2>1. \A s \in Procs : Owns(s)' <=> Owns(s)
    BY <1>1, <1>2, OwnerKept DEF Lock, PollFirst, RetryLock, Remove, StoreSignal, Unlock, Release
  <2>2. \A s \in Procs : (HandingOff(s)' <=> HandingOff(s)) /\ (HandingOff(s) => node'[s] = node[s])
    BY <1>1, <1>2, HandoffLasts DEF Pop, StoreSignal
  <2> QED  BY <2>1, <2>2, OwnerStays
<1>6. word # UNLOCKED
  BY <1>1, <1>2, WordDistinct DEF TagInv, TagHeld
<1>7. LockOwner \notin {NoProc, p}
  BY <1>1, <1>2, <1>6, OwnerAway DEF MutualExclusion
<1>8. \A i \in 1 .. Len(LockLine) : LockLine[i] # p
  BY <1>1, <1>2, <1>3 DEF LineInv, Parked
<1> QED  BY <1>4, <1>5, <1>7, <1>8 DEF Abstract!Join

(* Remove leaves the line, or finds that the handoff has begun. *)
LEMMA GiveUpStep ==
  ASSUME IInv, OneLine, Mapped, Mapped', NEW p \in Procs, Remove(p)
  PROVE  Abstract!GiveUp(p) \/ (LockOwner' = LockOwner /\ LockLine' = LockLine)
<1>1. TypeOK /\ TagInv /\ LineInv /\ SignalInv /\ MutualExclusion /\ ProcStep(p)
  BY DEF IInv, ProcStep, Leaving
<1>2. pc[p] = "remove" /\ \A q \in Queues : q # ptr[p].q => contents'[q] = contents[q]
  BY <1>1 DEF Remove, TypeOK
<1>3. /\ ptr[p].q \in Queues /\ contents[ptr[p].q] \in Seq(Procs)
      /\ LockLine = contents[ptr[p].q] /\ LockLine' = contents'[ptr[p].q]
  BY <1>2, HolderLine
<1>4. LockOwner' = LockOwner
  <2>1. \A s \in Procs : Owns(s)' <=> Owns(s)
    BY <1>1, RemoveOwner
  <2>2. \A s \in Procs : (HandingOff(s)' <=> HandingOff(s)) /\ (HandingOff(s) => node'[s] = node[s])
    BY <1>1, <1>2, HandoffLasts DEF Pop, StoreSignal
  <2> QED  BY <2>1, <2>2, OwnerStays
<1>5. \/ LockLine' = LockLine
      \/ \E i \in 1 .. Len(LockLine) : LockLine[i] = p /\ LockLine' = RemoveNode(LockLine, i)
  BY <1>1, <1>3 DEF Remove, TypeOK
<1> QED  BY <1>4, <1>5 DEF Abstract!GiveUp, RemoveNode

(* Pop hands the lock to the head of the line. *)
LEMMA PopStep ==
  ASSUME IInv, OneLine, Mapped, Mapped', NEW p \in Procs, Pop(p)
  PROVE  Abstract!Handoff \/ (LockOwner' = LockOwner /\ LockLine' = LockLine)
<1>1. TypeOK /\ SignalInv /\ MutualExclusion /\ ProcStep(p)
  BY DEF IInv, ProcStep, Releasing
<1>2. pc[p] = "pop" /\ \A q \in Queues : q # ptr[p].q => contents'[q] = contents[q]
  BY <1>1 DEF Pop, TypeOK
<1>3. /\ ptr[p].q \in Queues /\ contents[ptr[p].q] \in Seq(Procs)
      /\ LockLine = contents[ptr[p].q] /\ LockLine' = contents'[ptr[p].q]
  BY <1>2, HolderLine
<1>4. Owns(p) /\ ~HandingOff(p)
  BY <1>2 DEF Owns, HandingOff
<1>5. LockOwner = p /\ p # NoProc
  BY <1>4, ProcAssumption DEF Mapped, Procs
<1>6. CASE contents[ptr[p].q] # <<>>
  <2>1. /\ pc'[p] = "untag" /\ node'[p] = Head(LockLine) /\ LockLine # <<>> /\ LockLine' = Tail(LockLine)
    BY <1>1, <1>3, <1>6 DEF Pop, Goto, TypeOK
  <2>2. Owns(p)' /\ HandingOff(p)'
    BY <2>1 DEF Owns, HandingOff
  <2>3. LockOwner' = IF HandingOff(p)' THEN node'[p] ELSE p
    BY <2>2 DEF Mapped
  <2> QED  BY <1>5, <2>1, <2>2, <2>3 DEF Abstract!Handoff
<1>7. CASE contents[ptr[p].q] = <<>>
  <2>1. pc'[p] = "release" /\ LockLine' = LockLine
    BY <1>1, <1>3, <1>7 DEF Pop, Goto, TypeOK
  <2>2. Owns(p)' /\ ~HandingOff(p)'
    BY <2>1 DEF Owns, HandingOff
  <2>3. LockOwner' = IF HandingOff(p)' THEN node'[p] ELSE p
    BY <2>2 DEF Mapped
  <2> QED  BY <1>5, <2>1, <2>2, <2>3
<1> QED  BY <1>6, <1>7
(* A successful CAS from UNLOCKED acquires a free lock nobody waits for. *)
LEMMA AcquireStep ==
  ASSUME IInv, OneLine, Mapped, Mapped', NEW p \in Procs, Lock(p) \/ PollFirst(p) \/ RetryLock(p)
  PROVE  Abstract!Acquire(p) \/ (LockOwner' = LockOwner /\ LockLine' = LockLine)
<1>1. TypeOK /\ MutualExclusion /\ ProcStep(p) /\ contents' = contents
  BY DEF IInv, ProcStep, Acquiring, Lock, PollFirst, RetryLock
<1>2. LockLine' = LockLine
  BY <1>1, LineStays
<1>3. CASE word = UNLOCKED
  <2>1. LockOwner = NoProc /\ LockLine = <<>>
    BY <1>1, <1>3, NoLine DEF MutualExclusion, Mapped
  <2>2. pc'[p] = "held"
    BY <1>1, <1>3 DEF Lock, PollFirst, RetryLock, Goto, TypeOK
  <2>3. Owns(p)' /\ ~HandingOff(p)'
    BY <2>2 DEF Owns, HandingOff
  <2>4. LockOwner' = IF HandingOff(p)' THEN node'[p] ELSE p
    BY <2>3 DEF Mapped
  <2> QED  BY <1>2, <2>1, <2>3, <2>4 DEF Abstract!Acquire
<1>4. CASE word # UNLOCKED
  <2>1. /\ pc[p] \in {"idle", "lock"} /\ pc'[p] \in {"lock", "branch"}
        /\ \A r \in Procs \ {p} : pc'[r] = pc[r] /\ value'[r] = value[r]
    BY <1>1, <1>4 DEF Lock, PollFirst, RetryLock, Goto, TypeOK
  <2>2. \A r \in Procs : Owns(r)' <=> Owns(r)
    BY <2>1 DEF Owns, HandingOff, Parked
  <2>3. \A r \in Procs : (HandingOff(r)' <=> HandingOff(r)) /\ (HandingOff(r) => node'[r] = node[r])
    BY <1>1, <2>1, HandoffLasts DEF Pop, StoreSignal
  <2> QED  BY <1>2, <2>2, <2>3, OwnerStays
<1> QED  BY <1>3, <1>4

(* The word becomes UNLOCKED when the owner finds nobody in line. *)
LEMMA ReleaseStep ==
  ASSUME IInv, IInv', OneLine', Mapped, Mapped', NEW p \in Procs, Unlock(p) \/ Release(p)
  PROVE  Abstract!Release \/ (LockOwner' = LockOwner /\ LockLine' = LockLine)
<1>1. TypeOK /\ ProcStep(p) /\ contents' = contents /\ pc[p] \in {"held", "release"}
  BY DEF IInv, ProcStep, Releasing, Unlock, Release
<1>2. LockLine' = LockLine
  BY <1>1, LineStays
<1>3. CASE word' = UNLOCKED
  <2>1. LockOwner' = NoProc
    BY <1>3 DEF IInv, MutualExclusion, Mapped
  <2>2. word'.q = NoQueue /\ word' # UPDATING
    BY <1>3, SMT DEF UNLOCKED, UPDATING
  <2>3. \A q \in Queues : contents'[q] = <<>>
    BY <2>2, QueueAssumption DEF OneLine
  <2>4. LockLine' = <<>>
    BY <2>3 DEF Mapped
  <2>5. LockOwner # NoProc
    BY <1>1, OwnerAway DEF Owns
  <2> QED  BY <1>2, <2>1, <2>4, <2>5 DEF Abstract!Release
<1>4. CASE word' # UNLOCKED
  <2>1. /\ pc[p] = "held" /\ pc'[p] = "unlock"
        /\ \A r \in Procs \ {p} : pc'[r] = pc[r] /\ value'[r] = value[r]
    BY <1>1, <1>4 DEF Unlock, Release, Goto, TypeOK
  <2>2. \A r \in Procs : Owns(r)' <=> Owns(r)
    BY <2>1 DEF Owns, HandingOff, Parked
  <2>3. \A r \in Procs : (HandingOff(r)' <=> HandingOff(r)) /\ (HandingOff(r) => node'[r] = node[r])
    BY <1>1, <2>1, HandoffLasts DEF Pop, StoreSignal
  <2> QED  BY <1>2, <2>2, <2>3, OwnerStays
<1> QED  BY <1>3, <1>4

(* The signal tells the new owner what the pop has decided. *)
LEMMA SignalMaps ==
  ASSUME IInv, Mapped, Mapped', NEW p \in Procs, StoreSignal(p)
  PROVE  LockOwner' = LockOwner /\ LockLine' = LockLine
<1>1. TypeOK /\ HandoffInv /\ contents' = contents
  BY DEF IInv, StoreSignal
<1>2. HandingOff(p) /\ Owns(p) /\ pc'[p] \in {"idle", "wake"} /\ \A r \in Procs \ {p} : pc'[r] = pc[r]
  BY <1>1 DEF StoreSignal, HandingOff, Owns, Goto, TypeOK
<1>3. node[p] \in Procs /\ Parked(node[p]) /\ node[p] # p
  BY <1>1, <1>2 DEF HandoffInv, HandingOff, Parked
<1>4. value'[node[p]] = "signaled" /\ pc'[node[p]] = pc[node[p]]
  BY <1>1, <1>2, <1>3 DEF StoreSignal, TypeOK
<1>5. \A r \in Procs : r = node[p] => Owns(r)' /\ ~HandingOff(r)'
  BY <1>3, <1>4 DEF Owns, HandingOff, Parked
<1>6. \A r \in Procs : r = node[p] => LockOwner' = r
  BY <1>5 DEF Mapped
<1>7. LockOwner = node[p]
  BY <1>2 DEF Mapped
<1> QED  BY <1>1, <1>3, <1>6, <1>7, LineStays

(* Every step of the mutex is a step of the FIFO lock, or none. *)
LEMMA FifoStep ==
  ASSUME IInv, IInv', OneLine, OneLine', Mapped, Mapped', NEW p \in Procs, ProcStep(p)
  PROVE  Abstract!Next \/ (LockOwner' = LockOwner /\ LockLine' = LockLine)
<1>1. CASE Lock(p) \/ PollFirst(p) \/ RetryLock(p)
  BY <1>1, AcquireStep DEF Abstract!Next
<1>2. CASE Push(p)
  BY <1>2, JoinStep DEF Abstract!Next
<1>3. CASE Remove(p)
  BY <1>3, GiveUpStep DEF Abstract!Next
<1>4. CASE Pop(p)
  BY <1>4, PopStep DEF Abstract!Next
<1>5. CASE Unlock(p) \/ Release(p)
  BY <1>5, ReleaseStep DEF Abstract!Next
<1>6. CASE StoreSignal(p)
  BY <1>6, SignalMaps
<1>7. CASE ~(\/ Lock(p) \/ PollFirst(p) \/ RetryLock(p) \/ Push(p) \/ Remove(p) \/ Pop(p) \/ Unlock(p)
             \/ Release(p) \/ StoreSignal(p))
  <2>1. TypeOK /\ SignalInv
    BY DEF IInv
  <2>2. contents' = contents /\ \A r \in Procs : Owns(r)' <=> Owns(r)
    BY <1>7, <2>1, QueueChanges, OwnerKept
  <2>3. \A r \in Procs : (HandingOff(r)' <=> HandingOff(r)) /\ (HandingOff(r) => node'[r] = node[r])
    BY <1>7, <2>1, HandoffLasts
  <2> QED  BY <2>2, <2>3, OwnerStays, LineStays
<1> QED  BY <1>1, <1>2, <1>3, <1>4, <1>5, <1>6, <1>7

(* OneLine and Mapped hold in every state. *)
LEMMA OneLineHolds == Spec => [](OneLine /\ Mapped)
<1>1. Init => OneLine
  BY DEF Init, OneLine
<1>2. IInv /\ OneLine /\ [Next]_vars => OneLine'
  <2> SUFFICES ASSUME IInv, OneLine, [Next]_vars PROVE OneLine'
    OBVIOUS
  <2>1. CASE Next
    BY <2>1, OneLineStep DEF Next, ProcStep
  <2>2. CASE UNCHANGED vars
    BY <2>2 DEF OneLine, vars
  <2> QED  BY <2>1, <2>2
<1>3. IInv /\ OneLine => Mapped
  BY MappedFacts
<1> QED  BY <1>1, <1>2, <1>3, Invariance, PTL DEF Spec

(* Every behaviour of the mutex is one of FifoLock: the lock passes directly *)
(* to the longest-waiting request, nobody overtakes a line that is not empty, *)
(* nobody queues on a free lock (MutexInternal::lock_slow, MutexGuard::drop). *)
THEOREM ImplementsFifoLockHolds == Spec => ImplementsFifoLock
<1>1. Init => Abstract!Init
  <2> SUFFICES ASSUME Init PROVE Abstract!Init
    OBVIOUS
  <2>1. \A p \in Procs : ~Owns(p)
    BY DEF Init, Owns, Parked, HandingOff
  <2>2. \A q \in Queues : contents[q] = <<>>
    BY DEF Init
  <2> QED  BY <2>1, <2>2 DEF Abstract!Init, LockOwner, LockLine
<1>2. IInv /\ IInv' /\ OneLine /\ OneLine' /\ Mapped /\ Mapped' /\ [Next]_vars
        => [Abstract!Next]_<<LockOwner, LockLine>>
  <2> SUFFICES ASSUME IInv, IInv', OneLine, OneLine', Mapped, Mapped', [Next]_vars
               PROVE  Abstract!Next \/ (LockOwner' = LockOwner /\ LockLine' = LockLine)
    OBVIOUS
  <2>1. CASE Next
    BY <2>1, FifoStep DEF Next, ProcStep
  <2>2. CASE UNCHANGED vars
    BY <2>2 DEF vars, LockOwner, LockLine, Owns, HandingOff, Parked
  <2> QED  BY <2>1, <2>2
<1> QED  BY <1>1, <1>2, Invariance, OneLineHolds, PTL DEF Spec, ImplementsFifoLock, Abstract!Spec
=============================================================================
