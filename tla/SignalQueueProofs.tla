------------------------- MODULE SignalQueueProofs -------------------------
(***************************************************************************)
(* The list of Signals for any number of waiters and signalers: the nodes  *)
(* linked from first on are a FIFO line, and a chain of popped nodes stays *)
(* what was popped, although both live in the same next fields.  Linked is *)
(* a recursive function of the links; what it yields is found from the     *)
(* least place where it could differ.                                      *)
(***************************************************************************)
EXTENDS SignalQueue, FiniteSetTheorems, TLAPS

(* Zenon is tried on every leaf that names no other prover. *)
USE Zenon

Among(n, s) == \E i \in 1 .. Len(s) : s[i] = n

Distinct(s) == \A i, j \in 1 .. Len(s) : s[i] = s[j] => i = j

(* The links nx lead from `from` through s and end there. *)
Path(nx, s, from) ==
    /\ s \in Seq(Waiters) /\ Distinct(s)
    /\ from = IF s = <<>> THEN Nobody ELSE s[1]
    /\ \A i \in 1 .. Len(s) : nx[s[i]] = IF i < Len(s) THEN s[i + 1] ELSE Nobody

End(s) == IF s = <<>> THEN Nobody ELSE s[Len(s)]

Queue == Linked(first)

(* Where a process is, or goes once it has unlocked the queue. *)
At(a) == IF pc[a] = "unlock" THEN ret[a] ELSE pc[a]

InLine(n) == Among(n, Queue)
InPopped(n, s) == Among(n, popped[s])
Busy(n) == InLine(n) \/ \E s \in Signalers : InPopped(n, s)

Nodes == Waiters \cup {Nobody}

TypeInv ==
    /\ next \in [Waiters -> Nodes] /\ value \in [Waiters -> BOOLEAN]
    /\ pc = [a \in Agents |-> pc[a]] /\ ret = [a \in Agents |-> ret[a]]
    /\ \A a \in Agents : ret[a] \notin {"unlock", "push", "remove", "pop"}
    /\ cur \in [Signalers -> Nodes] /\ tail \in [Signalers -> Nodes] /\ node \in [Signalers -> Nodes]
    /\ popped \in [Signalers -> Seq(Waiters)]

ListInv == Path(next, Queue, first) /\ last = End(Queue)

(* A node is in the list or in one chain. *)
PlacesInv ==
    /\ \A s \in Signalers : Distinct(popped[s])
    /\ \A n \in Waiters, s \in Signalers : InPopped(n, s) => ~InLine(n)
    /\ \A n \in Waiters, s, r \in Signalers : InPopped(n, s) /\ InPopped(n, r) => s = r

LockInv == \A a \in Agents : pc[a] \in {"push", "remove", "pop", "unlock"} => holder = a

(* A Signal that is about to be pushed is new, and one that is in the list   *)
(* or in a chain has an owner who waits.                                     *)
Owner(n) ==
    /\ At(n) \in {"enqueue", "push"} => next[n] = Nobody /\ value[n] = FALSE
    /\ Busy(n) => At(n) \in {"queued", "remove", "await"} /\ value[n] = FALSE

(* Until it is sealed a chain leads back into the list. *)
Open(s) ==
    /\ node[s] = Nobody
    /\ cur[s] = (IF popped[s] = <<>> THEN Nobody ELSE popped[s][1])
    /\ tail[s] = End(popped[s])
    /\ \A i \in 1 .. Len(popped[s]) :
          next[popped[s][i]] = IF i < Len(popped[s]) THEN popped[s][i + 1] ELSE first

ChainOf(s) ==
    /\ At(s) \in {"idle", "pop", "walk", "signal"}
    /\ At(s) = "idle" => popped[s] = <<>> /\ cur[s] = Nobody /\ tail[s] = Nobody /\ node[s] = Nobody
    /\ At(s) = "pop" => Open(s)
    /\ At(s) = "walk" => node[s] = Nobody /\ tail[s] = Nobody /\ Path(next, popped[s], cur[s])
    /\ At(s) = "signal" => /\ popped[s] # <<>> /\ node[s] = Head(popped[s]) /\ tail[s] = Nobody
                           /\ Path(next, Tail(popped[s]), cur[s])

ListsInv ==
    /\ TypeInv /\ ListInv /\ PlacesInv /\ LockInv
    /\ \A n \in Waiters : Owner(n)
    /\ \A s \in Signalers : ChainOf(s)

-----------------------------------------------------------------------------
(* Paths.                                                                  *)

(* Numbers are well ordered: the intervals that they end are finite sets,   *)
(* and inclusion is well-founded on those.                                  *)
LEMMA Least ==
  ASSUME NEW B \in SUBSET Nat, B # {}
  PROVE  \E i \in B : \A j \in B : i <= j
<1> DEFINE T == {0 .. i : i \in B}
<1>1. T \subseteq FiniteSubsetsOf(Nat)
  <2>1. ASSUME NEW i \in B PROVE 0 .. i \in SUBSET Nat /\ IsFiniteSet(0 .. i)
    BY FS_Interval, SMT
  <2> QED  BY <2>1 DEF FiniteSubsetsOf
<1>2. T # {}
  OBVIOUS
<1>3. IsWellFoundedOn(StrictSubsetOrdering(Nat), FiniteSubsetsOf(Nat))
  BY FS_StrictSubsetOrderingWellFounded
<1>4. PICK x \in T : \A y \in T : ~(<<y, x>> \in StrictSubsetOrdering(Nat))
  BY <1>1, <1>2, <1>3, WFMin
<1>5. PICK i \in B : x = 0 .. i
  OBVIOUS
<1>6. ASSUME NEW j \in B, j < i PROVE FALSE
  <2>1. 0 .. j \subseteq 0 .. i /\ 0 .. j # 0 .. i
    BY <1>6, SMT
  <2>2. 0 .. j \in T /\ 0 .. i \in T
    OBVIOUS
  <2>3. <<0 .. j, 0 .. i>> \in StrictSubsetOrdering(Nat)
    <3>1. <<0 .. j, 0 .. i>> \in FiniteSubsetsOf(Nat) \X FiniteSubsetsOf(Nat)
      BY <1>1, <2>2
    <3> QED  BY <3>1, <2>1, SMT DEF StrictSubsetOrdering
  <2> QED  BY <1>4, <1>5, <2>2, <2>3
<1> QED  BY <1>6, SMT

(* A path visits no waiter twice, so it is no longer than they are many. *)
LEMMA PathFits ==
  ASSUME NEW s \in Seq(Waiters), Distinct(s)
  PROVE  Len(s) \in Nat /\ Cardinality(Waiters) \in Nat /\ Len(s) <= Cardinality(Waiters)
<1>1. s \in Injection(1 .. Len(s), Waiters)
  <2>1. s \in [1 .. Len(s) -> Waiters]
    BY SMT
  <2> QED  BY <2>1 DEF Injection, IsInjective, Distinct
<1>2. Cardinality(1 .. Len(s)) <= Cardinality(Waiters)
  BY <1>1, FS_Injection, WaitersAssumption
<1>3. Len(s) \in Nat
  BY SMT
<1>4. Cardinality(1 .. Len(s)) = IF 1 > Len(s) THEN 0 ELSE Len(s) - 1 + 1
  BY <1>3, FS_Interval, SMT
<1> QED  BY <1>2, <1>3, <1>4, FS_CardinalityType, WaitersAssumption, SMT

(* The walk from the start of a path goes along it. *)
LEMMA WalkIs ==
  ASSUME NEW nx, NEW s, NEW from, Path(nx, s, from)
  PROVE  Walk(nx, from) = [i \in 0 .. Cardinality(Waiters) |-> IF i < Len(s) THEN s[i + 1] ELSE Nobody]
<1> DEFINE D == 0 .. Cardinality(Waiters)
           G == [i \in D |-> IF i < Len(s) THEN s[i + 1] ELSE Nobody]
           Fix(h) == h = [i \in D |-> IF i = 0 THEN from ELSE IF h[i - 1] = Nobody THEN Nobody ELSE nx[h[i - 1]]]
           W == Walk(nx, from)
<1>t. s \in Seq(Waiters) /\ Len(s) \in Nat /\ Cardinality(Waiters) \in Nat /\ Len(s) <= Cardinality(Waiters)
  BY PathFits DEF Path
<1>1. Fix(G)
  <2>1. ASSUME NEW i \in D
        PROVE  G[i] = IF i = 0 THEN from ELSE IF G[i - 1] = Nobody THEN Nobody ELSE nx[G[i - 1]]
    <3>1. CASE i = 0
      <4>1. G[i] = IF 0 < Len(s) THEN s[1] ELSE Nobody
        BY <1>t, <3>1, SMT
      <4>2. 0 < Len(s) <=> s # <<>>
        BY <1>t, SMT
      <4> QED  BY <3>1, <4>1, <4>2 DEF Path
    <3>2. CASE i # 0 /\ i - 1 < Len(s)
      <4>1. i - 1 \in D /\ i \in 1 .. Len(s) /\ i - 1 + 1 = i
        BY <1>t, <3>2, SMT
      <4>2. G[i - 1] = s[i] /\ G[i] = IF i < Len(s) THEN s[i + 1] ELSE Nobody
        BY <3>2, <4>1
      <4>3. s[i] # Nobody
        BY <1>t, <4>1, AgentsAssumption, SMT
      <4>4. nx[s[i]] = IF i < Len(s) THEN s[i + 1] ELSE Nobody
        BY <4>1 DEF Path
      <4> QED  BY <3>2, <4>2, <4>3, <4>4
    <3>3. CASE i # 0 /\ ~(i - 1 < Len(s))
      <4>1. i - 1 \in D /\ ~(i < Len(s))
        BY <1>t, <3>3, SMT
      <4> QED  BY <3>3, <4>1
    <3> QED  BY <3>1, <3>2, <3>3
  <2> QED  BY <2>1
<1>2. Fix(W)
  BY <1>1 DEF Walk
<1>3. ASSUME W # G PROVE FALSE
  <2> DEFINE B == {i \in D : W[i] # G[i]}
  <2>1. W = [i \in D |-> W[i]] /\ G = [i \in D |-> G[i]]
    BY <1>2
  <2>2. B # {}
    <3> HIDE DEF W, G
    <3> QED  BY <1>3, <2>1
  <2>3. PICK i \in B : \A j \in B : i <= j
    <3>1. B \in SUBSET Nat
      BY <1>t, SMT
    <3> HIDE DEF B
    <3> QED  BY <2>2, <3>1, Least
  <2>4. i \in D /\ W[i] # G[i]
    OBVIOUS
  <2>5. W[i] = (IF i = 0 THEN from ELSE IF W[i - 1] = Nobody THEN Nobody ELSE nx[W[i - 1]])
    BY <1>2, <2>4
  <2>6. G[i] = (IF i = 0 THEN from ELSE IF G[i - 1] = Nobody THEN Nobody ELSE nx[G[i - 1]])
    <3> HIDE DEF G
    <3> QED  BY <1>1, <2>4
  <2>7. i # 0
    <3> HIDE DEF G, W
    <3> QED  BY <2>4, <2>5, <2>6
  <2>8. i - 1 \in D /\ ~(i <= i - 1)
    BY <1>t, <2>4, <2>7, SMT
  <2>9. W[i - 1] = G[i - 1]
    BY <2>3, <2>8
  <2> HIDE DEF G, W
  <2> QED  BY <2>4, <2>5, <2>6, <2>7, <2>9
<1> QED  BY <1>3

(* So what is linked from its start on is the path. *)
LEMMA LinkedIs ==
  ASSUME NEW nx, NEW s, NEW from, Path(nx, s, from)
  PROVE  LinkedBy(nx, from) = s
<1> DEFINE N == Cardinality(Waiters)
           W == Walk(nx, from)
<1>t. s \in Seq(Waiters) /\ Len(s) \in Nat /\ N \in Nat /\ Len(s) <= N
  BY PathFits DEF Path
<1>1. W = [i \in 0 .. N |-> IF i < Len(s) THEN s[i + 1] ELSE Nobody]
  BY WalkIs
<1>2. {i \in DOMAIN W : W[i] # Nobody} = 0 .. Len(s) - 1
  <2>1. DOMAIN W = 0 .. N
    BY <1>1
  <2>2. ASSUME NEW i \in 0 .. N PROVE W[i] # Nobody <=> i < Len(s)
    <3>1. W[i] = IF i < Len(s) THEN s[i + 1] ELSE Nobody
      BY <1>1
    <3>2. i < Len(s) => s[i + 1] # Nobody
      BY <1>t, AgentsAssumption, SMT
    <3> QED  BY <3>1, <3>2
  <2> HIDE DEF W, N
  <2>3. {i \in 0 .. N : W[i] # Nobody} = {i \in 0 .. N : i < Len(s)}
    BY <2>2
  <2>4. {i \in 0 .. N : i < Len(s)} = 0 .. Len(s) - 1
    BY <1>t, SMT
  <2> QED  BY <2>1, <2>3, <2>4
<1>3. Cardinality(0 .. Len(s) - 1) = Len(s)
  <2>1. PICK b \in Int : b = Len(s) - 1
    BY <1>t, SMT
  <2>2. Cardinality(0 .. b) = IF 0 > b THEN 0 ELSE b - 0 + 1
    BY FS_Interval, SMT
  <2> QED  BY <1>t, <2>1, <2>2, SMT
<1>4. LinkedBy(nx, from) = [i \in 1 .. Len(s) |-> W[i - 1]]
  BY <1>2, <1>3 DEF LinkedBy
<1>5. ASSUME NEW i \in 1 .. Len(s) PROVE W[i - 1] = s[i]
  <2>1. i - 1 \in 0 .. N /\ i - 1 < Len(s) /\ i - 1 + 1 = i
    BY <1>t, SMT
  <2> QED  BY <1>1, <2>1
<1>6. s = [i \in 1 .. Len(s) |-> s[i]]
  BY <1>t, SMT
<1> HIDE DEF W
<1> QED  BY <1>4, <1>5, <1>6

-----------------------------------------------------------------------------
(* Nodes of a sequence without repetitions, after a push, a pop, a removal. *)

Without(s, k) == SubSeq(s, 1, k - 1) \o SubSeq(s, k + 1, Len(s))

(* One sequence after another. *)
LEMMA ConcatFacts ==
  ASSUME NEW S, NEW a \in Seq(S), NEW b \in Seq(S)
  PROVE  /\ a \o b \in Seq(S) /\ Len(a \o b) = Len(a) + Len(b)
         /\ \A i \in 1 .. Len(a) + Len(b) : (a \o b)[i] = IF i <= Len(a) THEN a[i] ELSE b[i - Len(a)]
<1>1. a \o b \in Seq(S) /\ Len(a \o b) = Len(a) + Len(b)
  BY SMT
<1>2. \A i \in 1 .. Len(a) + Len(b) : (a \o b)[i] = IF i <= Len(a) THEN a[i] ELSE b[i - Len(a)]
  BY SMT
<1> QED  BY <1>1, <1>2

(* Removing the k-th node shifts the later ones by one. *)
LEMMA WithoutFacts ==
  ASSUME NEW S, NEW s \in Seq(S), NEW k \in 1 .. Len(s)
  PROVE  /\ Len(Without(s, k)) = Len(s) - 1
         /\ \A i \in 1 .. Len(s) - 1 : Without(s, k)[i] = IF i < k THEN s[i] ELSE s[i + 1]
<1> DEFINE a == SubSeq(s, 1, k - 1)
           b == SubSeq(s, k + 1, Len(s))
<1>1. Len(s) \in Nat /\ k \in Nat /\ 1 <= k /\ k <= Len(s) /\ \A i \in 1 .. Len(s) : s[i] \in S
  BY SMT
<1>2. a \in Seq(S) /\ Len(a) = k - 1 /\ \A i \in 1 .. k - 1 : a[i] = s[i]
  BY <1>1, SMT
<1>3. b \in Seq(S) /\ Len(b) = Len(s) - k /\ \A i \in 1 .. Len(s) - k : b[i] = s[k + i]
  BY <1>1, SMT
<1> HIDE DEF a, b
<1>4. /\ Len(a \o b) = Len(a) + Len(b)
      /\ \A i \in 1 .. Len(a) + Len(b) : (a \o b)[i] = IF i <= Len(a) THEN a[i] ELSE b[i - Len(a)]
  BY <1>2, <1>3, ConcatFacts
<1>5. ASSUME NEW i \in 1 .. Len(s) - 1 PROVE (a \o b)[i] = IF i < k THEN s[i] ELSE s[i + 1]
  <2>1. CASE i < k
    BY <1>1, <1>2, <1>3, <1>4, <2>1, SMT
  <2>2. CASE ~(i < k)
    <3>1. i - (k - 1) \in 1 .. Len(s) - k /\ k + (i - (k - 1)) = i + 1
      BY <1>1, <2>2, SMT
    <3>2. (a \o b)[i] = b[i - (k - 1)]
      BY <1>1, <1>2, <1>3, <1>4, <2>2, SMT
    <3> QED  BY <1>3, <2>2, <3>1, <3>2
  <2> QED  BY <2>1, <2>2
<1>6. Len(a \o b) = Len(s) - 1
  BY <1>1, <1>2, <1>3, <1>4, SMT
<1> QED  BY <1>5, <1>6 DEF Without, a, b

(* A removal takes out the one it is about and leaves the others. *)
LEMMA RemoveFacts ==
  ASSUME NEW S, NEW s \in Seq(S), NEW k \in 1 .. Len(s), Distinct(s)
  PROVE  /\ Without(s, k) \in Seq(S)
         /\ \A n : Among(n, Without(s, k)) <=> Among(n, s) /\ n # s[k]
         /\ Distinct(Without(s, k))
<1> DEFINE t == Without(s, k)
<1>1. /\ Len(t) = Len(s) - 1 /\ \A i \in 1 .. Len(s) - 1 : t[i] = IF i < k THEN s[i] ELSE s[i + 1]
  BY WithoutFacts
<1>2. Len(s) \in Nat /\ k \in Nat /\ 1 <= k /\ k <= Len(s) /\ \A i \in 1 .. Len(s) : s[i] \in S
  BY SMT
<1>3. t \in Seq(S)
  <2>1. SubSeq(s, 1, k - 1) \in Seq(S) /\ SubSeq(s, k + 1, Len(s)) \in Seq(S)
    BY <1>2, SMT
  <2> QED  BY <2>1, ConcatFacts DEF Without
<1> HIDE DEF t
<1>4. ASSUME NEW n PROVE Among(n, t) <=> Among(n, s) /\ n # s[k]
  <2>1. ASSUME Among(n, t) PROVE Among(n, s) /\ n # s[k]
    BY <1>1, <1>2, <2>1, SMT DEF Among, Distinct
  <2>2. ASSUME Among(n, s), n # s[k] PROVE Among(n, t)
    <3>1. PICK i \in 1 .. Len(s) : s[i] = n /\ i # k
      BY <2>2 DEF Among
    <3>2. CASE i < k
      BY <1>1, <1>2, <3>1, <3>2, SMT DEF Among
    <3>3. CASE i > k
      <4>1. i - 1 \in 1 .. Len(t) /\ t[i - 1] = n
        BY <1>1, <1>2, <3>1, <3>3, SMT
      <4> QED  BY <4>1 DEF Among
    <3> QED  BY <1>2, <3>1, <3>2, <3>3, SMT
  <2> QED  BY <2>1, <2>2
<1>5. Distinct(t)
  BY <1>1, <1>2, SMT DEF Distinct
<1> QED  BY <1>3, <1>4, <1>5 DEF t

(* A push adds one at the end. *)
LEMMA PushFacts ==
  ASSUME NEW S, NEW s \in Seq(S), NEW x \in S
  PROVE  /\ \A n : Among(n, Append(s, x)) <=> Among(n, s) \/ n = x
         /\ Distinct(s) /\ ~Among(x, s) => Distinct(Append(s, x))
<1> DEFINE t == Append(s, x)
<1>1. t \in Seq(S) /\ Len(t) = Len(s) + 1 /\ t[Len(s) + 1] = x /\ \A i \in 1 .. Len(s) : t[i] = s[i]
  BY SMT
<1>2. Len(s) \in Nat
  BY SMT
<1> HIDE DEF t
<1>3. \A n : Among(n, t) <=> Among(n, s) \/ n = x
  BY <1>1, <1>2, SMT DEF Among
<1>4. Distinct(s) /\ ~Among(x, s) => Distinct(t)
  BY <1>1, <1>2, SMT DEF Distinct, Among
<1> QED  BY <1>3, <1>4 DEF t

(* The front of a line and the rest. *)
LEMMA HeadFacts ==
  ASSUME NEW S, NEW s \in Seq(S), s # <<>>
  PROVE  /\ Head(s) \in S /\ Tail(s) \in Seq(S)
         /\ \A n : Among(n, s) <=> n = Head(s) \/ Among(n, Tail(s))
         /\ Distinct(s) => Distinct(Tail(s)) /\ ~Among(Head(s), Tail(s))
<1> DEFINE t == Tail(s)
           h == Head(s)
<1>1. /\ Len(s) \in Nat /\ Len(s) >= 1 /\ h = s[1] /\ h \in S /\ t \in Seq(S)
      /\ Len(t) = Len(s) - 1 /\ \A i \in 1 .. Len(s) - 1 : t[i] = s[i + 1]
  BY SMT
<1> HIDE DEF t, h
<1>2. ASSUME NEW n PROVE Among(n, s) <=> n = h \/ Among(n, t)
  <2>1. ASSUME Among(n, s) PROVE n = h \/ Among(n, t)
    <3>1. PICK i \in 1 .. Len(s) : s[i] = n
      BY <2>1 DEF Among
    <3>2. CASE i = 1
      BY <1>1, <3>1, <3>2
    <3>3. CASE i # 1
      <4>1. i - 1 \in 1 .. Len(t) /\ t[i - 1] = n
        BY <1>1, <3>1, <3>3, SMT
      <4> QED  BY <4>1 DEF Among
    <3> QED  BY <3>2, <3>3
  <2>2. Among(n, t) \/ n = h => Among(n, s)
    BY <1>1, SMT DEF Among
  <2> QED  BY <2>1, <2>2
<1>3. Distinct(s) => Distinct(t) /\ ~Among(h, t)
  BY <1>1, SMT DEF Distinct, Among
<1> QED  BY <1>1, <1>2, <1>3 DEF t, h

(* Links that are not of the path may change. *)
LEMMA PathSame ==
  ASSUME NEW nx, NEW ny, NEW s, NEW from, Path(nx, s, from), \A n : Among(n, s) => ny[n] = nx[n]
  PROVE  Path(ny, s, from)
<1>1. \A i \in 1 .. Len(s) : Among(s[i], s)
  BY DEF Among
<1> QED  BY <1>1 DEF Path

(* push on a list that is not empty... *)
LEMMA PathPush ==
  ASSUME NEW nx, NEW s, NEW from, NEW n \in Waiters, Path(nx, s, from), s # <<>>,
         nx \in [Waiters -> Nodes], nx[n] = Nobody, ~Among(n, s)
  PROVE  Path([nx EXCEPT ![End(s)] = n], Append(s, n), from)
<1> DEFINE t == Append(s, n)
           ny == [nx EXCEPT ![End(s)] = n]
<1>1. s \in Seq(Waiters) /\ Distinct(s)
  BY DEF Path
<1>2. PICK m \in Nat : m = Len(s) /\ m >= 1 /\ \A i \in 1 .. m : s[i] \in Waiters
  BY <1>1, SMT
<1>3. t \in Seq(Waiters) /\ Len(t) = m + 1 /\ t[m + 1] = n /\ t # <<>> /\ \A i \in 1 .. m : t[i] = s[i]
  BY <1>1, <1>2, SMT
<1>4. Distinct(t)
  BY <1>1, PushFacts
<1>5. End(s) = s[m] /\ m \in 1 .. m /\ s[m] \in Waiters
  <2>1. m \in 1 .. m
    BY <1>2, SMT
  <2> QED  BY <1>2, <2>1 DEF End
<1> HIDE DEF t
<1>6. from = t[1]
  <2>1. 1 \in 1 .. m
    BY <1>2, SMT
  <2> QED  BY <1>3, <2>1 DEF Path
<1>7. ASSUME NEW i \in 1 .. m + 1 PROVE ny[t[i]] = IF i < m + 1 THEN t[i + 1] ELSE Nobody
  <2>1. CASE i = m + 1
    <3>1. t[i] = n /\ n # s[m] /\ ~(i < m + 1)
      <4>1. ~(i < m + 1)
        BY <1>2, <2>1, SMT
      <4> QED  BY <1>2, <1>3, <1>5, <2>1, <4>1 DEF Among
    <3> QED  BY <1>5, <3>1
  <2>2. CASE i = m
    <3>1. i < m + 1
      BY <1>2, <2>2, SMT
    <3>2. t[i] = s[m] /\ t[i + 1] = n
      BY <1>3, <1>5, <2>2
    <3> QED  BY <1>5, <3>1, <3>2
  <2>3. CASE i < m
    <3>1. i < m + 1 /\ i \in 1 .. m /\ i + 1 \in 1 .. m /\ i # m
      BY <1>2, <2>3, SMT
    <3>2. t[i] = s[i] /\ t[i + 1] = s[i + 1] /\ s[i] \in Waiters /\ s[i] # s[m]
      BY <1>1, <1>2, <1>3, <1>5, <3>1 DEF Distinct
    <3>3. nx[s[i]] = s[i + 1]
      BY <1>2, <2>3, <3>1 DEF Path
    <3> QED  BY <1>5, <3>1, <3>2, <3>3
  <2> QED  BY <1>2, <2>1, <2>2, <2>3, SMT
<1> HIDE DEF ny
<1>8. Path(ny, t, from)
  BY <1>3, <1>4, <1>6, <1>7 DEF Path
<1> QED  BY <1>8 DEF t, ny

(* ... and on an empty one. *)
LEMMA PathNew ==
  ASSUME NEW nx, NEW n \in Waiters, nx[n] = Nobody
  PROVE  Path(nx, <<n>>, n)
<1>1. <<n>> \in Seq(Waiters) /\ Len(<<n>>) = 1 /\ <<n>>[1] = n /\ <<n>> # <<>>
  BY SMT
<1>2. \A i \in 1 .. 1 : i = 1 /\ ~(i < 1)
  BY SMT
<1> QED  BY <1>1, <1>2 DEF Path, Distinct

(* pop. *)
LEMMA PathPop ==
  ASSUME NEW nx, NEW s, NEW from, Path(nx, s, from), s # <<>>
  PROVE  /\ from = Head(s) /\ from \in Waiters
         /\ Path(nx, Tail(s), nx[from])
         /\ End(Tail(s)) = IF nx[from] = Nobody THEN Nobody ELSE End(s)
         /\ nx[from] = Nobody <=> Tail(s) = <<>>
<1> DEFINE t == Tail(s)
<1>1. s \in Seq(Waiters) /\ Distinct(s)
  BY DEF Path
<1>2. PICK m \in Nat : m = Len(s) /\ m >= 1 /\ \A i \in 1 .. m : s[i] \in Waiters
  BY <1>1, SMT
<1>3. t \in Seq(Waiters) /\ Len(t) = m - 1 /\ Head(s) = s[1] /\ \A i \in 1 .. m - 1 : t[i] = s[i + 1]
  BY <1>1, <1>2, SMT
<1>4. Distinct(t)
  BY <1>1, HeadFacts
<1>5. from = s[1] /\ s[1] \in Waiters /\ nx[s[1]] = IF 1 < m THEN s[1 + 1] ELSE Nobody
  <2>1. 1 \in 1 .. m
    BY <1>2, SMT
  <2> QED  BY <1>2, <2>1 DEF Path
<1> HIDE DEF t
<1>6. CASE m = 1
  <2>1. t = <<>> /\ ~(1 < m)
    BY <1>2, <1>3, <1>6, SMT
  <2>2. nx[from] = Nobody
    BY <1>5, <2>1
  <2>3. Path(nx, t, nx[from])
    <3>1. \A i \in 1 .. Len(t) : FALSE
      BY <1>2, <1>3, <1>6, SMT
    <3> QED  BY <1>3, <1>4, <2>1, <2>2, <3>1 DEF Path
  <2> QED  BY <1>3, <1>5, <2>1, <2>2, <2>3 DEF End, t
<1>7. CASE m > 1
  <2>1. 1 < m /\ t # <<>> /\ 1 \in 1 .. m - 1 /\ m - 1 \in 1 .. m - 1 /\ (m - 1) + 1 = m /\ 1 + 1 \in 1 .. m
    BY <1>2, <1>3, <1>7, SMT
  <2>2. nx[from] = t[1] /\ t[1] \in Waiters /\ t[1] # Nobody
    BY <1>2, <1>3, <1>5, <2>1, AgentsAssumption
  <2>3. ASSUME NEW i \in 1 .. m - 1 PROVE nx[t[i]] = IF i < m - 1 THEN t[i + 1] ELSE Nobody
    <3>1. i + 1 \in 1 .. m /\ (i < m - 1 <=> i + 1 < m) /\ (i < m - 1 => i + 1 \in 1 .. m - 1)
      BY <1>2, SMT
    <3>2. nx[s[i + 1]] = IF i + 1 < m THEN s[(i + 1) + 1] ELSE Nobody
      BY <1>2, <3>1 DEF Path
    <3> QED  BY <1>3, <3>1, <3>2
  <2>4. Path(nx, t, nx[from])
    BY <1>3, <1>4, <2>1, <2>2, <2>3 DEF Path
  <2>5. End(t) = End(s)
    BY <1>2, <1>3, <2>1 DEF End
  <2> QED  BY <1>3, <1>5, <2>1, <2>2, <2>4, <2>5 DEF t
<1> QED  BY <1>2, <1>6, <1>7, SMT

(* remove, of the first node... *)
LEMMA PathRemoveFirst ==
  ASSUME NEW nx, NEW s, NEW from, Path(nx, s, from), 1 \in 1 .. Len(s)
  PROVE  Without(s, 1) = Tail(s) /\ Path(nx, Without(s, 1), nx[from])
<1> DEFINE t == Without(s, 1)
           u == Tail(s)
<1>1. s \in Seq(Waiters) /\ Distinct(s)
  BY DEF Path
<1>2. PICK m \in Nat : m = Len(s) /\ m >= 1 /\ s # <<>>
  BY <1>1, SMT
<1>3. u \in Seq(Waiters) /\ Len(u) = m - 1 /\ \A i \in 1 .. m - 1 : u[i] = s[i + 1]
  BY <1>1, <1>2, SMT
<1>4. t \in Seq(Waiters) /\ Len(t) = m - 1 /\ \A i \in 1 .. m - 1 : t[i] = IF i < 1 THEN s[i] ELSE s[i + 1]
  BY <1>1, <1>2, RemoveFacts, WithoutFacts
<1> HIDE DEF t, u
<1>5. t = u
  <2>1. \A i \in 1 .. m - 1 : ~(i < 1)
    BY <1>2, SMT
  <2>2. t = [i \in 1 .. m - 1 |-> t[i]] /\ u = [i \in 1 .. m - 1 |-> u[i]]
    BY <1>2, <1>3, <1>4, SMT
  <2>3. [i \in 1 .. m - 1 |-> t[i]] = [i \in 1 .. m - 1 |-> u[i]]
    BY <1>3, <1>4, <2>1
  <2> QED  BY <2>2, <2>3
<1>6. Path(nx, u, nx[from])
  BY <1>2, PathPop DEF u
<1> QED  BY <1>5, <1>6 DEF t, u

(* ... and of a later one. *)
LEMMA PathRemove ==
  ASSUME NEW nx, NEW s, NEW from, NEW k \in 1 .. Len(s), Path(nx, s, from), k # 1,
         nx \in [Waiters -> Nodes]
  PROVE  Path([nx EXCEPT ![s[k - 1]] = nx[s[k]]], Without(s, k), from)
<1> DEFINE t == Without(s, k)
           ny == [nx EXCEPT ![s[k - 1]] = nx[s[k]]]
<1>1. s \in Seq(Waiters) /\ Distinct(s)
  BY DEF Path
<1>2. PICK m \in Nat : m = Len(s) /\ m >= k /\ s # <<>> /\ \A i \in 1 .. m : s[i] \in Waiters
  BY <1>1, SMT
<1>3. t \in Seq(Waiters) /\ Distinct(t) /\ Len(t) = m - 1 /\ \A i \in 1 .. m - 1 : t[i] = IF i < k THEN s[i] ELSE s[i + 1]
  BY <1>1, <1>2, RemoveFacts, WithoutFacts
<1>4. k \in 2 .. m /\ k - 1 \in 1 .. m /\ (k - 1) + 1 = k /\ 1 \in 1 .. m - 1 /\ 1 < k
  BY <1>2, SMT
<1> HIDE DEF t
<1>5. t # <<>> /\ from = t[1]
  <2>1. t # <<>>
    BY <1>2, <1>3, <1>4, SMT
  <2> QED  BY <1>2, <1>3, <1>4, <2>1 DEF Path
<1>6. ASSUME NEW i \in 1 .. m - 1 PROVE ny[t[i]] = IF i < m - 1 THEN t[i + 1] ELSE Nobody
  <2>0. \A j \in 1 .. m : nx[s[j]] = IF j < m THEN s[j + 1] ELSE Nobody
    BY <1>2 DEF Path
  <2>1. CASE i < k - 1
    <3>1. i \in 1 .. m /\ i < m /\ i < m - 1 /\ i + 1 \in 1 .. m - 1 /\ i < k /\ i + 1 < k /\ i # k - 1
      BY <1>2, <1>4, <2>1, SMT
    <3>2. t[i] = s[i] /\ t[i + 1] = s[i + 1] /\ nx[s[i]] = s[i + 1] /\ s[i] # s[k - 1] /\ s[i] \in Waiters
      BY <1>1, <1>2, <1>3, <1>4, <2>0, <3>1 DEF Distinct
    <3> QED  BY <3>1, <3>2
  <2>2. CASE i = k - 1
    <3>1. i < k /\ (i < m - 1 <=> k < m) /\ (i < m - 1 => i + 1 \in 1 .. m - 1) /\ i + 1 = k /\ ~(k < k) /\ k \in 1 .. m
      BY <1>2, <1>4, <2>2, SMT
    <3>2. t[i] = s[k - 1] /\ s[k - 1] \in Waiters /\ ny[t[i]] = nx[s[k]]
      BY <1>2, <1>3, <1>4, <2>2, <3>1
    <3>3. i < m - 1 => t[i + 1] = s[k + 1]
      BY <1>3, <3>1
    <3> QED  BY <2>0, <3>1, <3>2, <3>3
  <2>3. CASE i > k - 1
    <3>1. /\ ~(i < k) /\ ~(i + 1 < k) /\ i + 1 \in 1 .. m /\ i + 1 # k - 1
          /\ (i < m - 1 <=> i + 1 < m) /\ (i < m - 1 => i + 1 \in 1 .. m - 1)
      BY <1>2, <1>4, <2>3, SMT
    <3>2. t[i] = s[i + 1] /\ s[i + 1] # s[k - 1] /\ s[i + 1] \in Waiters
      BY <1>1, <1>2, <1>3, <1>4, <3>1 DEF Distinct
    <3>3. i < m - 1 => t[i + 1] = s[(i + 1) + 1]
      BY <1>3, <3>1
    <3> QED  BY <2>0, <3>1, <3>2, <3>3
  <2> QED  BY <1>2, <1>4, <2>1, <2>2, <2>3, SMT
<1> HIDE DEF ny
<1>7. Path(ny, t, from)
  BY <1>3, <1>5, <1>6 DEF Path
<1> QED  BY <1>7 DEF t, ny

(* Where the list ends then. *)
LEMMA EndRemove ==
  ASSUME NEW s \in Seq(Waiters), Distinct(s), NEW k \in 1 .. Len(s)
  PROVE  End(Without(s, k)) = IF End(s) = s[k] THEN (IF k = 1 THEN Nobody ELSE s[k - 1]) ELSE End(s)
<1> DEFINE t == Without(s, k)
<1>1. PICK m \in Nat : m = Len(s) /\ m >= k /\ s # <<>> /\ m \in 1 .. m
  BY SMT
<1>2. t \in Seq(Waiters) /\ Len(t) = m - 1 /\ \A i \in 1 .. m - 1 : t[i] = IF i < k THEN s[i] ELSE s[i + 1]
  BY <1>1, RemoveFacts, WithoutFacts
<1> HIDE DEF t
<1>3. End(s) = s[m] /\ (s[m] = s[k] <=> k = m)
  BY <1>1 DEF End, Distinct
<1>4. CASE m = 1
  <2>1. t = <<>> /\ k = 1
    BY <1>1, <1>2, <1>4, SMT
  <2> QED  BY <1>3, <1>4, <2>1 DEF End, t
<1>5. CASE m # 1
  <2>1. t # <<>> /\ m - 1 \in 1 .. m - 1 /\ (m - 1) + 1 = m /\ (k = m => m - 1 < k /\ k # 1) /\ (k # m => ~(m - 1 < k))
    BY <1>1, <1>2, <1>5, SMT
  <2>2. End(t) = t[m - 1]
    BY <1>2, <2>1 DEF End
  <2>3. CASE k = m
    BY <1>2, <1>3, <2>1, <2>2, <2>3 DEF t
  <2>4. CASE k # m
    BY <1>2, <1>3, <2>1, <2>2, <2>4 DEF t
  <2> QED  BY <2>3, <2>4
<1> QED  BY <1>4, <1>5

-----------------------------------------------------------------------------
(* What a step leaves alone.                                               *)

(* Who is in a line of waiters is one of them. *)
LEMMA MemberIs ==
  ASSUME NEW s \in Seq(Waiters), NEW n, Among(n, s)
  PROVE  n \in Waiters
<1>1. \A i \in 1 .. Len(s) : s[i] \in Waiters
  BY SMT
<1> QED  BY <1>1 DEF Among

(* The end of a line, if it has one, is in it. *)
LEMMA EndIs ==
  ASSUME NEW s \in Seq(Waiters)
  PROVE  /\ End(s) = Nobody <=> s = <<>>
         /\ s # <<>> => End(s) \in Waiters /\ Among(End(s), s)
<1>1. s # <<>> => Len(s) \in 1 .. Len(s) /\ s[Len(s)] \in Waiters
  BY SMT
<1> QED  BY <1>1, AgentsAssumption DEF End, Among

(* A step that changes no link of a listed node leaves the list alone. *)
LEMMA QuietList ==
  ASSUME ListsInv, first' = first, last' = last, popped' = popped,
         \A n \in Waiters : InLine(n) => next'[n] = next[n]
  PROVE  Queue' = Queue /\ ListInv' /\ PlacesInv' /\ \A n \in Waiters : Busy(n)' <=> Busy(n)
<1>1. Path(next, Queue, first) /\ last = End(Queue)
  BY DEF ListsInv, ListInv
<1>2. \A n : Among(n, Queue) => next'[n] = next[n]
  BY <1>1, MemberIs DEF Path, InLine
<1>3. Path(next', Queue, first)
  BY <1>1, <1>2, PathSame
<1>4. Queue' = Queue
  <2>1. LinkedBy(next', first') = Queue
    BY <1>3, LinkedIs
  <2> QED  BY <2>1 DEF Queue, Linked
<1>5. ListInv'
  BY <1>1, <1>3, <1>4 DEF ListInv
<1>6. \A n : InLine(n)' <=> InLine(n)
  BY <1>4 DEF InLine
<1>7. \A n, s : InPopped(n, s)' <=> InPopped(n, s)
  BY DEF InPopped
<1>8. PlacesInv'
  <2>1. PlacesInv
    BY DEF ListsInv
  <2> QED  BY <1>6, <1>7, <2>1 DEF PlacesInv
<1>9. \A n : Busy(n)' <=> Busy(n)
  BY <1>6, <1>7 DEF Busy
<1> QED  BY <1>4, <1>5, <1>8, <1>9

(* A chain stays whole while its links and its signaler stay as they are. *)
LEMMA ChainFrame ==
  ASSUME TypeInv, NEW s \in Signalers, ChainOf(s), At(s)' = At(s), At(s) = "pop" => first' = first,
         cur'[s] = cur[s], tail'[s] = tail[s], node'[s] = node[s], popped'[s] = popped[s],
         \A n \in Waiters : InPopped(n, s) => next'[n] = next[n]
  PROVE  ChainOf(s)'
<1> DEFINE p == popped[s]
<1>1. p \in Seq(Waiters)
  BY DEF TypeInv
<1>2. \A n : Among(n, p) => next'[n] = next[n]
  BY <1>1, MemberIs DEF InPopped
<1>3. CASE At(s) = "idle"
  BY <1>3 DEF ChainOf
<1>4. CASE At(s) = "pop"
  <2>1. Open(s)
    BY <1>4 DEF ChainOf
  <2>2. \A i \in 1 .. Len(p) : next'[p[i]] = next[p[i]]
    BY <1>2 DEF Among
  <2>3. Open(s)'
    BY <1>4, <2>1, <2>2 DEF Open
  <2> QED  BY <1>4, <2>3 DEF ChainOf
<1>5. CASE At(s) = "walk"
  <2>1. Path(next, p, cur[s])
    BY <1>5 DEF ChainOf
  <2> HIDE DEF p
  <2>2. Path(next', p, cur[s])
    BY <1>2, <2>1, PathSame
  <2> QED  BY <1>5, <2>2 DEF ChainOf, p
<1>6. CASE At(s) = "signal"
  <2>1. p # <<>> /\ Path(next, Tail(p), cur[s])
    BY <1>6 DEF ChainOf
  <2>2. \A n : Among(n, Tail(p)) => Among(n, p)
    BY <1>1, <2>1, HeadFacts
  <2>3. Path(next', Tail(p), cur[s])
    BY <1>2, <2>1, <2>2, PathSame
  <2> QED  BY <1>6, <2>3 DEF ChainOf
<1> QED  BY <1>3, <1>4, <1>5, <1>6 DEF ChainOf

(* The lock: a step outside it, a step under it, taking it. *)
LEMMA LockKept ==
  ASSUME LockInv, NEW a \in Agents, \A b \in Agents : b # a => pc'[b] = pc[b], holder' = holder,
         pc'[a] \in {"push", "remove", "pop", "unlock"} => holder = a
  PROVE  LockInv'
<1>1. ASSUME NEW b \in Agents, pc'[b] \in {"push", "remove", "pop", "unlock"} PROVE holder' = b
  <2>1. CASE b = a
    BY <1>1, <2>1
  <2>2. CASE b # a
    BY <1>1, <2>2 DEF LockInv
  <2> QED  BY <2>1, <2>2
<1> QED  BY <1>1 DEF LockInv

(* Taking the lock keeps it with one process. *)
LEMMA LockTaken ==
  ASSUME LockInv, NEW a \in Agents, \A b \in Agents : b # a => pc'[b] = pc[b], holder = Nobody, holder' = a
  PROVE  LockInv'
<1>1. \A b \in Agents : b # Nobody
  BY AgentsAssumption DEF Agents
<1> QED  BY <1>1 DEF LockInv

(* Where processes are after a step. *)
LEMMA AtGoto ==
  ASSUME TypeInv, NEW a \in Agents, NEW to, to # "unlock", Goto(a, to), ret' = ret
  PROVE  /\ At(a)' = to /\ pc'[a] = to
         /\ \A b \in Agents : b # a => pc'[b] = pc[b] /\ At(b)' = At(b)
         /\ pc' = [b \in Agents |-> pc'[b]] /\ ret' = [b \in Agents |-> ret'[b]]
         /\ \A b \in Agents : ret'[b] \notin {"unlock", "push", "remove", "pop"}
<1>1. pc = [b \in Agents |-> pc[b]] /\ ret = [b \in Agents |-> ret[b]]
  BY DEF TypeInv
<1>2. pc' = [b \in Agents |-> IF b = a THEN to ELSE pc[b]]
  BY <1>1 DEF Goto
<1>3. pc'[a] = to /\ \A b \in Agents : b # a => pc'[b] = pc[b]
  BY <1>2
<1>4. pc' = [b \in Agents |-> pc'[b]]
  BY <1>2
<1> QED  BY <1>1, <1>3, <1>4 DEF At, TypeInv

(* ... and after one that goes on to unlock the queue. *)
LEMMA AtUnlock ==
  ASSUME TypeInv, NEW a \in Agents, NEW to, to \notin {"unlock", "push", "remove", "pop"}, ThenUnlock(a, to)
  PROVE  /\ At(a)' = to /\ pc'[a] = "unlock"
         /\ \A b \in Agents : b # a => pc'[b] = pc[b] /\ At(b)' = At(b)
         /\ pc' = [b \in Agents |-> pc'[b]] /\ ret' = [b \in Agents |-> ret'[b]]
         /\ \A b \in Agents : ret'[b] \notin {"unlock", "push", "remove", "pop"}
<1>1. pc = [b \in Agents |-> pc[b]] /\ ret = [b \in Agents |-> ret[b]]
  BY DEF TypeInv
<1>2. pc' = [b \in Agents |-> IF b = a THEN "unlock" ELSE pc[b]]
  BY <1>1 DEF ThenUnlock, Goto
<1>3. ret' = [b \in Agents |-> IF b = a THEN to ELSE ret[b]]
  BY <1>1 DEF ThenUnlock
<1>4. pc'[a] = "unlock" /\ ret'[a] = to
  BY <1>2, <1>3
<1>5. \A b \in Agents : b # a => pc'[b] = pc[b] /\ ret'[b] = ret[b]
  BY <1>2, <1>3
<1>6. pc' = [b \in Agents |-> pc'[b]] /\ ret' = [b \in Agents |-> ret'[b]]
  BY <1>2, <1>3
<1>7. ASSUME NEW b \in Agents PROVE ret'[b] \notin {"unlock", "push", "remove", "pop"}
  <2>1. CASE b = a
    BY <1>4, <2>1
  <2>2. CASE b # a
    BY <1>5, <2>2 DEF TypeInv
  <2> QED  BY <2>1, <2>2
<1>8. \A b \in Agents : b # a => At(b)' = At(b)
  BY <1>5 DEF At
<1> QED  BY <1>4, <1>5, <1>6, <1>7, <1>8 DEF At

(* Nobody else is popping while somebody has the queue locked. *)
LEMMA PopAlone ==
  ASSUME TypeInv, LockInv, NEW s \in Signalers, NEW a \in Agents, holder = a, s # a
  PROVE  At(s) # "pop"
<1>1. s \in Agents
  BY DEF Agents
<1> QED  BY <1>1 DEF At, TypeInv, LockInv

(* A waiter whose Signal is left alone keeps what it knows of it. *)
LEMMA OwnerFrame ==
  ASSUME NEW n, Owner(n), At(n)' = At(n), value'[n] = value[n],
         At(n) \in {"enqueue", "push"} => next'[n] = next[n], Busy(n)' => Busy(n)
  PROVE  Owner(n)'
BY DEF Owner

(* Waiters and signalers are different processes. *)
LEMMA IsAgent == (\A n \in Waiters : n \in Agents /\ n \notin Signalers /\ n # Nobody)
                 /\ (\A s \in Signalers : s \in Agents /\ s \notin Waiters /\ s # Nobody)
BY AgentsAssumption DEF Agents

-----------------------------------------------------------------------------
(* Steps that leave the list and the chains alone.                         *)

(* With the links of listed and popped nodes, list and chains stay. *)
LEMMA QuietStep ==
  ASSUME ListsInv, first' = first, last' = last, popped' = popped, cur' = cur, tail' = tail, node' = node,
         \A n \in Waiters : Busy(n) => next'[n] = next[n], \A s \in Signalers : At(s)' = At(s)
  PROVE  /\ ListInv' /\ PlacesInv' /\ Queue' = Queue
         /\ \A n \in Waiters : Busy(n)' <=> Busy(n)
         /\ \A s \in Signalers : ChainOf(s)'
<1>1. \A n \in Waiters : InLine(n) => next'[n] = next[n]
  BY DEF Busy
<1>2. Queue' = Queue /\ ListInv' /\ PlacesInv' /\ \A n \in Waiters : Busy(n)' <=> Busy(n)
  BY <1>1, QuietList
<1>3. ASSUME NEW s \in Signalers PROVE ChainOf(s)'
  <2>1. \A n \in Waiters : InPopped(n, s) => next'[n] = next[n]
    BY DEF Busy
  <2>2. TypeInv /\ ChainOf(s) /\ At(s)' = At(s)
    BY DEF ListsInv
  <2> QED  BY <2>1, <2>2, ChainFrame
<1> QED  BY <1>2, <1>3

(* Unlocking moves one process on and changes nothing else. *)
LEMMA UnlockStep ==
  ASSUME ListsInv, NEW a \in Agents, Unlock(a)
  PROVE  ListsInv' /\ holder = a /\ Queue' = Queue
<1> USE DEF ListsInv
<1>1. pc = [b \in Agents |-> pc[b]] /\ ret = [b \in Agents |-> ret[b]]
  BY DEF TypeInv
<1>2. pc' = [b \in Agents |-> IF b = a THEN ret[a] ELSE pc[b]]
  BY <1>1 DEF Unlock, Goto
<1>3. ret' = [b \in Agents |-> IF b = a THEN "idle" ELSE ret[b]]
  BY <1>1 DEF Unlock
<1>4. pc'[a] = ret[a] /\ ret'[a] = "idle" /\ pc[a] = "unlock"
  BY <1>2, <1>3 DEF Unlock
<1>5. \A b \in Agents : b # a => pc'[b] = pc[b] /\ ret'[b] = ret[b]
  BY <1>2, <1>3
<1>6. ret[a] \notin {"unlock", "push", "remove", "pop"}
  BY DEF TypeInv
<1>7. ASSUME NEW b \in Agents PROVE At(b)' = At(b)
  <2>1. CASE b = a
    BY <1>4, <1>6, <2>1 DEF At
  <2>2. CASE b # a
    BY <1>5, <2>2 DEF At
  <2> QED  BY <2>1, <2>2
<1>8. ASSUME NEW b \in Agents PROVE ret'[b] \notin {"unlock", "push", "remove", "pop"}
  <2>1. CASE b = a
    BY <1>4, <2>1
  <2>2. CASE b # a
    BY <1>5, <2>2 DEF TypeInv
  <2> QED  BY <2>1, <2>2
<1>9. holder = a
  BY <1>4 DEF LockInv
<1>10. UNCHANGED <<first, last, next, value, cur, tail, node, popped>>
  BY DEF Unlock, list, chainVars
<1>11. pc' = [b \in Agents |-> pc'[b]] /\ ret' = [b \in Agents |-> ret'[b]]
  BY <1>2, <1>3
<1>12. TypeInv'
  BY <1>8, <1>10, <1>11 DEF TypeInv
<1>13. LockInv'
  <2>1. ASSUME NEW b \in Agents, pc'[b] \in {"push", "remove", "pop", "unlock"} PROVE FALSE
    <3>1. CASE b = a
      BY <1>4, <1>6, <2>1, <3>1
    <3>2. CASE b # a
      BY <1>5, <1>9, <2>1, <3>2 DEF LockInv
    <3> QED  BY <3>1, <3>2
  <2> QED  BY <2>1 DEF LockInv
<1>14. \A s \in Signalers : At(s)' = At(s)
  BY <1>7 DEF Agents
<1>15. /\ ListInv' /\ PlacesInv' /\ Queue' = Queue
       /\ \A n \in Waiters : Busy(n)' <=> Busy(n)
       /\ \A s \in Signalers : ChainOf(s)'
  BY <1>10, <1>14, QuietStep
<1>16. ASSUME NEW n \in Waiters PROVE Owner(n)'
  <2>1. Owner(n) /\ At(n)' = At(n) /\ value'[n] = value[n] /\ next'[n] = next[n] /\ (Busy(n)' => Busy(n))
    BY <1>7, <1>10, <1>15 DEF Agents
  <2> QED  BY <2>1, OwnerFrame
<1> QED  BY <1>9, <1>12, <1>13, <1>15, <1>16

(* What the quiet steps of a waiter have in common: they change the link of  *)
(* its own Signal, if any, and only when it is in no list.                   *)
LEMMA WaiterStep ==
  ASSUME ListsInv, NEW n \in Waiters, first' = first, last' = last, popped' = popped, cur' = cur, tail' = tail,
         node' = node, \A m \in Waiters : m # n => next'[m] = next[m] /\ value'[m] = value[m],
         next' \in [Waiters -> Nodes], value' \in [Waiters -> BOOLEAN],
         Busy(n) => next'[n] = next[n], NEW to, to # "unlock", Goto(n, to), ret' = ret,
         LockInv', Busy(n) => to \in {"queued", "remove", "await"} /\ value'[n] = FALSE,
         to \in {"enqueue", "push"} => next'[n] = Nobody /\ value'[n] = FALSE
  PROVE  ListsInv' /\ Queue' = Queue
<1> USE DEF ListsInv
<1>1. /\ At(n)' = to /\ pc'[n] = to
      /\ \A b \in Agents : b # n => pc'[b] = pc[b] /\ At(b)' = At(b)
      /\ pc' = [b \in Agents |-> pc'[b]] /\ ret' = [b \in Agents |-> ret'[b]]
      /\ \A b \in Agents : ret'[b] \notin {"unlock", "push", "remove", "pop"}
  BY IsAgent, AtGoto
<1>2. TypeInv'
  BY <1>1 DEF TypeInv
<1>3. \A s \in Signalers : At(s)' = At(s)
  BY <1>1, IsAgent
<1>4. \A m \in Waiters : Busy(m) => next'[m] = next[m]
  OBVIOUS
<1>5. /\ ListInv' /\ PlacesInv' /\ Queue' = Queue
      /\ \A m \in Waiters : Busy(m)' <=> Busy(m)
      /\ \A s \in Signalers : ChainOf(s)'
  BY <1>3, <1>4, QuietStep
<1>6. ASSUME NEW m \in Waiters PROVE Owner(m)'
  <2>1. CASE m = n
    BY <1>1, <1>5, <2>1 DEF Owner
  <2>2. CASE m # n
    <3>1. Owner(m) /\ At(m)' = At(m) /\ value'[m] = value[m] /\ next'[m] = next[m] /\ (Busy(m)' => Busy(m))
      BY <1>1, <1>5, <2>2, IsAgent
    <3> QED  BY <3>1, OwnerFrame
  <2> QED  BY <2>1, <2>2
<1> QED  BY <1>2, <1>5, <1>6

(* A new Signal is in no list: its owner was idle. *)
LEMMA NewStep ==
  ASSUME ListsInv, NEW n \in Waiters, New(n)
  PROVE  ListsInv' /\ holder' = holder /\ Queue' = Queue
<1>1. At(n) = "idle" /\ ~Busy(n)
  <2>1. At(n) = "idle"
    BY DEF New, At
  <2> QED  BY <2>1 DEF ListsInv, Owner
<1>2. next' = [next EXCEPT ![n] = Nobody] /\ value' = [value EXCEPT ![n] = FALSE] /\ holder' = holder
  BY DEF New
<1>3. next \in [Waiters -> Nodes] /\ value \in [Waiters -> BOOLEAN] /\ Nobody \in Nodes
  BY DEF ListsInv, TypeInv, Nodes
<1>4. next' \in [Waiters -> Nodes] /\ value' \in [Waiters -> BOOLEAN]
  BY <1>2, <1>3
<1>5. \A m \in Waiters : m # n => next'[m] = next[m] /\ value'[m] = value[m]
  BY <1>2, <1>3
<1>6. next'[n] = Nobody /\ value'[n] = FALSE
  BY <1>2, <1>3
<1>7. UNCHANGED <<first, last, popped, cur, tail, node, ret>> /\ Goto(n, "enqueue")
  BY DEF New, list, chainVars
<1>8. LockInv'
  <2>1. pc'[n] = "enqueue" /\ \A b \in Agents : b # n => pc'[b] = pc[b]
    BY <1>7, IsAgent, AtGoto DEF ListsInv
  <2> QED  BY <1>2, <2>1, IsAgent, LockKept DEF ListsInv
<1> QED  BY <1>1, <1>2, <1>4, <1>5, <1>6, <1>7, <1>8, WaiterStep

(* The owner of a new Signal locks the queue. *)
LEMMA EnqueueStep ==
  ASSUME ListsInv, NEW n \in Waiters, Enqueue(n)
  PROVE  ListsInv' /\ holder = Nobody /\ holder' = n /\ Queue' = Queue
<1>1. At(n) = "enqueue"
  BY DEF Enqueue, At
<1>2. ~Busy(n) /\ next[n] = Nobody /\ value[n] = FALSE
  BY <1>1 DEF ListsInv, Owner
<1>3. UNCHANGED <<first, last, next, value, popped, cur, tail, node, ret>> /\ Goto(n, "push")
  BY DEF Enqueue, Lock, list, chainVars
<1>4. holder = Nobody /\ holder' = n
  BY DEF Enqueue, Lock
<1>5. next' \in [Waiters -> Nodes] /\ value' \in [Waiters -> BOOLEAN]
  BY <1>3 DEF ListsInv, TypeInv
<1>6. LockInv'
  <2>1. \A b \in Agents : b # n => pc'[b] = pc[b]
    BY <1>3, IsAgent, AtGoto DEF ListsInv
  <2> QED  BY <1>4, <2>1, IsAgent, LockTaken DEF ListsInv
<1> QED  BY <1>2, <1>3, <1>4, <1>5, <1>6, WaiterStep

(* A waiter that gives up locks the queue, or waits to be signaled. *)
LEMMA LeaveStep ==
  ASSUME ListsInv, NEW n \in Waiters, Leave(n)
  PROVE  ListsInv' /\ Queue' = Queue /\ (holder' = holder \/ (holder = Nobody /\ holder' = n))
<1>1. At(n) = "queued" /\ value[n] = FALSE
  <2>1. value \in [Waiters -> BOOLEAN]
    BY DEF ListsInv, TypeInv
  <2> QED  BY <2>1 DEF Leave, At
<1>2. UNCHANGED <<first, last, next, value, popped, cur, tail, node, ret>>
  BY DEF Leave, list, chainVars
<1>3. next' \in [Waiters -> Nodes] /\ value' \in [Waiters -> BOOLEAN]
  BY <1>2 DEF ListsInv, TypeInv
<1>4. CASE holder = Nobody /\ holder' = n /\ Goto(n, "remove")
  <2>1. \A b \in Agents : b # n => pc'[b] = pc[b]
    BY <1>2, <1>4, IsAgent, AtGoto DEF ListsInv
  <2>2. LockInv'
    BY <1>4, <2>1, IsAgent, LockTaken DEF ListsInv
  <2>3. value'[n] = FALSE
    BY <1>1, <1>2
  <2> QED  BY <1>2, <1>3, <1>4, <2>2, <2>3, WaiterStep
<1>5. CASE holder' = holder /\ Goto(n, "await")
  <2>1. pc'[n] = "await" /\ \A b \in Agents : b # n => pc'[b] = pc[b]
    BY <1>2, <1>5, IsAgent, AtGoto DEF ListsInv
  <2>2. LockInv'
    BY <1>5, <2>1, IsAgent, LockKept DEF ListsInv
  <2>3. value'[n] = FALSE
    BY <1>1, <1>2
  <2> QED  BY <1>2, <1>3, <1>5, <2>2, <2>3, WaiterStep
<1> QED  BY <1>4, <1>5 DEF Leave, Lock

(* What becomes of the memory of a Signal that is in no list is no matter. *)
LEMMA FreeStep ==
  ASSUME ListsInv, NEW n \in Waiters, Free(n)
  PROVE  ListsInv' /\ holder' = holder /\ Queue' = Queue
<1>1. ~Busy(n)
  <2>1. pc[n] = "done" => At(n) = "done"
    BY DEF At
  <2>2. Busy(n) => At(n) \in {"queued", "remove", "await"} /\ value[n] = FALSE
    BY DEF ListsInv, Owner
  <2> QED  BY <2>1, <2>2 DEF Free
<1>2. PICK garbage \in Nodes : next' = [next EXCEPT ![n] = garbage]
  BY DEF Free, Nodes
<1>3. next \in [Waiters -> Nodes] /\ value \in [Waiters -> BOOLEAN]
  BY DEF ListsInv, TypeInv
<1>4. UNCHANGED <<holder, first, last, value, popped, cur, tail, node, ret>> /\ Goto(n, "idle")
  BY DEF Free, list, chainVars
<1>5. next' \in [Waiters -> Nodes] /\ value' \in [Waiters -> BOOLEAN]
  BY <1>2, <1>3, <1>4
<1>6. \A m \in Waiters : m # n => next'[m] = next[m] /\ value'[m] = value[m]
  BY <1>2, <1>3, <1>4
<1>7. LockInv'
  <2>1. pc'[n] = "idle" /\ \A b \in Agents : b # n => pc'[b] = pc[b]
    BY <1>4, IsAgent, AtGoto DEF ListsInv
  <2> QED  BY <1>4, <2>1, IsAgent, LockKept DEF ListsInv
<1> QED  BY <1>1, <1>4, <1>5, <1>6, <1>7, WaiterStep

(* A Signal that is used again was signaled, so it is in no list. *)
LEMMA ResetStep ==
  ASSUME ListsInv, NEW n \in Waiters, Reset(n)
  PROVE  ListsInv' /\ holder' = holder /\ Queue' = Queue
<1>1. ~Busy(n)
  <2>1. Busy(n) => value[n] = FALSE
    BY DEF ListsInv, Owner
  <2> QED  BY <2>1 DEF Reset
<1>2. next' = [next EXCEPT ![n] = Nobody] /\ value' = [value EXCEPT ![n] = FALSE] /\ holder' = holder
  BY DEF Reset
<1>3. next \in [Waiters -> Nodes] /\ value \in [Waiters -> BOOLEAN] /\ Nobody \in Nodes
  BY DEF ListsInv, TypeInv, Nodes
<1>4. next' \in [Waiters -> Nodes] /\ value' \in [Waiters -> BOOLEAN]
  BY <1>2, <1>3
<1>5. \A m \in Waiters : m # n => next'[m] = next[m] /\ value'[m] = value[m]
  BY <1>2, <1>3
<1>6. next'[n] = Nobody /\ value'[n] = FALSE
  BY <1>2, <1>3
<1>7. UNCHANGED <<first, last, popped, cur, tail, node, ret>> /\ Goto(n, "enqueue")
  BY DEF Reset, list, chainVars
<1>8. LockInv'
  <2>1. pc'[n] = "enqueue" /\ \A b \in Agents : b # n => pc'[b] = pc[b]
    BY <1>7, IsAgent, AtGoto DEF ListsInv
  <2> QED  BY <1>2, <2>1, IsAgent, LockKept DEF ListsInv
<1> QED  BY <1>1, <1>2, <1>4, <1>5, <1>6, <1>7, <1>8, WaiterStep

-----------------------------------------------------------------------------
(* Steps of a waiter on the list.                                          *)

(* What push and remove have in common: links in the list change, none of a chain. *)
LEMMA ListStep ==
  ASSUME ListsInv, NEW n \in Waiters, holder = n, holder' = holder, NEW q,
         Path(next', q, first'), last' = End(q), next' \in [Waiters -> Nodes], value' = value,
         popped' = popped, cur' = cur, tail' = tail, node' = node,
         \A m \in Waiters : ~InLine(m) => next'[m] = next[m],
         \A m \in Waiters : Among(m, q) => InLine(m) \/ (m = n /\ ~Busy(n)),
         NEW to \in {"queued", "done", "await"}, ThenUnlock(n, to),
         Among(n, q) \/ (\E s \in Signalers : InPopped(n, s)) => to \in {"queued", "await"} /\ value[n] = FALSE
  PROVE  ListsInv' /\ Queue' = q
<1> USE DEF ListsInv
<1>1. /\ At(n)' = to /\ pc'[n] = "unlock"
      /\ \A b \in Agents : b # n => pc'[b] = pc[b] /\ At(b)' = At(b)
      /\ pc' = [b \in Agents |-> pc'[b]] /\ ret' = [b \in Agents |-> ret'[b]]
      /\ \A b \in Agents : ret'[b] \notin {"unlock", "push", "remove", "pop"}
  BY IsAgent, AtUnlock
<1>2. TypeInv'
  BY <1>1 DEF TypeInv
<1>3. LockInv'
  BY <1>1, IsAgent, LockKept
<1>4. Queue' = q
  <2>1. LinkedBy(next', first') = q
    BY LinkedIs
  <2> QED  BY <2>1 DEF Queue, Linked
<1>5. ListInv'
  BY <1>4 DEF ListInv
<1>6. \A m : InLine(m)' <=> Among(m, q)
  BY <1>4 DEF InLine
<1>7. \A m, s : InPopped(m, s)' <=> InPopped(m, s)
  BY DEF InPopped
<1>8. PlacesInv'
  <2>1. \A s \in Signalers : Distinct(popped'[s])
    BY DEF PlacesInv
  <2>2. ASSUME NEW m \in Waiters, NEW s \in Signalers, InPopped(m, s) PROVE ~Among(m, q)
    BY <2>2 DEF PlacesInv, Busy
  <2>3. \A m \in Waiters, s, r \in Signalers : InPopped(m, s) /\ InPopped(m, r) => s = r
    BY DEF PlacesInv
  <2> QED  BY <1>6, <1>7, <2>1, <2>2, <2>3 DEF PlacesInv
<1>9. ASSUME NEW m \in Waiters PROVE Owner(m)'
  <2>1. Busy(m)' <=> Among(m, q) \/ \E s \in Signalers : InPopped(m, s)
    BY <1>6, <1>7 DEF Busy
  <2>2. CASE m = n
    BY <1>1, <2>1, <2>2 DEF Owner
  <2>3. CASE m # n
    <3>1. Busy(m)' => Busy(m)
      BY <2>1, <2>3 DEF Busy
    <3>2. Owner(m) /\ At(m)' = At(m)
      BY <1>1, <2>3, IsAgent
    <3>3. At(m) \in {"enqueue", "push"} => next'[m] = next[m]
      BY <3>2 DEF Owner, Busy
    <3> QED  BY <3>1, <3>2, <3>3, OwnerFrame
  <2> QED  BY <2>2, <2>3
<1>10. ASSUME NEW s \in Signalers PROVE ChainOf(s)'
  <2>1. \A m \in Waiters : InPopped(m, s) => next'[m] = next[m]
    BY DEF PlacesInv
  <2>2. At(s) # "pop"
    BY IsAgent, PopAlone
  <2>3. At(s)' = At(s) /\ ChainOf(s)
    BY <1>1, IsAgent
  <2> QED  BY <2>1, <2>2, <2>3, ChainFrame
<1> QED  BY <1>2, <1>3, <1>4, <1>5, <1>8, <1>9, <1>10

(* push appends its node. *)
LEMMA PushStep ==
  ASSUME ListsInv, NEW n \in Waiters, Push(n)
  PROVE  ListsInv' /\ holder = n /\ holder' = holder /\ ~InLine(n) /\ Queue' = Append(Queue, n)
<1>1. At(n) = "push" /\ holder = n
  <2>1. pc[n] = "push" /\ At(n) = "push"
    BY DEF Push, At
  <2> QED  BY <2>1, IsAgent DEF ListsInv, LockInv
<1>2. ~Busy(n) /\ next[n] = Nobody /\ value[n] = FALSE
  BY <1>1 DEF ListsInv, Owner
<1>3. UNCHANGED <<holder, value, popped, cur, tail, node>> /\ ThenUnlock(n, "queued") /\ last' = n
  BY DEF Push, chainVars
<1>4. Path(next, Queue, first) /\ last = End(Queue) /\ Queue \in Seq(Waiters) /\ next \in [Waiters -> Nodes]
  BY DEF ListsInv, ListInv, TypeInv, Path
<1>5. ~Among(n, Queue)
  BY <1>2 DEF Busy, InLine
<1> DEFINE q == Append(Queue, n)
<1>6. End(q) = n
  <2>1. q # <<>> /\ q[Len(q)] = n
    BY <1>4, SMT
  <2> HIDE DEF q
  <2> QED  BY <2>1 DEF End
<1>7. \A m \in Waiters : Among(m, q) => InLine(m) \/ (m = n /\ ~Busy(n))
  <2>1. \A m : Among(m, q) <=> Among(m, Queue) \/ m = n
    BY <1>4, PushFacts
  <2> QED  BY <1>2, <2>1 DEF InLine
<1>8. ~(\E s \in Signalers : InPopped(n, s))
  BY <1>2 DEF Busy
<1>9. CASE Queue = <<>>
  <2>1. last = Nobody
    BY <1>4, <1>9 DEF End
  <2>2. first' = n /\ next' = next
    BY <2>1 DEF Push
  <2>3. q = <<n>>
    BY <1>9, SMT
  <2>4. Path(next, <<n>>, n)
    BY <1>2, PathNew
  <2>5. Path(next', q, first')
    BY <2>2, <2>3, <2>4
  <2> HIDE DEF q
  <2>6. ListsInv' /\ Queue' = q
    BY <1>1, <1>2, <1>3, <1>4, <1>6, <1>7, <2>2, <2>5, ListStep
  <2> QED  BY <1>1, <1>3, <1>5, <2>6 DEF q, InLine
<1>10. CASE Queue # <<>>
  <2>1. last # Nobody /\ last \in Waiters /\ Among(last, Queue)
    BY <1>4, <1>10, EndIs
  <2>2. first' = first /\ next' = [next EXCEPT ![End(Queue)] = n]
    BY <1>4, <2>1 DEF Push
  <2>3. Path(next', q, first')
    BY <1>2, <1>4, <1>5, <1>10, <2>2, PathPush
  <2>4. next' \in [Waiters -> Nodes]
    BY <1>4, <2>2 DEF Nodes
  <2>5. \A m \in Waiters : ~InLine(m) => next'[m] = next[m]
    BY <1>4, <2>1, <2>2 DEF InLine
  <2> HIDE DEF q
  <2>6. ListsInv' /\ Queue' = q
    BY <1>1, <1>2, <1>3, <1>6, <1>7, <2>3, <2>4, <2>5, ListStep
  <2> QED  BY <1>1, <1>3, <1>5, <2>6 DEF q, InLine
<1> QED  BY <1>9, <1>10

(* remove takes its node out, wherever it is, or finds it gone. *)
LEMMA RemoveStep ==
  ASSUME ListsInv, NEW n \in Waiters, Remove(n)
  PROVE  /\ ListsInv' /\ holder = n /\ holder' = holder
         /\ \/ \E k \in 1 .. Len(Queue) : Queue[k] = n /\ Queue' = Without(Queue, k)
            \/ ~InLine(n) /\ Queue' = Queue
<1>1. At(n) = "remove" /\ holder = n
  <2>1. pc[n] = "remove" /\ At(n) = "remove"
    BY DEF Remove, At
  <2> QED  BY <2>1, IsAgent DEF ListsInv, LockInv
<1>2. UNCHANGED <<holder, value, popped, cur, tail, node>>
  BY DEF Remove, chainVars
<1>3. /\ Path(next, Queue, first) /\ last = End(Queue) /\ Queue \in Seq(Waiters) /\ Distinct(Queue)
      /\ next \in [Waiters -> Nodes]
  BY DEF ListsInv, ListInv, TypeInv, Path
<1>4. DOMAIN Queue = 1 .. Len(Queue)
  BY <1>3, SMT
<1>5. CASE InLine(n)
  <2> DEFINE k == CHOOSE i \in DOMAIN Linked(first) : Linked(first)[i] = n
             q == Without(Queue, k)
  <2>1. \E i \in DOMAIN Linked(first) : Linked(first)[i] = n
    BY <1>4, <1>5 DEF InLine, Among, Queue
  <2>2. k \in 1 .. Len(Queue) /\ Queue[k] = n
    <3>1. k \in DOMAIN Linked(first) /\ Linked(first)[k] = n
      BY <2>1
    <3> QED  BY <1>4, <3>1 DEF Queue
  <2>3. Prev(n) = IF k = 1 THEN Nobody ELSE Queue[k - 1]
    BY DEF Prev, Queue
  <2>4. /\ IF Prev(n) # Nobody
           THEN next' = [next EXCEPT ![Prev(n)] = next[n]] /\ UNCHANGED first
           ELSE first' = next[n] /\ UNCHANGED next
        /\ last' = IF last = n THEN Prev(n) ELSE last
        /\ ThenUnlock(n, "done")
    BY <2>1 DEF Remove
  <2> HIDE DEF k
  <2>5. \A m : Among(m, q) <=> Among(m, Queue) /\ m # n
    BY <1>3, <2>2, RemoveFacts
  <2>6. last' = End(q)
    BY <1>3, <2>2, <2>3, <2>4, EndRemove
  <2>7. ~(\E s \in Signalers : InPopped(n, s))
    BY <1>5 DEF ListsInv, PlacesInv
  <2>8. Path(next', q, first') /\ next' \in [Waiters -> Nodes] /\ \A m \in Waiters : ~InLine(m) => next'[m] = next[m]
    <3>1. CASE k = 1
      <4>1. Prev(n) = Nobody /\ first' = next[n] /\ next' = next
        BY <2>3, <2>4, <3>1
      <4>2. n = first
        <5>1. Queue # <<>>
          BY <1>3, <2>2, SMT
        <5> QED  BY <1>3, <2>2, <3>1, <5>1 DEF Path
      <4>3. Path(next, q, next[first])
        BY <1>3, <2>2, <3>1, PathRemoveFirst
      <4> QED  BY <1>3, <4>1, <4>2, <4>3
    <3>2. CASE k # 1
      <4>1. k - 1 \in 1 .. Len(Queue)
        BY <1>3, <2>2, <3>2, SMT
      <4>2. Queue[k - 1] \in Waiters /\ Among(Queue[k - 1], Queue)
        BY <1>3, <4>1, MemberIs DEF Among
      <4>3. Prev(n) = Queue[k - 1] /\ Prev(n) # Nobody
        BY <2>3, <3>2, <4>2, AgentsAssumption
      <4>4. next' = [next EXCEPT ![Queue[k - 1]] = next[Queue[k]]] /\ first' = first
        BY <2>2, <2>4, <4>3
      <4>5. Path(next', q, first')
        BY <1>3, <2>2, <3>2, <4>4, PathRemove
      <4>6. next' \in [Waiters -> Nodes]
        BY <1>3, <2>2, <4>4
      <4>7. \A m \in Waiters : ~InLine(m) => next'[m] = next[m]
        BY <1>3, <4>2, <4>4 DEF InLine
      <4> QED  BY <4>5, <4>6, <4>7
    <3> QED  BY <3>1, <3>2
  <2>9. \A m \in Waiters : Among(m, q) => InLine(m) \/ (m = n /\ ~Busy(n))
    BY <2>5 DEF InLine
  <2>10. ~Among(n, q)
    BY <2>5
  <2> HIDE DEF q
  <2>11. ListsInv' /\ Queue' = q
    BY <1>1, <1>2, <2>4, <2>6, <2>7, <2>8, <2>9, <2>10, ListStep
  <2> QED  BY <1>1, <1>2, <2>2, <2>11 DEF q
<1>6. CASE ~InLine(n)
  <2>1. ~\E i \in DOMAIN Linked(first) : Linked(first)[i] = n
    BY <1>4, <1>6 DEF InLine, Among, Queue
  <2>2. ThenUnlock(n, "await") /\ UNCHANGED <<first, last, next>>
    BY <2>1 DEF Remove, list
  <2>3. (\E s \in Signalers : InPopped(n, s)) => value[n] = FALSE
    BY DEF ListsInv, Owner, Busy
  <2>4. ~Among(n, Queue) /\ \A m \in Waiters : Among(m, Queue) => InLine(m) \/ (m = n /\ ~Busy(n))
    BY <1>6 DEF InLine
  <2>5. Path(next', Queue, first') /\ last' = End(Queue) /\ next' \in [Waiters -> Nodes]
    BY <1>3, <2>2
  <2>6. ListsInv' /\ Queue' = Queue
    BY <1>1, <1>2, <2>2, <2>3, <2>4, <2>5, ListStep
  <2> QED  BY <1>1, <1>2, <1>6, <2>6
<1> QED  BY <1>5, <1>6

-----------------------------------------------------------------------------
(* Steps of a signaler.                                                    *)

(* No node, no links. *)
LEMMA PathEmpty ==
  ASSUME NEW nx
  PROVE  Path(nx, <<>>, Nobody)
<1>1. <<>> \in Seq(Waiters) /\ Len(<<>>) = 0 /\ 1 .. 0 = {}
  BY SMT
<1> QED  BY <1>1 DEF Path, Distinct

(* It changes its own chain, and links of nothing else. *)
LEMMA SignalerStep ==
  ASSUME ListsInv, NEW s \in Signalers, NEW q, NEW p, Path(next', q, first'), last' = End(q),
         next' \in [Waiters -> Nodes], value' \in [Waiters -> BOOLEAN], cur' \in [Signalers -> Nodes],
         tail' \in [Signalers -> Nodes], node' \in [Signalers -> Nodes], popped' \in [Signalers -> Seq(Waiters)],
         \A r \in Signalers : r # s => /\ cur'[r] = cur[r] /\ tail'[r] = tail[r]
                                       /\ node'[r] = node[r] /\ popped'[r] = popped[r],
         popped'[s] = p, Distinct(p), first' = first \/ holder = s,
         \A n \in Waiters : Among(n, q) => InLine(n),
         \A n \in Waiters : Among(n, p) => InPopped(n, s) \/ (InLine(n) /\ ~Among(n, q)),
         \A n \in Waiters : ~InPopped(n, s) => next'[n] = next[n],
         \A n \in Waiters : value'[n] = value[n] \/ (InPopped(n, s) /\ ~Among(n, p)),
         \A b \in Agents : b # s => At(b)' = At(b),
         pc' = [b \in Agents |-> pc'[b]], ret' = [b \in Agents |-> ret'[b]],
         \A b \in Agents : ret'[b] \notin {"unlock", "push", "remove", "pop"},
         LockInv', ChainOf(s)'
  PROVE  ListsInv' /\ Queue' = q
<1> USE DEF ListsInv
<1>1. TypeInv'
  BY DEF TypeInv
<1>2. Queue' = q
  <2>1. LinkedBy(next', first') = q
    BY LinkedIs
  <2> QED  BY <2>1 DEF Queue, Linked
<1>3. ListInv'
  BY <1>2 DEF ListInv
<1>4. \A n : InLine(n)' <=> Among(n, q)
  BY <1>2 DEF InLine
<1>5. \A n : InPopped(n, s)' <=> Among(n, p)
  BY DEF InPopped
<1>6. \A n, r : r \in Signalers /\ r # s => (InPopped(n, r)' <=> InPopped(n, r))
  BY DEF InPopped
<1>7. PlacesInv'
  <2>1. ASSUME NEW r \in Signalers PROVE Distinct(popped'[r])
    BY DEF PlacesInv
  <2>2. ASSUME NEW n \in Waiters, NEW r \in Signalers, InPopped(n, r)' PROVE ~InLine(n)'
    <3>1. CASE r = s
      BY <1>4, <1>5, <2>2, <3>1 DEF PlacesInv
    <3>2. CASE r # s
      BY <1>4, <1>6, <2>2, <3>2 DEF PlacesInv
    <3> QED  BY <3>1, <3>2
  <2>3. ASSUME NEW n \in Waiters, NEW r \in Signalers, r # s PROVE ~(InPopped(n, s)' /\ InPopped(n, r)')
    BY <1>5, <1>6, <2>3 DEF PlacesInv
  <2>4. ASSUME NEW n \in Waiters, NEW r \in Signalers, NEW t \in Signalers, InPopped(n, r)', InPopped(n, t)' PROVE r = t
    <3>1. CASE r # s /\ t # s
      BY <1>6, <2>4, <3>1 DEF PlacesInv
    <3>2. CASE r = s \/ t = s
      BY <2>3, <2>4, <3>2
    <3> QED  BY <3>1, <3>2
  <2> QED  BY <2>1, <2>2, <2>4 DEF PlacesInv
<1>8. ASSUME NEW n \in Waiters PROVE Owner(n)'
  <2>1. Busy(n)' => Busy(n)
    <3>1. Busy(n)' => InLine(n)' \/ InPopped(n, s)' \/ \E r \in Signalers : r # s /\ InPopped(n, r)'
      BY DEF Busy
    <3>2. InLine(n)' \/ InPopped(n, s)' => Busy(n)
      BY <1>4, <1>5 DEF Busy
    <3>3. (\E r \in Signalers : r # s /\ InPopped(n, r)') => Busy(n)
      BY <1>6 DEF Busy
    <3> QED  BY <3>1, <3>2, <3>3
  <2>2. Owner(n) /\ At(n)' = At(n)
    BY IsAgent
  <2>3. At(n) \in {"enqueue", "push"} => next'[n] = next[n]
    BY <2>2 DEF Owner, Busy
  <2>4. CASE value'[n] = value[n]
    BY <2>1, <2>2, <2>3, <2>4, OwnerFrame
  <2>5. CASE InPopped(n, s) /\ ~Among(n, p)
    <3>1. ~Busy(n)'
      <4>1. ~InLine(n)' /\ ~InPopped(n, s)'
        BY <1>4, <1>5, <2>5 DEF PlacesInv
      <4>2. ASSUME NEW r \in Signalers, r # s PROVE ~InPopped(n, r)'
        BY <1>6, <2>5, <4>2 DEF PlacesInv
      <4> QED  BY <4>1, <4>2 DEF Busy
    <3>2. At(n) \notin {"enqueue", "push"}
      BY <2>2, <2>5 DEF Owner, Busy
    <3> QED  BY <2>2, <3>1, <3>2 DEF Owner
  <2> QED  BY <2>4, <2>5
<1>9. ASSUME NEW r \in Signalers PROVE ChainOf(r)'
  <2>1. CASE r = s
    BY <2>1
  <2>2. CASE r # s
    <3>1. \A n \in Waiters : InPopped(n, r) => next'[n] = next[n]
      BY <2>2 DEF PlacesInv
    <3>2. At(r) = "pop" => first' = first
      BY <2>2, IsAgent, PopAlone
    <3>3. At(r)' = At(r) /\ ChainOf(r)
      BY <2>2, IsAgent
    <3> QED  BY <2>2, <3>1, <3>2, <3>3, ChainFrame
  <2> QED  BY <2>1, <2>2
<1> QED  BY <1>1, <1>2, <1>3, <1>7, <1>8, <1>9

(* A signaler that locks the queue starts with an empty chain. *)
LEMMA LockQueueStep ==
  ASSUME ListsInv, NEW s \in Signalers, LockQueue(s)
  PROVE  ListsInv' /\ holder = Nobody /\ holder' = s /\ Queue' = Queue
<1> USE DEF ListsInv
<1>1. UNCHANGED <<first, last, next, value, cur, tail, node, popped, ret>> /\ Goto(s, "pop") /\ holder = Nobody /\ holder' = s
  BY DEF LockQueue, Lock, list, chainVars
<1>2. At(s) = "idle"
  BY DEF LockQueue, At
<1>3. popped[s] = <<>> /\ cur[s] = Nobody /\ tail[s] = Nobody /\ node[s] = Nobody
  BY <1>2 DEF ChainOf
<1>4. /\ At(s)' = "pop" /\ pc'[s] = "pop"
      /\ \A b \in Agents : b # s => pc'[b] = pc[b] /\ At(b)' = At(b)
      /\ pc' = [b \in Agents |-> pc'[b]] /\ ret' = [b \in Agents |-> ret'[b]]
      /\ \A b \in Agents : ret'[b] \notin {"unlock", "push", "remove", "pop"}
  BY <1>1, IsAgent, AtGoto
<1>5. LockInv'
  BY <1>1, <1>4, IsAgent, LockTaken
<1>6. Open(s)'
  <2>1. \A i \in 1 .. Len(<<>>) : FALSE
    BY SMT
  <2> QED  BY <1>1, <1>3, <2>1 DEF Open, End
<1>7. ChainOf(s)'
  BY <1>4, <1>6 DEF ChainOf
<1>8. Path(next', Queue, first') /\ last' = End(Queue) /\ Distinct(popped[s])
  BY <1>1 DEF ListInv, PlacesInv
<1>9. /\ next' \in [Waiters -> Nodes] /\ value' \in [Waiters -> BOOLEAN] /\ cur' \in [Signalers -> Nodes]
      /\ tail' \in [Signalers -> Nodes] /\ node' \in [Signalers -> Nodes] /\ popped' \in [Signalers -> Seq(Waiters)]
  BY <1>1 DEF TypeInv
<1>10. \A n \in Waiters : Among(n, Queue) => InLine(n)
  BY DEF InLine
<1>11. \A n \in Waiters : Among(n, popped[s]) => InPopped(n, s)
  BY DEF InPopped
<1> QED  BY <1>1, <1>4, <1>5, <1>7, <1>8, <1>9, <1>10, <1>11, SignalerStep

(* What pop does to the list, and to the chain of who pops. *)
LEMMA PopList ==
  ASSUME ListsInv, NEW s \in Signalers, Pop(s), next' = next
  PROVE  /\ Queue # <<>> /\ first \in Waiters /\ first = Head(Queue) /\ holder = s /\ Open(s)
         /\ Path(next', Tail(Queue), first') /\ last' = End(Tail(Queue))
         /\ popped' \in [Signalers -> Seq(Waiters)] /\ popped'[s] = Append(popped[s], first)
         /\ \A r \in Signalers : r # s => popped'[r] = popped[r]
         /\ Distinct(Append(popped[s], first))
         /\ \A n \in Waiters : Among(n, Tail(Queue)) => InLine(n)
         /\ \A n \in Waiters : Among(n, Append(popped[s], first)) =>
               InPopped(n, s) \/ (InLine(n) /\ ~Among(n, Tail(Queue)))
<1> USE DEF ListsInv
<1>1. Path(next, Queue, first) /\ last = End(Queue) /\ Queue \in Seq(Waiters) /\ Distinct(Queue)
  BY DEF ListInv, Path
<1>2. first # Nobody /\ first' = next[first] /\ last' = IF next[first] = Nobody THEN Nobody ELSE last
  BY DEF Pop
<1>3. Queue # <<>>
  BY <1>1, <1>2 DEF Path
<1>4. /\ first = Head(Queue) /\ first \in Waiters /\ Path(next, Tail(Queue), next[first])
      /\ End(Tail(Queue)) = IF next[first] = Nobody THEN Nobody ELSE End(Queue)
  BY <1>1, <1>3, PathPop
<1>5. pc[s] = "pop" /\ At(s) = "pop" /\ holder = s
  <2>1. pc[s] = "pop" /\ At(s) = "pop"
    BY DEF Pop, At
  <2> QED  BY <2>1, IsAgent DEF LockInv
<1>6. Open(s)
  BY <1>5 DEF ChainOf
<1>7. popped \in [Signalers -> Seq(Waiters)] /\ popped[s] \in Seq(Waiters) /\ Distinct(popped[s])
  BY DEF TypeInv, PlacesInv
<1>8. Append(popped[s], first) \in Seq(Waiters)
  BY <1>4, <1>7, SMT
<1>9. popped' = [popped EXCEPT ![s] = Append(popped[s], first)]
  BY DEF Pop
<1>10. /\ popped' \in [Signalers -> Seq(Waiters)] /\ popped'[s] = Append(popped[s], first)
       /\ \A r \in Signalers : r # s => popped'[r] = popped[r]
  BY <1>7, <1>8, <1>9
<1>11. \A n : Among(n, Queue) <=> n = first \/ Among(n, Tail(Queue))
  BY <1>1, <1>3, <1>4, HeadFacts
<1>12. ~Among(first, Tail(Queue))
  BY <1>1, <1>3, <1>4, HeadFacts
<1>13. ~Among(first, popped[s])
  BY <1>4, <1>11 DEF PlacesInv, InPopped, InLine
<1>14. Distinct(Append(popped[s], first)) /\ \A n : Among(n, Append(popped[s], first)) <=> Among(n, popped[s]) \/ n = first
  BY <1>4, <1>7, <1>13, PushFacts
<1>15. \A n \in Waiters : Among(n, Append(popped[s], first)) =>
          InPopped(n, s) \/ (InLine(n) /\ ~Among(n, Tail(Queue)))
  BY <1>11, <1>12, <1>14 DEF InPopped, InLine
<1>16. Path(next', Tail(Queue), first') /\ last' = End(Tail(Queue))
  BY <1>1, <1>2, <1>4
<1>17. \A n \in Waiters : Among(n, Tail(Queue)) => InLine(n)
  BY <1>11 DEF InLine
<1> QED  BY <1>3, <1>4, <1>5, <1>6, <1>10, <1>14, <1>15, <1>16, <1>17

(* A single node is popped and is the whole chain. *)
LEMMA PopOneStep ==
  ASSUME ListsInv, NEW s \in Signalers, PopOne(s)
  PROVE  ListsInv' /\ holder = s /\ holder' = holder /\ Queue # <<>> /\ Queue' = Tail(Queue)
<1> USE DEF ListsInv
<1>1. /\ UNCHANGED <<holder, next, value, cur, tail>> /\ Pop(s) /\ ThenUnlock(s, "signal")
      /\ tail[s] = Nobody /\ node' = [node EXCEPT ![s] = first]
  BY DEF PopOne
<1> DEFINE q == Tail(Queue)
           p == Append(popped[s], first)
<1>2. /\ Queue # <<>> /\ first \in Waiters /\ first = Head(Queue) /\ holder = s /\ Open(s)
      /\ Path(next', q, first') /\ last' = End(q)
      /\ popped' \in [Signalers -> Seq(Waiters)] /\ popped'[s] = p
      /\ \A r \in Signalers : r # s => popped'[r] = popped[r]
      /\ Distinct(p)
      /\ \A n \in Waiters : Among(n, q) => InLine(n)
      /\ \A n \in Waiters : Among(n, p) => InPopped(n, s) \/ (InLine(n) /\ ~Among(n, q))
  BY <1>1, PopList
<1>3. popped[s] \in Seq(Waiters)
  BY DEF TypeInv
<1>4. popped[s] = <<>> /\ cur[s] = Nobody
  BY <1>1, <1>2, <1>3, EndIs DEF Open
<1>5. p # <<>> /\ Head(p) = first /\ Tail(p) = <<>>
  BY <1>4, SMT
<1> HIDE DEF p, q
<1>6. /\ At(s)' = "signal" /\ pc'[s] = "unlock"
      /\ \A b \in Agents : b # s => pc'[b] = pc[b] /\ At(b)' = At(b)
      /\ pc' = [b \in Agents |-> pc'[b]] /\ ret' = [b \in Agents |-> ret'[b]]
      /\ \A b \in Agents : ret'[b] \notin {"unlock", "push", "remove", "pop"}
  BY <1>1, IsAgent, AtUnlock
<1>7. LockInv'
  BY <1>1, <1>2, <1>6, IsAgent, LockKept
<1>8. node \in [Signalers -> Nodes] /\ first \in Nodes
  BY <1>2 DEF TypeInv, Nodes
<1>9. node'[s] = first /\ node' \in [Signalers -> Nodes] /\ \A r \in Signalers : r # s => node'[r] = node[r]
  BY <1>1, <1>8
<1>10. ChainOf(s)'
  <2>1. Path(next', <<>>, Nobody)
    BY PathEmpty
  <2> QED  BY <1>1, <1>2, <1>4, <1>5, <1>6, <1>9, <2>1 DEF ChainOf
<1>11. /\ next' \in [Waiters -> Nodes] /\ value' \in [Waiters -> BOOLEAN] /\ cur' \in [Signalers -> Nodes]
       /\ tail' \in [Signalers -> Nodes]
  BY <1>1 DEF TypeInv
<1>12. ListsInv' /\ Queue' = q
  BY <1>1, <1>2, <1>6, <1>7, <1>9, <1>10, <1>11, SignalerStep
<1> QED  BY <1>1, <1>2, <1>12 DEF q

(* append need not link: the node popped before already leads to this one. *)
LEMMA PopAppendStep ==
  ASSUME ListsInv, NEW s \in Signalers, PopAppend(s)
  PROVE  ListsInv' /\ holder = s /\ holder' = holder /\ Queue # <<>> /\ Queue' = Tail(Queue)
<1> USE DEF ListsInv
<1>1. /\ UNCHANGED <<holder, next, value, pc, ret, node>> /\ Pop(s) /\ first' = next[first] /\ At(s) = "pop"
      /\ cur' = [cur EXCEPT ![s] = IF cur[s] = Nobody THEN first ELSE cur[s]] /\ tail' = [tail EXCEPT ![s] = first]
  BY DEF PopAppend, Pop, At
<1> DEFINE q == Tail(Queue)
           p == Append(popped[s], first)
<1>2. /\ Queue # <<>> /\ first \in Waiters /\ first = Head(Queue) /\ holder = s /\ Open(s)
      /\ Path(next', q, first') /\ last' = End(q)
      /\ popped' \in [Signalers -> Seq(Waiters)] /\ popped'[s] = p
      /\ \A r \in Signalers : r # s => popped'[r] = popped[r]
      /\ Distinct(p)
      /\ \A n \in Waiters : Among(n, q) => InLine(n)
      /\ \A n \in Waiters : Among(n, p) => InPopped(n, s) \/ (InLine(n) /\ ~Among(n, q))
  BY <1>1, PopList
<1>3. popped[s] \in Seq(Waiters)
  BY DEF TypeInv
<1>4. PICK m \in Nat : m = Len(popped[s])
  BY <1>3, SMT
<1>5. p # <<>> /\ Len(p) = m + 1 /\ p[m + 1] = first /\ \A i \in 1 .. m : p[i] = popped[s][i]
  BY <1>2, <1>3, <1>4, SMT
<1> HIDE DEF p, q
<1>6. \A b : At(b)' = At(b)
  BY <1>1 DEF At
<1>7. LockInv'
  BY <1>1 DEF LockInv
<1>8. cur \in [Signalers -> Nodes] /\ tail \in [Signalers -> Nodes] /\ first \in Nodes
  BY <1>2 DEF TypeInv, Nodes
<1>9. /\ cur'[s] = (IF cur[s] = Nobody THEN first ELSE cur[s]) /\ tail'[s] = first
      /\ cur' \in [Signalers -> Nodes] /\ tail' \in [Signalers -> Nodes]
      /\ \A r \in Signalers : r # s => cur'[r] = cur[r] /\ tail'[r] = tail[r]
  BY <1>1, <1>8
<1>10. Open(s)'
  <2>1. node'[s] = Nobody
    BY <1>1, <1>2 DEF Open
  <2>2. cur'[s] = p[1]
    <3>1. CASE m = 0
      <4>1. popped[s] = <<>> /\ m + 1 = 1
        <5>1. Len(popped[s]) = 0
          BY <1>4, <3>1
        <5>2. popped[s] = <<>>
          BY <1>3, <5>1, SMT
        <5>3. m + 1 = 1
          BY <3>1, SMT
        <5> QED  BY <5>2, <5>3
      <4> QED  BY <1>2, <1>5, <1>9, <4>1 DEF Open
    <3>2. CASE m # 0
      <4>1. popped[s] # <<>> /\ 1 \in 1 .. m /\ popped[s][1] \in Waiters
        BY <1>3, <1>4, <3>2, SMT
      <4>2. cur[s] = popped[s][1] /\ cur[s] # Nobody
        BY <1>2, <4>1, AgentsAssumption DEF Open
      <4> QED  BY <1>5, <1>9, <4>1, <4>2
    <3> QED  BY <3>1, <3>2
  <2>3. tail'[s] = End(p)
    BY <1>5, <1>9 DEF End
  <2>4. ASSUME NEW i \in 1 .. m + 1 PROVE next[p[i]] = IF i < m + 1 THEN p[i + 1] ELSE first'
    <3>1. CASE i = m + 1
      <4>1. ~(i < m + 1)
        BY <1>4, <3>1, SMT
      <4> QED  BY <1>1, <1>5, <3>1, <4>1
    <3>2. CASE i # m + 1
      <4>1. i \in 1 .. m /\ i < m + 1 /\ (i < m => i + 1 \in 1 .. m) /\ (~(i < m) => i + 1 = m + 1)
        BY <1>4, <3>2, SMT
      <4>2. next[popped[s][i]] = IF i < m THEN popped[s][i + 1] ELSE first
        BY <1>2, <1>4, <4>1 DEF Open
      <4> QED  BY <1>5, <4>1, <4>2
    <3> QED  BY <3>1, <3>2
  <2> QED  BY <1>1, <1>2, <1>5, <2>1, <2>2, <2>3, <2>4 DEF Open
<1>11. ChainOf(s)'
  BY <1>1, <1>6, <1>10 DEF ChainOf
<1>12. /\ next' \in [Waiters -> Nodes] /\ value' \in [Waiters -> BOOLEAN] /\ node' \in [Signalers -> Nodes]
       /\ pc' = [b \in Agents |-> pc'[b]] /\ ret' = [b \in Agents |-> ret'[b]]
       /\ \A b \in Agents : ret'[b] \notin {"unlock", "push", "remove", "pop"}
  BY <1>1 DEF TypeInv
<1>13. ListsInv' /\ Queue' = q
  BY <1>1, <1>2, <1>6, <1>7, <1>9, <1>11, <1>12, SignalerStep
<1> QED  BY <1>1, <1>2, <1>13 DEF q

(* seal cuts the last link, the one that still led into the list. *)
LEMMA SealStep ==
  ASSUME ListsInv, NEW s \in Signalers, Seal(s)
  PROVE  ListsInv' /\ holder' = holder /\ Queue' = Queue
<1> USE DEF ListsInv
<1>1. /\ UNCHANGED <<holder, first, last, value, cur, node, popped>> /\ ThenUnlock(s, "walk")
      /\ tail' = [tail EXCEPT ![s] = Nobody] /\ pc[s] = "pop"
  BY DEF Seal, list
<1>2. At(s) = "pop" /\ holder = s
  BY <1>1, IsAgent DEF At, LockInv
<1>3. Open(s)
  BY <1>2 DEF ChainOf
<1> DEFINE p == popped[s]
<1>4. p \in Seq(Waiters) /\ Distinct(p) /\ next \in [Waiters -> Nodes] /\ tail \in [Signalers -> Nodes] /\ Nobody \in Nodes
  BY DEF TypeInv, PlacesInv, Nodes
<1>5. Path(next, Queue, first) /\ last = End(Queue) /\ Queue \in Seq(Waiters)
  BY DEF ListInv, Path
<1>6. PICK m \in Nat : m = Len(p) /\ (p # <<>> => m \in 1 .. m) /\ \A i \in 1 .. m : p[i] \in Waiters
  BY <1>4, SMT
<1>7. /\ cur[s] = (IF p = <<>> THEN Nobody ELSE p[1]) /\ tail[s] = End(p) /\ node[s] = Nobody
      /\ \A i \in 1 .. m : next[p[i]] = IF i < m THEN p[i + 1] ELSE first
  BY <1>3, <1>6 DEF Open
<1> HIDE DEF p
<1>8. /\ next' \in [Waiters -> Nodes] /\ Path(next', p, cur[s])
      /\ \A n \in Waiters : ~Among(n, p) => next'[n] = next[n]
  <2>1. CASE p = <<>>
    <3>1. next' = next /\ cur[s] = Nobody
      BY <1>4, <1>7, <2>1, EndIs DEF Seal
    <3> QED  BY <1>4, <2>1, <3>1, PathEmpty
  <2>2. CASE p # <<>>
    <3>1. tail[s] = p[m] /\ m \in 1 .. m /\ p[m] \in Waiters /\ Among(p[m], p) /\ p[m] # Nobody
      BY <1>6, <1>7, <2>2, AgentsAssumption DEF End, Among
    <3>2. next' = [next EXCEPT ![p[m]] = Nobody]
      BY <3>1 DEF Seal
    <3>3. ASSUME NEW i \in 1 .. m PROVE next'[p[i]] = IF i < m THEN p[i + 1] ELSE Nobody
      <4>1. CASE i = m
        <5>1. ~(i < m)
          BY <4>1, <1>6, SMT
        <5> QED  BY <1>4, <3>1, <3>2, <4>1, <5>1
      <4>2. CASE i # m
        <5>1. i < m
          BY <4>2, <1>6, SMT
        <5>2. p[i] # p[m] /\ p[i] \in Waiters
          BY <1>4, <1>6, <3>1, <4>2 DEF Distinct
        <5> QED  BY <1>4, <1>7, <3>2, <5>1, <5>2
      <4> QED  BY <4>1, <4>2
    <3>4. Path(next', p, cur[s])
      BY <1>4, <1>6, <1>7, <2>2, <3>3 DEF Path
    <3>5. next' \in [Waiters -> Nodes]
      BY <1>4, <3>2
    <3>6. \A n \in Waiters : ~Among(n, p) => next'[n] = next[n]
      BY <1>4, <3>1, <3>2
    <3> QED  BY <3>4, <3>5, <3>6
  <2> QED  BY <2>1, <2>2
<1>9. \A n : Among(n, p) <=> InPopped(n, s)
  BY DEF InPopped, p
<1>10. Path(next', Queue, first')
  <2>1. ASSUME NEW n, Among(n, Queue) PROVE next'[n] = next[n]
    <3>1. n \in Waiters /\ InLine(n)
      BY <1>5, <2>1, MemberIs DEF InLine
    <3>2. ~Among(n, p)
      BY <1>9, <3>1 DEF PlacesInv
    <3> QED  BY <1>8, <3>1, <3>2
  <2>2. Path(next', Queue, first)
    BY <1>5, <2>1, PathSame
  <2> QED  BY <1>1, <2>2
<1>11. /\ At(s)' = "walk" /\ pc'[s] = "unlock"
       /\ \A b \in Agents : b # s => pc'[b] = pc[b] /\ At(b)' = At(b)
       /\ pc' = [b \in Agents |-> pc'[b]] /\ ret' = [b \in Agents |-> ret'[b]]
       /\ \A b \in Agents : ret'[b] \notin {"unlock", "push", "remove", "pop"}
  BY <1>1, IsAgent, AtUnlock
<1>12. LockInv'
  BY <1>1, <1>2, <1>11, IsAgent, LockKept
<1>13. tail'[s] = Nobody /\ tail' \in [Signalers -> Nodes] /\ \A r \in Signalers : r # s => tail'[r] = tail[r]
  BY <1>1, <1>4
<1>14. popped'[s] = p /\ cur'[s] = cur[s] /\ node'[s] = Nobody
  BY <1>1, <1>7 DEF p
<1>15. ChainOf(s)'
  BY <1>8, <1>11, <1>13, <1>14 DEF ChainOf
<1>16. /\ value' \in [Waiters -> BOOLEAN] /\ cur' \in [Signalers -> Nodes] /\ node' \in [Signalers -> Nodes]
       /\ popped' \in [Signalers -> Seq(Waiters)]
  BY <1>1 DEF TypeInv
<1>17. \A n \in Waiters : Among(n, Queue) => InLine(n)
  BY DEF InLine
<1>18. \A r \in Signalers : r # s => /\ cur'[r] = cur[r] /\ tail'[r] = tail[r]
                                      /\ node'[r] = node[r] /\ popped'[r] = popped[r]
  BY <1>1, <1>13
<1>19. \A n \in Waiters : ~InPopped(n, s) => next'[n] = next[n]
  BY <1>8, <1>9
<1>20. last' = End(Queue) /\ first' = first /\ value' = value
  BY <1>1, <1>5
<1> HIDE DEF ListsInv
<1>21. ListsInv' /\ Queue' = Queue
  BY <1>4, <1>8, <1>9, <1>10, <1>11, <1>12, <1>13, <1>14, <1>15, <1>16, <1>17, <1>18, <1>19, <1>20, SignalerStep
<1> QED  BY <1>1, <1>21

(* signal_all reads the link before it lets the node go. *)
LEMMA SignalAllStep ==
  ASSUME ListsInv, NEW s \in Signalers, SignalAll(s)
  PROVE  ListsInv' /\ holder' = holder /\ Queue' = Queue
<1> USE DEF ListsInv
<1>1. UNCHANGED <<holder, first, last, next, value, ret, tail, popped>> /\ pc[s] = "walk"
  BY DEF SignalAll, list
<1> DEFINE p == popped[s]
<1>2. At(s) = "walk"
  BY <1>1 DEF At
<1>3. node[s] = Nobody /\ tail[s] = Nobody /\ Path(next, p, cur[s]) /\ p \in Seq(Waiters) /\ Distinct(p)
  BY <1>2 DEF ChainOf, TypeInv, PlacesInv
<1>4. /\ next' \in [Waiters -> Nodes] /\ value' \in [Waiters -> BOOLEAN] /\ tail' \in [Signalers -> Nodes]
      /\ popped' \in [Signalers -> Seq(Waiters)] /\ next \in [Waiters -> Nodes]
      /\ cur \in [Signalers -> Nodes] /\ node \in [Signalers -> Nodes]
  BY <1>1 DEF TypeInv
<1>5. Path(next', Queue, first') /\ last' = End(Queue) /\ popped'[s] = p
  BY <1>1 DEF ListInv
<1>6. \A n \in Waiters : Among(n, Queue) => InLine(n)
  BY DEF InLine
<1>7. \A n \in Waiters : Among(n, p) => InPopped(n, s)
  BY DEF InPopped
<1> HIDE DEF p
<1>8. CASE cur[s] = Nobody
  <2>1. Goto(s, "idle") /\ cur' = cur /\ node' = node
    BY <1>8 DEF SignalAll
  <2>2. /\ At(s)' = "idle" /\ pc'[s] = "idle"
        /\ \A b \in Agents : b # s => pc'[b] = pc[b] /\ At(b)' = At(b)
        /\ pc' = [b \in Agents |-> pc'[b]] /\ ret' = [b \in Agents |-> ret'[b]]
        /\ \A b \in Agents : ret'[b] \notin {"unlock", "push", "remove", "pop"}
    BY <1>1, <2>1, IsAgent, AtGoto
  <2>3. LockInv'
    BY <1>1, <2>2, IsAgent, LockKept
  <2>4. p = <<>>
    <3>1. p # <<>> => cur[s] \in Waiters
      BY <1>3, PathPop
    <3> QED  BY <1>8, <3>1, AgentsAssumption
  <2>5. ChainOf(s)'
    BY <1>1, <1>3, <1>5, <1>8, <2>1, <2>2, <2>4 DEF ChainOf
  <2>6. ListsInv' /\ Queue' = Queue
    BY <1>1, <1>3, <1>4, <1>5, <1>6, <1>7, <2>1, <2>2, <2>3, <2>5, SignalerStep
  <2> QED  BY <1>1, <2>6
<1>9. CASE cur[s] # Nobody
  <2>1. Goto(s, "signal") /\ node' = [node EXCEPT ![s] = cur[s]] /\ cur' = [cur EXCEPT ![s] = next[cur[s]]]
    BY <1>9 DEF SignalAll
  <2>2. /\ At(s)' = "signal" /\ pc'[s] = "signal"
        /\ \A b \in Agents : b # s => pc'[b] = pc[b] /\ At(b)' = At(b)
        /\ pc' = [b \in Agents |-> pc'[b]] /\ ret' = [b \in Agents |-> ret'[b]]
        /\ \A b \in Agents : ret'[b] \notin {"unlock", "push", "remove", "pop"}
    BY <1>1, <2>1, IsAgent, AtGoto
  <2>3. LockInv'
    BY <1>1, <2>2, IsAgent, LockKept
  <2>4. p # <<>>
    BY <1>3, <1>9 DEF Path
  <2>5. cur[s] = Head(p) /\ cur[s] \in Waiters /\ Path(next, Tail(p), next[cur[s]])
    BY <1>3, <2>4, PathPop
  <2>6. /\ cur'[s] = next[cur[s]] /\ node'[s] = cur[s]
        /\ \A r \in Signalers : r # s => cur'[r] = cur[r] /\ node'[r] = node[r]
    BY <1>4, <2>1
  <2>7. cur' \in [Signalers -> Nodes] /\ node' \in [Signalers -> Nodes]
    BY <1>4, <2>1, <2>5
  <2>8. ChainOf(s)'
    BY <1>1, <1>3, <1>5, <2>2, <2>4, <2>5, <2>6 DEF ChainOf
  <2>9. \A r \in Signalers : r # s => /\ cur'[r] = cur[r] /\ tail'[r] = tail[r]
                                       /\ node'[r] = node[r] /\ popped'[r] = popped[r]
    BY <1>1, <2>6
  <2> HIDE DEF ListsInv
  <2>10. ListsInv' /\ Queue' = Queue
    BY <1>1, <1>3, <1>4, <1>5, <1>6, <1>7, <2>2, <2>3, <2>7, <2>8, <2>9, SignalerStep
  <2> QED  BY <1>1, <2>10
<1> QED  BY <1>8, <1>9

(* The signaled node is the first of what is left. *)
LEMMA SignalNodeStep ==
  ASSUME ListsInv, NEW s \in Signalers, SignalNode(s)
  PROVE  ListsInv' /\ holder' = holder /\ Queue' = Queue
<1> USE DEF ListsInv
<1>1. /\ UNCHANGED <<holder, first, last, next, ret, cur, tail>> /\ pc[s] = "signal" /\ Goto(s, "walk")
      /\ value' = [value EXCEPT ![node[s]] = TRUE] /\ node' = [node EXCEPT ![s] = Nobody]
      /\ popped' = [popped EXCEPT ![s] = Tail(popped[s])]
  BY DEF SignalNode, list
<1> DEFINE p == popped[s]
<1>2. At(s) = "signal"
  BY <1>1 DEF At
<1>3. /\ p # <<>> /\ node[s] = Head(p) /\ tail[s] = Nobody /\ Path(next, Tail(p), cur[s])
      /\ p \in Seq(Waiters) /\ Distinct(p)
  BY <1>2 DEF ChainOf, TypeInv, PlacesInv
<1>4. /\ next' \in [Waiters -> Nodes] /\ cur' \in [Signalers -> Nodes] /\ tail' \in [Signalers -> Nodes]
      /\ popped \in [Signalers -> Seq(Waiters)] /\ value \in [Waiters -> BOOLEAN] /\ node \in [Signalers -> Nodes]
      /\ Nobody \in Nodes
  BY <1>1 DEF TypeInv, Nodes
<1>5. Path(next', Queue, first') /\ last' = End(Queue)
  BY <1>1 DEF ListInv
<1>6. \A n \in Waiters : Among(n, Queue) => InLine(n)
  BY DEF InLine
<1>7. \A n : Among(n, p) <=> InPopped(n, s)
  BY DEF InPopped
<1> HIDE DEF p
<1>8. /\ Head(p) \in Waiters /\ Tail(p) \in Seq(Waiters) /\ Distinct(Tail(p)) /\ ~Among(Head(p), Tail(p))
      /\ \A n : Among(n, p) <=> n = Head(p) \/ Among(n, Tail(p))
  BY <1>3, HeadFacts
<1>9. /\ At(s)' = "walk" /\ pc'[s] = "walk"
      /\ \A b \in Agents : b # s => pc'[b] = pc[b] /\ At(b)' = At(b)
      /\ pc' = [b \in Agents |-> pc'[b]] /\ ret' = [b \in Agents |-> ret'[b]]
      /\ \A b \in Agents : ret'[b] \notin {"unlock", "push", "remove", "pop"}
  BY <1>1, IsAgent, AtGoto
<1>10. LockInv'
  BY <1>1, <1>9, IsAgent, LockKept
<1>11. popped' = [popped EXCEPT ![s] = Tail(p)]
  BY <1>1 DEF p
<1>12. /\ popped' \in [Signalers -> Seq(Waiters)] /\ popped'[s] = Tail(p) /\ node' \in [Signalers -> Nodes] /\ node'[s] = Nobody
       /\ \A r \in Signalers : r # s => popped'[r] = popped[r] /\ node'[r] = node[r]
  BY <1>1, <1>4, <1>8, <1>11
<1>13. value' \in [Waiters -> BOOLEAN] /\ \A n \in Waiters : n # Head(p) => value'[n] = value[n]
  BY <1>1, <1>3, <1>4
<1>14. \A n \in Waiters : value'[n] = value[n] \/ (InPopped(n, s) /\ ~Among(n, Tail(p)))
  BY <1>7, <1>8, <1>13
<1>15. ChainOf(s)'
  BY <1>1, <1>3, <1>9, <1>12 DEF ChainOf
<1>16. \A n \in Waiters : Among(n, Tail(p)) => InPopped(n, s)
  BY <1>7, <1>8
<1>17. \A r \in Signalers : r # s => /\ cur'[r] = cur[r] /\ tail'[r] = tail[r]
                                      /\ node'[r] = node[r] /\ popped'[r] = popped[r]
  BY <1>1, <1>12
<1> HIDE DEF ListsInv
<1>18. first' = first /\ next' = next
  BY <1>1
<1>19. ListsInv' /\ Queue' = Queue
  <2>1. next' \in [Waiters -> Nodes] /\ cur' \in [Signalers -> Nodes] /\ tail' \in [Signalers -> Nodes]
    BY <1>4
  <2>2. Distinct(Tail(p))
    BY <1>8
  <2> QED  BY <2>1, <2>2, <1>5, <1>6, <1>9, <1>10, <1>12, <1>13, <1>14, <1>15, <1>16, <1>17, <1>18, SignalerStep
<1> QED  BY <1>1, <1>19

-----------------------------------------------------------------------------
(* The invariant, and what follows from it.                                *)

(* At first nothing is linked. *)
LEMMA ListsInit ==
  ASSUME Init
  PROVE  ListsInv /\ Queue = <<>>
<1> USE DEF Init
<1>1. Queue = <<>>
  <2>1. Path(next, <<>>, first)
    BY PathEmpty
  <2>2. LinkedBy(next, first) = <<>>
    BY <2>1, LinkedIs
  <2> QED  BY <2>2 DEF Queue, Linked
<1>2. <<>> \in Seq(Waiters) /\ \A i \in 1 .. Len(<<>>) : FALSE
  BY SMT
<1>3. \A n : ~Among(n, <<>>)
  BY <1>2 DEF Among
<1>4. Distinct(<<>>)
  BY <1>2 DEF Distinct
<1>5. \A s \in Signalers : popped[s] = <<>> /\ cur[s] = Nobody /\ tail[s] = Nobody /\ node[s] = Nobody
  OBVIOUS
<1>6. \A a \in Agents : At(a) = "idle" /\ pc[a] = "idle" /\ ret[a] = "idle"
  BY DEF At
<1>7. TypeInv
  <2>1. next \in [Waiters -> Nodes] /\ value \in [Waiters -> BOOLEAN]
    BY DEF Nodes
  <2>2. cur \in [Signalers -> Nodes] /\ tail \in [Signalers -> Nodes] /\ node \in [Signalers -> Nodes]
    BY DEF Nodes
  <2>3. popped \in [Signalers -> Seq(Waiters)]
    BY <1>2
  <2>4. pc = [a \in Agents |-> pc[a]] /\ ret = [a \in Agents |-> ret[a]]
    OBVIOUS
  <2> QED  BY <1>6, <2>1, <2>2, <2>3, <2>4 DEF TypeInv
<1>8. ListInv
  BY <1>1, PathEmpty DEF ListInv, End
<1>9. \A n : ~InLine(n)
  BY <1>1, <1>3 DEF InLine
<1>10. \A n : \A s \in Signalers : ~InPopped(n, s)
  BY <1>3, <1>5 DEF InPopped
<1>11. PlacesInv
  BY <1>4, <1>5, <1>9, <1>10 DEF PlacesInv
<1>12. LockInv
  BY <1>6 DEF LockInv
<1>13. \A n \in Waiters : Owner(n)
  BY <1>6, <1>9, <1>10 DEF Owner, Busy, Agents
<1>14. \A s \in Signalers : ChainOf(s)
  BY <1>5, <1>6 DEF ChainOf, Agents
<1> QED  BY <1>1, <1>7, <1>8, <1>11, <1>12, <1>13, <1>14 DEF ListsInv

(* Nothing happens. *)
LEMMA ListsStutter ==
  ASSUME ListsInv, UNCHANGED vars
  PROVE  ListsInv' /\ Queue' = Queue /\ holder' = holder
<1>1. UNCHANGED <<holder, first, last, next, value, pc, ret, cur, tail, node, popped>>
  BY DEF vars, list, chainVars
<1>2. \A a : At(a)' = At(a)
  BY <1>1 DEF At
<1>3. /\ ListInv' /\ PlacesInv' /\ Queue' = Queue
      /\ \A n \in Waiters : Busy(n)' <=> Busy(n)
      /\ \A s \in Signalers : ChainOf(s)'
  BY <1>1, <1>2, QuietStep
<1>4. TypeInv' /\ LockInv'
  BY <1>1 DEF ListsInv, TypeInv, LockInv
<1>5. ASSUME NEW n \in Waiters PROVE Owner(n)'
  <2>1. Owner(n)
    BY DEF ListsInv
  <2> QED  BY <1>1, <1>2, <1>3, <2>1, OwnerFrame
<1> QED  BY <1>1, <1>3, <1>4, <1>5 DEF ListsInv

(* The steps of the line. *)
LineNext == Line!QueueNext
lineVars == Line!qvars

(* No step of the line. *)
LEMMA LineQuiet ==
  ASSUME holder' = holder, Queue' = Queue
  PROVE  UNCHANGED lineVars
BY DEF lineVars, Line!qvars, Queue

(* The queue is locked... *)
LEMMA LineLock ==
  ASSUME NEW a \in Agents, holder = Nobody, holder' = a, Queue' = Queue
  PROVE  LineNext
BY DEF LineNext, Line!QueueNext, Line!LockQueue, Queue

(* ... and unlocked. *)
LEMMA LineUnlock ==
  ASSUME NEW a \in Agents, holder = a, holder' = Nobody, Queue' = Queue
  PROVE  LineNext
BY DEF LineNext, Line!QueueNext, Line!UnlockQueue, Queue

(* A node is pushed that was not in line. *)
LEMMA LinePush ==
  ASSUME NEW n \in Agents, holder = n, holder' = holder, ~InLine(n), Queue' = Append(Queue, n)
  PROVE  LineNext
<1>1. Line!Position(n) = {}
  BY DEF Line!Position, InLine, Among, Queue
<1>2. Line!PushNode(n, n)
  BY DEF Line!PushNode, Queue
<1> QED  BY <1>1, <1>2 DEF LineNext, Line!QueueNext

(* The front is popped. *)
LEMMA LinePop ==
  ASSUME NEW a \in Agents, holder = a, holder' = holder, Queue \in Seq(Waiters), Queue # <<>>, Queue' = Tail(Queue)
  PROVE  LineNext
<1>1. 1 \in 1 .. Len(Queue)
  BY SMT
<1>2. Tail(Queue) = SubSeq(Queue, 1 + 1, Len(Queue))
  <2> DEFINE t == Tail(Queue)
             u == SubSeq(Queue, 2, Len(Queue))
  <2>1. PICK m \in Nat : m = Len(Queue) /\ m >= 1
    BY SMT
  <2>2. t = [i \in 1 .. m - 1 |-> Queue[i + 1]]
    <3>1. t \in Seq(Waiters) /\ Len(t) = m - 1 /\ \A i \in 1 .. m - 1 : t[i] = Queue[i + 1]
      BY <2>1, SMT
    <3> HIDE DEF t
    <3>2. t = [i \in 1 .. m - 1 |-> t[i]]
      BY <3>1, SMT
    <3> QED  BY <3>1, <3>2
  <2>3. u = [i \in 1 .. m - 1 |-> Queue[i + 1]]
    BY <2>1, SMT
  <2>4. 1 + 1 = 2
    BY SMT
  <2> QED  BY <2>2, <2>3, <2>4
<1>3. Line!PopNodes(a, 1)
  BY <1>2 DEF Line!PopNodes, Queue
<1>4. 1 \in 1 .. Len(Linked(first))
  BY <1>1 DEF Queue
<1> QED  BY <1>3, <1>4 DEF LineNext, Line!QueueNext

(* A node is taken out, or was not there. *)
LEMMA LineRemove ==
  ASSUME NEW n \in Agents, holder = n, holder' = holder,
         \/ \E k \in 1 .. Len(Queue) : Queue[k] = n /\ Queue' = Without(Queue, k)
         \/ ~InLine(n) /\ Queue' = Queue
  PROVE  LineNext
<1>1. Line!RemoveNode(n, n)
  <2>1. CASE \E k \in 1 .. Len(Queue) : Queue[k] = n /\ Queue' = Without(Queue, k)
    <3>1. PICK k \in 1 .. Len(Queue) : Queue[k] = n /\ Queue' = Without(Queue, k)
      BY <2>1
    <3>2. k \in Line!Position(n)
      BY <3>1 DEF Line!Position, Queue
    <3> QED  BY <3>1, <3>2 DEF Line!RemoveNode, Without, Queue
  <2>2. CASE ~InLine(n) /\ Queue' = Queue
    <3>1. Line!Position(n) = {}
      BY <2>2 DEF Line!Position, InLine, Among, Queue
    <3> QED  BY <2>2, <3>1 DEF Line!RemoveNode, Queue
  <2> QED  BY <2>1, <2>2
<1> QED  BY <1>1 DEF LineNext, Line!QueueNext

(* Every step keeps the invariant, and is a step of the line or none. *)
LEMMA ListsStep ==
  ASSUME ListsInv, [Next]_vars
  PROVE  ListsInv' /\ [LineNext]_lineVars
<1>1. Queue \in Seq(Waiters)
  BY DEF ListsInv, ListInv, Path
<1>2. CASE UNCHANGED vars
  BY <1>2, ListsStutter, LineQuiet
<1>3. ASSUME NEW a \in Agents, Unlock(a) PROVE ListsInv' /\ LineNext
  <2>1. holder' = Nobody
    BY <1>3 DEF Unlock
  <2> QED  BY <1>3, <2>1, UnlockStep, LineUnlock
<1>4. ASSUME NEW n \in Waiters, New(n) \/ Free(n) \/ Reset(n) PROVE ListsInv' /\ UNCHANGED lineVars
  BY <1>4, NewStep, FreeStep, ResetStep, LineQuiet
<1>5. ASSUME NEW n \in Waiters, Enqueue(n) PROVE ListsInv' /\ LineNext
  BY <1>5, EnqueueStep, LineLock, IsAgent
<1>6. ASSUME NEW n \in Waiters, Leave(n) PROVE ListsInv' /\ (LineNext \/ UNCHANGED lineVars)
  BY <1>6, LeaveStep, LineLock, LineQuiet, IsAgent
<1>7. ASSUME NEW n \in Waiters, Push(n) PROVE ListsInv' /\ LineNext
  BY <1>7, PushStep, LinePush, IsAgent
<1>8. ASSUME NEW n \in Waiters, Remove(n) PROVE ListsInv' /\ LineNext
  BY <1>8, RemoveStep, LineRemove, IsAgent
<1>9. ASSUME NEW s \in Signalers, LockQueue(s) PROVE ListsInv' /\ LineNext
  BY <1>9, LockQueueStep, LineLock, IsAgent
<1>10. ASSUME NEW s \in Signalers, PopOne(s) \/ PopAppend(s) PROVE ListsInv' /\ LineNext
  BY <1>1, <1>10, PopOneStep, PopAppendStep, LinePop, IsAgent
<1>11. ASSUME NEW s \in Signalers, Seal(s) \/ SignalAll(s) \/ SignalNode(s) PROVE ListsInv' /\ UNCHANGED lineVars
  BY <1>11, SealStep, SignalAllStep, SignalNodeStep, LineQuiet
<1>12. CASE Next
  BY <1>3, <1>4, <1>5, <1>6, <1>7, <1>8, <1>9, <1>10, <1>11, <1>12 DEF Next
<1> QED  BY <1>2, <1>12

(* The list and the chains of popped nodes share the next fields of the      *)
(* Signals and never meet (push, pop, remove, append, seal, signal_all).     *)
THEOREM ListsInvariance == Spec => []ListsInv
<1>1. Init => ListsInv
  BY ListsInit
<1>2. ListsInv /\ [Next]_vars => ListsInv'
  BY ListsStep
<1> QED  BY <1>1, <1>2, PTL DEF Spec

(* The invariant says what is left of every chain. *)
LEMMA ChainsAreExact ==
  ASSUME ListsInv
  PROVE  ChainExact
<1>1. ASSUME NEW s \in Signalers, pc[s] \in {"walk", "signal"}
      PROVE  popped[s] = (IF node[s] = Nobody THEN <<>> ELSE <<node[s]>>) \o Linked(cur[s])
  <2> DEFINE p == popped[s]
  <2>1. At(s) = pc[s] /\ ChainOf(s) /\ p \in Seq(Waiters)
    BY <1>1 DEF At, ListsInv, TypeInv
  <2>2. CASE pc[s] = "walk"
    <3>1. node[s] = Nobody /\ Path(next, p, cur[s])
      BY <2>1, <2>2 DEF ChainOf
    <3>2. Linked(cur[s]) = p
      BY <3>1, LinkedIs DEF Linked
    <3>3. <<>> \o p = p
      BY <2>1, SMT
    <3> QED  BY <3>1, <3>2, <3>3
  <2>3. CASE pc[s] = "signal"
    <3>1. p # <<>> /\ node[s] = Head(p) /\ Path(next, Tail(p), cur[s])
      BY <2>1, <2>3 DEF ChainOf
    <3>2. Linked(cur[s]) = Tail(p)
      BY <3>1, LinkedIs DEF Linked
    <3> HIDE DEF p
    <3>3. Head(p) # Nobody
      <4>1. Head(p) \in Waiters
        BY <2>1, <3>1, HeadFacts
      <4> QED  BY <4>1, AgentsAssumption
    <3>4. <<Head(p)>> \o Tail(p) = p
      BY <2>1, <3>1, SMT
    <3> QED  BY <3>1, <3>2, <3>3, <3>4 DEF p
  <2> QED  BY <1>1, <2>2, <2>3
<1>2. ASSUME NEW s \in Signalers, NEW i \in DOMAIN popped[s]
      PROVE  Alive(popped[s][i]) /\ ~value[popped[s][i]]
  <2> DEFINE n == popped[s][i]
  <2>1. popped[s] \in Seq(Waiters)
    BY DEF ListsInv, TypeInv
  <2>2. DOMAIN popped[s] = 1 .. Len(popped[s])
    BY <2>1, SMT
  <2>3. InPopped(n, s)
    BY <2>2 DEF InPopped, Among
  <2>4. n \in Waiters
    BY <2>1, <2>3, MemberIs DEF InPopped
  <2>5. At(n) \in {"queued", "remove", "await"} /\ value[n] = FALSE
    BY <2>3, <2>4 DEF ListsInv, Owner, Busy
  <2> QED  BY <2>5 DEF At, Alive
<1> QED  BY <1>1, <1>2 DEF ChainExact

(* signal_all reaches every node it popped, in order and nothing else, and   *)
(* touches no Signal that is gone.                                           *)
THEOREM ChainExactHolds == Spec => []ChainExact
BY ListsInvariance, ChainsAreExact, PTL

(* The linked nodes are the line QueueLock promises: SignalQueue implements  *)
(* the abstract queue on which the primitives' models stand.                 *)
THEOREM ListIsLineHolds == Spec => ListIsLine
<1>1. Init => Line!QueueInit
  BY ListsInit DEF Line!QueueInit, Init, Queue
<1>2. ListsInv /\ [Next]_vars => [Line!QueueNext]_(Line!qvars)
  BY ListsStep DEF LineNext, lineVars
<1> QED  BY <1>1, <1>2, ListsInvariance, PTL DEF Spec, ListIsLine, Line!QueueSpec

=============================================================================
