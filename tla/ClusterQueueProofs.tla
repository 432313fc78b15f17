-------------------------- MODULE ClusterQueueProofs --------------------------
(***************************************************************************)
(* What TLAPS proves about the two ends of an attempt of Cluster, for every*)
(* number of tasks, batches, workers, leases, connections and faults.      *)
(* On the master: what is in the queue of the coroutines that are ready to *)
(* run, that an attempt to place a task is in it exactly once as soon as   *)
(* it was answered, and that one which waits waits for an answer that can  *)
(* still arrive.  Between the two: that the end of a lease is told, or the *)
(* loss of its notice is.  On the worker: that a task is taken once.  The  *)
(* types that ClusterProofs left out are proved on the way.                *)
(*                                                                         *)
(* The queue is built from selections of sequences, so the proofs start    *)
(* with what Picked selects.  The induction theorems of the library need   *)
(* an operator; the ones here argue with the least counterexample.         *)
(***************************************************************************)
EXTENDS ClusterProofs, FiniteSetTheorems

----------------------------------------------------------------------------
(* Selections *)

\* Induction, without an operator to instantiate: a set of naturals has a least element.
LEMMA Smallest ==
  ASSUME NEW T \in SUBSET Nat, T # {}
  PROVE  \E n \in T : \A m \in T : n <= m
<1>1. PICK n \in T : \A m \in T : ~(<<m, n>> \in OpToRel(<, Nat))
  BY NatLessThanWellFounded, WFMin
<1>2. \A m \in T : <<m, n>> \in OpToRel(<, Nat) <=> m < n
  BY DEF OpToRel
<1>3. \A m \in T : m \in Nat /\ ~(m < n)
  BY <1>1, <1>2
<1> QED
  BY <1>3

\* The maximum of the library is one.
LEMMA Largest ==
  ASSUME NEW n \in Nat, NEW T \in SUBSET (1..n), T # {}
  PROVE  Max(T) \in T /\ \A m \in T : m <= Max(T)
<1> DEFINE U == {n - i : i \in T}
<1>0. U \in SUBSET Nat /\ U # {}
  <2>1. \A i \in T : i \in 1..n /\ n - i \in Nat
    OBVIOUS
  <2> QED
    BY <2>1
<1>1. PICK k \in U : \A m \in U : k <= m
  BY <1>0, Smallest
<1>2. PICK i \in T : k = n - i
  OBVIOUS
<1>3. \A m \in T : m <= i
  BY <1>1, <1>2
<1> QED
  BY <1>2, <1>3 DEF Max

\* One step of the fold behind Picked, and the function the fold is.
Pick1(s, S, f, T) ==
    IF T = {} THEN <<>>
    ELSE IF s[Max(T)] \in S THEN Append(f[T \ {Max(T)}], s[Max(T)]) ELSE f[T \ {Max(T)}]

LEMMA PickedFolds ==
  ASSUME NEW s, NEW S
  PROVE  Picked(s, S) = (CHOOSE f : f = [T \in SUBSET DOMAIN s |-> Pick1(s, S, f, T)])[DOMAIN s]
BY DEF Picked, FoldLeft, MapThenFoldSet, Pick1

\* There is a function that the recursion defines.
LEMMA FoldExists ==
  ASSUME NEW s, NEW S, NEW n \in Nat
  PROVE  \E f : f = [T \in SUBSET (1..n) |-> Pick1(s, S, f, T)]
<1> DEFINE Def(k) == \E f : f = [T \in SUBSET (1..k) |-> Pick1(s, S, f, T)]
<1>1. Def(0)
  <2> DEFINE g == [T \in SUBSET (1..0) |-> <<>>]
  <2>1. \A T \in SUBSET (1..0) : T = {}
    OBVIOUS
  <2>2. g = [T \in SUBSET (1..0) |-> Pick1(s, S, g, T)]
    BY <2>1 DEF Pick1
  <2> QED
    BY <2>2
<1>2. ASSUME NEW k \in Nat, Def(k) PROVE Def(k + 1)
  <2>1. PICK f : f = [T \in SUBSET (1..k) |-> Pick1(s, S, f, T)]
    BY <1>2
  <2> DEFINE g == [T \in SUBSET (1..(k + 1)) |-> Pick1(s, S, f, T)]
  <2>2. ASSUME NEW T \in SUBSET (1..(k + 1)), T # {}
        PROVE  T \ {Max(T)} \in SUBSET (1..k)
    <3>1. k + 1 \in Nat /\ T \in SUBSET (1..(k + 1))
      BY <1>2, <2>2
    <3>2. Max(T) \in T /\ \A m \in T : m <= Max(T)
      BY <2>2, <3>1, Largest
    <3>3. PICK M : M = Max(T)
      OBVIOUS
    <3>4. ASSUME NEW m \in T \ {M} PROVE m \in 1..k
      <4>1. m \in 1..(k + 1) /\ M \in 1..(k + 1) /\ m <= M /\ m # M
        BY <3>2, <3>3
      <4> QED
        BY <1>2, <4>1
    <3> QED
      BY <3>3, <3>4
  <2>3. \A T \in SUBSET (1..k) : g[T] = f[T]
    <3>1. ASSUME NEW T \in SUBSET (1..k) PROVE T \in SUBSET (1..(k + 1))
      OBVIOUS
    <3> QED
      BY <2>1, <3>1
  <2>4. \A T \in SUBSET (1..(k + 1)) : Pick1(s, S, g, T) = Pick1(s, S, f, T)
    <3> HIDE DEF g
    <3> QED BY <2>2, <2>3 DEF Pick1
  <2>5. g = [T \in SUBSET (1..(k + 1)) |-> Pick1(s, S, g, T)]
    BY <2>4
  <2> QED
    BY <2>5
<1> HIDE DEF Def
<1>3. ASSUME NEW T, T = {k \in Nat : ~Def(k)}, T # {} PROVE FALSE
  <2>1. PICK k \in T : \A m \in T : k <= m
    BY <1>3, Smallest
  <2>2. k # 0 /\ k \in Nat /\ ~Def(k)
    BY <1>1, <1>3, <2>1
  <2>3. k - 1 \in Nat /\ (k - 1) \notin T
    BY <2>1, <2>2
  <2>4. Def(k - 1)
    BY <1>3, <2>3
  <2>5. Def(k - 1 + 1)
    BY <1>2, <2>3, <2>4
  <2> QED
    BY <2>2, <2>5
<1>4. n \notin {k \in Nat : ~Def(k)}
  BY <1>3
<1>5. Def(n)
  BY <1>4
<1> QED
  BY <1>5 DEF Def
\* The stages of the selection: q[k] is what was picked from the first k elements.
Stages(s, S, q) ==
    /\ q[0] = <<>>
    /\ \A k \in 1..Len(s) : q[k] = IF s[k] \in S THEN Append(q[k - 1], s[k]) ELSE q[k - 1]
    /\ q[Len(s)] = Picked(s, S)

LEMMA PickedInStages ==
  ASSUME NEW E, NEW s \in Seq(E), NEW S
  PROVE  \E q : Stages(s, S, q)
<1>1. Len(s) \in Nat /\ DOMAIN s = 1..Len(s)
  BY LenProperties
<1> DEFINE g == CHOOSE f : f = [T \in SUBSET (1..Len(s)) |-> Pick1(s, S, f, T)]
<1>2. g = [T \in SUBSET (1..Len(s)) |-> Pick1(s, S, g, T)]
  BY <1>1, FoldExists
<1>3. Picked(s, S) = g[1..Len(s)]
  BY <1>1, PickedFolds
<1> HIDE DEF g
<1> DEFINE q == [k \in 0..Len(s) |-> g[1..k]]
<1>4. q[0] = <<>>
  <2>1. 1..0 = {} /\ {} \in SUBSET (1..Len(s)) /\ 0 \in 0..Len(s)
    BY <1>1
  <2>2. g[{}] = <<>>
    BY <1>2, <2>1 DEF Pick1
  <2> QED
    BY <2>1, <2>2
<1>5. ASSUME NEW k \in 1..Len(s)
      PROVE  q[k] = IF s[k] \in S THEN Append(q[k - 1], s[k]) ELSE q[k - 1]
  <2>1. /\ k \in Nat /\ k - 1 \in 0..Len(s) /\ k \in 0..Len(s)
        /\ (1..k) \ {k} = 1..(k - 1) /\ 1..k # {} /\ 1..k \in SUBSET (1..Len(s))
    <3>1. k \in Nat /\ 1 <= k /\ k <= Len(s)
      BY <1>1
    <3>2. \A i : /\ i \in (1..k) \ {k} <=> i \in 1..(k - 1)
                /\ i \in 1..k => i \in 1..Len(s)
      BY <1>1, <3>1
    <3>3. k \in 1..k
      BY <3>1
    <3> QED
      BY <1>1, <3>1, <3>2, <3>3
  <2>2. Max(1..k) = k
    <3>1. Max(1..k) \in 1..k /\ \A m \in 1..k : m <= Max(1..k)
      BY <2>1, Largest
    <3> QED
      BY <2>1, <3>1
  <2>3. g[1..k] = IF s[k] \in S THEN Append(g[1..(k - 1)], s[k]) ELSE g[1..(k - 1)]
    BY <1>2, <2>1, <2>2 DEF Pick1
  <2> QED
    BY <2>1, <2>3
<1>6. q[Len(s)] = Picked(s, S)
  BY <1>1, <1>3
<1> QED
  BY <1>4, <1>5, <1>6 DEF Stages

\* What is picked: the elements of s that are in S, each as often as before.
LEMMA PickedElements ==
  ASSUME NEW E, NEW s \in Seq(E), NEW S
  PROVE  /\ Picked(s, S) \in Seq(E)
         /\ Range(Picked(s, S)) = Range(s) \cap S
         /\ IsInjective(s) => IsInjective(Picked(s, S))
<1> DEFINE Elements(k) == {x \in S : \E i \in 1..k : s[i] = x}
           Good(p, k) ==
             /\ p \in Seq(E)
             /\ \A i \in 1..Len(p) : p[i] \in Elements(k)
             /\ \A x \in Elements(k) : \E i \in 1..Len(p) : p[i] = x
             /\ (\A i, j \in 1..Len(s) : s[i] = s[j] => i = j) =>
                  \A i, j \in 1..Len(p) : p[i] = p[j] => i = j
<1>1. Len(s) \in Nat /\ \A i \in 1..Len(s) : s[i] \in E
  BY LenProperties, ElementOfSeq
<1>2. PICK q : Stages(s, S, q)
  BY PickedInStages
<1>3. Good(q[0], 0)
  <2>1. q[0] = <<>> /\ <<>> \in Seq(E) /\ Len(<<>>) = 0 /\ 1..0 = {}
    BY <1>2 DEF Stages
  <2> QED
    BY <2>1
<1>4. ASSUME NEW k \in 1..Len(s), Good(q[k - 1], k - 1) PROVE Good(q[k], k)
  <2>1. q[k - 1] \in Seq(E) /\ s[k] \in E /\ k \in Nat /\ Len(q[k - 1]) \in Nat
    BY <1>1, <1>4, LenProperties
  <2>2. \A i : i \in 1..k <=> i \in 1..(k - 1) \/ i = k
    BY <2>1
  <2>3. CASE s[k] \notin S
    <3>1. q[k] = q[k - 1] /\ Elements(k) = Elements(k - 1)
      BY <1>2, <2>2, <2>3 DEF Stages
    <3> QED
      BY <1>4, <3>1
  <2>4. CASE s[k] \in S
    <3>1. q[k] = Append(q[k - 1], s[k]) /\ Elements(k) = Elements(k - 1) \cup {s[k]}
      BY <1>2, <2>2, <2>4 DEF Stages
    <3>2. /\ q[k] \in Seq(E) /\ Len(q[k]) = Len(q[k - 1]) + 1
          /\ \A i \in 1..Len(q[k - 1]) : q[k][i] = q[k - 1][i]
          /\ q[k][Len(q[k - 1]) + 1] = s[k]
      BY <2>1, <3>1, AppendProperties
    <3>3. \A i : i \in 1..Len(q[k]) <=> i \in 1..Len(q[k - 1]) \/ i = Len(q[k - 1]) + 1
      BY <2>1, <3>2
    <3>4. \A i \in 1..Len(q[k]) : q[k][i] \in Elements(k)
      BY <1>4, <3>1, <3>2, <3>3
    <3>5. \A x \in Elements(k) : \E i \in 1..Len(q[k]) : q[k][i] = x
      BY <1>4, <3>1, <3>2, <3>3
    <3>6. ASSUME \A i, j \in 1..Len(s) : s[i] = s[j] => i = j
          PROVE  \A i, j \in 1..Len(q[k]) : q[k][i] = q[k][j] => i = j
      <4>1. s[k] \notin Elements(k - 1)
        BY <1>1, <2>1, <3>6
      <4>2. \A i \in 1..Len(q[k - 1]) : q[k][i] # s[k]
        BY <1>4, <3>2, <4>1
      <4>3. \A i, j \in 1..Len(q[k - 1]) : q[k - 1][i] = q[k - 1][j] => i = j
        BY <1>4, <3>6
      <4>4. ASSUME NEW i \in 1..Len(q[k]), NEW j \in 1..Len(q[k]), q[k][i] = q[k][j] PROVE i = j
        BY <3>2, <3>3, <4>2, <4>3, <4>4
      <4> QED
        BY <4>4
    <3> QED
      BY <3>2, <3>4, <3>5, <3>6
  <2> QED
    BY <2>3, <2>4
<1> HIDE DEF Good
<1>5. ASSUME NEW T, T = {k \in Nat : k <= Len(s) /\ ~Good(q[k], k)}, T # {} PROVE FALSE
  <2>1. PICK k \in T : \A m \in T : k <= m
    BY <1>5, Smallest
  <2>2. k \in 1..Len(s) /\ ~Good(q[k], k)
    BY <1>1, <1>3, <1>5, <2>1
  <2>3. k - 1 \in Nat /\ k - 1 <= Len(s) /\ (k - 1) \notin T
    BY <1>1, <2>1, <2>2
  <2>4. Good(q[k - 1], k - 1)
    BY <1>5, <2>3
  <2> QED
    BY <1>4, <2>2, <2>4
<1>6. Good(q[Len(s)], Len(s))
  <2>1. Len(s) \notin {k \in Nat : k <= Len(s) /\ ~Good(q[k], k)}
    BY <1>5
  <2> QED
    BY <1>1, <2>1
<1>7. Good(Picked(s, S), Len(s))
  BY <1>2, <1>6 DEF Stages
<1>8. Picked(s, S) \in Seq(E)
  BY <1>7 DEF Good
<1>9. DOMAIN s = 1..Len(s) /\ DOMAIN Picked(s, S) = 1..Len(Picked(s, S))
  BY <1>8, LenProperties
<1>10. Range(Picked(s, S)) = Range(s) \cap S
  <2>1. PICK p : p = Picked(s, S)
    OBVIOUS
  <2>2. \A x : x \in Range(p) <=> \E i \in 1..Len(p) : p[i] = x
    BY <1>9, <2>1 DEF Range
  <2>3. \A x : x \in Range(s) <=> \E i \in 1..Len(s) : s[i] = x
    BY <1>9 DEF Range
  <2>4. Elements(Len(s)) = Range(s) \cap S
    BY <2>3
  <2> HIDE DEF Elements
  <2>5. \A x : x \in Elements(Len(s)) <=> \E i \in 1..Len(p) : p[i] = x
    BY <1>7, <2>1 DEF Good
  <2> QED
    BY <2>1, <2>2, <2>4, <2>5
<1>11. IsInjective(s) => IsInjective(Picked(s, S))
  BY <1>7, <1>9 DEF Good, IsInjective
<1> QED
  BY <1>8, <1>10, <1>11
----------------------------------------------------------------------------
(* Types of the queue *)

Coroutine == [kind : {"place"}, of : Task] \cup [kind : {"resume"}, of : Lease]

\* A function on an initial segment is a sequence of its values.
LEMMA Listed ==
  ASSUME NEW E, NEW n \in Nat, NEW f, DOMAIN f = 1..n, f = [i \in 1..n |-> f[i]],
         \A i \in 1..n : f[i] \in E
  PROVE  f \in Seq(E) /\ Len(f) = n
<1>1. f \in [1..n -> E]
  BY Zenon
<1>2. f \in Seq(E)
  BY <1>1, SeqDef
<1> QED
  BY <1>2, LenProperties

\* The coroutines that create_task starts.
LEMMA PlaceAllTypes ==
  ASSUME NEW s \in Seq(Task)
  PROVE  /\ PlaceAll(s) \in Seq(Coroutine)
         /\ \A i \in 1..Len(PlaceAll(s)) : PlaceAll(s)[i].kind = "place"
<1>1. Len(s) \in Nat /\ \A i \in 1..Len(s) : s[i] \in Task
  BY LenProperties, ElementOfSeq
<1>2. \A i \in 1..Len(s) : Place(s[i]) \in Coroutine /\ Place(s[i]).kind = "place"
  BY <1>1 DEF Place, Coroutine
<1> DEFINE f == [i \in 1..Len(s) |-> Place(s[i])]
<1>3. f \in Seq(Coroutine) /\ Len(f) = Len(s)
  <2>1. DOMAIN f = 1..Len(s) /\ f = [i \in 1..Len(s) |-> f[i]] /\ \A i \in 1..Len(s) : f[i] \in Coroutine
    BY <1>2
  <2> HIDE DEF f
  <2> QED
    BY <1>1, <2>1, Listed
<1>4. \A i \in 1..Len(s) : f[i].kind = "place"
  BY <1>2
<1> HIDE DEF f
<1>5. PlaceAll(s) = f
  BY DEF PlaceAll, f
<1> QED
  BY <1>3, <1>4, <1>5

\* Only tasks are picked from what names tasks and, elsewhere, None.
LEMMA PickedTasks ==
  ASSUME NEW E, NEW s \in Seq(E), NEW S \in SUBSET Task
  PROVE  Picked(s, S) \in Seq(Task)
<1>1. Picked(s, S) \in Seq(E) /\ Range(Picked(s, S)) \subseteq S
  BY PickedElements
<1>2. PICK p : p = Picked(s, S)
  OBVIOUS
<1>3. p \in Seq(E) /\ Len(p) \in Nat /\ DOMAIN p = 1..Len(p)
  BY <1>1, <1>2, LenProperties
<1>4. \A i \in 1..Len(p) : p[i] \in Task
  BY <1>1, <1>2, <1>3 DEF Range
<1>5. p = [i \in 1..Len(p) |-> p[i]]
  BY <1>3
<1>6. p \in Seq(Task)
  BY <1>3, <1>4, <1>5, Listed
<1> QED
  BY <1>2, <1>6

LEMMA ResumeAllTypes ==
  ASSUME NEW S \in SUBSET Lease
  PROVE  /\ ResumeAll(S) \in Seq(Coroutine)
         /\ \A l \in Lease : l \in S <=> \E i \in 1..Len(ResumeAll(S)) : ResumeAll(S)[i] = Resume(l)
         /\ \A i, j \in 1..Len(ResumeAll(S)) : ResumeAll(S)[i] = ResumeAll(S)[j] => i = j
<1> DEFINE s == [l \in Lease |-> l]
<1>1. s \in Seq(Lease) /\ Range(s) = Lease /\ IsInjective(s)
  <2>1. MaxLease \in Nat /\ DOMAIN s = 1..MaxLease /\ s = [i \in 1..MaxLease |-> s[i]]
        /\ \A i \in 1..MaxLease : s[i] \in Lease
    BY ClusterAssumption DEF Lease
  <2>2. Range(s) = Lease /\ IsInjective(s)
    BY DEF Range, IsInjective
  <2> HIDE DEF s
  <2> QED
    BY <2>1, <2>2, Listed
<1>2. PICK p : p = Picked(s, S)
  OBVIOUS
<1>3. p \in Seq(Lease) /\ Range(p) = S /\ IsInjective(p)
  <2> HIDE DEF s
  <2>1. /\ Picked(s, S) \in Seq(Lease)
        /\ Range(Picked(s, S)) = Range(s) \cap S
        /\ IsInjective(s) => IsInjective(Picked(s, S))
    BY <1>1, PickedElements
  <2>2. Lease \cap S = S
    OBVIOUS
  <2> QED
    BY <1>1, <1>2, <2>1, <2>2
<1>4. Len(p) \in Nat /\ DOMAIN p = 1..Len(p) /\ \A i \in 1..Len(p) : p[i] \in Lease
  BY <1>3, LenProperties, ElementOfSeq
<1>5. ResumeAll(S) = [i \in 1..Len(p) |-> Resume(p[i])]
  BY <1>2 DEF ResumeAll
<1>6. \A i \in 1..Len(p) : Resume(p[i]) \in Coroutine
  BY <1>4 DEF Resume, Coroutine
<1>7. PICK f : f = ResumeAll(S)
  OBVIOUS
<1>8. f \in Seq(Coroutine) /\ Len(f) = Len(p)
  <2>1. DOMAIN f = 1..Len(p) /\ f = [i \in 1..Len(p) |-> f[i]] /\ \A i \in 1..Len(p) : f[i] \in Coroutine
    BY <1>5, <1>6, <1>7
  <2> QED
    BY <1>4, <2>1, Listed
<1>9. \A i \in 1..Len(p) : \A l : f[i] = Resume(l) <=> p[i] = l
  BY <1>5, <1>7 DEF Resume
<1>10. \A l \in Lease : l \in S <=> \E i \in 1..Len(p) : p[i] = l
  BY <1>3, <1>4 DEF Range
<1>11. \A i, j \in 1..Len(p) : p[i] = p[j] => i = j
  BY <1>3, <1>4 DEF IsInjective
<1>12. \A i, j \in 1..Len(p) : f[i] = f[j] => i = j
  BY <1>5, <1>7, <1>11 DEF Resume
<1> QED
  BY <1>7, <1>8, <1>9, <1>10, <1>12

\* The types that TypeInv leaves out.
RestTypes ==
    /\ arrived \in Seq(Task)
    /\ assigned \in [Task -> Lease \cup {None}]
    /\ retry \in [Task -> Nat]
    /\ runq \in Seq(Coroutine)
    /\ serving \in SUBSET Conn
    /\ cancelled \in SUBSET Batch
    /\ left \in SUBSET Lease
    /\ faults \in Nat

LEMMA LossesAreNat ==
  ASSUME TypeInv, NEW t \in Task, NEW w \in Worker
  PROVE  LossesOf(t, w) \in Nat
<1> DEFINE S == {l \in Lost(w) : owner[l].task = t}
<1>1. S \in SUBSET (1..MaxLease)
  BY DEF TypeInv, Lost, Lease
<1>2. IsFiniteSet(1..MaxLease)
  BY ClusterAssumption, FS_Interval
<1> HIDE DEF S
<1>3. Cardinality(S) \in Nat
  BY <1>1, <1>2, FS_Subset, FS_CardinalityType
<1> QED
  BY <1>3 DEF LossesOf, S

LEMMA AfterIsNat ==
  ASSUME NEW n \in Nat, NEW m \in Nat
  PROVE  After(n, m) \in Nat
BY DEF After

\* The tasks a request stores, and those of them that are placed.
LEMMA StoredTypes ==
  ASSUME NEW b \in Batch, NEW n \in 0..Len(Request[b]), NEW S \in SUBSET Task
  PROVE  SubSeq(Request[b], 1, n) \in Seq(Task) /\ Picked(SubSeq(Request[b], 1, n), S) \in Seq(Task)
<1>1. Request[b] \in Seq(Task)
  BY ClusterAssumption
<1>2. SubSeq(Request[b], 1, n) \in Seq(Task)
  BY <1>1, Prefix
<1> QED
  BY <1>2, PickedTasks

\* What the steps append to the queue, and what they take from it.
QueueSteps ==
    \/ runq' = runq
    \/ runq # <<>> /\ runq' = Tail(runq)
    \/ \E s \in Seq(Task) : runq' = runq \o PlaceAll(s)
    \/ \E l \in Lease : runq' = Append(runq, Resume(l))
    \/ \E l \in Lease : runq # <<>> /\ runq' = Append(Tail(runq), Resume(l))
    \/ \E t \in Task : runq # <<>> /\ runq' = Append(Tail(runq), Place(t))
    \/ \E t \in Task : runq' = Append(runq, Place(t))
    \/ \E S \in SUBSET Lease, s \in Seq(Task) : runq' = runq \o ResumeAll(S) \o PlaceAll(s)

LEMMA QueueTypes ==
  ASSUME runq \in Seq(Coroutine), QueueSteps
  PROVE  runq' \in Seq(Coroutine)
<1>1. runq # <<>> => Tail(runq) \in Seq(Coroutine)
  BY HeadTail
<1>2. (\A l \in Lease : Resume(l) \in Coroutine) /\ \A t \in Task : Place(t) \in Coroutine
  BY DEF Resume, Place, Coroutine
<1>3. ASSUME NEW q \in Seq(Coroutine), NEW x \in Coroutine PROVE Append(q, x) \in Seq(Coroutine)
  BY AppendProperties
<1>4. ASSUME NEW p \in Seq(Coroutine), NEW q \in Seq(Coroutine) PROVE p \o q \in Seq(Coroutine)
  BY ConcatProperties
<1>5. ASSUME NEW s \in Seq(Task) PROVE PlaceAll(s) \in Seq(Coroutine)
  BY PlaceAllTypes
<1>6. ASSUME NEW S \in SUBSET Lease PROVE ResumeAll(S) \in Seq(Coroutine)
  BY ResumeAllTypes
<1>7. CASE \E s \in Seq(Task) : runq' = runq \o PlaceAll(s)
  BY <1>4, <1>5, <1>7
<1>8. CASE \E S \in SUBSET Lease, s \in Seq(Task) : runq' = runq \o ResumeAll(S) \o PlaceAll(s)
  BY <1>4, <1>5, <1>6, <1>8
<1>9. CASE \/ \E l \in Lease : runq' = Append(runq, Resume(l))
           \/ \E l \in Lease : runq # <<>> /\ runq' = Append(Tail(runq), Resume(l))
           \/ \E t \in Task : runq # <<>> /\ runq' = Append(Tail(runq), Place(t))
           \/ \E t \in Task : runq' = Append(runq, Place(t))
  BY <1>1, <1>2, <1>3, <1>9
<1>10. CASE runq' = runq \/ (runq # <<>> /\ runq' = Tail(runq))
  BY <1>1, <1>10
<1> QED
  BY <1>7, <1>8, <1>9, <1>10 DEF QueueSteps

\* The lease of an attempt that was answered, given up or broken off is one of a task.
LEMMA AttemptOf ==
  ASSUME TypeInv, DrawnInv, NEW l \in Lease, call[l] # "none"
  PROVE  owner[l] \in Owner /\ owner[l].task \in Task /\ owner[l].worker \in Worker
BY DEF DrawnInv, Owner

\* The reply a handler reads is one to an attempt.
LEMMA ReplyRead ==
  ASSUME TypeInv, NEW c \in Conn, Frame(c, "bound")
  PROVE  toMaster[c] # <<>> /\ Head(toMaster[c]).lease \in Lease
<1>1. toMaster[c] # <<>> /\ Head(toMaster[c]).kind = "bound" /\ toMaster[c] \in Seq(MasterFrame)
  BY DEF Frame, TypeInv
<1>2. Head(toMaster[c]) \in MasterFrame
  BY <1>1, HeadTail
<1> QED
  BY <1>1, <1>2, MasterFrames

\* The futures that fail with a worker, and the tasks that are placed again.
LEMMA DisconnectedQueue ==
  ASSUME TypeInv, DrawnInv, NEW c \in Conn, Disconnected(c)
  PROVE  \E waits \in SUBSET Lease, s \in Seq(Task) :
           /\ waits = {l \in Lease : call[l] = "waiting" /\ owner[l].worker = c[1]}
           /\ call' = [l \in Lease |-> IF l \in waits THEN "broken" ELSE call[l]]
           /\ runq' = runq \o ResumeAll(waits) \o PlaceAll(s)
<1> DEFINE waits == {l \in Lease : call[l] = "waiting" /\ owner[l].worker = c[1]}
           lost == [l \in Lease |-> IF l \in Lost(c[1]) THEN owner[l].task ELSE None]
           again == {t \in Task : tstate'[t] = "queued"}
<1>1. /\ call' = [l \in Lease |-> IF l \in waits THEN "broken" ELSE call[l]]
      /\ runq' = runq \o ResumeAll(waits) \o PlaceAll(Picked(lost, again))
  BY DEF Disconnected
<1>2. lost \in Seq(Task \cup {None})
  <2>1. \A l \in Lease : l \in Lost(c[1]) => owner[l].task \in Task
    BY AttemptOf DEF Lost, DrawnInv
  <2>2. DOMAIN lost = 1..MaxLease /\ lost = [i \in 1..MaxLease |-> lost[i]]
        /\ \A i \in 1..MaxLease : lost[i] \in Task \cup {None}
    BY <2>1 DEF Lease
  <2> HIDE DEF lost
  <2> QED
    BY <2>2, Listed, ClusterAssumption
<1> HIDE DEF lost
<1>3. Picked(lost, again) \in Seq(Task)
  BY <1>2, PickedTasks
<1>4. waits \in SUBSET Lease
  OBVIOUS
<1> QED
  BY <1>1, <1>3, <1>4

LEMMA MasterRest ==
  ASSUME TypeInv, DrawnInv, RestTypes, MasterStep
  PROVE  RestTypes'
<1>1. UNCHANGED <<faults, left>>
  BY DEF MasterStep, worker
<1>2. ASSUME QueueSteps PROVE runq' \in Seq(Coroutine)
  BY <1>2, QueueTypes DEF RestTypes
<1>3. ASSUME NEW b \in Batch, Submit(b) PROVE RestTypes'
  <2>1. PICK n \in 0..Len(Request[b]) :
          LET stored == SubSeq(Request[b], 1, n)
              queue  == Picked(stored, {t \in Task : Admissible(t)}) IN
          /\ arrived' = arrived \o stored
          /\ runq' = runq \o PlaceAll(queue) \/ runq' = runq
    BY <1>3 DEF Submit
  <2> DEFINE stored == SubSeq(Request[b], 1, n)
             queue  == Picked(stored, {t \in Task : Admissible(t)})
  <2>2. stored \in Seq(Task) /\ queue \in Seq(Task)
    BY StoredTypes
  <2> HIDE DEF stored, queue
  <2>3. arrived' = arrived \o stored /\ (runq' = runq \o PlaceAll(queue) \/ runq' = runq)
    BY <2>1 DEF stored, queue
  <2>4. arrived' \in Seq(Task)
    BY <2>2, <2>3, ConcatProperties DEF RestTypes
  <2>5. runq' \in Seq(Coroutine)
    BY <1>2, <2>2, <2>3 DEF QueueSteps
  <2>6. UNCHANGED <<assigned, retry, serving, cancelled>>
    BY <1>3 DEF Submit
  <2> QED
    BY <1>1, <2>4, <2>5, <2>6 DEF RestTypes
<1>4. ASSUME NEW b \in Batch, Cancel(b) PROVE RestTypes'
  BY <1>1, <1>4 DEF Cancel, RestTypes
<1>5. ASSUME NEW l \in Lease, SendRelease(l) PROVE RestTypes'
  BY <1>1, <1>5 DEF SendRelease, tasks, RestTypes
<1>6. CASE PlaceNone
  <2>1. QueueSteps
    BY <1>6 DEF PlaceNone, QueueSteps
  <2> QED
    BY <1>1, <1>2, <1>6, <2>1 DEF PlaceNone, tasks, RestTypes
<1>7. ASSUME NEW t \in Task, NEW w \in Worker, NEW l \in Lease, PlaceOn(t, w, l) PROVE RestTypes'
  <2>1. QueueSteps
    BY <1>7 DEF PlaceOn, QueueSteps
  <2> QED
    BY <1>1, <1>2, <1>7, <2>1 DEF PlaceOn, RestTypes
<1>8. ASSUME NEW l \in Lease, GiveBack(l) \/ Timeout(l) PROVE RestTypes'
  <2>1. call[l] # "none"
    BY <1>8 DEF GiveBack, Timeout
  <2>2. owner[l].task \in Task
    BY <2>1, AttemptOf
  <2>3. QueueSteps
    BY <1>8, <2>2 DEF GiveBack, Timeout, QueueSteps
  <2>4. /\ assigned' = [assigned EXCEPT ![owner[l].task] = None]
        /\ retry' = [retry EXCEPT ![owner[l].task] = @ + 1]
        /\ UNCHANGED <<arrived, serving, cancelled>>
    BY <1>8 DEF GiveBack, Timeout, Revert
  <2>5. assigned' \in [Task -> Lease \cup {None}] /\ retry' \in [Task -> Nat]
    <3>1. retry \in [Task -> Nat] /\ assigned \in [Task -> Lease \cup {None}]
      BY DEF RestTypes
    <3>2. PICK t : t = owner[l].task
      OBVIOUS
    <3>3. retry' = [retry EXCEPT ![t] = retry[t] + 1] /\ assigned' = [assigned EXCEPT ![t] = None]
      BY <2>2, <2>4, <3>1, <3>2
    <3> QED
      BY <2>2, <3>1, <3>2, <3>3
  <2> QED
    BY <1>1, <1>2, <2>3, <2>4, <2>5 DEF RestTypes
<1>9. ASSUME NEW c \in Conn, HandleRegister(c) \/ EndUnregistered(c) PROVE RestTypes'
  BY <1>1, <1>9 DEF HandleRegister, EndUnregistered, master, tasks, RestTypes
<1>10. ASSUME NEW c \in Conn, HandleBound(c) PROVE RestTypes'
  <2>1. Head(toMaster[c]).lease \in Lease
    BY <1>10, ReplyRead DEF HandleBound
  <2>2. QueueSteps
    BY <1>10, <2>1 DEF HandleBound, QueueSteps
  <2> QED
    BY <1>1, <1>2, <1>10, <2>2 DEF HandleBound, tasks, RestTypes
<1>11. ASSUME NEW c \in Conn, HandleCompleted(c) PROVE RestTypes'
  <2> DEFINE queue == Picked(arrived, {t \in Task : tstate'[t] = "queued"})
  <2>1. queue \in Seq(Task)
    BY PickedTasks DEF RestTypes
  <2>2. runq' = runq \o PlaceAll(queue)
    BY <1>11 DEF HandleCompleted
  <2> HIDE DEF queue
  <2>3. QueueSteps
    BY <2>1, <2>2 DEF QueueSteps
  <2> QED
    BY <1>1, <1>2, <1>11, <2>3 DEF HandleCompleted, RestTypes
<1>12. ASSUME NEW c \in Conn, Disconnected(c) PROVE RestTypes'
  <2> DEFINE w == c[1]
             hit == {t \in Task : LossesOf(t, w) > 0}
  <2>1. w \in Worker
    BY DEF Conn
  <2>2. /\ retry' = [t \in Task |-> IF t \in hit THEN After(LossesOf(t, w), retry[t]) ELSE retry[t]]
        /\ assigned' = [t \in Task |-> IF t \in hit /\ retry[t] < 2 THEN None ELSE assigned[t]]
        /\ serving' = serving \ {c} /\ UNCHANGED <<arrived, cancelled>>
    BY <1>12 DEF Disconnected
  <2>3. retry' \in [Task -> Nat]
    <3>1. \A t \in Task : After(LossesOf(t, w), retry[t]) \in Nat
      BY <2>1, LossesAreNat, AfterIsNat DEF RestTypes
    <3> HIDE DEF hit, w
    <3> QED
      BY <2>2, <3>1 DEF RestTypes
  <2>4. assigned' \in [Task -> Lease \cup {None}]
    BY <2>2 DEF RestTypes
  <2>5. QueueSteps
    BY <1>12, DisconnectedQueue DEF QueueSteps
  <2> QED
    BY <1>1, <1>2, <2>2, <2>3, <2>4, <2>5 DEF RestTypes
<1> QED
  BY <1>3, <1>4, <1>5, <1>6, <1>7, <1>8, <1>9, <1>10, <1>11, <1>12 DEF MasterStep, Scheduled

LEMMA LeftTypes ==
  ASSUME TypeInv, left \in SUBSET Lease, WorkerStep \/ FaultStep
  PROVE  left' \in SUBSET Lease
<1>1. ASSUME NEW l \in Lease, MayStay(l) PROVE left' \in SUBSET Lease
  BY <1>1 DEF MayStay
<1>2. ASSUME NEW l \in Lease, BootDone(l) \/ BootFailed(l) \/ Finalize(l) PROVE left' \in SUBSET Lease
  BY <1>1, <1>2 DEF BootDone, BootFailed, Finalize
<1>3. ASSUME NEW l \in Lease, NEW v, CompleteLease(l, v) PROVE UNCHANGED left
  BY <1>3 DEF CompleteLease
<1>4. ASSUME NEW c \in Conn, RecvAssign(c) \/ RecvRelease(c) \/ Cut(c) PROVE UNCHANGED left
  BY <1>4 DEF RecvAssign, RecvRelease, Cut, worker
<1>5. ASSUME NEW w \in Worker, Dial(w) PROVE UNCHANGED left
  BY <1>5 DEF Dial, worker
<1>6. ASSUME NEW w \in Worker, Restart(w) PROVE left' \in SUBSET Lease
  BY <1>6 DEF Restart, Running
<1>7. told \subseteq Lease
  BY DEF TypeInv
<1> QED
  BY <1>2, <1>3, <1>4, <1>5, <1>6, <1>7 DEF WorkerStep, FaultStep

LEMMA RestStep ==
  ASSUME TypeInv, DrawnInv, RestTypes, [Next]_vars
  PROVE  RestTypes'
<1>1. CASE GrantStep
  <2>1. PICK l \in Lease : Grant(l) /\ UNCHANGED <<faults, left>>
    BY <1>1 DEF GrantStep, worker
  <2>2. runq # <<>> /\ runq' = Tail(runq) /\ UNCHANGED <<arrived, retry, serving, cancelled>>
        /\ assigned' = [assigned EXCEPT ![owner[l].task] = l]
    BY <2>1 DEF Grant
  <2>3. runq' \in Seq(Coroutine)
    BY <2>2, HeadTail DEF RestTypes
  <2> QED
    BY <2>1, <2>2, <2>3 DEF RestTypes
<1>2. CASE WorkerStep \/ FaultStep
  <2>1. UNCHANGED <<arrived, assigned, retry, runq, serving, cancelled>> /\ faults' \in {faults, faults + 1}
    BY <1>2 DEF WorkerStep, FaultStep, master, tasks
  <2> QED
    BY <1>2, <2>1, LeftTypes DEF RestTypes
<1>3. CASE UNCHANGED vars
  BY <1>3 DEF vars, master, tasks, worker, RestTypes
<1> QED
  BY <1>1, <1>2, <1>3, MasterRest DEF Next

LEMMA RestInvariant == Spec => []RestTypes
<1>1. Init => RestTypes
  <2>1. Init => arrived = <<>> /\ runq = <<>> /\ faults = 0 /\ serving = {} /\ cancelled = {} /\ left = {}
                /\ assigned = [t \in Task |-> None] /\ retry = [t \in Task |-> 0]
    BY DEF Init, MasterInit, WorkerInit
  <2>2. <<>> \in Seq(Task) /\ <<>> \in Seq(Coroutine)
    OBVIOUS
  <2> QED
    BY <2>1, <2>2 DEF RestTypes
<1>2. Bookkeeping => TypeInv /\ DrawnInv
  BY DEF Bookkeeping
<1> QED
  BY <1>1, <1>2, RestStep, BookkeepingInvariant, PTL DEF Spec

\* Every variable of the cluster keeps its type, whatever goes wrong.
THEOREM ClusterTypes == Spec => []TypeOK
<1>1. RestTypes /\ Bookkeeping => TypeOK
  BY DEF Bookkeeping, TypeInv, RestTypes, TypeOK, Owner, Coroutine
<1> QED
  BY <1>1, RestInvariant, BookkeepingInvariant, PTL
----------------------------------------------------------------------------
(* Attempts in the queue *)

\* The leases whose attempt is in a queue.
Resumed(q) == {l \in Lease : \E i \in 1..Len(q) : q[i] = Resume(l)}

\* None of them is in it twice.
Once(q) == \A i, j \in 1..Len(q) : q[i] = q[j] /\ q[i].kind = "resume" => i = j

\* The attempts whose reply arrived, whose connection broke or that reached no worker.
Answered == {l \in Lease : call[l] \in {"bound", "refused", "broken"}}

\* Exactly they are ready to run, once each.
AnsweredOnce == Resumed(runq) = Answered /\ Once(runq)

LEMMA Coroutines ==
  ASSUME NEW x \in Coroutine
  PROVE  x.kind = "place" \/ \E l \in Lease : x = Resume(l)
BY DEF Coroutine, Resume

\* The head of the queue runs.
LEMMA TailOfQueue ==
  ASSUME NEW q \in Seq(Coroutine), q # <<>>, Once(q)
  PROVE  /\ Once(Tail(q))
         /\ Head(q).kind = "place" => Resumed(Tail(q)) = Resumed(q)
         /\ \A l \in Lease : Head(q) = Resume(l) => l \in Resumed(q) /\ Resumed(Tail(q)) = Resumed(q) \ {l}
<1>1. /\ Len(q) \in Nat \ {0} /\ Head(q) = q[1] /\ Len(Tail(q)) = Len(q) - 1
      /\ \A i \in 1..Len(q) - 1 : Tail(q)[i] = q[i + 1] /\ i + 1 \in 1..Len(q)
  BY HeadTail
<1>2. ASSUME NEW i \in 1..Len(q) PROVE i = 1 \/ (i - 1 \in 1..Len(Tail(q)) /\ Tail(q)[i - 1] = q[i])
  <2>1. CASE i # 1
    <3>1. i - 1 \in 1..Len(q) - 1 /\ (i - 1) + 1 = i
      BY <1>1, <2>1
    <3> QED
      BY <1>1, <3>1
  <2> QED
    BY <2>1
<1>3. Once(Tail(q))
  <2>1. ASSUME NEW i \in 1..Len(Tail(q)), NEW j \in 1..Len(Tail(q)),
               Tail(q)[i] = Tail(q)[j], Tail(q)[i].kind = "resume"
        PROVE  i = j
    <3>1. i + 1 = j + 1
      BY <1>1, <2>1 DEF Once
    <3> QED
      BY <1>1, <3>1
  <2> QED
    BY <2>1 DEF Once
<1>4. 1 \in 1..Len(q)
  BY <1>1
<1>5. ASSUME Head(q).kind = "place" PROVE Resumed(Tail(q)) = Resumed(q)
  <2>1. \A l \in Lease : q[1] # Resume(l)
    BY <1>1, <1>5 DEF Resume
  <2> QED
    BY <1>1, <1>2, <2>1 DEF Resumed
<1>6. ASSUME NEW l \in Lease, Head(q) = Resume(l)
      PROVE  l \in Resumed(q) /\ Resumed(Tail(q)) = Resumed(q) \ {l}
  <2>1. q[1] = Resume(l) /\ Resume(l).kind = "resume"
    BY <1>1, <1>6 DEF Resume
  <2>2. l \in Resumed(q)
    BY <1>4, <2>1 DEF Resumed
  <2>3. l \notin Resumed(Tail(q))
    <3>1. ASSUME NEW i \in 1..Len(Tail(q)), Tail(q)[i] = Resume(l) PROVE FALSE
      <4>1. i + 1 \in 1..Len(q) /\ q[i + 1] = q[1]
        BY <1>1, <2>1, <3>1
      <4>2. i + 1 = 1
        BY <1>4, <2>1, <4>1 DEF Once
      <4> QED
        BY <1>1, <4>2
    <3> QED
      BY <3>1 DEF Resumed
  <2>4. ASSUME NEW k \in Lease, k # l PROVE k \in Resumed(Tail(q)) <=> k \in Resumed(q)
    <3>1. q[1] # Resume(k)
      BY <2>1, <2>4 DEF Resume
    <3> QED
      BY <1>1, <1>2, <3>1 DEF Resumed
  <2>5. Resumed(Tail(q)) \subseteq Lease /\ Resumed(q) \subseteq Lease
    BY DEF Resumed
  <2> QED
    BY <2>2, <2>3, <2>4, <2>5
<1> QED
  BY <1>3, <1>5, <1>6

\* Two queues in a row.
LEMMA QueuesInARow ==
  ASSUME NEW p \in Seq(Coroutine), NEW q \in Seq(Coroutine), Once(p), Once(q),
         Resumed(p) \cap Resumed(q) = {}
  PROVE  p \o q \in Seq(Coroutine) /\ Once(p \o q) /\ Resumed(p \o q) = Resumed(p) \cup Resumed(q)
<1> DEFINE r == p \o q
<1>1. /\ r \in Seq(Coroutine) /\ Len(p) \in Nat /\ Len(q) \in Nat /\ Len(r) = Len(p) + Len(q)
      /\ \A i \in 1..Len(r) : r[i] = IF i <= Len(p) THEN p[i] ELSE q[i - Len(p)]
  BY ConcatProperties, LenProperties
<1> HIDE DEF r
<1>2. \A i \in 1..Len(p) : i \in 1..Len(r) /\ r[i] = p[i]
  BY <1>1
<1>3. ASSUME NEW j \in 1..Len(q) PROVE Len(p) + j \in 1..Len(r) /\ r[Len(p) + j] = q[j]
  <2>1. j \in Nat /\ Len(p) + j \in 1..Len(r) /\ ~(Len(p) + j <= Len(p)) /\ Len(p) + j - Len(p) = j
    BY <1>1
  <2> QED
    BY <1>1, <2>1
<1>4. ASSUME NEW i \in 1..Len(r)
      PROVE  \/ i \in 1..Len(p) /\ r[i] = p[i]
             \/ \E j \in 1..Len(q) : i = Len(p) + j /\ r[i] = q[j]
  <2>1. CASE i <= Len(p)
    BY <1>1, <2>1
  <2>2. CASE ~(i <= Len(p))
    <3>1. i - Len(p) \in 1..Len(q) /\ i = Len(p) + (i - Len(p)) /\ r[i] = q[i - Len(p)]
      BY <1>1, <2>2
    <3> QED
      BY <3>1
  <2> QED
    BY <2>1, <2>2
<1>5. Resumed(r) = Resumed(p) \cup Resumed(q)
  <2>1. ASSUME NEW l \in Lease, l \in Resumed(r) PROVE l \in Resumed(p) \cup Resumed(q)
    <3>1. PICK i \in 1..Len(r) : r[i] = Resume(l)
      BY <2>1 DEF Resumed
    <3> QED
      BY <1>4, <3>1 DEF Resumed
  <2>2. ASSUME NEW l \in Lease, l \in Resumed(p) PROVE l \in Resumed(r)
    BY <1>2, <2>2 DEF Resumed
  <2>3. ASSUME NEW l \in Lease, l \in Resumed(q) PROVE l \in Resumed(r)
    BY <1>3, <2>3 DEF Resumed
  <2>4. Resumed(r) \subseteq Lease /\ Resumed(p) \subseteq Lease /\ Resumed(q) \subseteq Lease
    BY DEF Resumed
  <2> QED
    BY <2>1, <2>2, <2>3, <2>4
<1>6. \A i \in 1..Len(p), j \in 1..Len(q) : p[i] = q[j] => p[i].kind # "resume"
  <2>1. ASSUME NEW i \in 1..Len(p), NEW j \in 1..Len(q), p[i] = q[j], p[i].kind = "resume" PROVE FALSE
    <3>1. p[i] \in Coroutine
      BY ElementOfSeq
    <3>2. PICK l \in Lease : p[i] = Resume(l)
      BY <2>1, <3>1, Coroutines
    <3>3. l \in Resumed(p) /\ l \in Resumed(q)
      BY <2>1, <3>2 DEF Resumed
    <3> QED
      BY <3>3
  <2> QED
    BY <2>1
<1>7. Once(r)
  <2>1. ASSUME NEW i \in 1..Len(r), NEW j \in 1..Len(r), r[i] = r[j], r[i].kind = "resume" PROVE i = j
    <3>1. CASE i \in 1..Len(p) /\ r[i] = p[i] /\ j \in 1..Len(p) /\ r[j] = p[j]
      BY <2>1, <3>1 DEF Once
    <3>2. CASE \E m, n \in 1..Len(q) : i = Len(p) + m /\ r[i] = q[m] /\ j = Len(p) + n /\ r[j] = q[n]
      BY <2>1, <3>2 DEF Once
    <3> QED
      BY <1>4, <1>6, <2>1, <3>1, <3>2
  <2> QED
    BY <2>1 DEF Once
<1> QED
  BY <1>1, <1>5, <1>7 DEF r

\* One more coroutine.
LEMMA QueueAndOne ==
  ASSUME NEW q \in Seq(Coroutine), Once(q)
  PROVE  /\ \A t \in Task : Once(Append(q, Place(t))) /\ Resumed(Append(q, Place(t))) = Resumed(q)
         /\ \A l \in Lease : l \notin Resumed(q) =>
              Once(Append(q, Resume(l))) /\ Resumed(Append(q, Resume(l))) = Resumed(q) \cup {l}
<1>1. ASSUME NEW x \in Coroutine
      PROVE  <<x>> \in Seq(Coroutine) /\ Once(<<x>>) /\ Append(q, x) = q \o <<x>>
             /\ \A l \in Lease : l \in Resumed(<<x>>) <=> x = Resume(l)
  <2>1. <<x>> \in Seq(Coroutine) /\ Len(<<x>>) = 1 /\ <<x>>[1] = x
    OBVIOUS
  <2>2. 1..1 = {1}
    OBVIOUS
  <2>3. Append(q, x) = q \o <<x>>
    BY AppendIsConcat
  <2> QED
    BY <2>1, <2>2, <2>3 DEF Once, Resumed
<1>2. ASSUME NEW t \in Task PROVE Place(t) \in Coroutine /\ \A l \in Lease : Place(t) # Resume(l)
  BY DEF Place, Resume, Coroutine
<1>3. ASSUME NEW l \in Lease
      PROVE  Resume(l) \in Coroutine /\ \A k \in Lease : Resume(k) = Resume(l) => k = l
  BY DEF Resume, Coroutine
<1>4. ASSUME NEW t \in Task PROVE Once(Append(q, Place(t))) /\ Resumed(Append(q, Place(t))) = Resumed(q)
  <2>1. Resumed(<<Place(t)>>) = {}
    BY <1>1, <1>2 DEF Resumed
  <2>2. PICK one \in Seq(Coroutine) : one = <<Place(t)>> /\ Once(one) /\ Append(q, Place(t)) = q \o one
    BY <1>1, <1>2
  <2>3. Once(q \o one) /\ Resumed(q \o one) = Resumed(q) \cup Resumed(one)
    BY <2>1, <2>2, QueuesInARow
  <2> QED
    BY <2>1, <2>2, <2>3
<1>5. ASSUME NEW l \in Lease, l \notin Resumed(q)
      PROVE  Once(Append(q, Resume(l))) /\ Resumed(Append(q, Resume(l))) = Resumed(q) \cup {l}
  <2>1. Resumed(<<Resume(l)>>) = {l}
    <3>1. Resumed(<<Resume(l)>>) \subseteq Lease
      BY DEF Resumed
    <3> QED
      BY <1>1, <1>3, <3>1
  <2>2. PICK one \in Seq(Coroutine) : one = <<Resume(l)>> /\ Once(one) /\ Append(q, Resume(l)) = q \o one
    BY <1>1, <1>3
  <2>3. Once(q \o one) /\ Resumed(q \o one) = Resumed(q) \cup Resumed(one)
    <3>1. Resumed(q) \cap Resumed(one) = {}
      BY <1>5, <2>1, <2>2
    <3> QED
      BY <2>2, <3>1, QueuesInARow
  <2> QED
    BY <2>1, <2>2, <2>3
<1> QED
  BY <1>4, <1>5

LEMMA StartedQueue ==
  ASSUME NEW s \in Seq(Task)
  PROVE  PlaceAll(s) \in Seq(Coroutine) /\ Once(PlaceAll(s)) /\ Resumed(PlaceAll(s)) = {}
<1>1. \A i \in 1..Len(PlaceAll(s)) : PlaceAll(s)[i].kind = "place"
  BY PlaceAllTypes
<1>2. \A l \in Lease : Resume(l).kind = "resume"
  BY DEF Resume
<1> QED
  BY <1>1, <1>2, PlaceAllTypes DEF Once, Resumed

LEMMA FailedQueue ==
  ASSUME NEW S \in SUBSET Lease
  PROVE  ResumeAll(S) \in Seq(Coroutine) /\ Once(ResumeAll(S)) /\ Resumed(ResumeAll(S)) = S
<1>1. Resumed(ResumeAll(S)) = S
  <2>1. \A l \in Lease : l \in S <=> l \in Resumed(ResumeAll(S))
    BY ResumeAllTypes DEF Resumed
  <2>2. Resumed(ResumeAll(S)) \subseteq Lease
    BY DEF Resumed
  <2> QED
    BY <2>1, <2>2
<1> QED
  BY <1>1, ResumeAllTypes DEF Once

\* The steps keep the queue and the attempts in step.
LEMMA AnsweredStep ==
  ASSUME TypeInv, DrawnInv, RestTypes, AnsweredOnce, [Next]_vars
  PROVE  AnsweredOnce'
<1>1. /\ runq \in Seq(Coroutine) /\ Resumed(runq) = Answered /\ Once(runq)
      /\ call \in [Lease -> {"none", "waiting", "bound", "refused", "broken", "over"}]
  BY DEF AnsweredOnce, RestTypes, TypeInv
<1>2. CASE runq' = runq /\ Answered' = Answered
  BY <1>1, <1>2 DEF AnsweredOnce
<1>3. ASSUME NEW s \in Seq(Task), runq' = runq \o PlaceAll(s), Answered' = Answered
      PROVE  AnsweredOnce'
  <2>1. PlaceAll(s) \in Seq(Coroutine) /\ Once(PlaceAll(s)) /\ Resumed(PlaceAll(s)) = {}
    BY StartedQueue
  <2>2. Once(runq \o PlaceAll(s)) /\ Resumed(runq \o PlaceAll(s)) = Resumed(runq) \cup {}
    BY <1>1, <2>1, QueuesInARow
  <2> QED
    BY <1>1, <1>3, <2>2 DEF AnsweredOnce
<1>4. ASSUME NEW l \in Lease, runq # <<>>, Head(runq) = Resume(l), Answered' = Answered \ {l},
             runq' = Tail(runq) \/ \E t \in Task : runq' = Append(Tail(runq), Place(t))
      PROVE  AnsweredOnce'
  <2>1. PICK q : q = Tail(runq)
    OBVIOUS
  <2>2. q \in Seq(Coroutine) /\ Once(q) /\ Resumed(q) = Answered \ {l}
    BY <1>1, <1>4, <2>1, HeadTail, TailOfQueue
  <2>3. \A t \in Task : Once(Append(q, Place(t))) /\ Resumed(Append(q, Place(t))) = Resumed(q)
    BY <2>2, QueueAndOne
  <2>4. runq' = q \/ \E t \in Task : runq' = Append(q, Place(t))
    BY <1>4, <2>1
  <2>5. Once(runq') /\ Resumed(runq') = Answered'
    BY <1>4, <2>2, <2>3, <2>4
  <2> QED
    BY <2>5 DEF AnsweredOnce
<1>5. ASSUME NEW t, runq # <<>>, Head(runq) = Place(t),
             \/ runq' = Tail(runq) /\ Answered' = Answered
             \/ \E l \in Lease : /\ runq' = Append(Tail(runq), Resume(l))
                                 /\ l \notin Answered /\ Answered' = Answered \cup {l}
      PROVE  AnsweredOnce'
  <2>1. PICK q : q = Tail(runq)
    OBVIOUS
  <2>2. Head(runq).kind = "place"
    BY <1>5 DEF Place
  <2>3. q \in Seq(Coroutine) /\ Once(q) /\ Resumed(q) = Answered
    BY <1>1, <1>5, <2>1, <2>2, HeadTail, TailOfQueue
  <2>4. \A l \in Lease : l \notin Resumed(q) =>
          Once(Append(q, Resume(l))) /\ Resumed(Append(q, Resume(l))) = Resumed(q) \cup {l}
    BY <2>3, QueueAndOne
  <2>5. Once(runq') /\ Resumed(runq') = Answered'
    BY <1>5, <2>1, <2>3, <2>4
  <2> QED
    BY <2>5 DEF AnsweredOnce
<1>6. ASSUME NEW l \in Lease, runq' = Append(runq, Resume(l)), l \notin Answered,
             Answered' = Answered \cup {l}
      PROVE  AnsweredOnce'
  BY <1>1, <1>6, QueueAndOne DEF AnsweredOnce
<1>7. ASSUME NEW t \in Task, runq' = Append(runq, Place(t)), Answered' = Answered PROVE AnsweredOnce'
  BY <1>1, <1>7, QueueAndOne DEF AnsweredOnce
<1>8. ASSUME NEW b \in Batch, Submit(b) PROVE AnsweredOnce'
  <2>1. PICK n \in 0..Len(Request[b]) :
          \/ runq' = runq \o PlaceAll(Picked(SubSeq(Request[b], 1, n), {t \in Task : Admissible(t)}))
          \/ runq' = runq
    BY <1>8 DEF Submit
  <2>2. Answered' = Answered
    BY <1>8 DEF Submit, Answered
  <2>3. Picked(SubSeq(Request[b], 1, n), {t \in Task : Admissible(t)}) \in Seq(Task)
    BY StoredTypes
  <2> QED
    BY <1>2, <1>3, <2>1, <2>2, <2>3
<1>9. ASSUME NEW t \in Task, NEW w \in Worker, NEW l \in Lease, PlaceOn(t, w, l) PROVE AnsweredOnce'
  <2>1. runq # <<>> /\ Head(runq) = Place(t) /\ l \notin Answered
    BY <1>9 DEF PlaceOn, Drawn, Answered
  <2>2. \/ runq' = Tail(runq) /\ call' = [call EXCEPT ![l] = "waiting"]
        \/ runq' = Append(Tail(runq), Resume(l)) /\ call' = [call EXCEPT ![l] = "broken"]
    BY <1>9 DEF PlaceOn
  <2>3. call' = [call EXCEPT ![l] = "waiting"] => Answered' = Answered
    BY <1>1, <2>1 DEF Answered
  <2>4. call' = [call EXCEPT ![l] = "broken"] => Answered' = Answered \cup {l}
    BY <1>1, <2>1 DEF Answered
  <2> QED
    BY <1>5, <2>1, <2>2, <2>3, <2>4
<1>10. ASSUME NEW l \in Lease, call' = [call EXCEPT ![l] = "over"]
       PROVE  Answered' = Answered \ {l}
  BY <1>1, <1>10 DEF Answered
<1>11. ASSUME NEW l \in Lease, GiveBack(l) PROVE AnsweredOnce'
  <2>1. runq # <<>> /\ Head(runq) = Resume(l) /\ call[l] # "none" /\ call' = [call EXCEPT ![l] = "over"]
        /\ runq' = Append(Tail(runq), Place(owner[l].task))
    BY <1>11 DEF GiveBack, Revert
  <2> QED
    BY <1>4, <1>10, <2>1, AttemptOf
<1>12. ASSUME NEW l \in Lease, Timeout(l) PROVE AnsweredOnce'
  <2>1. call[l] = "waiting" /\ call' = [call EXCEPT ![l] = "over"] /\ runq' = Append(runq, Place(owner[l].task))
    BY <1>12 DEF Timeout, Revert
  <2>2. Answered' = Answered /\ owner[l].task \in Task
    BY <1>1, <1>10, <2>1, AttemptOf DEF Answered
  <2> QED
    BY <1>7, <2>1, <2>2
<1>13. ASSUME NEW l \in Lease, Grant(l) PROVE AnsweredOnce'
  <2>1. runq # <<>> /\ Head(runq) = Resume(l) /\ call' = [call EXCEPT ![l] = "over"] /\ runq' = Tail(runq)
    BY <1>13 DEF Grant
  <2> QED
    BY <1>4, <1>10, <2>1
<1>14. ASSUME NEW c \in Conn, HandleBound(c) PROVE AnsweredOnce'
  <2>1. PICK l \in Lease : l = Head(toMaster[c]).lease
    BY <1>14, ReplyRead DEF HandleBound
  <2>2. \/ UNCHANGED <<call, runq>>
        \/ /\ call[l] = "waiting" /\ runq' = Append(runq, Resume(l))
           /\ \E a \in {"bound", "refused"} : call' = [call EXCEPT ![l] = a]
    BY <1>14, <2>1 DEF HandleBound
  <2>3. CASE UNCHANGED <<call, runq>>
    BY <1>2, <2>3 DEF Answered
  <2>4. CASE /\ call[l] = "waiting" /\ runq' = Append(runq, Resume(l))
             /\ \E a \in {"bound", "refused"} : call' = [call EXCEPT ![l] = a]
    <3>1. l \notin Answered /\ Answered' = Answered \cup {l}
      BY <1>1, <2>4 DEF Answered
    <3> QED
      BY <1>6, <2>4, <3>1
  <2> QED
    BY <2>2, <2>3, <2>4
<1>15. ASSUME NEW c \in Conn, HandleCompleted(c) PROVE AnsweredOnce'
  <2>1. runq' = runq \o PlaceAll(Picked(arrived, {t \in Task : tstate'[t] = "queued"})) /\ call' = call
    BY <1>15 DEF HandleCompleted
  <2>2. Picked(arrived, {t \in Task : tstate'[t] = "queued"}) \in Seq(Task)
    BY PickedTasks DEF RestTypes
  <2> QED
    BY <1>3, <2>1, <2>2 DEF Answered
<1>16. ASSUME NEW c \in Conn, Disconnected(c) PROVE AnsweredOnce'
  <2>1. PICK waits \in SUBSET Lease, s \in Seq(Task) :
          /\ \A l \in waits : call[l] = "waiting"
          /\ call' = [l \in Lease |-> IF l \in waits THEN "broken" ELSE call[l]]
          /\ runq' = runq \o ResumeAll(waits) \o PlaceAll(s)
    BY <1>16, DisconnectedQueue
  <2>2. PICK p : p = runq \o ResumeAll(waits)
    OBVIOUS
  <2>3. Answered \cap waits = {} /\ Answered' = Answered \cup waits
    BY <1>1, <2>1 DEF Answered
  <2>4. p \in Seq(Coroutine) /\ Once(p) /\ Resumed(p) = Answered'
    <3>1. ResumeAll(waits) \in Seq(Coroutine) /\ Once(ResumeAll(waits)) /\ Resumed(ResumeAll(waits)) = waits
      BY FailedQueue
    <3>2. Resumed(runq) \cap Resumed(ResumeAll(waits)) = {}
      BY <1>1, <2>3, <3>1
    <3> QED
      BY <1>1, <2>2, <2>3, <3>1, <3>2, QueuesInARow
  <2>5. PlaceAll(s) \in Seq(Coroutine) /\ Once(PlaceAll(s)) /\ Resumed(PlaceAll(s)) = {}
    BY StartedQueue
  <2>6. Once(p \o PlaceAll(s)) /\ Resumed(p \o PlaceAll(s)) = Resumed(p) \cup {}
    BY <2>4, <2>5, QueuesInARow
  <2> QED
    BY <2>1, <2>2, <2>4, <2>6 DEF AnsweredOnce
<1>17. CASE PlaceNone
  <2>1. runq # <<>> /\ Head(runq).kind = "place" /\ runq' = Tail(runq) /\ call' = call
    BY <1>17 DEF PlaceNone
  <2>2. Once(runq') /\ Resumed(runq') = Answered /\ Answered' = Answered
    BY <1>1, <2>1, TailOfQueue DEF Answered
  <2> QED
    BY <2>2 DEF AnsweredOnce
<1>18. CASE UNCHANGED <<call, runq>>
  BY <1>2, <1>18 DEF Answered
<1>19. CASE MasterStep
  <2>1. ASSUME NEW b \in Batch, Cancel(b) PROVE UNCHANGED <<call, runq>>
    BY <2>1 DEF Cancel
  <2>2. ASSUME NEW l \in Lease, SendRelease(l) PROVE UNCHANGED <<call, runq>>
    BY <2>2 DEF SendRelease
  <2>3. ASSUME NEW c \in Conn, HandleRegister(c) \/ EndUnregistered(c) PROVE UNCHANGED <<call, runq>>
    BY <2>3 DEF HandleRegister, EndUnregistered, master
  <2> QED
    BY <1>8, <1>9, <1>11, <1>12, <1>14, <1>15, <1>16, <1>17, <1>18, <1>19, <2>1, <2>2, <2>3
    DEF MasterStep, Scheduled
<1>20. CASE WorkerStep \/ FaultStep \/ UNCHANGED vars
  BY <1>18, <1>20 DEF WorkerStep, FaultStep, vars, master
<1> QED
  BY <1>13, <1>19, <1>20 DEF Next, GrantStep

\* An attempt to place a task runs again once for the answer it waited for: when the
\* reply arrives, or its connection turns out to be broken, and never for both.
THEOREM AttemptsRunOnce == Spec => []AnsweredOnce
<1>1. Init => AnsweredOnce
  <2>1. Init => runq = <<>> /\ call = [l \in Lease |-> "none"]
    BY DEF Init, MasterInit
  <2>2. Len(<<>>) = 0 /\ 1..0 = {}
    OBVIOUS
  <2> QED
    BY <2>1, <2>2 DEF AnsweredOnce, Resumed, Answered, Once
<1>2. Bookkeeping => TypeInv /\ DrawnInv
  BY DEF Bookkeeping
<1> QED
  BY <1>1, <1>2, AnsweredStep, RestInvariant, BookkeepingInvariant, PTL DEF Spec
----------------------------------------------------------------------------
(* Attempts that wait *)

\* The connections: a handler serves one until it found its end, the session of a
\* worker that is online is on one of those, and a worker has one open at a time.
ConnInv ==
    /\ \A c \in serving : link[c] # "free"
    /\ \A c \in Conn : toMaster[c] # <<>> => link[c] # "free"
    /\ \A w \in Worker : sess[w].online => sess[w].conn \in serving
    /\ \A c, d \in Conn : link[c] = "up" /\ link[d] = "up" /\ c[1] = d[1] => c = d

\* The orders to a worker and the replies of a worker that are under way on c.
Ordered(c, l) == \E i \in DOMAIN toWorker[c] : toWorker[c][i].kind = "assign" /\ toWorker[c][i].lease = l
Replied(c, l) == \E i \in DOMAIN toMaster[c] : toMaster[c][i].kind = "bound" /\ toMaster[c][i].lease = l

\* The answer to the attempt of l may come, or fail to, on c.
Ahead(c, l) ==
    \/ link[c] = "cut"
    \/ Ordered(c, l)
    \/ job[l] = "booting" /\ via[l] = c
    \/ Replied(c, l)

WaitInv == \A l \in Lease : call[l] = "waiting" =>
             \E c \in serving : c[1] = owner[l].worker /\ Ahead(c, l)

\* Frames stay in a connection until they are read.
LEMMA FramesStay ==
  ASSUME NEW S, NEW s \in Seq(S), NEW i \in DOMAIN s, s # <<>>, i # 1
  PROVE  \E j \in DOMAIN Tail(s) : Tail(s)[j] = s[i]
<1>1. Len(s) \in Nat /\ DOMAIN s = 1..Len(s) /\ i \in 1..Len(s)
  BY LenProperties
<1>2. /\ Tail(s) \in Seq(S) /\ Len(Tail(s)) = Len(s) - 1
      /\ \A j \in 1..Len(s) - 1 : Tail(s)[j] = s[j + 1]
  BY HeadTail
<1>3. DOMAIN Tail(s) = 1..Len(s) - 1
  BY <1>2, LenProperties
<1>4. i - 1 \in 1..Len(s) - 1 /\ (i - 1) + 1 = i
  BY <1>1
<1> QED
  BY <1>2, <1>3, <1>4

LEMMA FramesFollow ==
  ASSUME NEW S, NEW s \in Seq(S), NEW i \in DOMAIN s, NEW x \in S, NEW q, q = Append(s, x)
  PROVE  \E j \in DOMAIN q : q[j] = s[i]
<1>1. Len(s) \in Nat /\ DOMAIN s = 1..Len(s) /\ i \in 1..Len(s)
  BY LenProperties
<1>2. q \in Seq(S) /\ Len(q) = Len(s) + 1 /\ \A j \in 1..Len(s) : q[j] = s[j]
  BY Appended
<1>3. DOMAIN q = 1..Len(s) + 1 /\ i \in 1..Len(s) + 1
  BY <1>1, <1>2, LenProperties
<1> QED
  BY <1>1, <1>2, <1>3

\* The last frame of a connection is the one that was sent last.
LEMMA LastFrame ==
  ASSUME NEW S, NEW s \in Seq(S), NEW x \in S, NEW q, q = Append(s, x)
  PROVE  \E j \in DOMAIN q : q[j] = x
<1>1. q \in Seq(S) /\ Len(s) \in Nat /\ Len(q) = Len(s) + 1 /\ q[Len(s) + 1] = x
  BY Appended
<1>2. Len(s) + 1 \in DOMAIN q
  BY <1>1, LenProperties
<1> QED
  BY <1>1, <1>2

LEMMA OrdersStay ==
  ASSUME TypeInv, NEW c \in Conn, NEW l \in Lease, Ordered(c, l),
         \/ toWorker'[c] = toWorker[c]
         \/ \E f \in WorkerFrame : toWorker'[c] = Append(toWorker[c], f)
         \/ /\ toWorker[c] # <<>> /\ toWorker'[c] = Tail(toWorker[c])
            /\ ~(Head(toWorker[c]).kind = "assign" /\ Head(toWorker[c]).lease = l)
  PROVE  Ordered(c, l)'
<1>1. toWorker[c] \in Seq(WorkerFrame)
  BY DEF TypeInv
<1>2. PICK i \in DOMAIN toWorker[c] : toWorker[c][i].kind = "assign" /\ toWorker[c][i].lease = l
  BY DEF Ordered
<1>3. toWorker[c] # <<>> => Head(toWorker[c]) = toWorker[c][1]
  BY <1>1, HeadTail
<1>4. CASE toWorker'[c] = toWorker[c]
  BY <1>2, <1>4 DEF Ordered
<1>5. CASE \E f \in WorkerFrame : toWorker'[c] = Append(toWorker[c], f)
  <2>1. PICK f \in WorkerFrame : toWorker'[c] = Append(toWorker[c], f)
    BY <1>5
  <2>2. PICK q : q = toWorker'[c]
    OBVIOUS
  <2>3. \E j \in DOMAIN q : q[j] = toWorker[c][i]
    BY <1>1, <2>1, <2>2, FramesFollow
  <2> QED
    BY <1>2, <2>2, <2>3 DEF Ordered
<1>6. CASE /\ toWorker[c] # <<>> /\ toWorker'[c] = Tail(toWorker[c])
           /\ ~(Head(toWorker[c]).kind = "assign" /\ Head(toWorker[c]).lease = l)
  <2>1. i # 1
    BY <1>2, <1>3, <1>6
  <2>2. toWorker[c] # <<>> /\ toWorker'[c] = Tail(toWorker[c])
    BY <1>6
  <2>3. \E j \in DOMAIN Tail(toWorker[c]) : Tail(toWorker[c])[j] = toWorker[c][i]
    BY <1>1, <2>1, <2>2, FramesStay
  <2> QED
    BY <1>2, <2>2, <2>3 DEF Ordered
<1> QED
  BY <1>4, <1>5, <1>6

LEMMA RepliesStay ==
  ASSUME TypeInv, NEW c \in Conn, NEW l \in Lease, Replied(c, l),
         \/ toMaster'[c] = toMaster[c]
         \/ \E f \in MasterFrame : toMaster'[c] = Append(toMaster[c], f)
         \/ /\ toMaster[c] # <<>> /\ toMaster'[c] = Tail(toMaster[c])
            /\ ~(Head(toMaster[c]).kind = "bound" /\ Head(toMaster[c]).lease = l)
  PROVE  Replied(c, l)'
<1>1. toMaster[c] \in Seq(MasterFrame)
  BY DEF TypeInv
<1>2. PICK i \in DOMAIN toMaster[c] : toMaster[c][i].kind = "bound" /\ toMaster[c][i].lease = l
  BY DEF Replied
<1>3. toMaster[c] # <<>> => Head(toMaster[c]) = toMaster[c][1]
  BY <1>1, HeadTail
<1>4. CASE toMaster'[c] = toMaster[c]
  BY <1>2, <1>4 DEF Replied
<1>5. CASE \E f \in MasterFrame : toMaster'[c] = Append(toMaster[c], f)
  <2>1. PICK f \in MasterFrame : toMaster'[c] = Append(toMaster[c], f)
    BY <1>5
  <2>2. PICK q : q = toMaster'[c]
    OBVIOUS
  <2>3. \E j \in DOMAIN q : q[j] = toMaster[c][i]
    BY <1>1, <2>1, <2>2, FramesFollow
  <2> QED
    BY <1>2, <2>2, <2>3 DEF Replied
<1>6. CASE /\ toMaster[c] # <<>> /\ toMaster'[c] = Tail(toMaster[c])
           /\ ~(Head(toMaster[c]).kind = "bound" /\ Head(toMaster[c]).lease = l)
  <2>1. i # 1
    BY <1>2, <1>3, <1>6
  <2>2. toMaster[c] # <<>> /\ toMaster'[c] = Tail(toMaster[c])
    BY <1>6
  <2>3. \E j \in DOMAIN Tail(toMaster[c]) : Tail(toMaster[c])[j] = toMaster[c][i]
    BY <1>1, <2>1, <2>2, FramesStay
  <2> QED
    BY <1>2, <2>2, <2>3 DEF Replied
<1> QED
  BY <1>4, <1>5, <1>6

LEMMA ConnStep ==
  ASSUME TypeInv, SessInv, DrawnInv, ConnInv, RestTypes, [Next]_vars
  PROVE  ConnInv'
<1>1. /\ link \in [Conn -> {"free", "up", "cut"}] /\ serving \subseteq Conn
      /\ toMaster \in [Conn -> Seq(MasterFrame)] /\ toWorker \in [Conn -> Seq(WorkerFrame)]
      /\ sess \in [Worker -> [conn : Conn \cup {None}, online : BOOLEAN]]
  BY DEF TypeInv, RestTypes
<1>2. ASSUME UNCHANGED <<link, serving>>,
             \A c \in Conn : toMaster'[c] # <<>> => toMaster[c] # <<>> \/ link[c] = "up",
             \A w \in Worker : sess'[w].online => sess[w].online /\ sess'[w].conn = sess[w].conn
      PROVE  ConnInv'
  BY <1>2 DEF ConnInv
<1>3. ASSUME NEW w \in Worker, NEW f, Send(w, f)
      PROVE  \A v \in Worker : sess'[v].online => sess[v].online /\ sess'[v].conn = sess[v].conn
  BY <1>1, <1>3 DEF Send
<1>4. ASSUME NEW c \in Conn, toMaster[c] # <<>>, Consume(c)
      PROVE  \A d \in Conn : toMaster'[d] # <<>> => toMaster[d] # <<>>
  BY <1>1, <1>4 DEF Consume
<1>5. CASE UNCHANGED <<link, serving, sess, toMaster>>
  BY <1>2, <1>5
<1>6. ASSUME NEW l \in Lease, SendRelease(l) PROVE ConnInv'
  <2>1. owner[l].worker \in Worker
    BY <1>6, AttemptOf DEF SendRelease, DrawnInv
  <2>2. \A v \in Worker : sess'[v].online => sess[v].online /\ sess'[v].conn = sess[v].conn
    BY <1>3, <1>6, <2>1 DEF SendRelease
  <2> QED
    BY <1>2, <1>6, <2>2 DEF SendRelease
<1>7. ASSUME NEW t \in Task, NEW w \in Worker, NEW l \in Lease, PlaceOn(t, w, l) PROVE ConnInv'
  <2>1. \A v \in Worker : sess'[v].online => sess[v].online /\ sess'[v].conn = sess[v].conn
    BY <1>3, <1>7 DEF PlaceOn
  <2> QED
    BY <1>2, <1>7, <2>1 DEF PlaceOn
<1>8. ASSUME NEW c \in Conn, HandleBound(c) \/ HandleCompleted(c) PROVE ConnInv'
  <2>1. toMaster[c] # <<>> /\ Consume(c) /\ UNCHANGED <<link, serving, sess>>
    BY <1>8 DEF HandleBound, HandleCompleted, Frame, Consume
  <2> QED
    BY <1>2, <1>4, <2>1
<1>9. ASSUME NEW c \in Conn, HandleRegister(c) PROVE ConnInv'
  <2>1. /\ toMaster[c] # <<>> /\ Consume(c) /\ link' = link /\ serving' = serving \cup {c}
        /\ sess' = [sess EXCEPT ![c[1]] = [conn |-> c, online |-> TRUE]]
    BY <1>9 DEF HandleRegister, Frame, Consume
  <2>2. link[c] # "free"
    BY <2>1 DEF ConnInv
  <2>3. \A w \in Worker : sess'[w].online => sess'[w].conn \in serving'
    <3>1. \A w \in Worker : sess'[w] = IF w = c[1] THEN [conn |-> c, online |-> TRUE] ELSE sess[w]
      BY <1>1, <2>1
    <3> QED
      BY <2>1, <3>1 DEF ConnInv
  <2> QED
    BY <1>4, <2>1, <2>2, <2>3 DEF ConnInv
<1>10. ASSUME NEW c \in Conn, EndUnregistered(c) PROVE ConnInv'
  <2>1. /\ toMaster[c] = <<>> /\ c \notin serving /\ link' = [link EXCEPT ![c] = "free"]
        /\ UNCHANGED <<serving, sess, toMaster>>
    BY <1>10 DEF EndUnregistered, master
  <2>2. \A d \in Conn : link'[d] = IF d = c THEN "free" ELSE link[d]
    BY <1>1, <2>1
  <2> QED
    BY <1>1, <2>1, <2>2 DEF ConnInv
<1>11. ASSUME NEW c \in Conn, Disconnected(c) PROVE ConnInv'
  <2>1. /\ toMaster[c] = <<>> /\ serving' = serving \ {c} /\ link' = [link EXCEPT ![c] = "free"]
        /\ sess' = [sess EXCEPT ![c[1]].online = FALSE] /\ toMaster' = toMaster
    BY <1>11 DEF Disconnected
  <2>2. \A d \in Conn : link'[d] = IF d = c THEN "free" ELSE link[d]
    BY <1>1, <2>1
  <2>3. \A w \in Worker : sess'[w].online => w # c[1] /\ sess'[w] = sess[w]
    BY <1>1, <2>1
  <2>4. \A w \in Worker : sess'[w].online => sess'[w].conn \in serving'
    BY <2>1, <2>3 DEF ConnInv, SessInv
  <2> QED
    BY <1>1, <2>1, <2>2, <2>4 DEF ConnInv
<1>12. ASSUME NEW w \in Worker, Dial(w), UNCHANGED <<serving, sess>> PROVE ConnInv'
  <2>1. PICK c \in Conn :
          /\ c[1] = w /\ link[c] = "free" /\ link' = [link EXCEPT ![c] = "up"]
          /\ toMaster' = [toMaster EXCEPT ![c] = <<[kind |-> "register"]>>]
    BY <1>12 DEF Dial
  <2>2. \A d \in Conn : d[1] = w => link[d] # "up"
    BY <1>12 DEF Dial, OpenOf
  <2>3. \A d \in Conn : /\ link'[d] = IF d = c THEN "up" ELSE link[d]
                        /\ d # c => toMaster'[d] = toMaster[d]
    BY <1>1, <2>1
  <2> QED
    BY <1>1, <1>12, <2>1, <2>2, <2>3 DEF ConnInv
<1>13. ASSUME NEW c \in Conn, Break(c), link[c] = "up", UNCHANGED <<serving, sess>> PROVE ConnInv'
  <2>1. PICK kept \in 0..Len(toMaster[c]) : toMaster' = [toMaster EXCEPT ![c] = SubSeq(@, 1, kept)]
    BY <1>13 DEF Break
  <2>2. link' = [link EXCEPT ![c] = "cut"]
    BY <1>13 DEF Break
  <2>3. \A d \in Conn : /\ link'[d] = IF d = c THEN "cut" ELSE link[d]
                        /\ d # c => toMaster'[d] = toMaster[d]
    BY <1>1, <2>1, <2>2
  <2> QED
    BY <1>1, <1>13, <2>3 DEF ConnInv
<1>14. ASSUME NEW l \in Lease, BootDone(l) \/ BootFailed(l) \/ Finalize(l), UNCHANGED <<serving, sess>>
       PROVE  ConnInv'
  <2>1. \A c \in Conn : toMaster'[c] # <<>> => toMaster[c] # <<>> \/ link[c] = "up"
    <3>1. CASE BootDone(l) \/ BootFailed(l)
      BY <1>1, <3>1 DEF BootDone, BootFailed, ToMaster
    <3>2. CASE Finalize(l)
      BY <1>1, <3>2 DEF Finalize, OpenOf
    <3> QED
      BY <1>14, <3>1, <3>2
  <2> QED
    BY <1>2, <1>14, <2>1 DEF BootDone, BootFailed, Finalize
<1>15. CASE MasterStep
  <2>1. ASSUME NEW b \in Batch, Submit(b) \/ Cancel(b) PROVE UNCHANGED <<link, serving, sess, toMaster>>
    BY <2>1 DEF Submit, Cancel, wire
  <2>2. ASSUME NEW l \in Lease, GiveBack(l) \/ Timeout(l) PROVE UNCHANGED <<link, serving, sess, toMaster>>
    BY <2>2 DEF GiveBack, Timeout, wire
  <2>3. PlaceNone => UNCHANGED <<link, serving, sess, toMaster>>
    BY DEF PlaceNone, wire
  <2> QED
    BY <1>5, <1>6, <1>7, <1>8, <1>9, <1>10, <1>11, <1>15, <2>1, <2>2, <2>3 DEF MasterStep, Scheduled
<1>16. CASE GrantStep
  BY <1>5, <1>16 DEF GrantStep, Grant, wire
<1>17. CASE WorkerStep
  <2>1. UNCHANGED <<serving, sess>>
    BY <1>17 DEF WorkerStep, master
  <2>2. ASSUME NEW c \in Conn, RecvAssign(c) \/ RecvRelease(c) PROVE UNCHANGED <<link, toMaster>>
    BY <2>2 DEF RecvAssign, RecvRelease
  <2>3. ASSUME NEW l, NEW v, CompleteLease(l, v) PROVE UNCHANGED <<link, toMaster>>
    BY <2>3 DEF CompleteLease, wire
  <2> QED
    BY <1>5, <1>12, <1>14, <1>17, <2>1, <2>2, <2>3 DEF WorkerStep
<1>18. CASE FaultStep
  <2>1. UNCHANGED <<serving, sess>>
    BY <1>18 DEF FaultStep, master
  <2>2. \/ \E c \in Conn : link[c] = "up" /\ Break(c)
        \/ UNCHANGED wire
    BY <1>18 DEF FaultStep, Cut, Restart, OpenOf
  <2> QED
    BY <1>5, <1>13, <2>1, <2>2 DEF wire
<1>19. CASE UNCHANGED vars
  BY <1>5, <1>19 DEF vars, master, wire
<1> QED
  BY <1>15, <1>16, <1>17, <1>18, <1>19 DEF Next

\* The notice of an end, sent on the connection that is open.
LEMMA FinalizeSends ==
  ASSUME TypeInv, DrawnInv, NEW k \in Lease, Finalize(k)
  PROVE  \E f \in MasterFrame :
           /\ f.kind = "completed" /\ f.lease = k
           /\ \A c \in Conn : toMaster'[c] = IF c \in OpenOf(At(k)) THEN Append(toMaster[c], f) ELSE toMaster[c]
<1>1. PICK clean \in BOOLEAN :
        LET status == IF clean /\ verdict[k] = "completed" THEN "completed" ELSE "failed" IN
        /\ outcome' = [outcome EXCEPT ![k] = status]
        /\ toMaster' = [c \in Conn |->
             IF c \in OpenOf(At(k))
             THEN Append(toMaster[c], [kind |-> "completed", lease |-> k,
                                       task |-> jobTask[k], status |-> outcome'[k]])
             ELSE toMaster[c]]
  BY DEF Finalize
<1>2. jobTask[k] \in Task
  <2>1. job[k] = "closing"
    BY DEF Finalize
  <2>2. call[k] # "none" /\ owner[k] = [task |-> jobTask[k], worker |-> At(k)]
    BY <2>1 DEF DrawnInv
  <2> QED
    BY <2>2, AttemptOf
<1>3. outcome'[k] \in Terminal
  BY <1>1 DEF TypeInv, Terminal
<1> DEFINE f == [kind |-> "completed", lease |-> k, task |-> jobTask[k], status |-> outcome'[k]]
<1>4. f \in MasterFrame
  BY <1>2, <1>3, MadeFrames
<1>5. \A c \in Conn : toMaster'[c] = IF c \in OpenOf(At(k)) THEN Append(toMaster[c], f) ELSE toMaster[c]
  BY <1>1
<1>6. f.kind = "completed" /\ f.lease = k
  OBVIOUS
<1> HIDE DEF f
<1> QED
  BY <1>4, <1>5, <1>6

\* What a step leaves of the answer to come.
LEMMA AheadStays ==
  ASSUME TypeInv, NEW c \in serving, NEW l \in Lease, Ahead(c, l), c[1] = owner[l].worker,
         c \in serving', owner'[l] = owner[l],
         link[c] = "cut" => link'[c] = "cut",
         Ordered(c, l) => Ahead(c, l)',
         job[l] = "booting" /\ via[l] = c => Ahead(c, l)',
         Replied(c, l) => Ahead(c, l)'
  PROVE  \E d \in serving' : d[1] = owner'[l].worker /\ Ahead(d, l)'
BY DEF Ahead

\* A connection breaks: what was ahead on it will fail with it.
LEMMA BreakWaits ==
  ASSUME TypeInv, RestTypes, NEW d \in Conn, Break(d), NEW c \in serving, NEW l \in Lease,
         c[1] = owner[l].worker, Ahead(c, l), UNCHANGED <<serving, owner>>,
         job[l] = "booting" /\ via[l] = c =>
           link'[c] = "cut" \/ (job'[l] = "booting" /\ via'[l] = c)
  PROVE  \E b \in serving' : b[1] = owner'[l].worker /\ Ahead(b, l)'
<1>1. /\ link \in [Conn -> {"free", "up", "cut"}] /\ serving \subseteq Conn
      /\ toMaster \in [Conn -> Seq(MasterFrame)] /\ toWorker \in [Conn -> Seq(WorkerFrame)]
  BY DEF TypeInv, RestTypes
<1>2. /\ link' = [link EXCEPT ![d] = "cut"] /\ toWorker' = [toWorker EXCEPT ![d] = <<>>]
      /\ \E kept \in 0..Len(toMaster[d]) : toMaster' = [toMaster EXCEPT ![d] = SubSeq(@, 1, kept)]
  BY DEF Break
<1>3. CASE c = d
  BY <1>1, <1>2, <1>3 DEF Ahead
<1>4. CASE c # d
  <2>1. link'[c] = link[c] /\ toWorker'[c] = toWorker[c] /\ toMaster'[c] = toMaster[c]
    BY <1>1, <1>2, <1>4
  <2>2. (Ordered(c, l) => Ordered(c, l)') /\ (Replied(c, l) => Replied(c, l)')
    BY <2>1 DEF Ordered, Replied
  <2> QED
    BY <1>1, <2>1, <2>2 DEF Ahead
<1> QED
  BY <1>3, <1>4

LEMMA WaitStep ==
  ASSUME TypeInv, SessInv, DrawnInv, AssignInv, RestTypes, ConnInv, WaitInv, [Next]_vars
  PROVE  WaitInv'
<1>1. /\ link \in [Conn -> {"free", "up", "cut"}] /\ serving \subseteq Conn
      /\ toMaster \in [Conn -> Seq(MasterFrame)] /\ toWorker \in [Conn -> Seq(WorkerFrame)]
      /\ sess \in [Worker -> [conn : Conn \cup {None}, online : BOOLEAN]]
      /\ call \in [Lease -> {"none", "waiting", "bound", "refused", "broken", "over"}]
      /\ owner \in [Lease -> Owner \cup {None}]
      /\ job \in [Lease -> JobState] /\ via \in [Lease -> Conn \cup {None}]
  BY DEF TypeInv, RestTypes
<1> SUFFICES ASSUME NEW l \in Lease, call'[l] = "waiting"
             PROVE  \E c \in serving' : c[1] = owner'[l].worker /\ Ahead(c, l)'
  BY DEF WaitInv
<1> DEFINE Goal == \E c \in serving' : c[1] = owner'[l].worker /\ Ahead(c, l)'
           Same == call[l] = "waiting" /\ owner'[l] = owner[l]
\* The witness there was before.
<1>2. ASSUME call[l] = "waiting" PROVE \E c \in serving : c[1] = owner[l].worker /\ Ahead(c, l)
  BY <1>2 DEF WaitInv
<1> HIDE DEF Goal
<1>3. ASSUME Same, UNCHANGED <<link, serving, job, via>>,
             \A c \in Conn : Ordered(c, l) => Ordered(c, l)',
             \A c \in Conn : Replied(c, l) => Replied(c, l)'
      PROVE  Goal
  <2>1. PICK c \in serving : c[1] = owner[l].worker /\ Ahead(c, l)
    BY <1>2, <1>3
  <2>2. Ahead(c, l)'
    BY <1>1, <1>3, <2>1 DEF Ahead
  <2> QED
    BY <1>3, <2>1, <2>2 DEF Goal
<1>4. ASSUME UNCHANGED toWorker PROVE \A c \in Conn : Ordered(c, l) => Ordered(c, l)'
  BY <1>4 DEF Ordered
<1>5. ASSUME UNCHANGED toMaster PROVE \A c \in Conn : Replied(c, l) => Replied(c, l)'
  BY <1>5 DEF Replied
<1>6. ASSUME UNCHANGED <<wire, worker, serving>>, Same PROVE Goal
  BY <1>3, <1>4, <1>5, <1>6 DEF wire, worker
<1>7. ASSUME NEW w \in Worker, NEW f \in WorkerFrame, Send(w, f)
      PROVE  \A c \in Conn : Ordered(c, l) => Ordered(c, l)'
  <2>1. \A c \in Conn : toWorker'[c] = toWorker[c] \/ toWorker'[c] = Append(toWorker[c], f)
    BY <1>1, <1>7 DEF Send
  <2> QED
    BY <2>1, OrdersStay
<1>8. ASSUME NEW d \in Conn, toMaster[d] # <<>>, Consume(d),
             ~(Head(toMaster[d]).kind = "bound" /\ Head(toMaster[d]).lease = l)
      PROVE  \A c \in Conn : Replied(c, l) => Replied(c, l)'
  <2>1. toMaster' = [toMaster EXCEPT ![d] = Tail(@)]
    BY <1>8 DEF Consume
  <2>2. \A c \in Conn : \/ toMaster'[c] = toMaster[c]
                        \/ c = d /\ toMaster'[c] = Tail(toMaster[c])
    BY <1>1, <2>1
  <2>3. ASSUME NEW c \in Conn, Replied(c, l) PROVE Replied(c, l)'
    BY <1>8, <2>2, <2>3, RepliesStay
  <2> QED
    BY <2>3
<1>9. ASSUME NEW k \in Lease, SendRelease(k), UNCHANGED worker PROVE Goal
  <2>1. owner[k].worker \in Worker
    BY <1>9, AttemptOf DEF SendRelease, DrawnInv
  <2>2. \/ Send(owner[k].worker, [kind |-> "release", lease |-> k])
        \/ UNCHANGED toWorker
    BY <1>9 DEF SendRelease
  <2>3. \A c \in Conn : Ordered(c, l) => Ordered(c, l)'
    BY <1>4, <1>7, <2>1, <2>2, MadeFrames
  <2>4. UNCHANGED <<link, serving, toMaster, job, via>> /\ Same
    BY <1>9 DEF SendRelease, worker
  <2> QED
    BY <1>3, <1>5, <2>3, <2>4
<1>10. ASSUME NEW t \in Task, NEW w \in Worker, NEW k \in Lease, PlaceOn(t, w, k), UNCHANGED worker
       PROVE  Goal
  <2> DEFINE f == [kind |-> "assign", lease |-> k, task |-> t]
             c == sess[w].conn
  <2>1. /\ Send(w, f) /\ f \in WorkerFrame /\ UNCHANGED <<link, serving, toMaster, job, via>>
        /\ call' \in {[call EXCEPT ![k] = "waiting"], [call EXCEPT ![k] = "broken"]}
        /\ call' = [call EXCEPT ![k] = "waiting"] => sess' = sess
        /\ owner' = [owner EXCEPT ![k] = [task |-> t, worker |-> w]]
        /\ sess[w].online
    <3>1. Send(w, f) /\ UNCHANGED <<serving, link, toMaster>>
      BY <1>10 DEF PlaceOn
    <3>2. UNCHANGED <<job, via>>
      BY <1>10 DEF worker
    <3>3. f \in WorkerFrame
      BY <1>10, MadeFrames
    <3>4. /\ call' \in {[call EXCEPT ![k] = "waiting"], [call EXCEPT ![k] = "broken"]}
          /\ owner' = [owner EXCEPT ![k] = [task |-> t, worker |-> w]]
      BY <1>10 DEF PlaceOn
    <3>5. call' = [call EXCEPT ![k] = "waiting"] => sess' = sess
      <4>1. CASE sess' = sess
        BY <4>1
      <4>2. CASE call' = [call EXCEPT ![k] = "broken"]
        BY <1>1, <4>2
      <4> QED
        BY <1>10, <4>1, <4>2 DEF PlaceOn
    <3>6. sess[w].online
      BY <1>10 DEF PlaceOn, Candidates, Online
    <3> QED
      BY <3>1, <3>2, <3>3, <3>4, <3>5, <3>6
  <2>2. CASE l # k
    <3>1. Same
      BY <1>1, <2>1, <2>2
    <3>2. \A d \in Conn : Ordered(d, l) => Ordered(d, l)'
      BY <1>7, <2>1
    <3> QED
      BY <1>3, <1>5, <2>1, <3>1, <3>2
  <2>3. CASE l = k
    <3>1. c \in serving /\ c \in Conn /\ c[1] = w /\ link[c] \in {"up", "cut"} /\ owner'[l].worker = w
      BY <1>1, <2>1, <2>3 DEF ConnInv, SessInv
    <3>2. toWorker' = [toWorker EXCEPT ![c] = IF link[c] = "up" THEN Append(@, f) ELSE @]
      BY <2>1 DEF Send
    <3>3. PICK d : d = c
      OBVIOUS
    <3> HIDE DEF c, f
    <3>4. link[d] = "up" => toWorker'[d] = Append(toWorker[d], f)
      BY <1>1, <3>1, <3>2, <3>3
    <3>5. link[d] = "up" => Ordered(d, l)'
      <4> SUFFICES ASSUME link[d] = "up" PROVE Ordered(d, l)'
        OBVIOUS
      <4>1. PICK q : q = toWorker'[d]
        OBVIOUS
      <4>2. \E j \in DOMAIN q : q[j] = f
        <5>1. toWorker[d] \in Seq(WorkerFrame) /\ q = Append(toWorker[d], f)
          BY <1>1, <3>1, <3>3, <3>4, <4>1
        <5> QED
          BY <2>1, <5>1, LastFrame
      <4>3. f.kind = "assign" /\ f.lease = l
        BY <2>3 DEF f
      <4> QED
        BY <4>1, <4>2, <4>3 DEF Ordered
    <3>6. Ahead(d, l)'
      BY <2>1, <3>1, <3>3, <3>5 DEF Ahead
    <3> QED
      BY <2>1, <3>1, <3>3, <3>6 DEF Goal
  <2> QED
    BY <2>2, <2>3
<1>11. ASSUME NEW d \in Conn, HandleBound(d), UNCHANGED worker PROVE Goal
  <2>1. toMaster[d] # <<>> /\ Head(toMaster[d]).kind = "bound" /\ Head(toMaster[d]).lease \in Lease
    BY <1>11, ReplyRead DEF HandleBound, Frame
  <2>2. PICK k \in Lease : k = Head(toMaster[d]).lease
    BY <2>1
  <2>3. /\ Consume(d) /\ UNCHANGED <<link, serving, toWorker, job, via, owner>>
        /\ \/ call' = call /\ call[k] # "waiting"
           \/ \E a \in {"bound", "refused"} : call' = [call EXCEPT ![k] = a]
    BY <1>11, <2>2 DEF HandleBound, Consume, worker
  <2>4. l # k /\ Same
    BY <1>1, <2>3
  <2>5. \A c \in Conn : Replied(c, l) => Replied(c, l)'
    BY <1>8, <2>1, <2>2, <2>3, <2>4
  <2> QED
    BY <1>3, <1>4, <2>3, <2>4, <2>5
<1>12. ASSUME NEW d \in Conn, HandleCompleted(d) \/ HandleRegister(d), UNCHANGED worker PROVE Goal
  <2>1. /\ toMaster[d] # <<>> /\ Head(toMaster[d]).kind # "bound" /\ Consume(d) /\ Same
        /\ UNCHANGED <<link, toWorker, job, via, owner>> /\ serving \subseteq serving'
    BY <1>12 DEF HandleCompleted, HandleRegister, Frame, Consume, worker
  <2>2. \A c \in Conn : Replied(c, l) => Replied(c, l)'
    BY <1>8, <2>1
  <2>3. PICK c \in serving : c[1] = owner[l].worker /\ Ahead(c, l)
    BY <1>2, <2>1
  <2>4. Ahead(c, l)'
    BY <1>1, <1>4, <2>1, <2>2, <2>3 DEF Ahead
  <2> QED
    BY <2>1, <2>3, <2>4 DEF Goal
<1>13. ASSUME NEW d \in Conn, EndUnregistered(d) \/ Disconnected(d), UNCHANGED worker PROVE Goal
  <2>1. /\ link' = [link EXCEPT ![d] = "free"] /\ UNCHANGED <<toMaster, toWorker, owner, job, via>>
        /\ serving' = serving \ {d}
        /\ call[l] = "waiting" /\ (d \in serving => owner[l].worker # d[1])
    <3>1. CASE EndUnregistered(d)
      BY <1>1, <1>13, <3>1 DEF EndUnregistered, master, worker
    <3>2. CASE Disconnected(d)
      <4>1. call' = [k \in Lease |-> IF k \in {j \in Lease : call[j] = "waiting" /\ owner[j].worker = d[1]}
                                     THEN "broken" ELSE call[k]]
        BY <3>2 DEF Disconnected
      <4>2. call[l] = "waiting" /\ owner[l].worker # d[1]
        BY <4>1
      <4> QED
        BY <1>13, <3>2, <4>2 DEF Disconnected, worker
    <3> QED
      BY <1>13, <3>1, <3>2
  <2>2. PICK c \in serving : c[1] = owner[l].worker /\ Ahead(c, l)
    BY <1>2, <2>1
  <2>3. c # d /\ link'[c] = link[c] /\ c \in serving'
    BY <1>1, <2>1, <2>2
  <2>4. Ahead(c, l)'
    BY <1>1, <1>4, <1>5, <2>1, <2>2, <2>3 DEF Ahead
  <2> QED
    BY <2>1, <2>2, <2>3, <2>4 DEF Goal
<1>14. ASSUME NEW w \in Worker, Dial(w), UNCHANGED <<serving, call, owner>> PROVE Goal
  <2>1. PICK d \in Conn :
          /\ link[d] = "free" /\ link' = [link EXCEPT ![d] = "up"]
          /\ toMaster' = [toMaster EXCEPT ![d] = <<[kind |-> "register"]>>]
    BY <1>14 DEF Dial
  <2>2. UNCHANGED <<toWorker, job, via>>
    BY <1>14 DEF Dial, worker
  <2>3. PICK c \in serving : c[1] = owner[l].worker /\ Ahead(c, l)
    BY <1>2, <1>14
  <2>4. c # d
    BY <2>1 DEF ConnInv
  <2>5. link'[c] = link[c] /\ toMaster'[c] = toMaster[c]
    BY <1>1, <2>1, <2>4
  <2>6. Ahead(c, l)'
    BY <1>1, <1>4, <2>2, <2>3, <2>5 DEF Ahead, Replied
  <2> QED
    BY <1>14, <2>3, <2>6 DEF Goal
<1>15. ASSUME NEW d \in Conn, RecvAssign(d), UNCHANGED <<serving, call, owner>> PROVE Goal
  <2>1. PICK f : f = Head(toWorker[d])
    OBVIOUS
  <2>2. /\ toWorker[d] # <<>> /\ f.kind = "assign"
        /\ job' = [job EXCEPT ![f.lease] = "booting"] /\ via' = [via EXCEPT ![f.lease] = d]
        /\ toWorker' = [toWorker EXCEPT ![d] = Tail(@)] /\ UNCHANGED <<link, toMaster>>
    BY <1>15, <2>1 DEF RecvAssign
  <2>3. f.lease \in Lease /\ job[f.lease] = "none"
    <3>1. toWorker[d] \in Seq(WorkerFrame)
      BY <1>1
    <3>2. f \in WorkerFrame /\ f = toWorker[d][1] /\ 1 \in 1..Len(toWorker[d])
      BY <2>1, <2>2, <3>1, HeadTail
    <3> QED
      BY <2>2, <3>2, WorkerFrames DEF AssignInv
  <2>4. PICK c \in serving : c[1] = owner[l].worker /\ Ahead(c, l)
    BY <1>2, <1>15
  <2>5. \A e \in Conn : toWorker'[e] = toWorker[e] \/ (e = d /\ toWorker'[e] = Tail(toWorker[e]))
    BY <1>1, <2>2
  <2>6. Ordered(c, l) => Ahead(c, l)'
    <3>1. CASE c = d /\ f.lease = l
      <4>1. job'[l] = "booting" /\ via'[l] = c
        BY <1>1, <2>2, <2>3, <3>1
      <4> QED
        BY <4>1 DEF Ahead
    <3>2. CASE ~(c = d /\ f.lease = l)
      <4>1. Ordered(c, l) => Ordered(c, l)'
        BY <1>1, <2>1, <2>2, <2>5, <3>2, OrdersStay
      <4> QED
        BY <4>1 DEF Ahead
    <3> QED
      BY <3>1, <3>2
  <2>7. job[l] = "booting" /\ via[l] = c => Ahead(c, l)'
    BY <1>1, <2>2, <2>3 DEF Ahead
  <2>8. (link[c] = "cut" => link'[c] = "cut") /\ (Replied(c, l) => Ahead(c, l)')
    BY <1>1, <1>5, <2>2 DEF Ahead
  <2> QED
    BY <1>15, <2>4, <2>6, <2>7, <2>8, AheadStays DEF Goal
<1>16. ASSUME NEW d \in Conn, RecvRelease(d), UNCHANGED <<serving, call, owner>> PROVE Goal
  <2>1. /\ toWorker[d] # <<>> /\ Head(toWorker[d]).kind = "release"
        /\ toWorker' = [toWorker EXCEPT ![d] = Tail(@)] /\ UNCHANGED <<link, toMaster, via>>
        /\ job' = job \/ \E k : job[k] = "held" /\ job' = [job EXCEPT ![k] = "closing"]
    BY <1>16 DEF RecvRelease
  <2>2. \A c \in Conn : toWorker'[c] = toWorker[c] \/ (c = d /\ toWorker'[c] = Tail(toWorker[c]))
    BY <1>1, <2>1
  <2>3. PICK c \in serving : c[1] = owner[l].worker /\ Ahead(c, l)
    BY <1>2, <1>16
  <2>4. Ordered(c, l) => Ahead(c, l)'
    BY <1>1, <2>1, <2>2, OrdersStay DEF Ahead
  <2>5. job[l] = "booting" => job'[l] = "booting"
    BY <1>1, <2>1
  <2> QED
    BY <1>1, <1>5, <1>16, <2>1, <2>3, <2>4, <2>5, AheadStays DEF Goal, Ahead
<1>17. ASSUME NEW k \in Lease, BootDone(k) \/ BootFailed(k), UNCHANGED <<serving, call, owner>> PROVE Goal
  <2>1. PICK f \in MasterFrame : /\ f.kind = "bound" /\ f.lease = k
                                 /\ ToMaster(via[k], f)
    BY <1>17, MadeFrames DEF BootDone, BootFailed
  <2>2. /\ job[k] = "booting" /\ UNCHANGED <<via, link, toWorker>>
        /\ \E s \in {"held", "gone"} : job' = [job EXCEPT ![k] = s]
    BY <1>17 DEF BootDone, BootFailed
  <2>3. \A c \in Conn : \/ toMaster'[c] = toMaster[c] /\ ~(c = via[k] /\ link[c] = "up")
                        \/ c = via[k] /\ toMaster'[c] = Append(toMaster[c], f)
    BY <1>1, <2>1 DEF ToMaster
  <2>4. PICK c \in serving : c[1] = owner[l].worker /\ Ahead(c, l)
    BY <1>2, <1>17
  <2>5. Replied(c, l) => Ahead(c, l)'
    BY <1>1, <2>1, <2>3, RepliesStay DEF Ahead
  <2>6. ASSUME job[l] = "booting", via[l] = c PROVE Ahead(c, l)'
    <3>1. CASE l # k
      BY <1>1, <2>2, <2>6, <3>1 DEF Ahead
    <3>2. CASE l = k /\ link[c] = "cut"
      BY <2>2, <3>2 DEF Ahead
    <3>3. CASE l = k /\ link[c] # "cut"
      <4>1. link[c] = "up"
        BY <1>1, <3>3 DEF ConnInv
      <4>2. PICK q : q = toMaster'[c]
        OBVIOUS
      <4>3. toMaster[c] \in Seq(MasterFrame) /\ q = Append(toMaster[c], f)
        BY <1>1, <2>3, <2>6, <3>3, <4>1, <4>2
      <4>4. \E j \in DOMAIN q : q[j] = f
        BY <4>3, LastFrame
      <4>5. Replied(c, l)'
        BY <2>1, <3>3, <4>2, <4>4 DEF Replied
      <4> QED
        BY <4>5 DEF Ahead
    <3> QED
      BY <3>1, <3>2, <3>3
  <2>7. (link[c] = "cut" => link'[c] = "cut") /\ (Ordered(c, l) => Ahead(c, l)')
    BY <1>1, <1>4, <2>2 DEF Ahead
  <2> QED
    BY <1>17, <2>4, <2>5, <2>6, <2>7, AheadStays DEF Goal
<1>18. ASSUME NEW k \in Lease, Finalize(k), UNCHANGED <<serving, call, owner>> PROVE Goal
  <2>1. /\ job[k] = "closing" /\ job' = [job EXCEPT ![k] = "ended"] /\ UNCHANGED <<via, link, toWorker>>
    BY <1>18 DEF Finalize
  <2>2. PICK f \in MasterFrame : \A c \in Conn : toMaster'[c] \in {toMaster[c], Append(toMaster[c], f)}
    <3>1. PICK f \in MasterFrame : \A c \in Conn :
            toMaster'[c] = IF c \in OpenOf(At(k)) THEN Append(toMaster[c], f) ELSE toMaster[c]
      BY <1>18, FinalizeSends, Zenon
    <3>2. \A c \in Conn : toMaster'[c] \in {toMaster[c], Append(toMaster[c], f)}
      BY <3>1, Zenon
    <3> QED
      BY <3>2
  <2>3. \A c \in Conn : Replied(c, l) => Replied(c, l)'
    BY <2>2, RepliesStay
  <2>4. PICK c \in serving : c[1] = owner[l].worker /\ Ahead(c, l)
    BY <1>2, <1>18
  <2>5. job[l] = "booting" => job'[l] = "booting"
    BY <1>1, <2>1
  <2>6. Ahead(c, l)'
    BY <1>1, <1>4, <2>1, <2>3, <2>4, <2>5 DEF Ahead
  <2> QED
    BY <1>18, <2>4, <2>6 DEF Goal
<1>19. ASSUME NEW k, NEW v, CompleteLease(k, v), UNCHANGED <<serving, call, owner>> PROVE Goal
  <2>1. /\ job[k] = "held" /\ job' = [job EXCEPT ![k] = "closing"]
        /\ UNCHANGED <<via, link, toWorker, toMaster>>
    BY <1>19 DEF CompleteLease, wire
  <2>2. PICK c \in serving : c[1] = owner[l].worker /\ Ahead(c, l)
    BY <1>2, <1>19
  <2>3. job[l] = "booting" => job'[l] = "booting"
    BY <1>1, <2>1
  <2>4. Ahead(c, l)'
    BY <1>1, <1>4, <1>5, <2>1, <2>2, <2>3 DEF Ahead
  <2> QED
    BY <1>19, <2>2, <2>4 DEF Goal
<1>20. ASSUME NEW d \in Conn, Cut(d), UNCHANGED <<serving, call, owner>> PROVE Goal
  <2>1. Break(d) /\ UNCHANGED <<job, via>>
    BY <1>20 DEF Cut, worker
  <2>2. PICK c \in serving : c[1] = owner[l].worker /\ Ahead(c, l)
    BY <1>2, <1>20
  <2> QED
    BY <1>20, <2>1, <2>2, BreakWaits DEF Goal
<1>21. ASSUME NEW w \in Worker, Restart(w), UNCHANGED <<serving, call, owner>> PROVE Goal
  <2>1. /\ job' = [k \in Lease |-> IF job[k] # "none" /\ At(k) = w THEN "gone" ELSE job[k]]
        /\ UNCHANGED via
        /\ \/ OpenOf(w) = {} /\ UNCHANGED wire
           \/ \E d \in OpenOf(w) : Break(d)
    BY <1>21 DEF Restart
  <2>2. PICK c \in serving : c[1] = owner[l].worker /\ Ahead(c, l)
    BY <1>2, <1>21
  <2>3. c[1] # w => (job[l] = "booting" /\ via[l] = c => job'[l] = "booting")
    BY <1>1, <2>1 DEF At
  <2>4. CASE OpenOf(w) = {} /\ UNCHANGED wire
    <3>1. c[1] = w => link[c] = "cut"
      BY <1>1, <2>4 DEF OpenOf, ConnInv
    <3>2. Ahead(c, l)'
      BY <1>1, <1>4, <1>5, <2>1, <2>2, <2>3, <2>4, <3>1 DEF Ahead, wire
    <3> QED
      BY <1>21, <2>2, <3>2 DEF Goal
  <2>5. ASSUME NEW d \in OpenOf(w), Break(d) PROVE Goal
    <3>1. d \in Conn /\ d[1] = w /\ link[d] = "up" /\ link' = [link EXCEPT ![d] = "cut"]
      BY <2>5 DEF OpenOf, Break
    <3>2. c[1] = w => link'[c] = "cut"
      <4>1. c[1] = w /\ link[c] = "up" => c = d
        BY <1>1, <3>1 DEF ConnInv
      <4>2. link[c] # "free"
        BY DEF ConnInv
      <4> QED
        BY <1>1, <3>1, <4>1, <4>2
    <3> QED
      BY <1>21, <2>1, <2>2, <2>3, <2>5, <3>1, <3>2, BreakWaits DEF Goal
  <2> QED
    BY <2>1, <2>4, <2>5
<1>22. ASSUME MasterStep \/ GrantStep PROVE Goal
  <2>0. UNCHANGED worker
    BY <1>22 DEF MasterStep, GrantStep
  <2>1. ASSUME NEW b \in Batch, Submit(b) \/ Cancel(b) PROVE UNCHANGED <<wire, serving>> /\ Same
    BY <2>1 DEF Submit, Cancel
  <2>2. ASSUME NEW k \in Lease, GiveBack(k) \/ Timeout(k) \/ Grant(k) PROVE UNCHANGED <<wire, serving>> /\ Same
    <3>1. call' = [call EXCEPT ![k] = "over"] /\ UNCHANGED <<wire, serving, owner>>
      BY <2>2 DEF GiveBack, Timeout, Grant, Revert
    <3> QED
      BY <1>1, <3>1
  <2>3. PlaceNone => UNCHANGED <<wire, serving>> /\ Same
    BY DEF PlaceNone
  <2>4. CASE GrantStep
    BY <1>6, <2>0, <2>2, <2>4 DEF GrantStep
  <2>5. CASE MasterStep
    BY <1>6, <1>9, <1>10, <1>11, <1>12, <1>13, <2>0, <2>1, <2>2, <2>3, <2>5 DEF MasterStep, Scheduled
  <2> QED
    BY <1>22, <2>4, <2>5
<1>23. ASSUME WorkerStep PROVE Goal
  <2>1. UNCHANGED <<serving, call, owner>>
    BY <1>23 DEF WorkerStep, master
  <2> QED
    BY <1>14, <1>15, <1>16, <1>17, <1>18, <1>19, <1>23, <2>1 DEF WorkerStep
<1>24. ASSUME FaultStep PROVE Goal
  <2>1. UNCHANGED <<serving, call, owner>>
    BY <1>24 DEF FaultStep, master
  <2> QED
    BY <1>20, <1>21, <1>24, <2>1 DEF FaultStep
<1>25. ASSUME UNCHANGED vars PROVE Goal
  BY <1>6, <1>25 DEF vars, master
<1>26. Goal
  BY <1>22, <1>23, <1>24, <1>25 DEF Next
<1> QED
  BY <1>26 DEF Goal

LEMMA WaitInvariant == Spec => [](ConnInv /\ WaitInv)
<1>1. Init => ConnInv /\ WaitInv
  <2>1. Init => /\ serving = {} /\ call = [l \in Lease |-> "none"] /\ toMaster = [c \in Conn |-> <<>>]
                /\ link = [c \in Conn |-> "free"]
                /\ sess = [w \in Worker |-> [conn |-> None, online |-> FALSE]]
    BY DEF Init, MasterInit, WireInit
  <2> QED
    BY <2>1 DEF ConnInv, WaitInv
<1>2. Bookkeeping /\ RestTypes /\ ConnInv /\ WaitInv /\ [Next]_vars => ConnInv' /\ WaitInv'
  BY ConnStep, WaitStep DEF Bookkeeping
<1> QED
  BY <1>1, <1>2, RestInvariant, BookkeepingInvariant, PTL DEF Spec

\* No event leaves a task STARTING with nobody to move it on: its attempt is ready to run,
\* or an answer can still arrive, or the end of the connection is still to be found.  So
\* the master does not depend on the timeout of a boot to get the task back.
THEOREM StartingStaysAttended == Spec => []StartingIsAttended
<1>1. Bookkeeping /\ AnsweredOnce /\ RestTypes /\ WaitInv /\ StartingHasAttempt => StartingIsAttended
  <2> SUFFICES ASSUME Bookkeeping, AnsweredOnce, RestTypes, WaitInv, StartingHasAttempt,
                      NEW t \in Task, tstate[t] = "starting"
               PROVE  LET l == tlease[t] IN
                      /\ l # None
                      /\ owner[l].task = t
                      /\ \/ call[l] = "waiting" /\ Answerable(l)
                         \/ /\ call[l] \in {"bound", "refused", "broken"}
                            /\ \E i \in DOMAIN runq : runq[i] = Resume(l)
    BY DEF StartingIsAttended
  <2>1. PICK l \in Lease : l = tlease[t] /\ owner[l].task = t /\ call[l] \in {"waiting", "bound", "refused", "broken"}
    BY DEF StartingHasAttempt, AtWork, Bookkeeping, TypeInv
  <2>2. call[l] = "waiting" => Answerable(l)
    BY DEF WaitInv, Ahead, Ordered, Replied, Answerable
  <2>3. call[l] \in {"bound", "refused", "broken"} => \E i \in DOMAIN runq : runq[i] = Resume(l)
    <3>1. call[l] \in {"bound", "refused", "broken"} => \E i \in 1..Len(runq) : runq[i] = Resume(l)
      BY DEF AnsweredOnce, Answered, Resumed
    <3>2. DOMAIN runq = 1..Len(runq)
      BY LenProperties DEF RestTypes
    <3> QED
      BY <3>1, <3>2
  <2>4. l # None
    BY ClusterAssumption
  <2> QED
    BY <2>1, <2>2, <2>3, <2>4
<1> QED
  BY <1>1, WaitInvariant, AttemptsRunOnce, RestInvariant, StartingInvariant, BookkeepingInvariant, PTL
----------------------------------------------------------------------------
(* Leases that end *)

\* The frames to the master that are under way on c.
Frames(c) == {toMaster[c][i] : i \in DOMAIN toMaster[c]}
Noticed(c, l) == \E f \in Frames(c) : f.kind = "completed" /\ f.lease = l

\* The end of lease l will be announced on c, is announced there, or c broke and its
\* handler has yet to find that.
Followed(c, l) ==
    \/ link[c] = "cut"
    \/ via[l] = c /\ job[l] \in {"held", "closing"}
    \/ Noticed(c, l)

\* Every lease in the table that a worker accepted is followed on a connection that a
\* handler of its worker serves: the master cannot miss the end of a lease it relies on.
EndIsAnnounced ==
    \A l \in bound : call[l] \in {"bound", "over"} =>
      \E c \in serving : c[1] = owner[l].worker /\ Followed(c, l)

\* A reply comes after its boot, on the connection of the assignment; an acceptance is
\* followed by the notice of the end, unless the machine is there or the connection broke.
ReplyTrue ==
    \A c \in Conn : \A f \in Frames(c) : f.kind = "bound" =>
      /\ via[f.lease] = c /\ job[f.lease] \notin {"none", "booting"}
      /\ f.ok /\ f.lease \in bound /\ link[c] = "up" =>
           job[f.lease] \in {"held", "closing"} \/ Noticed(c, f.lease)

EndInv == ReplyTrue /\ EndIsAnnounced

\* What a step may do to the two of them, one condition per part of the state.
BoundFrames ==
    \A c \in Conn : \A f \in Frames(c)' : f.kind = "bound" =>
      \/ f \in Frames(c) /\ (link'[c] = "up" => link[c] = "up")
      \/ /\ via'[f.lease] = c /\ job'[f.lease] \notin {"none", "booting"}
         /\ f.ok => job'[f.lease] \in {"held", "closing"}
NoticesLast ==
    \A c \in Conn : \A f \in Frames(c) :
      f.kind = "completed" /\ f.lease \in bound' /\ link'[c] = "up" => f \in Frames(c)'
JobsGo ==
    \A l \in Lease : job[l] \notin {"none", "booting"} =>
      /\ via'[l] = via[l] /\ job'[l] \notin {"none", "booting"}
      /\ job[l] \in {"held", "closing"} /\ link[via[l]] = "up" =>
           job'[l] \in {"held", "closing"} \/ link'[via[l]] = "cut" \/ Noticed(via[l], l)'
TableGrows == \A l \in bound' : job[l] # "none" => l \in bound
CallsGo ==
    \A l \in bound' : call'[l] \in {"bound", "over"} =>
      /\ l \in bound /\ owner'[l] = owner[l]
      /\ \/ call[l] \in {"bound", "over"}
         \/ \E c \in serving : c[1] = owner[l].worker /\ Followed(c, l)
ServeGo ==
    \A l \in bound' : \A c \in serving : l \in bound /\ c[1] = owner[l].worker =>
      c \in serving' /\ link'[c] \in {"up", "cut"} /\ (link[c] = "cut" => link'[c] = "cut")

LEMMA EndKept ==
  ASSUME TypeInv, RestTypes, ConnInv, EndInv, TypeInv', BoundFrames, NoticesLast, JobsGo, TableGrows, CallsGo, ServeGo
  PROVE  EndInv'
<1>1. /\ \A c \in Conn : \A f \in Frames(c) : f \in MasterFrame
      /\ \A c \in Conn : \A f \in Frames(c)' : f \in MasterFrame
      /\ bound \subseteq Lease /\ bound' \subseteq Lease /\ serving \subseteq Conn
      /\ \A c \in serving : link[c] \in {"up", "cut"}
  <2>1. toMaster \in [Conn -> Seq(MasterFrame)] /\ toMaster' \in [Conn -> Seq(MasterFrame)]
    BY DEF TypeInv
  <2>2. ASSUME NEW s \in Seq(MasterFrame), NEW i \in DOMAIN s PROVE s[i] \in MasterFrame
    <3>1. i \in 1..Len(s)
      BY LenProperties
    <3> QED
      BY <3>1, ElementOfSeq
  <2>3. link \in [Conn -> {"free", "up", "cut"}] /\ bound \subseteq Lease /\ bound' \subseteq Lease
    BY DEF TypeInv
  <2>4. serving \subseteq Conn
    BY DEF RestTypes
  <2> QED
    BY <2>1, <2>2, <2>3, <2>4 DEF Frames, ConnInv
<1>2. ASSUME NEW c \in Conn, NEW l \in bound', Noticed(c, l), link'[c] = "up" PROVE Noticed(c, l)'
  BY <1>2 DEF Noticed, NoticesLast
<1>3. ReplyTrue'
  <2> SUFFICES ASSUME NEW c \in Conn, NEW f \in Frames(c)', f.kind = "bound"
               PROVE  /\ via'[f.lease] = c /\ job'[f.lease] \notin {"none", "booting"}
                      /\ f.ok /\ f.lease \in bound' /\ link'[c] = "up" =>
                           job'[f.lease] \in {"held", "closing"} \/ Noticed(c, f.lease)'
    BY DEF ReplyTrue
  <2>1. f.lease \in Lease
    BY <1>1, MasterFrames
  <2>2. CASE f \in Frames(c) /\ (link'[c] = "up" => link[c] = "up")
    <3>1. /\ via[f.lease] = c /\ job[f.lease] \notin {"none", "booting"}
          /\ f.ok /\ f.lease \in bound /\ link[c] = "up" =>
               job[f.lease] \in {"held", "closing"} \/ Noticed(c, f.lease)
      BY <2>2 DEF EndInv, ReplyTrue
    <3>2. via'[f.lease] = c /\ job'[f.lease] \notin {"none", "booting"}
      BY <2>1, <3>1 DEF JobsGo
    <3>3. ASSUME f.ok, f.lease \in bound', link'[c] = "up"
          PROVE  job'[f.lease] \in {"held", "closing"} \/ Noticed(c, f.lease)'
      <4>1. f.lease \in bound
        BY <3>1, <3>3 DEF TableGrows
      <4>2. job[f.lease] \in {"held", "closing"} \/ Noticed(c, f.lease)
        BY <2>2, <3>1, <3>3, <4>1
      <4>3. link'[c] # "cut" /\ link[c] = "up"
        BY <2>2, <3>3
      <4> QED
        BY <1>2, <2>1, <3>1, <3>3, <4>2, <4>3 DEF JobsGo
    <3> QED
      BY <3>2, <3>3
  <2>3. CASE /\ via'[f.lease] = c /\ job'[f.lease] \notin {"none", "booting"}
             /\ f.ok => job'[f.lease] \in {"held", "closing"}
    BY <2>3
  <2> QED
    BY <2>2, <2>3 DEF BoundFrames
<1>4. EndIsAnnounced'
  <2> SUFFICES ASSUME NEW l \in bound', call'[l] \in {"bound", "over"}
               PROVE  \E c \in serving' : c[1] = owner'[l].worker /\ Followed(c, l)'
    BY DEF EndIsAnnounced
  <2>1. l \in Lease /\ l \in bound /\ owner'[l] = owner[l]
    BY <1>1 DEF CallsGo
  <2>2. PICK c \in serving : c[1] = owner[l].worker /\ Followed(c, l)
    BY <2>1 DEF CallsGo, EndInv, EndIsAnnounced
  <2>3. c \in Conn /\ c \in serving' /\ link'[c] \in {"up", "cut"} /\ (link[c] = "cut" => link'[c] = "cut")
    BY <1>1, <2>1, <2>2 DEF ServeGo
  <2>4. ASSUME link[c] = "cut" PROVE Followed(c, l)'
    BY <2>3, <2>4 DEF Followed
  <2>5. ASSUME link[c] = "up", via[l] = c, job[l] \in {"held", "closing"} PROVE Followed(c, l)'
    BY <2>1, <2>3, <2>5 DEF JobsGo, Followed
  <2>6. ASSUME Noticed(c, l) PROVE Followed(c, l)'
    BY <1>2, <2>3, <2>6 DEF Followed
  <2>7. Followed(c, l)'
    BY <1>1, <2>2, <2>4, <2>5, <2>6 DEF Followed
  <2> QED
    BY <2>1, <2>2, <2>3, <2>7
<1> QED
  BY <1>3, <1>4 DEF EndInv

\* How the frames on the connections change.
LEMMA FramesRead ==
  ASSUME TypeInv, NEW d \in Conn, toMaster[d] # <<>>, toMaster' = [toMaster EXCEPT ![d] = Tail(@)]
  PROVE  /\ Head(toMaster[d]) \in Frames(d) /\ Head(toMaster[d]) \in MasterFrame
         /\ \A c \in Conn : /\ Frames(c)' \subseteq Frames(c)
                            /\ c # d => Frames(c) \subseteq Frames(c)'
                            /\ \A f \in Frames(c) : f = Head(toMaster[d]) \/ f \in Frames(c)'
<1>1. toMaster \in [Conn -> Seq(MasterFrame)] /\ toMaster[d] \in Seq(MasterFrame)
  BY DEF TypeInv
<1>2. \A c \in Conn : toMaster'[c] = IF c = d THEN Tail(toMaster[d]) ELSE toMaster[c]
  BY <1>1
<1>3. /\ Len(toMaster[d]) \in Nat \ {0} /\ Head(toMaster[d]) = toMaster[d][1] /\ Head(toMaster[d]) \in MasterFrame
      /\ Tail(toMaster[d]) \in Seq(MasterFrame) /\ Len(Tail(toMaster[d])) = Len(toMaster[d]) - 1
      /\ \A i \in 1..Len(toMaster[d]) - 1 :
           Tail(toMaster[d])[i] = toMaster[d][i + 1] /\ i + 1 \in 1..Len(toMaster[d])
  BY <1>1, HeadTail
<1>4. DOMAIN toMaster[d] = 1..Len(toMaster[d]) /\ DOMAIN Tail(toMaster[d]) = 1..Len(toMaster[d]) - 1
  BY <1>1, <1>3, LenProperties
<1>5. PICK q : q = Tail(toMaster[d])
  OBVIOUS
<1>6. \A i \in DOMAIN q : \E j \in DOMAIN toMaster[d] : q[i] = toMaster[d][j]
  BY <1>3, <1>4, <1>5
<1>7. \A i \in DOMAIN toMaster[d] : i # 1 => \E j \in DOMAIN q : q[j] = toMaster[d][i]
  BY <1>1, <1>5, FramesStay
<1>8. 1 \in DOMAIN toMaster[d]
  BY <1>3, <1>4
<1>9. toMaster'[d] = q /\ \A c \in Conn : c # d => toMaster'[c] = toMaster[c]
  BY <1>2, <1>5
<1>10. \A c \in Conn : c # d => Frames(c)' = Frames(c)
  BY <1>9 DEF Frames
<1>11. Head(toMaster[d]) \in Frames(d)
  BY <1>3, <1>8 DEF Frames
<1>12. Frames(d)' \subseteq Frames(d)
  BY <1>6, <1>9 DEF Frames
<1>13. ASSUME NEW f \in Frames(d), f # Head(toMaster[d]) PROVE f \in Frames(d)'
  <2>1. PICK i \in DOMAIN toMaster[d] : f = toMaster[d][i]
    BY DEF Frames
  <2>2. i # 1
    BY <1>3, <1>13, <2>1
  <2> QED
    BY <1>7, <1>9, <2>1, <2>2 DEF Frames
<1> QED
  BY <1>3, <1>10, <1>11, <1>12, <1>13

LEMMA FramesSent ==
  ASSUME TypeInv, NEW g \in MasterFrame,
         \A c \in Conn : toMaster'[c] \in {toMaster[c], Append(toMaster[c], g)}
  PROVE  \A c \in Conn : /\ Frames(c) \subseteq Frames(c)' /\ Frames(c)' \subseteq Frames(c) \cup {g}
                         /\ toMaster'[c] = Append(toMaster[c], g) => g \in Frames(c)'
                         /\ toMaster'[c] = toMaster[c] => Frames(c)' = Frames(c)
<1> SUFFICES ASSUME NEW c \in Conn
             PROVE  /\ Frames(c) \subseteq Frames(c)' /\ Frames(c)' \subseteq Frames(c) \cup {g}
                    /\ toMaster'[c] = Append(toMaster[c], g) => g \in Frames(c)'
                    /\ toMaster'[c] = toMaster[c] => Frames(c)' = Frames(c)
  OBVIOUS
<1>1. toMaster[c] \in Seq(MasterFrame)
  BY DEF TypeInv
<1>2. toMaster'[c] = toMaster[c] => Frames(c)' = Frames(c)
  BY DEF Frames
<1>3. ASSUME toMaster'[c] = Append(toMaster[c], g)
      PROVE  Frames(c)' = Frames(c) \cup {g}
  <2>1. PICK q : q = toMaster'[c]
    OBVIOUS
  <2>2. q = Append(toMaster[c], g)
    BY <1>3, <2>1
  <2>3. /\ q \in Seq(MasterFrame) /\ Len(toMaster[c]) \in Nat /\ Len(q) = Len(toMaster[c]) + 1
        /\ \A i \in 1..Len(toMaster[c]) : q[i] = toMaster[c][i]
        /\ q[Len(toMaster[c]) + 1] = g
    BY <1>1, <2>2, Appended
  <2>4. DOMAIN q = 1..Len(toMaster[c]) + 1 /\ DOMAIN toMaster[c] = 1..Len(toMaster[c])
    BY <1>1, <2>3, LenProperties
  <2>5. \A i \in DOMAIN q : q[i] = g \/ \E j \in DOMAIN toMaster[c] : q[i] = toMaster[c][j]
    <3>1. \A i \in DOMAIN q : i = Len(toMaster[c]) + 1 \/ i \in 1..Len(toMaster[c])
      BY <2>3, <2>4
    <3> QED
      BY <2>3, <2>4, <3>1
  <2>6. \A j \in DOMAIN toMaster[c] : \E i \in DOMAIN q : q[i] = toMaster[c][j]
    BY <1>1, <2>2, FramesFollow
  <2>7. \E i \in DOMAIN q : q[i] = g
    BY <1>1, <2>2, LastFrame
  <2> QED
    BY <2>1, <2>5, <2>6, <2>7 DEF Frames
<1> QED
  BY <1>2, <1>3

LEMMA FramesBroken ==
  ASSUME TypeInv, NEW d \in Conn, Break(d)
  PROVE  \A c \in Conn : Frames(c)' \subseteq Frames(c) /\ (c # d => Frames(c) = Frames(c)')
<1>1. toMaster \in [Conn -> Seq(MasterFrame)] /\ toMaster[d] \in Seq(MasterFrame)
  BY DEF TypeInv
<1>2. PICK k \in 0..Len(toMaster[d]) : toMaster' = [toMaster EXCEPT ![d] = SubSeq(@, 1, k)]
  BY DEF Break
<1>3. PICK q : q = SubSeq(toMaster[d], 1, k)
  OBVIOUS
<1>4. toMaster'[d] = q /\ \A c \in Conn : c # d => toMaster'[c] = toMaster[c]
  BY <1>1, <1>2, <1>3
<1>5. q \in Seq(MasterFrame) /\ Len(q) = k /\ \A i \in 1..k : q[i] = toMaster[d][i]
  BY <1>1, <1>3, Prefix
<1>6. DOMAIN q = 1..k /\ DOMAIN toMaster[d] = 1..Len(toMaster[d]) /\ Len(toMaster[d]) \in Nat
  BY <1>1, <1>5, LenProperties
<1>7. 1..k \subseteq 1..Len(toMaster[d])
  BY <1>6
<1> QED
  BY <1>4, <1>5, <1>6, <1>7 DEF Frames

\* The steps of the master leave the machines alone.
LEMMA EndMaster ==
  ASSUME Bookkeeping, RestTypes, ConnInv, WaitInv, EndInv, MasterStep \/ GrantStep
  PROVE  BoundFrames /\ NoticesLast /\ JobsGo /\ TableGrows /\ CallsGo /\ ServeGo
<1>1. /\ link \in [Conn -> {"free", "up", "cut"}] /\ serving \subseteq Conn
      /\ toMaster \in [Conn -> Seq(MasterFrame)] /\ bound \subseteq Lease
      /\ call \in [Lease -> {"none", "waiting", "bound", "refused", "broken", "over"}]
      /\ owner \in [Lease -> Owner \cup {None}] /\ job \in [Lease -> JobState]
      /\ TypeInv /\ SessInv /\ DrawnInv /\ AssignInv
      /\ \A c \in serving : link[c] \in {"up", "cut"}
  BY DEF Bookkeeping, TypeInv, RestTypes, ConnInv
<1>2. UNCHANGED <<job, via>>
  BY DEF MasterStep, GrantStep, worker
<1>3. JobsGo
  BY <1>2 DEF JobsGo
<1>4. ASSUME \A c \in Conn : Frames(c)' \subseteq Frames(c), \A c \in Conn : link'[c] = "up" => link[c] = "up"
      PROVE  BoundFrames
  BY <1>4 DEF BoundFrames
<1>5. ASSUME UNCHANGED toMaster PROVE \A c \in Conn : Frames(c)' = Frames(c)
  BY <1>5 DEF Frames
<1>6. ASSUME \A c \in Conn : Frames(c) \subseteq Frames(c)' PROVE NoticesLast
  BY <1>6 DEF NoticesLast
<1>7. ASSUME bound' \subseteq bound PROVE TableGrows
  BY <1>7 DEF TableGrows
<1>8. ASSUME UNCHANGED owner, bound' \subseteq bound,
             \A l \in bound' : call'[l] \in {"bound", "over"} => call[l] \in {"bound", "over"}
      PROVE  CallsGo
  BY <1>8 DEF CallsGo
<1>9. ASSUME UNCHANGED link, serving \subseteq serving' PROVE ServeGo
  BY <1>1, <1>9 DEF ServeGo
<1> DEFINE Goal == BoundFrames /\ NoticesLast /\ JobsGo /\ TableGrows /\ CallsGo /\ ServeGo
<1> HIDE DEF Goal
<1>10. ASSUME UNCHANGED <<toMaster, link, serving, owner>>, bound' \subseteq bound,
              \A l \in bound' : call'[l] \in {"bound", "over"} => call[l] \in {"bound", "over"}
       PROVE  Goal
  <2>1. UNCHANGED toMaster /\ UNCHANGED link /\ serving \subseteq serving' /\ UNCHANGED owner
    BY <1>10
  <2>2. \A c \in Conn : Frames(c)' = Frames(c)
    BY <1>5, <2>1
  <2>3. BoundFrames /\ NoticesLast
    BY <1>4, <1>6, <2>1, <2>2
  <2>4. TableGrows /\ CallsGo /\ ServeGo
    BY <1>7, <1>8, <1>9, <1>10, <2>1
  <2> QED
    BY <1>3, <2>3, <2>4 DEF Goal
<1>11. ASSUME UNCHANGED <<toMaster, link, serving, owner, bound, call>> PROVE Goal
  BY <1>10, <1>11
<1>12. ASSUME NEW l \in Lease, Revert(l), UNCHANGED <<toMaster, link, serving, owner>> PROVE Goal
  <2>1. bound' = bound \ {l} /\ call' = [call EXCEPT ![l] = "over"]
    BY <1>12 DEF Revert
  <2>2. \A k \in bound' : call'[k] = call[k]
    BY <1>1, <2>1
  <2> QED
    BY <1>10, <1>12, <2>1, <2>2
<1>13. ASSUME NEW l \in Lease, Grant(l) PROVE Goal
  <2>1. /\ call[l] = "bound" /\ call' = [call EXCEPT ![l] = "over"]
        /\ UNCHANGED <<toMaster, link, serving, owner, bound>>
    BY <1>13 DEF Grant, ledger, wire
  <2>2. \A k \in bound' : call'[k] \in {"bound", "over"} => call[k] \in {"bound", "over"}
    BY <1>1, <2>1
  <2> QED
    BY <1>10, <2>1, <2>2
<1>14. ASSUME NEW t \in Task, NEW w \in Worker, NEW k \in Lease, PlaceOn(t, w, k) PROVE Goal
  <2>1. /\ call[k] = "none" /\ call' \in {[call EXCEPT ![k] = "waiting"], [call EXCEPT ![k] = "broken"]}
        /\ bound' = bound \cup {k} /\ owner' = [owner EXCEPT ![k] = [task |-> t, worker |-> w]]
    BY <1>14 DEF PlaceOn, Drawn
  <2>2. UNCHANGED toMaster /\ UNCHANGED link /\ UNCHANGED serving
    BY <1>14 DEF PlaceOn
  <2>3. job[k] = "none"
    BY <1>1, <2>1 DEF DrawnInv
  <2>4. TableGrows
    BY <2>1, <2>3 DEF TableGrows
  <2>5. ASSUME NEW l \in bound', call'[l] \in {"bound", "over"} PROVE l # k /\ l \in Lease
    BY <1>1, <2>1, <2>5
  <2>6. CallsGo
    <3>1. ASSUME NEW l \in bound', call'[l] \in {"bound", "over"}
          PROVE  l \in bound /\ owner'[l] = owner[l] /\ call[l] \in {"bound", "over"}
      BY <1>1, <2>1, <2>5, <3>1
    <3> QED
      BY <3>1 DEF CallsGo
  <2>7. \A c \in Conn : Frames(c)' = Frames(c)
    BY <1>5, <2>2
  <2>8. BoundFrames /\ NoticesLast /\ ServeGo
    BY <1>4, <1>6, <1>9, <2>2, <2>7
  <2> QED
    BY <1>3, <2>4, <2>6, <2>8 DEF Goal
<1>15. ASSUME NEW d \in Conn, toMaster[d] # <<>>, Consume(d), serving \subseteq serving',
              Head(toMaster[d]).kind = "completed" => Head(toMaster[d]).lease \notin bound'
       PROVE  BoundFrames /\ NoticesLast /\ ServeGo
  <2>1. toMaster' = [toMaster EXCEPT ![d] = Tail(@)] /\ UNCHANGED link
    BY <1>15 DEF Consume
  <2>2. \A c \in Conn : /\ Frames(c)' \subseteq Frames(c)
                        /\ \A f \in Frames(c) : f = Head(toMaster[d]) \/ f \in Frames(c)'
    BY <1>1, <1>15, <2>1, FramesRead
  <2>3. NoticesLast
    BY <1>15, <2>2 DEF NoticesLast
  <2>4. BoundFrames
    BY <1>4, <2>1, <2>2
  <2> QED
    BY <1>9, <1>15, <2>1, <2>3, <2>4
<1>16. ASSUME NEW d \in Conn, HandleRegister(d) PROVE Goal
  <2>1. /\ toMaster[d] # <<>> /\ Head(toMaster[d]).kind = "register" /\ Consume(d)
        /\ serving \subseteq serving' /\ UNCHANGED owner /\ UNCHANGED bound /\ UNCHANGED call
    BY <1>16 DEF HandleRegister, Frame, ledger
  <2>2. BoundFrames /\ NoticesLast /\ ServeGo
    BY <1>15, <2>1
  <2> QED
    BY <1>3, <1>7, <1>8, <2>1, <2>2 DEF Goal
<1>17. ASSUME NEW d \in Conn, HandleCompleted(d) PROVE Goal
  <2>1. /\ toMaster[d] # <<>> /\ Consume(d) /\ bound' = bound \ {Head(toMaster[d]).lease}
        /\ serving \subseteq serving' /\ UNCHANGED owner /\ UNCHANGED call
    BY <1>17 DEF HandleCompleted, Frame
  <2>2. BoundFrames /\ NoticesLast /\ ServeGo
    BY <1>15, <2>1
  <2> QED
    BY <1>3, <1>7, <1>8, <2>1, <2>2 DEF Goal
<1>18. ASSUME NEW d \in Conn, HandleBound(d) PROVE Goal
  <2>1. PICK f : f = Head(toMaster[d])
    OBVIOUS
  <2>2. /\ toMaster[d] # <<>> /\ f.kind = "bound" /\ Consume(d)
        /\ serving \subseteq serving' /\ UNCHANGED owner /\ UNCHANGED bound
        /\ \/ call' = call
           \/ /\ call[f.lease] = "waiting"
              /\ call' = [call EXCEPT ![f.lease] = IF f.ok THEN "bound" ELSE "refused"]
    BY <1>18, <2>1 DEF HandleBound, Frame, ledger
  <2>3. BoundFrames /\ NoticesLast /\ ServeGo
    BY <1>15, <2>1, <2>2
  <2>4. f \in Frames(d) /\ f \in MasterFrame
    BY <1>1, <2>1, <2>2, FramesRead DEF Consume
  <2>5. f.lease \in Lease /\ f.ok \in BOOLEAN
    BY <2>2, <2>4, MasterFrames
  <2>6. ASSUME f.ok, f.lease \in bound, call[f.lease] = "waiting"
        PROVE  \E c \in serving : c[1] = owner[f.lease].worker /\ Followed(c, f.lease)
    <3>1. /\ via[f.lease] = d /\ job[f.lease] \notin {"none", "booting"}
          /\ link[d] = "up" => job[f.lease] \in {"held", "closing"} \/ Noticed(d, f.lease)
      BY <2>2, <2>4, <2>6 DEF EndInv, ReplyTrue
    <3>2. PICK c \in serving : c[1] = owner[f.lease].worker /\ Ahead(c, f.lease)
      BY <2>5, <2>6 DEF WaitInv
    <3>3. c \in Conn /\ link[c] \in {"up", "cut"}
      BY <1>1
    <3>4. ~Ordered(c, f.lease)
      <4> SUFFICES ASSUME Ordered(c, f.lease) PROVE FALSE
        OBVIOUS
      <4>1. PICK i \in DOMAIN toWorker[c] : toWorker[c][i].kind = "assign" /\ toWorker[c][i].lease = f.lease
        BY DEF Ordered
      <4>2. toWorker[c] \in Seq(WorkerFrame)
        BY <1>1, <3>3 DEF TypeInv
      <4>3. i \in 1..Len(toWorker[c])
        BY <4>2, LenProperties
      <4>4. job[toWorker[c][i].lease] = "none"
        BY <1>1, <3>3, <4>1, <4>3 DEF AssignInv
      <4>5. job[f.lease] = "none"
        BY <4>1, <4>4
      <4> QED
        BY <3>1, <4>5
    <3>5. Replied(c, f.lease) => via[f.lease] = c
      <4> SUFFICES ASSUME Replied(c, f.lease) PROVE via[f.lease] = c
        OBVIOUS
      <4>1. PICK i \in DOMAIN toMaster[c] : toMaster[c][i].kind = "bound" /\ toMaster[c][i].lease = f.lease
        BY DEF Replied
      <4>2. PICK g : g = toMaster[c][i]
        OBVIOUS
      <4>3. g \in Frames(c) /\ g.kind = "bound" /\ g.lease = f.lease
        BY <4>1, <4>2 DEF Frames
      <4> QED
        BY <3>3, <4>3 DEF EndInv, ReplyTrue
    <3>6. link[c] = "cut" \/ c = d
      BY <3>1, <3>2, <3>4, <3>5 DEF Ahead
    <3> QED
      BY <3>1, <3>2, <3>3, <3>6 DEF Followed
  <2>7. CallsGo
    <3> SUFFICES ASSUME NEW l \in bound', call'[l] \in {"bound", "over"}
                 PROVE  /\ l \in bound /\ owner'[l] = owner[l]
                        /\ \/ call[l] \in {"bound", "over"}
                           \/ \E c \in serving : c[1] = owner[l].worker /\ Followed(c, l)
      BY DEF CallsGo
    <3>1. l \in bound /\ l \in Lease /\ owner'[l] = owner[l]
      BY <1>1, <2>2
    <3>2. CASE call'[l] = call[l]
      BY <3>1, <3>2
    <3>3. CASE call'[l] # call[l]
      <4>1. l = f.lease /\ call[l] = "waiting" /\ f.ok
        BY <1>1, <2>2, <2>5, <3>1, <3>3
      <4> QED
        BY <2>6, <3>1, <4>1
    <3> QED
      BY <3>2, <3>3
  <2> QED
    BY <1>3, <1>7, <2>2, <2>3, <2>7 DEF Goal
<1>19. ASSUME NEW d \in Conn, EndUnregistered(d) PROVE Goal
  <2>1. /\ d \notin serving /\ link' = [link EXCEPT ![d] = "free"] /\ UNCHANGED toMaster
        /\ UNCHANGED serving /\ UNCHANGED owner /\ UNCHANGED bound /\ UNCHANGED call
    BY <1>19 DEF EndUnregistered, master, ledger
  <2>2. \A c \in Conn : link'[c] = IF c = d THEN "free" ELSE link[c]
    BY <1>1, <2>1
  <2>3. \A c \in Conn : Frames(c)' = Frames(c)
    BY <1>5, <2>1
  <2>4. BoundFrames /\ NoticesLast
    BY <1>4, <1>6, <2>2, <2>3
  <2>5. ServeGo
    BY <1>1, <2>1, <2>2 DEF ServeGo
  <2> QED
    BY <1>3, <1>7, <1>8, <2>1, <2>4, <2>5 DEF Goal
<1>20. ASSUME NEW d \in Conn, Disconnected(d) PROVE Goal
  <2>1. /\ link' = [link EXCEPT ![d] = "free"] /\ UNCHANGED toMaster
        /\ serving' = serving \ {d} /\ UNCHANGED owner
        /\ bound' = {l \in bound : owner[l].worker # d[1]}
    BY <1>20 DEF Disconnected
  <2>2. \A l \in Lease : call'[l] \in {call[l], "broken"}
    BY <1>20 DEF Disconnected
  <2>3. \A c \in Conn : link'[c] = IF c = d THEN "free" ELSE link[c]
    BY <1>1, <2>1
  <2>4. \A c \in Conn : Frames(c)' = Frames(c)
    BY <1>5, <2>1
  <2>5. BoundFrames /\ NoticesLast
    BY <1>4, <1>6, <2>3, <2>4
  <2>6. ServeGo
    BY <1>1, <2>1, <2>3 DEF ServeGo
  <2>7. bound' \subseteq bound /\ \A l \in bound' : call'[l] \in {"bound", "over"} => call[l] \in {"bound", "over"}
    BY <1>1, <2>1, <2>2
  <2> QED
    BY <1>3, <1>7, <1>8, <2>1, <2>5, <2>6, <2>7 DEF Goal
<1>21. ASSUME NEW b \in Batch, Submit(b) \/ Cancel(b) PROVE UNCHANGED <<toMaster, link, serving, owner, bound, call>>
  BY <1>21 DEF Submit, Cancel, wire, ledger
<1>22. ASSUME NEW l \in Lease, SendRelease(l) PROVE UNCHANGED <<toMaster, link, serving, owner, bound, call>>
  BY <1>22 DEF SendRelease, ledger
<1>23. PlaceNone => UNCHANGED <<toMaster, link, serving, owner, bound, call>>
  BY DEF PlaceNone, wire, ledger
<1>24. ASSUME NEW l \in Lease, GiveBack(l) \/ Timeout(l) PROVE Goal
  BY <1>12, <1>24 DEF GiveBack, Timeout, wire
<1>25. Goal
  <2>1. CASE MasterStep
    BY <1>11, <1>14, <1>16, <1>17, <1>18, <1>19, <1>20, <1>21, <1>22, <1>23, <1>24, <2>1 DEF MasterStep, Scheduled
  <2>2. CASE GrantStep
    BY <1>13, <2>2 DEF GrantStep
  <2> QED
    BY <2>1, <2>2
<1> QED
  BY <1>25 DEF Goal

\* The steps of the workers and of what breaks leave the lease table alone.
LEMMA EndWorker ==
  ASSUME Bookkeeping, RestTypes, ConnInv, EndInv, WorkerStep \/ FaultStep
  PROVE  BoundFrames /\ NoticesLast /\ JobsGo /\ TableGrows /\ CallsGo /\ ServeGo
<1>1. /\ link \in [Conn -> {"free", "up", "cut"}] /\ serving \subseteq Conn
      /\ toMaster \in [Conn -> Seq(MasterFrame)]
      /\ job \in [Lease -> JobState] /\ via \in [Lease -> Conn \cup {None}]
      /\ jobTask \in [Lease -> Task \cup {None}]
      /\ TypeInv /\ DrawnInv /\ AssignInv
      /\ \A c \in serving : link[c] \in {"up", "cut"}
  BY DEF Bookkeeping, TypeInv, RestTypes, ConnInv
<1>2. UNCHANGED <<serving, owner, bound, call>>
  BY DEF WorkerStep, FaultStep, master, ledger
<1>3. TableGrows /\ CallsGo
  BY <1>2 DEF TableGrows, CallsGo
<1> DEFINE Goal == BoundFrames /\ NoticesLast /\ JobsGo /\ ServeGo
<1> HIDE DEF Goal
<1>4. ASSUME UNCHANGED toMaster PROVE \A c \in Conn : Frames(c)' = Frames(c)
  BY <1>4 DEF Frames
<1>5. ASSUME \A c \in Conn : Frames(c)' = Frames(c), UNCHANGED link, JobsGo PROVE Goal
  <2>1. BoundFrames /\ NoticesLast
    BY <1>5 DEF BoundFrames, NoticesLast
  <2>2. ServeGo
    BY <1>1, <1>2, <1>5 DEF ServeGo
  <2> QED
    BY <1>5, <2>1, <2>2 DEF Goal
<1>6. ASSUME UNCHANGED via,
             \A l \in Lease : job'[l] = job[l] \/ job[l] \in {"none", "booting"}
                                \/ (job[l] = "held" /\ job'[l] = "closing"),
             \A l \in Lease : job[l] \notin {"none", "booting"} => job'[l] \notin {"none", "booting"}
      PROVE  JobsGo
  BY <1>6 DEF JobsGo
<1>7. ASSUME NEW w \in Worker, Dial(w) PROVE Goal
  <2>1. PICK d \in Conn :
          /\ link[d] = "free" /\ link' = [link EXCEPT ![d] = "up"]
          /\ toMaster' = [toMaster EXCEPT ![d] = <<[kind |-> "register"]>>]
    BY <1>7 DEF Dial
  <2>2. UNCHANGED job /\ UNCHANGED via
    BY <1>7 DEF Dial, worker
  <2>3. \A c \in Conn : link'[c] = IF c = d THEN "up" ELSE link[c]
    BY <1>1, <2>1
  <2>4. \A c \in Conn : c # d => Frames(c)' = Frames(c)
    BY <1>1, <2>1 DEF Frames
  <2>5. \A f \in Frames(d)' : f.kind = "register"
    <3>1. toMaster'[d] = <<[kind |-> "register"]>>
      BY <1>1, <2>1
    <3>2. PICK q : q = toMaster'[d]
      OBVIOUS
    <3>3. \A i \in DOMAIN q : q[i].kind = "register"
      BY <3>1, <3>2
    <3> QED
      BY <3>2, <3>3 DEF Frames
  <2>6. Frames(d) = {}
    <3>1. toMaster[d] = <<>>
      BY <2>1 DEF ConnInv
    <3>2. DOMAIN <<>> = {}
      OBVIOUS
    <3> QED
      BY <3>1, <3>2 DEF Frames
  <2>7. BoundFrames
    <3> SUFFICES ASSUME NEW c \in Conn, NEW f \in Frames(c)', f.kind = "bound"
                 PROVE  f \in Frames(c) /\ (link'[c] = "up" => link[c] = "up")
      BY DEF BoundFrames
    <3>1. c # d
      BY <2>5
    <3> QED
      BY <2>3, <2>4, <3>1
  <2>8. NoticesLast
    BY <2>4, <2>6 DEF NoticesLast
  <2>9. ServeGo
    BY <1>1, <1>2, <2>1, <2>3 DEF ServeGo
  <2>10. JobsGo
    BY <2>2 DEF JobsGo
  <2> QED
    BY <2>7, <2>8, <2>9, <2>10 DEF Goal
<1>8. ASSUME NEW d \in Conn, RecvAssign(d) PROVE Goal
  <2>1. PICK f : f = Head(toWorker[d])
    OBVIOUS
  <2>2. /\ toWorker[d] # <<>> /\ f.kind = "assign"
        /\ job' = [job EXCEPT ![f.lease] = "booting"] /\ via' = [via EXCEPT ![f.lease] = d]
        /\ UNCHANGED link /\ UNCHANGED toMaster
    BY <1>8, <2>1 DEF RecvAssign
  <2>3. f.lease \in Lease /\ job[f.lease] = "none"
    <3>1. toWorker[d] \in Seq(WorkerFrame)
      BY <1>1 DEF TypeInv
    <3>2. f \in WorkerFrame /\ f = toWorker[d][1] /\ 1 \in 1..Len(toWorker[d])
      BY <2>1, <2>2, <3>1, HeadTail
    <3> QED
      BY <1>1, <2>2, <3>2, WorkerFrames DEF AssignInv
  <2>4. \A l \in Lease : job[l] # "none" => job'[l] = job[l] /\ via'[l] = via[l]
    BY <1>1, <2>2, <2>3
  <2>5. JobsGo
    BY <2>4 DEF JobsGo
  <2> QED
    BY <1>4, <1>5, <2>2, <2>5
<1>9. ASSUME NEW d \in Conn, RecvRelease(d) PROVE Goal
  <2>1. /\ UNCHANGED link /\ UNCHANGED toMaster /\ UNCHANGED via
        /\ job' = job \/ \E k : job[k] = "held" /\ job' = [job EXCEPT ![k] = "closing"]
    BY <1>9 DEF RecvRelease
  <2>2. \A l \in Lease : job'[l] = job[l] \/ (job[l] = "held" /\ job'[l] = "closing")
    BY <1>1, <2>1
  <2> QED
    BY <1>4, <1>5, <1>6, <2>1, <2>2
<1>10. ASSUME NEW k \in Lease, NEW v, CompleteLease(k, v) PROVE Goal
  <2>1. /\ UNCHANGED link /\ UNCHANGED toMaster /\ UNCHANGED via
        /\ job[k] = "held" /\ job' = [job EXCEPT ![k] = "closing"]
    BY <1>10 DEF CompleteLease, wire
  <2>2. \A l \in Lease : job'[l] = job[l] \/ (job[l] = "held" /\ job'[l] = "closing")
    BY <1>1, <2>1
  <2> QED
    BY <1>4, <1>5, <1>6, <2>1, <2>2
<1>11. ASSUME NEW k \in Lease, BootDone(k) \/ BootFailed(k) PROVE Goal
  <2>1. PICK s \in {"held", "gone"} : job' = [job EXCEPT ![k] = s] /\
          ToMaster(via[k], [kind |-> "bound", lease |-> k, ok |-> s = "held"])
    <3>1. CASE BootDone(k)
      <4>1. CASE Known(At(k), jobTask[k])
        BY <3>1, <4>1 DEF BootDone
      <4>2. CASE ~Known(At(k), jobTask[k])
        BY <3>1, <4>2 DEF BootDone
      <4> QED
        BY <4>1, <4>2
    <3>2. CASE BootFailed(k)
      BY <3>2 DEF BootFailed
    <3> QED
      BY <1>11, <3>1, <3>2
  <2>2. job[k] = "booting" /\ UNCHANGED via /\ UNCHANGED link
    BY <1>11 DEF BootDone, BootFailed
  <2>3. PICK g \in MasterFrame : g = [kind |-> "bound", lease |-> k, ok |-> s = "held"]
    BY MadeFrames
  <2>4. \A c \in Conn : toMaster'[c] = IF c = via[k] /\ link[c] = "up" THEN Append(toMaster[c], g) ELSE toMaster[c]
    BY <1>1, <2>1, <2>3 DEF ToMaster
  <2>5. \A c \in Conn : /\ Frames(c) \subseteq Frames(c)' /\ Frames(c)' \subseteq Frames(c) \cup {g}
                        /\ c # via[k] => Frames(c)' = Frames(c)
    BY <1>1, <2>4, FramesSent
  <2>6. job'[k] = s /\ \A l \in Lease : l # k => job'[l] = job[l]
    BY <1>1, <2>1
  <2>7. BoundFrames
    <3> SUFFICES ASSUME NEW c \in Conn, NEW f \in Frames(c)', f \notin Frames(c)
                 PROVE  /\ via'[f.lease] = c /\ job'[f.lease] \notin {"none", "booting"}
                        /\ f.ok => job'[f.lease] \in {"held", "closing"}
      BY <2>2 DEF BoundFrames
    <3>1. f = g /\ c = via[k]
      BY <2>5
    <3> QED
      BY <2>2, <2>3, <2>6, <3>1
  <2>8. NoticesLast
    BY <2>5 DEF NoticesLast
  <2>9. JobsGo
    BY <2>2, <2>6 DEF JobsGo
  <2>10. ServeGo
    BY <1>1, <1>2, <2>2 DEF ServeGo
  <2> QED
    BY <2>7, <2>8, <2>9, <2>10 DEF Goal
<1>12. ASSUME NEW k \in Lease, Finalize(k) PROVE Goal
  <2>1. job[k] = "closing" /\ job' = [job EXCEPT ![k] = "ended"] /\ UNCHANGED via /\ UNCHANGED link
    BY <1>12 DEF Finalize
  <2>2. PICK g \in MasterFrame :
          /\ g.kind = "completed" /\ g.lease = k
          /\ \A c \in Conn : toMaster'[c] = IF c \in OpenOf(At(k)) THEN Append(toMaster[c], g) ELSE toMaster[c]
    BY <1>1, <1>12, FinalizeSends
  <2>3. \A c \in Conn : /\ Frames(c) \subseteq Frames(c)' /\ Frames(c)' \subseteq Frames(c) \cup {g}
                        /\ c \in OpenOf(At(k)) => g \in Frames(c)'
    BY <1>1, <2>2, FramesSent
  <2>4. BoundFrames
    BY <2>1, <2>2, <2>3 DEF BoundFrames
  <2>5. NoticesLast
    BY <2>3 DEF NoticesLast
  <2>6. via[k] \in Conn
    BY <1>1, <2>1 DEF DrawnInv
  <2>7. link[via[k]] = "up" => Noticed(via[k], k)'
    <3>1. link[via[k]] = "up" => via[k] \in OpenOf(At(k))
      BY <2>6 DEF OpenOf, At
    <3>2. via[k] \in OpenOf(At(k)) => g \in Frames(via[k])'
      <4>1. PICK c \in Conn : c = via[k]
        BY <2>6
      <4>2. c \in OpenOf(At(k)) => g \in Frames(c)'
        BY <2>3
      <4>3. c = via'[k]
        BY <2>1, <4>1
      <4> QED
        BY <4>1, <4>2, <4>3 DEF Frames
    <3> QED
      BY <2>1, <2>2, <3>1, <3>2 DEF Noticed
  <2>8. JobsGo
    BY <1>1, <2>1, <2>7 DEF JobsGo
  <2>9. ServeGo
    BY <1>1, <1>2, <2>1 DEF ServeGo
  <2> QED
    BY <2>4, <2>5, <2>8, <2>9 DEF Goal
<1>13. ASSUME NEW d \in Conn, Break(d), link[d] = "up", JobsGo PROVE Goal
  <2>1. link' = [link EXCEPT ![d] = "cut"]
    BY <1>13 DEF Break
  <2>2. \A c \in Conn : link'[c] = IF c = d THEN "cut" ELSE link[c]
    BY <1>1, <2>1
  <2>3. \A c \in Conn : Frames(c)' \subseteq Frames(c) /\ (c # d => Frames(c) = Frames(c)')
    BY <1>1, <1>13, FramesBroken
  <2>4. BoundFrames /\ NoticesLast
    BY <2>2, <2>3 DEF BoundFrames, NoticesLast
  <2>5. ServeGo
    BY <1>1, <1>2, <2>2 DEF ServeGo
  <2> QED
    BY <1>13, <2>4, <2>5 DEF Goal
<1>14. ASSUME NEW d \in Conn, Cut(d) PROVE Goal
  <2>1. UNCHANGED job /\ UNCHANGED via /\ Break(d) /\ link[d] = "up"
    BY <1>14 DEF Cut, worker
  <2>2. JobsGo
    BY <2>1 DEF JobsGo
  <2> QED
    BY <1>13, <2>1, <2>2
<1>15. ASSUME NEW w \in Worker, Restart(w) PROVE Goal
  <2>1. /\ job' = [k \in Lease |-> IF job[k] # "none" /\ At(k) = w THEN "gone" ELSE job[k]]
        /\ UNCHANGED via
        /\ \/ OpenOf(w) = {} /\ UNCHANGED wire
           \/ \E d \in OpenOf(w) : Break(d)
    BY <1>15 DEF Restart
  <2>2. \A l \in Lease : /\ job'[l] = job[l] \/ (job'[l] = "gone" /\ At(l) = w)
                         /\ job[l] # "none" => via[l] \in Conn
    BY <1>1, <2>1 DEF DrawnInv
  <2>3. CASE OpenOf(w) = {} /\ UNCHANGED wire
    <3>1. \A l \in Lease : job[l] # "none" /\ link[via[l]] = "up" => At(l) # w
      BY <2>2, <2>3 DEF OpenOf, At
    <3>2. JobsGo
      BY <2>1, <2>2, <3>1 DEF JobsGo
    <3>3. UNCHANGED link /\ UNCHANGED toMaster
      BY <2>3 DEF wire
    <3> QED
      BY <1>4, <1>5, <3>2, <3>3
  <2>4. ASSUME NEW d \in OpenOf(w), Break(d) PROVE Goal
    <3>1. d \in Conn /\ d[1] = w /\ link[d] = "up" /\ link' = [link EXCEPT ![d] = "cut"]
      BY <2>4 DEF OpenOf, Break
    <3>2. \A l \in Lease : job[l] # "none" /\ link[via[l]] = "up" /\ At(l) = w => via[l] = d
      BY <2>2, <3>1 DEF ConnInv, At
    <3>3. link'[d] = "cut"
      BY <1>1, <3>1
    <3>4. JobsGo
      BY <2>1, <2>2, <3>2, <3>3 DEF JobsGo
    <3> QED
      BY <1>13, <2>4, <3>1, <3>4
  <2> QED
    BY <2>1, <2>3, <2>4
<1>16. Goal
  <2>1. told \subseteq Lease
    BY <1>1 DEF TypeInv
  <2>2. CASE WorkerStep
    BY <1>7, <1>8, <1>9, <1>10, <1>11, <1>12, <2>1, <2>2 DEF WorkerStep
  <2>3. CASE FaultStep
    BY <1>14, <1>15, <2>3 DEF FaultStep
  <2> QED
    BY <2>2, <2>3
<1> QED
  BY <1>3, <1>16 DEF Goal

\* A worker tells the end of a lease once, on whatever connection it has open then.  If it
\* is lost with that connection, its handler finds the end of the connection instead: so
\* the master learns of every lease it still relies on that it has ended.
THEOREM EndsAreAnnounced == Spec => []EndIsAnnounced
<1>1. Init => EndInv
  <2>1. Init => toMaster = [c \in Conn |-> <<>>] /\ bound = {}
    BY DEF Init, MasterInit, WireInit
  <2>2. DOMAIN <<>> = {}
    OBVIOUS
  <2> QED
    BY <2>1, <2>2 DEF EndInv, ReplyTrue, EndIsAnnounced, Frames
<1>2. Bookkeeping /\ RestTypes /\ ConnInv /\ WaitInv /\ EndInv /\ [Next]_vars => EndInv'
  <2> SUFFICES ASSUME Bookkeeping, RestTypes, ConnInv, WaitInv, EndInv, [Next]_vars PROVE EndInv'
    OBVIOUS
  <2>1. CASE Next
    <3>1. BoundFrames /\ NoticesLast /\ JobsGo /\ TableGrows /\ CallsGo /\ ServeGo
      BY <2>1, EndMaster, EndWorker DEF Next
    <3>2. TypeInv /\ TypeInv'
      BY TypeStep DEF Bookkeeping
    <3> QED
      BY <3>1, <3>2, EndKept
  <2>2. CASE UNCHANGED vars
    <3>1. UNCHANGED <<toMaster, link, via, job, bound, call, serving, owner>>
      BY <2>2 DEF vars, master, ledger, worker, wire
    <3> QED
      BY <3>1 DEF EndInv, ReplyTrue, EndIsAnnounced, Followed, Noticed, Frames
  <2> QED
    BY <2>1, <2>2
<1>3. EndInv => EndIsAnnounced
  BY DEF EndInv
<1> QED
  BY <1>1, <1>2, <1>3, WaitInvariant, RestInvariant, BookkeepingInvariant, PTL DEF Spec

\* Whatever the ledger holds of a worker belongs to a lease that somebody ends: its attempt
\* is ready to run, or can still be answered, or its worker has the machine and tells its
\* end, or the notice is under way, or a handler is to find that the connection broke.
CapacityIsFollowed ==
    \A w \in Worker : \A t \in load[w] :
      \E l \in bound :
        /\ owner[l] = [task |-> t, worker |-> w]
        /\ \/ call[l] = "waiting" /\ Answerable(l)
           \/ /\ call[l] \in {"bound", "refused", "broken"}
              /\ \E i \in DOMAIN runq : runq[i] = Resume(l)
           \/ call[l] = "over" /\ \E c \in serving : c[1] = w /\ Followed(c, l)

\* No interleaving of replies, notices, breaks and restarts leaves capacity reserved with
\* no event to come that gives it back: of a machine that runs, the client's verdict or the
\* end of its heartbeats, and of all else, frames and coroutines that are there already.
THEOREM CapacityIsNeverLost == Spec => []CapacityIsFollowed
<1>1. Bookkeeping /\ LedgerIsBacked /\ AnsweredOnce /\ RestTypes /\ WaitInv /\ EndIsAnnounced => CapacityIsFollowed
  <2> SUFFICES ASSUME Bookkeeping, LedgerIsBacked, AnsweredOnce, RestTypes, WaitInv, EndIsAnnounced,
                      NEW w \in Worker, NEW t \in load[w]
               PROVE  \E l \in bound :
                        /\ owner[l] = [task |-> t, worker |-> w]
                        /\ \/ call[l] = "waiting" /\ Answerable(l)
                           \/ /\ call[l] \in {"bound", "refused", "broken"}
                              /\ \E i \in DOMAIN runq : runq[i] = Resume(l)
                           \/ call[l] = "over" /\ \E c \in serving : c[1] = w /\ Followed(c, l)
    BY DEF CapacityIsFollowed
  <2>1. PICK l \in bound : owner[l] = [task |-> t, worker |-> w]
    BY DEF LedgerIsBacked
  <2>2. l \in Lease /\ call[l] \in {"waiting", "bound", "refused", "broken", "over"}
    BY <2>1 DEF Bookkeeping, TypeInv, DrawnInv
  <2>3. call[l] = "waiting" => Answerable(l)
    BY <2>2 DEF WaitInv, Ahead, Ordered, Replied, Answerable
  <2>4. call[l] \in {"bound", "refused", "broken"} => \E i \in DOMAIN runq : runq[i] = Resume(l)
    <3>1. call[l] \in {"bound", "refused", "broken"} => \E i \in 1..Len(runq) : runq[i] = Resume(l)
      BY <2>2 DEF AnsweredOnce, Answered, Resumed
    <3>2. DOMAIN runq = 1..Len(runq)
      BY LenProperties DEF RestTypes
    <3> QED
      BY <3>1, <3>2
  <2>5. call[l] = "over" => \E c \in serving : c[1] = w /\ Followed(c, l)
    BY <2>1 DEF EndIsAnnounced
  <2> QED
    BY <2>1, <2>2, <2>3, <2>4, <2>5
<1> QED
  BY <1>1, LedgerStaysBacked, AttemptsRunOnce, WaitInvariant, EndsAreAnnounced, RestInvariant,
     BookkeepingInvariant, PTL
----------------------------------------------------------------------------
(* One lease of a task on one worker *)

Taken == {"held", "closing", "ended"}

\* The leases that a worker took for one task are one lease.
TakenOnce ==
    \A k, l \in Lease :
      job[k] \in Taken /\ job[l] \in Taken /\ At(k) = At(l) /\ jobTask[k] = jobTask[l] => k = l

LEMMA TakenKept ==
  ASSUME TakenOnce,
         \A l \in Lease : job'[l] \in Taken =>
           job[l] \in Taken /\ via'[l] = via[l] /\ jobTask'[l] = jobTask[l]
  PROVE  TakenOnce'
BY DEF TakenOnce, At

LEMMA TakenBoot ==
  ASSUME TypeInv, TakenOnce, NEW l \in Lease, BootDone(l)
  PROVE  TakenOnce'
<1>1. job \in [Lease -> JobState] /\ UNCHANGED <<via, jobTask>>
  BY DEF TypeInv, BootDone
<1>2. \A k \in Lease \ {l} : job'[k] = job[k]
  BY <1>1 DEF BootDone
<1>3. CASE Known(At(l), jobTask[l])
  <2>1. job'[l] = "gone"
    BY <1>1, <1>3 DEF BootDone
  <2> QED
    BY <1>1, <1>2, <2>1, TakenKept DEF Taken
<1>4. CASE ~Known(At(l), jobTask[l])
  <2>1. \A k \in Lease : job[k] \in Taken => ~(At(k) = At(l) /\ jobTask[k] = jobTask[l])
    BY <1>4 DEF Known, Taken
  <2>2. \A k \in Lease : At(k)' = At(k) /\ jobTask'[k] = jobTask[k]
    BY <1>1 DEF At
  <2>3. ASSUME NEW j \in Lease, NEW k \in Lease, job'[j] \in Taken, job'[k] \in Taken,
               At(j) = At(k), jobTask[j] = jobTask[k]
        PROVE  j = k
    BY <1>2, <2>1, <2>3 DEF TakenOnce
  <2> QED
    BY <2>2, <2>3 DEF TakenOnce
<1> QED
  BY <1>3, <1>4

\* However often a task is assigned to a worker, the worker binds one machine for it: the
\* task id, which its handlers look machines up by, stands for one machine of this worker.
\* An assignment that comes twice, or comes back after a lost reply, is refused.
THEOREM TasksAreTakenOnce == Spec => []TakenOnce
<1>1. Init => TakenOnce
  BY DEF Init, WorkerInit, TakenOnce, Taken
<1>2. TypeInv /\ TakenOnce /\ [Next]_vars => TakenOnce'
  <2> SUFFICES ASSUME TypeInv, TakenOnce, [Next]_vars PROVE TakenOnce'
    OBVIOUS
  <2>1. job \in [Lease -> JobState]
    BY DEF TypeInv
  <2>2. ASSUME UNCHANGED <<job, jobTask, via>> PROVE TakenOnce'
    BY <2>2, TakenKept
  <2>3. CASE MasterStep \/ GrantStep \/ UNCHANGED vars
    BY <2>2, <2>3 DEF MasterStep, GrantStep, vars, worker
  <2>4. ASSUME NEW w \in Worker, Dial(w) PROVE TakenOnce'
    BY <2>2, <2>4 DEF Dial, worker
  <2>5. ASSUME NEW c \in Conn, RecvAssign(c) PROVE TakenOnce'
    <3>1. PICK k : k = Head(toWorker[c]).lease
      OBVIOUS
    <3>2. /\ job' = [job EXCEPT ![k] = "booting"] /\ via' = [via EXCEPT ![k] = c]
          /\ jobTask' = [jobTask EXCEPT ![k] = Head(toWorker[c]).task]
      BY <2>5, <3>1 DEF RecvAssign
    <3>3. via \in [Lease -> Conn \cup {None}] /\ jobTask \in [Lease -> Task \cup {None}]
      BY DEF TypeInv
    <3>4. \A l \in Lease : l # k => job'[l] = job[l] /\ via'[l] = via[l] /\ jobTask'[l] = jobTask[l]
      BY <2>1, <3>2, <3>3
    <3>5. k \in Lease => job'[k] = "booting"
      BY <2>1, <3>2
    <3> QED
      BY <3>4, <3>5, TakenKept DEF Taken
  <2>6. ASSUME NEW c \in Conn, RecvRelease(c) PROVE TakenOnce'
    BY <2>1, <2>6, TakenKept DEF RecvRelease, Taken
  <2>7. ASSUME NEW l \in Lease, BootFailed(l) PROVE TakenOnce'
    BY <2>1, <2>7, TakenKept DEF BootFailed, Taken
  <2>8. ASSUME NEW l \in Lease, NEW v, CompleteLease(l, v) PROVE TakenOnce'
    BY <2>1, <2>8, TakenKept DEF CompleteLease, Taken
  <2>9. ASSUME NEW l \in Lease, Finalize(l) PROVE TakenOnce'
    BY <2>1, <2>9, TakenKept DEF Finalize, Taken
  <2>10. ASSUME NEW c \in Conn, Cut(c) PROVE TakenOnce'
    BY <2>2, <2>10 DEF Cut, worker
  <2>11. ASSUME NEW w \in Worker, Restart(w) PROVE TakenOnce'
    BY <2>1, <2>11, TakenKept DEF Restart, Taken
  <2>12. told \subseteq Lease
    BY DEF TypeInv
  <2>13. CASE WorkerStep
    BY <2>4, <2>5, <2>6, <2>7, <2>8, <2>9, <2>12, <2>13, TakenBoot DEF WorkerStep
  <2>14. CASE FaultStep
    BY <2>10, <2>11, <2>14 DEF FaultStep
  <2> QED
    BY <2>3, <2>13, <2>14 DEF Next
<1> QED
  BY <1>1, <1>2, BookkeepingInvariant, PTL DEF Spec, Bookkeeping
----------------------------------------------------------------------------
(* The retry budget *)

\* After(n, count) is what the loop over the lost leases leaves in retry_count: each lease
\* of a task adds one until the count exceeds the budget and the task fails, and the leases
\* of a failed task are passed over.  A lost lease always counts, and never past the budget
\* by more than one.
THEOREM LossesAreCounted ==
  ASSUME NEW count \in Nat
  PROVE  /\ After(1, count) = count + 1
         /\ \A n \in Nat \ {0} :
              /\ After(n + 1, count) = IF After(n, count) > 2 THEN After(n, count) ELSE After(n, count) + 1
              /\ count < After(n, count)
              /\ After(n, count) <= 3 \/ After(n, count) = count + 1
BY DEF After
===============================================================================
