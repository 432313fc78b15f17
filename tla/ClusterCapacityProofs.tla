------------------------ MODULE ClusterCapacityProofs ------------------------
(***************************************************************************)
(* What TLAPS proves about the capacity of the workers of Cluster: that    *)
(* the ledger of the master never promises more of a worker than it has,   *)
(* whatever goes wrong, and that the machines themselves fit as long as    *)
(* the ledger covers them (CalmProofs), but for those that were left       *)
(* behind.                                                                 *)
(*                                                                         *)
(* Both are about sums over finite sets, which the program computes by a   *)
(* fold.  A sum of naturals is the number of the pieces it counts, and     *)
(* that number is what the proofs reason about: pieces are added with the  *)
(* element they belong to, and an injection carries them from one set to   *)
(* another.                                                                *)
(***************************************************************************)
EXTENDS CalmProofs, ClusterQueueProofs

----------------------------------------------------------------------------
(* Sums *)

\* The pieces that the sum of f over S counts.
Pieces(S, f) == {p \in S \X Nat : 1 <= p[2] /\ p[2] <= f[p[1]]}
Weight(S, f) == Cardinality(Pieces(S, f))

\* One step of the fold that sums f.
Sum1(f, g, T) ==
    IF T = {} THEN 0
    ELSE LET x == CHOOSE x \in T : TRUE IN f[x] + g[T \ {x}]

LEMMA PiecesOfEmpty == ASSUME NEW f PROVE Weight({}, f) = 0 /\ IsFiniteSet(Pieces({}, f))
<1>1. Pieces({}, f) = {}
  BY DEF Pieces
<1> QED
  BY <1>1, FS_EmptySet DEF Weight

\* An element adds its own pieces.
LEMMA PiecesOfOne ==
  ASSUME NEW S, NEW f, NEW x \in S, f[x] \in Nat, IsFiniteSet(Pieces(S \ {x}, f))
  PROVE  IsFiniteSet(Pieces(S, f)) /\ Weight(S, f) = f[x] + Weight(S \ {x}, f)
<1> DEFINE A == {x} \X (1..f[x])
           B == Pieces(S \ {x}, f)
<1>1. IsFiniteSet({x}) /\ Cardinality({x}) = 1
  BY FS_Singleton
<1>2. IsFiniteSet(1..f[x]) /\ Cardinality(1..f[x]) = f[x]
  BY FS_Interval
<1>3. IsFiniteSet(A) /\ Cardinality(A) = f[x]
  <2>1. IsFiniteSet(A) /\ Cardinality(A) = 1 * f[x]
    BY <1>1, <1>2, FS_Product
  <2> QED
    BY <2>1
<1>4. A \cap B = {}
  BY DEF Pieces
<1>5. Pieces(S, f) = A \cup B
  <2>1. ASSUME NEW p \in Pieces(S, f) PROVE p \in A \cup B
    <3>1. PICK y \in S, n \in Nat : p = <<y, n>> /\ 1 <= n /\ n <= f[y]
      BY <2>1 DEF Pieces
    <3>2. CASE y = x
      BY <3>1, <3>2
    <3>3. CASE y # x
      <4>1. p \in (S \ {x}) \X Nat /\ 1 <= p[2] /\ p[2] <= f[p[1]]
        BY <3>1, <3>3
      <4> QED
        BY <4>1 DEF Pieces
    <3> QED
      BY <3>2, <3>3
  <2>2. ASSUME NEW p \in A PROVE p \in Pieces(S, f)
    BY <2>2 DEF Pieces
  <2>3. ASSUME NEW p \in B PROVE p \in Pieces(S, f)
    BY <2>3 DEF Pieces
  <2> QED
    BY <2>1, <2>2, <2>3
<1>6. Cardinality({}) = 0 /\ Cardinality(B) \in Nat
  BY FS_EmptySet, FS_CardinalityType
<1> HIDE DEF A, B
<1>7. IsFiniteSet(A \cup B) /\ Cardinality(A \cup B) = Cardinality(A) + Cardinality(B) - Cardinality(A \cap B)
  BY <1>3, FS_Union DEF B
<1>8. Cardinality(A \cup B) = f[x] + Cardinality(B)
  <2>1. Cardinality(A \cap B) = 0
    BY <1>4, <1>6
  <2>2. PICK b \in Nat : b = Cardinality(B)
    BY <1>6
  <2>3. Cardinality(A \cup B) = f[x] + b - 0
    BY <1>3, <1>7, <2>1, <2>2
  <2> QED
    BY <2>2, <2>3
<1> QED
  BY <1>5, <1>7, <1>8 DEF Weight, B

\* Induction on the size of a set: the least one that has infinitely many pieces.
LEMMA PiecesAreFinite ==
  ASSUME NEW S, IsFiniteSet(S), NEW f, \A x \in S : f[x] \in Nat
  PROVE  IsFiniteSet(Pieces(S, f)) /\ Weight(S, f) \in Nat
<1> DEFINE Bad == {T \in SUBSET S : ~IsFiniteSet(Pieces(T, f))}
           Sizes == {Cardinality(T) : T \in Bad}
<1>1. \A T \in SUBSET S : IsFiniteSet(T) /\ Cardinality(T) \in Nat
  BY FS_Subset, FS_CardinalityType
<1>2. ASSUME Bad # {} PROVE FALSE
  <2>1. Sizes \in SUBSET Nat /\ Sizes # {}
    BY <1>1, <1>2
  <2>2. PICK n \in Sizes : \A m \in Sizes : n <= m
    BY <2>1, Smallest
  <2>3. PICK T \in Bad : \A U \in Bad : Cardinality(T) <= Cardinality(U)
    BY <2>2
  <2>4. T # {}
    BY <2>3, PiecesOfEmpty
  <2>5. PICK x \in T : TRUE
    BY <2>4
  <2>6. T \ {x} \in SUBSET S /\ Cardinality(T \ {x}) = Cardinality(T) - 1 /\ Cardinality(T) \in Nat
    BY <1>1, <2>3, <2>5, FS_RemoveElement
  <2>7. T \ {x} \notin Bad
    <3> SUFFICES ASSUME T \ {x} \in Bad PROVE FALSE
      OBVIOUS
    <3>1. Cardinality(T) <= Cardinality(T \ {x})
      BY <2>3
    <3> QED
      BY <2>6, <3>1
  <2>8. IsFiniteSet(Pieces(T \ {x}, f))
    BY <2>6, <2>7
  <2>9. IsFiniteSet(Pieces(T, f))
    BY <2>3, <2>5, <2>8, PiecesOfOne
  <2> QED
    BY <2>3, <2>9
<1>3. IsFiniteSet(Pieces(S, f))
  BY <1>2
<1> QED
  BY <1>3, FS_CardinalityType DEF Weight

\* Two sets that have no element in common add up.
LEMMA PiecesOfTwo ==
  ASSUME NEW A, NEW B, IsFiniteSet(A), IsFiniteSet(B), A \cap B = {},
         NEW f, \A x \in A \cup B : f[x] \in Nat
  PROVE  Weight(A \cup B, f) = Weight(A, f) + Weight(B, f)
<1> DEFINE P == Pieces(A, f)
           Q == Pieces(B, f)
<1>1. IsFiniteSet(P) /\ IsFiniteSet(Q)
  BY PiecesAreFinite
<1>2. P \cap Q = {} /\ Pieces(A \cup B, f) = P \cup Q
  BY DEF Pieces
<1>3. Cardinality(P) \in Nat /\ Cardinality(Q) \in Nat /\ Cardinality({}) = 0
  BY <1>1, FS_CardinalityType, FS_EmptySet
<1> HIDE DEF P, Q
<1>4. Cardinality(P \cup Q) = Cardinality(P) + Cardinality(Q) - Cardinality(P \cap Q)
  BY <1>1, FS_Union
<1>5. Cardinality(P \cup Q) = Cardinality(P) + Cardinality(Q)
  <2>1. PICK n : n = Cardinality(P \cap Q)
    OBVIOUS
  <2>2. n = 0
    BY <1>2, <1>3, <2>1
  <2>3. PICK p \in Nat, q \in Nat : p = Cardinality(P) /\ q = Cardinality(Q)
    BY <1>3
  <2>4. Cardinality(P \cup Q) = p + q - n
    BY <1>4, <2>1, <2>3
  <2> QED
    BY <2>2, <2>3, <2>4
<1> QED
  BY <1>2, <1>5 DEF Weight, P, Q

\* So the function that counts pieces satisfies the recursion of the fold, and every
\* function that does counts pieces.
LEMMA SumCounts ==
  ASSUME NEW S, IsFiniteSet(S), NEW f, \A x \in S : f[x] \in Nat
  PROVE  (CHOOSE g : g = [T \in SUBSET S |-> Sum1(f, g, T)])[S] = Weight(S, f)
<1>1. \A T \in SUBSET S : IsFiniteSet(T) /\ Cardinality(T) \in Nat
  BY FS_Subset, FS_CardinalityType
<1>2. ASSUME NEW T \in SUBSET S, NEW x \in T PROVE Weight(T, f) = f[x] + Weight(T \ {x}, f)
  <2>1. IsFiniteSet(T \ {x})
    BY <1>1
  <2>2. IsFiniteSet(Pieces(T \ {x}, f))
    BY <2>1, PiecesAreFinite
  <2> QED
    BY <2>2, PiecesOfOne
<1> DEFINE W == [T \in SUBSET S |-> Weight(T, f)]
           Def(g) == g = [T \in SUBSET S |-> Sum1(f, g, T)]
<1>3. ASSUME NEW T \in SUBSET S PROVE Weight(T, f) = Sum1(f, W, T)
  <2>1. CASE T = {}
    BY <2>1, PiecesOfEmpty DEF Sum1
  <2>2. CASE T # {}
    <3>1. PICK x : x = CHOOSE y \in T : TRUE
      OBVIOUS
    <3>2. x \in T /\ T \ {x} \in SUBSET S
      BY <2>2, <3>1
    <3>3. W[T \ {x}] = Weight(T \ {x}, f)
      BY <3>2
    <3> HIDE DEF W
    <3>4. Sum1(f, W, T) = f[x] + W[T \ {x}]
      BY <2>2, <3>1 DEF Sum1
    <3> QED
      BY <1>2, <3>2, <3>3, <3>4
  <2> QED
    BY <2>1, <2>2
<1>4. Def(W)
  BY <1>3
<1>5. PICK g : g = CHOOSE h : Def(h)
  OBVIOUS
<1> HIDE DEF W
<1>6. Def(g)
  BY <1>4, <1>5
<1> DEFINE Bad == {T \in SUBSET S : g[T] # Weight(T, f)}
           Sizes == {Cardinality(T) : T \in Bad}
<1>7. ASSUME Bad # {} PROVE FALSE
  <2>1. Sizes \in SUBSET Nat /\ Sizes # {}
    BY <1>1, <1>7
  <2>2. PICK n \in Sizes : \A m \in Sizes : n <= m
    BY <2>1, Smallest
  <2>3. PICK T \in Bad : \A U \in Bad : Cardinality(T) <= Cardinality(U)
    BY <2>2
  <2>4. g[T] = Sum1(f, g, T)
    BY <1>6, <2>3
  <2>5. T # {}
    BY <2>3, <2>4, PiecesOfEmpty DEF Sum1
  <2>6. PICK x : x = CHOOSE y \in T : TRUE
    OBVIOUS
  <2>7. x \in T
    BY <2>5, <2>6
  <2>8. T \ {x} \in SUBSET S /\ Cardinality(T \ {x}) = Cardinality(T) - 1 /\ Cardinality(T) \in Nat
    BY <1>1, <2>3, <2>7, FS_RemoveElement
  <2>9. T \ {x} \notin Bad
    <3> SUFFICES ASSUME T \ {x} \in Bad PROVE FALSE
      OBVIOUS
    <3>1. Cardinality(T) <= Cardinality(T \ {x})
      BY <2>3
    <3> QED
      BY <2>8, <3>1
  <2>10. g[T] = f[x] + g[T \ {x}]
    BY <2>4, <2>5, <2>6 DEF Sum1
  <2> QED
    BY <1>2, <2>3, <2>7, <2>8, <2>9, <2>10
<1> QED
  BY <1>5, <1>7
----------------------------------------------------------------------------
(* The ledger *)

\* The sum of needs that the program computes, by a fold over tasks or over leases.
LEMMA SumOfNeeds ==
  ASSUME NEW S, IsFiniteSet(S), NEW r \in Resource, NEW f, \A x \in S : f[x] \in Nat
  PROVE  /\ (\A x \in S : f[x] = Need[x][r]) => Used(S, r) = Weight(S, f)
         /\ (\A x \in S : f[x] = Need[jobTask[x]][r]) => Demand(S, r) = Weight(S, f)
<1> DEFINE Def(g) == g = [T \in SUBSET S |-> Sum1(f, g, T)]
<1>1. \A T \in SUBSET S : T # {} => (CHOOSE x \in T : TRUE) \in S
  OBVIOUS
<1>2. ASSUME \A x \in S : f[x] = Need[x][r] PROVE Used(S, r) = Weight(S, f)
  <2> DEFINE One(g, T) == IF T = {} THEN 0
                          ELSE Need[CHOOSE x \in T : TRUE][r] + g[T \ {CHOOSE x \in T : TRUE}]
             Of(g) == g = [T \in SUBSET S |-> One(g, T)]
  <2>1. Used(S, r) = (CHOOSE g : Of(g))[S]
    BY DEF Used, FoldSet, MapThenFoldSet
  <2>2. \A g : \A T \in SUBSET S : One(g, T) = Sum1(f, g, T)
    BY <1>1, <1>2 DEF Sum1
  <2> HIDE DEF One
  <2>3. \A g : Of(g) <=> Def(g)
    BY <2>2
  <2>4. (CHOOSE g : Of(g)) = (CHOOSE g : Def(g))
    BY <2>3
  <2> QED
    BY <2>1, <2>4, SumCounts
<1>3. ASSUME \A x \in S : f[x] = Need[jobTask[x]][r]
      PROVE  Demand(S, r) = Weight(S, f)
  <2> DEFINE One(g, T) == IF T = {} THEN 0
                          ELSE Need[jobTask[CHOOSE x \in T : TRUE]][r] + g[T \ {CHOOSE x \in T : TRUE}]
             Of(g) == g = [T \in SUBSET S |-> One(g, T)]
  <2>1. Demand(S, r) = (CHOOSE g : Of(g))[S]
    BY DEF Demand, FoldSet, MapThenFoldSet
  <2>2. \A g : \A T \in SUBSET S : One(g, T) = Sum1(f, g, T)
    BY <1>1, <1>3 DEF Sum1
  <2> HIDE DEF One
  <2>3. \A g : Of(g) <=> Def(g)
    BY <2>2
  <2>4. (CHOOSE g : Of(g)) = (CHOOSE g : Def(g))
    BY <2>3
  <2> QED
    BY <2>1, <2>4, SumCounts
<1> QED
  BY <1>2, <1>3

\* What task t asks for of resource r.
Needs(r) == [t \in Task |-> Need[t][r]]

LEMMA UsedByTasks ==
  ASSUME NEW S \in SUBSET Task, IsFiniteSet(S), NEW r \in Resource
  PROVE  Used(S, r) = Weight(S, Needs(r)) /\ Used(S, r) \in Nat
<1>1. \A t \in S : Needs(r)[t] = Need[t][r] /\ Needs(r)[t] \in Nat
  BY ClusterAssumption DEF Needs
<1>2. Used(S, r) = Weight(S, Needs(r))
  BY <1>1, SumOfNeeds
<1> QED
  BY <1>1, <1>2, PiecesAreFinite

\* A task adds what it asks for, at most: nothing if it is there already.
LEMMA UsedWithOne ==
  ASSUME NEW S \in SUBSET Task, IsFiniteSet(S), NEW t \in Task, NEW r \in Resource
  PROVE  Used(S \cup {t}, r) <= Need[t][r] + Used(S, r)
<1>1. Need[t][r] \in Nat /\ Needs(r)[t] = Need[t][r]
  BY ClusterAssumption DEF Needs
<1>2. Used(S, r) \in Nat
  BY UsedByTasks
<1>3. CASE t \in S
  <2>1. PICK U : U = S \cup {t}
    OBVIOUS
  <2>2. Used(U, r) = Used(S, r)
    <3>1. U = S
      BY <1>3, <2>1
    <3> QED
      BY <3>1
  <2>3. Used(U, r) <= Need[t][r] + Used(S, r)
    BY <1>1, <1>2, <2>2
  <2> QED
    BY <2>1, <2>3
<1>4. CASE t \notin S
  <2> DEFINE U == S \cup {t}
  <2>1. IsFiniteSet(U) /\ U \in SUBSET Task /\ t \in U /\ U \ {t} = S
    BY <1>4, FS_AddElement
  <2> HIDE DEF U
  <2>2. \A x \in S : Needs(r)[x] \in Nat
    BY ClusterAssumption DEF Needs
  <2>3. IsFiniteSet(Pieces(S, Needs(r)))
    BY <2>2, PiecesAreFinite
  <2>4. Weight(U, Needs(r)) = Needs(r)[t] + Weight(S, Needs(r))
    BY <1>1, <2>1, <2>3, PiecesOfOne
  <2>5. Used(U, r) = Need[t][r] + Used(S, r)
    BY <1>1, <2>1, <2>4, UsedByTasks
  <2> QED
    BY <1>1, <1>2, <2>5 DEF U
<1> QED
  BY <1>3, <1>4

LEMMA UsedByFewer ==
  ASSUME NEW S \in SUBSET Task, IsFiniteSet(S), NEW T \in SUBSET S, NEW r \in Resource
  PROVE  Used(T, r) <= Used(S, r)
<1>1. \A x \in S : Needs(r)[x] \in Nat
  BY ClusterAssumption DEF Needs
<1>2. IsFiniteSet(Pieces(S, Needs(r)))
  BY <1>1, PiecesAreFinite
<1>3. Pieces(T, Needs(r)) \in SUBSET Pieces(S, Needs(r))
  BY DEF Pieces
<1>4. Weight(T, Needs(r)) <= Weight(S, Needs(r))
  BY <1>2, <1>3, FS_Subset DEF Weight
<1>5. IsFiniteSet(T) /\ T \in SUBSET Task
  BY FS_Subset
<1> QED
  BY <1>4, <1>5, UsedByTasks

\* The leases are finitely many, and so are the entries they stand behind.
LEMMA LedgerIsFinite ==
  ASSUME Bookkeeping, LedgerIsBacked, NEW w \in Worker
  PROVE  IsFiniteSet(load[w]) /\ load[w] \in SUBSET Task
<1>1. load \in [Worker -> SUBSET Task] /\ bound \in SUBSET Lease /\ owner \in [Lease -> Owner \cup {None}]
  BY DEF Bookkeeping, TypeInv
<1>2. IsFiniteSet(Lease)
  BY FS_Interval, ClusterAssumption DEF Lease
<1> DEFINE of == [t \in load[w] |-> CHOOSE l \in bound : owner[l] = [task |-> t, worker |-> w]]
<1>3. \A t \in load[w] : of[t] \in Lease /\ owner[of[t]] = [task |-> t, worker |-> w]
  BY <1>1 DEF LedgerIsBacked
<1>4. \A t, u \in load[w] : of[t] = of[u] => t = u
  <2> SUFFICES ASSUME NEW t \in load[w], NEW u \in load[w], of[t] = of[u] PROVE t = u
    OBVIOUS
  <2>1. [task |-> t, worker |-> w] = [task |-> u, worker |-> w]
    BY <1>3
  <2> QED
    BY <2>1
<1>5. of \in Injection(load[w], Lease)
  <2>1. of \in [load[w] -> Lease]
    BY <1>3
  <2> HIDE DEF of
  <2> QED
    BY <1>4, <2>1 DEF Injection, IsInjective
<1> HIDE DEF of
<1> QED
  BY <1>1, <1>2, <1>5, FS_Injection

\* What the master has promised of a worker is there.
LedgerFits == \A w \in Worker, r \in Resource : Used(load[w], r) <= Capacity[w][r]

\* The only step that adds to the ledger looks for room first.
LEMMA LedgerMoves ==
  ASSUME Bookkeeping, [Next]_vars, NEW w \in Worker
  PROVE  \/ load'[w] \subseteq load[w]
         \/ \E t \in Task : load'[w] = load[w] \cup {t} /\ Room(w, t)
<1>1. load \in [Worker -> SUBSET Task]
  BY DEF Bookkeeping, TypeInv
<1>2. CASE UNCHANGED load
  BY <1>2
<1>3. ASSUME NEW t \in Task, NEW v \in Worker, NEW l \in Lease, PlaceOn(t, v, l)
      PROVE  \/ load'[w] \subseteq load[w]
             \/ \E u \in Task : load'[w] = load[w] \cup {u} /\ Room(w, u)
  <2>1. load' = [load EXCEPT ![v] = @ \cup {t}] /\ Room(v, t)
    BY <1>3 DEF PlaceOn, Candidates
  <2> QED
    BY <1>1, <2>1
<1>4. ASSUME NEW l \in Lease, Revert(l) PROVE load'[w] \subseteq load[w]
  <2>1. PICK v, u : load' = [load EXCEPT ![v] = @ \ {u}]
    BY <1>4 DEF Revert
  <2> QED
    BY <1>1, <2>1
<1>5. ASSUME NEW c \in Conn, HandleCompleted(c) PROVE load'[w] \subseteq load[w]
  <2>1. PICK v, u : load' = [load EXCEPT ![v] = @ \ {u}]
    BY <1>5 DEF HandleCompleted
  <2> QED
    BY <1>1, <2>1
<1>6. ASSUME NEW c \in Conn, Disconnected(c) PROVE load'[w] \subseteq load[w]
  BY <1>1, <1>6 DEF Disconnected
<1>7. ASSUME NEW b \in Batch, Submit(b) \/ Cancel(b) PROVE UNCHANGED load
  BY <1>7 DEF Submit, Cancel, ledger
<1>8. ASSUME NEW l \in Lease, Grant(l) PROVE UNCHANGED load
  BY <1>8 DEF Grant, ledger
<1>9. ASSUME NEW c \in Conn, HandleBound(c) PROVE UNCHANGED load
  BY <1>9 DEF HandleBound, ledger
<1> QED
  BY MasterMoves, <1>2, <1>3, <1>4, <1>5, <1>6, <1>7, <1>8, <1>9

\* Whatever frames are lost, late or overtaken by a restart, and however often a task is
\* placed again, the tasks the ledger counts for a worker ask for no more than it has.
THEOREM LedgerAlwaysFits == Spec => []LedgerFits
<1>1. Init => LedgerFits
  <2> SUFFICES ASSUME Init, NEW w \in Worker, NEW r \in Resource
               PROVE  Used(load[w], r) <= Capacity[w][r]
    BY DEF LedgerFits
  <2>1. load[w] = {} /\ IsFiniteSet({}) /\ {} \in SUBSET Task
    BY FS_EmptySet DEF Init, MasterInit
  <2>2. Used({}, r) = 0
    BY <2>1, UsedByTasks, PiecesOfEmpty
  <2> QED
    BY <2>1, <2>2, ClusterAssumption
<1>2. Bookkeeping /\ LedgerIsBacked /\ LedgerFits /\ [Next]_vars => LedgerFits'
  <2> SUFFICES ASSUME Bookkeeping, LedgerIsBacked, LedgerFits, [Next]_vars,
                      NEW w \in Worker, NEW r \in Resource
               PROVE  Used(load'[w], r) <= Capacity[w][r]
    BY DEF LedgerFits, Used, FoldSet, MapThenFoldSet
  <2>1. IsFiniteSet(load[w]) /\ load[w] \in SUBSET Task /\ Used(load[w], r) <= Capacity[w][r]
    BY LedgerIsFinite DEF LedgerFits
  <2>2. Used(load[w], r) \in Nat /\ Capacity[w][r] \in Nat
    BY <2>1, UsedByTasks, ClusterAssumption
  <2>3. CASE load'[w] \subseteq load[w]
    <3>1. PICK T \in SUBSET load[w] : T = load'[w]
      BY <2>3
    <3>2. IsFiniteSet(T) /\ T \in SUBSET Task
      BY <2>1, FS_Subset
    <3>3. Used(T, r) <= Used(load[w], r) /\ Used(T, r) \in Nat
      BY <2>1, <3>2, UsedByFewer, UsedByTasks
    <3> QED
      BY <2>1, <2>2, <3>1, <3>3
  <2>4. ASSUME NEW t \in Task, load'[w] = load[w] \cup {t}, Room(w, t)
        PROVE  Used(load'[w], r) <= Capacity[w][r]
    <3>1. PICK T \in SUBSET Task : T = load[w] \cup {t}
      BY <2>1
    <3>2. IsFiniteSet(T)
      BY <2>1, <3>1, FS_AddElement
    <3>3. Used(T, r) <= Need[t][r] + Used(load[w], r) /\ Used(T, r) \in Nat /\ Need[t][r] \in Nat
      BY <2>1, <3>1, <3>2, UsedWithOne, UsedByTasks, ClusterAssumption
    <3>4. Need[t][r] + Used(load[w], r) <= Capacity[w][r]
      BY <2>4 DEF Room
    <3> QED
      BY <2>2, <2>4, <3>1, <3>3, <3>4
  <2> QED
    BY <2>3, <2>4, LedgerMoves
<1> QED
  BY <1>1, <1>2, LedgerStaysBacked, BookkeepingInvariant, PTL DEF Spec
----------------------------------------------------------------------------
(* The machines *)

\* As long as no connection broke, no worker restarted and every boot was awaited, whatever
\* is cancelled or expires, the machines on a worker, from the start of the boot to the end
\* of the teardown, ask for no more than the worker has and what was left behind on it: the
\* ledger covers every machine in use, two of them have different tasks, and the ledger fits.
THEOREM MachinesAlwaysFit == ASSUME Awaited PROVE Spec => []MachinesFit
<1>1. ASSUME SteadyInv, LedgerIsBacked, LedgerCoversMachines, LedgerFits PROVE MachinesFit
  <2> SUFFICES ASSUME faults = 0, NEW w \in Worker, NEW r \in Resource
               PROVE  Demand(Running(w), r) <= Capacity[w][r] + Demand(Running(w) \cap left, r)
    BY DEF MachinesFit
  <2> DEFINE R == Running(w)
             S == R \ left
             L == R \cap left
             f == [l \in R |-> Need[jobTask[l]][r]]
  <2>0. Steady
    BY <1>1 DEF SteadyInv, Steady
  <2>1. Bookkeeping
    BY <2>0 DEF Steady
  <2>2. IsFiniteSet(load[w]) /\ load[w] \in SUBSET Task
    BY <1>1, <2>1, LedgerIsFinite
  <2>3. /\ \A l \in R : l \in Lease /\ jobTask[l] \in Task
        /\ \A l \in S : jobTask[l] \in load[w] /\ job[l] \in {"booting", "held", "closing"}
    <3>1. \A l \in R : l \in Lease /\ job[l] # "none"
      BY <2>0 DEF Running, Steady, SteadyCore
    <3>2. \A l \in R : owner[l] \in Owner /\ owner[l] = [task |-> jobTask[l], worker |-> At(l)]
      BY <2>0, <3>1, Facts DEF DrawnInv
    <3>3. ASSUME NEW l \in R PROVE jobTask[l] \in Task
      <4>1. PICK o : o = owner[l]
        OBVIOUS
      <4>2. o \in Owner /\ o = [task |-> jobTask[l], worker |-> At(l)]
        BY <3>2, <4>1
      <4>3. o.task \in Task
        BY <4>2 DEF Owner
      <4>4. o.task = jobTask[l]
        BY <4>2
      <4> QED
        BY <4>3, <4>4
    <3> QED
      BY <1>1, <3>1, <3>3 DEF LedgerCoversMachines, Running
  \* Two machines in use have different tasks.
  <2>4. ASSUME NEW k \in S, NEW l \in S, jobTask[k] = jobTask[l] PROVE k = l
    <3>1. ASSUME NEW j \in S PROVE j \in Lease /\ Alive(j) /\ owner[j].task = jobTask[j]
      <4>1. j \in Lease /\ job[j] \in {"booting", "held", "closing"}
        BY <2>3, <3>1
      <4>2. call[j] # "none" /\ owner[j] = [task |-> jobTask[j], worker |-> At(j)]
        BY <2>0, <4>1, Facts DEF DrawnInv
      <4>3. call[j] \in {"waiting", "bound", "refused", "over"}
        BY <2>0, <4>1, <4>2, Facts DEF LeaseOK
      <4> QED
        BY <4>1, <4>2, <4>3 DEF Alive
    <3> QED
      BY <2>0, <2>4, <3>1, Alone
  <2>5. IsFiniteSet(R) /\ IsFiniteSet(S) /\ IsFiniteSet(L)
    <3>1. IsFiniteSet(Lease) /\ R \in SUBSET Lease
      BY <2>3, FS_Interval, ClusterAssumption DEF Lease
    <3>2. S \in SUBSET Lease /\ L \in SUBSET Lease
      BY <3>1
    <3> QED
      BY <3>1, <3>2, FS_Subset
  <2>6. \A l \in R : f[l] = Need[jobTask[l]][r] /\ f[l] \in Nat /\ f[l] = Needs(r)[jobTask[l]]
    BY <2>3, ClusterAssumption DEF Needs
  <2> HIDE DEF R, f
  <2>7. Demand(R, r) = Weight(R, f) /\ Demand(L, r) = Weight(L, f)
    BY <2>5, <2>6, SumOfNeeds
  <2>8. Weight(R, f) = Weight(S, f) + Weight(L, f) /\ Weight(L, f) \in Nat /\ Weight(S, f) \in Nat
    <3>1. R = S \cup L /\ S \cap L = {}
      OBVIOUS
    <3>2. Weight(S \cup L, f) = Weight(S, f) + Weight(L, f)
      BY <2>5, <2>6, <3>1, PiecesOfTwo
    <3> QED
      BY <2>5, <2>6, <3>1, <3>2, PiecesAreFinite
  <2>9. Weight(S, f) <= Weight(load[w], Needs(r))
    <3>1. IsFiniteSet(Pieces(load[w], Needs(r)))
      <4>1. \A t \in load[w] : Needs(r)[t] \in Nat
        BY <2>2, ClusterAssumption DEF Needs
      <4> QED
        BY <2>2, <4>1, PiecesAreFinite
    <3> HIDE DEF S
    <3> DEFINE P == Pieces(S, f)
               Q == Pieces(load[w], Needs(r))
               h == [p \in P |-> <<jobTask[p[1]], p[2]>>]
    <3>2. \A p \in P : p[1] \in S /\ p[2] \in Nat /\ p = <<p[1], p[2]>> /\ 1 <= p[2] /\ p[2] <= f[p[1]]
      BY DEF Pieces
    <3>3. \A p \in P : h[p] \in Q
      <4> SUFFICES ASSUME NEW p \in P PROVE h[p] \in Q
        OBVIOUS
      <4>1. p[1] \in S /\ p[2] \in Nat /\ 1 <= p[2] /\ p[2] <= Needs(r)[jobTask[p[1]]]
        BY <2>6, <3>2 DEF S
      <4>2. jobTask[p[1]] \in load[w]
        BY <2>3, <4>1 DEF S
      <4> QED
        BY <4>1, <4>2 DEF Pieces
    <3>4. \A p, q \in P : h[p] = h[q] => p = q
      <4> SUFFICES ASSUME NEW p \in P, NEW q \in P, h[p] = h[q] PROVE p = q
        OBVIOUS
      <4>1. jobTask[p[1]] = jobTask[q[1]] /\ p[2] = q[2]
        OBVIOUS
      <4>2. p[1] = q[1]
        BY <2>4, <3>2, <4>1 DEF S
      <4> QED
        BY <3>2, <4>1, <4>2
    <3>5. h \in Injection(P, Q)
      <4>1. h \in [P -> Q]
        BY <3>3
      <4> HIDE DEF h
      <4> QED
        BY <3>4, <4>1 DEF Injection, IsInjective
    <3> HIDE DEF h
    <3>6. Cardinality(P) <= Cardinality(Q)
      BY <3>1, <3>5, FS_Injection
    <3> QED
      BY <3>6 DEF Weight
  <2>10. Used(load[w], r) = Weight(load[w], Needs(r)) /\ Used(load[w], r) \in Nat
    BY <2>2, UsedByTasks
  <2>11. Used(load[w], r) <= Capacity[w][r] /\ Capacity[w][r] \in Nat
    BY <1>1, ClusterAssumption DEF LedgerFits
  <2> HIDE DEF S, L
  <2>12. Weight(S, f) + Weight(L, f) <= Capacity[w][r] + Weight(L, f)
    BY <2>8, <2>9, <2>10, <2>11
  <2>13. Demand(R, r) <= Capacity[w][r] + Demand(L, r)
    BY <2>7, <2>8, <2>12
  <2> QED
    BY <2>13 DEF R, L
<1> QED
  BY <1>1, SteadyInvariant, LedgerStaysBacked, LedgerAlwaysCovers, LedgerAlwaysFits, PTL
=============================================================================
