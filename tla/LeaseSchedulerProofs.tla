------------------------ MODULE LeaseSchedulerProofs ------------------------
(***************************************************************************)
(* Proofs about LeaseScheduler, for every set of tasks, batches and        *)
(* leases, every content of the requests and every number of leases.       *)
(*                                                                         *)
(* None of the safety properties is inductive.  LeaseInv adds to them the  *)
(* history of a lease: ids are never drawn twice, a lease has a finalizer  *)
(* from its first verdict on, and a task keeps the id of its only lease.   *)
(***************************************************************************)
EXTENDS LeaseScheduler, TLAPS, SequenceTheorems

\* The loop boots a task that has somewhere to boot.
BootInv ==
    /\ OneBoot
    /\ loop = "boot" => cur \in Task /\ Route[cur] # "none"

\* A lease id is drawn once, is closed after it was drawn, and has a verdict
\* exactly from the moment its finalizer was created.
HistoryInv ==
    /\ \A l \in Lease : leases[l] # None => l \in issued
    /\ \A l \in Lease : fin[l] # "none" => l \in issued
    /\ \A l \in Lease : fin[l] = "none" <=> verdict[l] = None
    /\ \A t \in Task : leaseId[t] # None => leaseId[t] \in issued
    /\ \A t, u \in Task : leaseId[t] # None /\ leaseId[t] = leaseId[u] => t = u

\* A task has at most the lease of its one bind, and a task whose machine is
\* being torn down has the coroutine that does it.
LifeInv ==
    /\ \A t \in Task : st[t] \in {"absent", "queued", "starting"} => leaseId[t] = None
    /\ \A t \in Task : st[t] \in {"absent", "queued"} => vm[t] = "none"
    /\ \A l \in Lease : leases[l] # None /\ st[leases[l]] \in Held => fin[l] = "none"
    /\ \A l \in Lease : leases[l] # None /\ st[leases[l]] = "resetting" =>
                          fin[l] \in {"spawned", "destroying"}

\* The strengthening the lease properties follow from.
LeaseInv ==
    TypeOK /\ BootInv /\ LeaseTableAgrees /\ LeasedMachineRuns /\ HistoryInv /\ LifeInv
      /\ LeftoverIsReported

\* A batch has members from the moment it is accepted, and they stay accepted;
\* its verdict is true of every one of them.
BatchInv ==
    /\ \A b \in Batch : bstate[b] = "absent" => members[b] = {} /\ b \notin cancelled
    /\ \A b \in Batch : bstate[b] # "absent" => members[b] # {}
    /\ \A b \in Batch : \A t \in members[b] : st[t] # "absent"
    /\ \A b \in Batch : bexp[b] # "none" => bstate[b] # "absent"
    /\ \A b \in Batch : bstate[b] = "completed" <=>
          (members[b] # {} /\ \A t \in members[b] : st[t] = "completed")
    /\ \A b \in Batch : bstate[b] = "failed" => \A t \in members[b] : st[t] \in Terminal
    /\ \A b \in Batch : (\A t \in members[b] : st[t] \in Terminal) /\ loop = "idle" =>
          bstate[b] \in Terminal \cup {"absent"}
----------------------------------------------------------------------------
(* Helpers *)

\* The state of a batch is one of the four, whatever its tasks are.
LEMMA AggregateType == \A S : Aggregate(S) \in BatchState
  BY DEF Aggregate, BatchState

\* Recomputing the batches keeps their type.
LEMMA RefreshType ==
  ASSUME TypeOK, NEW s, RefreshBatches(s)
  PROVE  bstate' \in [Batch -> BatchState]
  BY AggregateType DEF RefreshBatches, TypeOK, BatchState

\* Failing and closing tasks keeps the type of the states.
LEMMA AfterType ==
  ASSUME TypeOK, NEW F, NEW C
  PROVE  After(F, C) \in [Task -> TaskState]
  BY DEF After, TypeOK, TaskState

\* Closing leases keeps the type of verdicts and finalizers.
LEMMA CloseType ==
  ASSUME TypeOK, NEW C, NEW v \in Verdict, Close(C, v)
  PROVE  /\ verdict' \in [Lease -> Verdict \cup {None}]
         /\ fin' \in [Lease -> {"none", "spawned", "destroying", "ended"}]
  BY DEF Close, TypeOK

\* The stored prefix of a request is a sequence of tasks.
LEMMA PrefixType ==
  ASSUME NEW b \in Batch, NEW n \in 0..Len(Request[b]), arrived \in Seq(Task)
  PROVE  arrived \o SubSeq(Request[b], 1, n) \in Seq(Task)
<1>1. Request[b] \in Seq(Task)
  BY RequestAssumption
<1>2. SubSeq(Request[b], 1, n) \in Seq(Task)
  BY <1>1, SubSeqProperties
<1> QED
  BY <1>2, ConcatProperties
\* Renewing a lease, or letting it expire, leaves every flag a boolean.
LEMMA FreshType ==
  ASSUME TypeOK, NEW l \in Lease, NEW on \in BOOLEAN, fresh' = [fresh EXCEPT ![l] = on]
  PROVE  fresh' \in [Lease -> BOOLEAN]
  BY Zenon DEF TypeOK
----------------------------------------------------------------------------
(* Every variable keeps its type. *)

\* The process starts with empty tables of the right types.
LEMMA TypeInit == Init => TypeOK
  BY ConstantAssumption, EmptySeq
  DEF Init, TypeOK, TaskState, BatchState, Verdict

\* No operation, coroutine or deadline breaks the types of the tables.
LEMMA TypeStep == TypeOK /\ [Next]_vars => TypeOK'
<1> SUFFICES ASSUME TypeOK, [Next]_vars PROVE TypeOK'
  OBVIOUS
<1> USE ConstantAssumption
<1>1. ASSUME NEW b \in Batch, SubmitBatch(b) PROVE TypeOK'
  <2>1. PICK n \in 0..Len(Request[b]) :
          /\ arrived' = arrived \o SubSeq(Request[b], 1, n)
          /\ st' = [t \in Task |-> IF t \notin {Request[b][i] : i \in 1..n} THEN st[t]
                                   ELSE IF t \in TooBig THEN "failed" ELSE "queued"]
          /\ IF n = Len(Request[b])
             THEN /\ members' = [members EXCEPT ![b] = {Request[b][i] : i \in 1..n}]
                  /\ bstate' = [bstate EXCEPT ![b] = "queued"]
                  /\ bexp' = [bexp EXCEPT ![b] = "live"]
                  /\ EnsureDispatch
             ELSE UNCHANGED <<members, bstate, bexp, loop>>
    BY <1>1 DEF SubmitBatch
  <2>2. arrived' \in Seq(Task)
    BY <2>1, PrefixType DEF TypeOK
  <2>3. st' \in [Task -> TaskState]
    BY <2>1 DEF TypeOK, TaskState
  <2>4. {Request[b][i] : i \in 1..n} \subseteq Task
    BY <2>1, RequestAssumption
  <2>5. members' \in [Batch -> SUBSET Task]
    BY <2>1, <2>4 DEF TypeOK
  <2>6. bstate' \in [Batch -> BatchState] /\ bexp' \in [Batch -> {"none", "live", "expired"}]
        /\ loop' \in {"idle", "scan", "boot"}
    BY <2>1 DEF TypeOK, BatchState, EnsureDispatch
  <2> QED
    BY <1>1, <2>2, <2>3, <2>5, <2>6 DEF SubmitBatch, TypeOK, machine
<1>2. ASSUME NEW b \in Batch, HeartbeatBatch(b) \/ BatchDeadline(b) PROVE TypeOK'
  BY <1>2 DEF HeartbeatBatch, BatchDeadline, TypeOK, tables, machine, batches
<1>3. ASSUME NEW b \in Batch, CancelBatch(b) PROVE TypeOK'
  <2>1. st' \in [Task -> TaskState] /\ bstate' \in [Batch -> BatchState]
    BY <1>3, AfterType, RefreshType DEF CancelBatch
  <2>2. /\ verdict' \in [Lease -> Verdict \cup {None}]
        /\ fin' \in [Lease -> {"none", "spawned", "destroying", "ended"}]
    BY <1>3, CloseType DEF CancelBatch, Verdict
  <2> QED
    BY <1>3, <2>1, <2>2 DEF CancelBatch, TypeOK, machine
<1>4. CASE DispatchBoot \/ DispatchEnds
  <2>1. st' \in [Task -> TaskState]
    BY <1>4, AfterType DEF DispatchBoot, DispatchEnds, TaskState
  <2>2. bstate' \in [Batch -> BatchState]
    BY <1>4, RefreshType DEF DispatchBoot, DispatchEnds
  <2> QED
    BY <1>4, <2>1, <2>2
    DEF DispatchBoot, DispatchEnds, Routable, Queued, TypeOK, timers, machine
<1>5. CASE BootFailed
  <2>1. bstate' \in [Batch -> BatchState]
    BY <1>5, RefreshType DEF BootFailed
  <2>2. vm' \in [Task -> {"none", "booting", "up", "unremoved", "gone"}]
    BY <1>5 DEF BootFailed, TypeOK
  <2> QED
    BY <1>5, <2>1, <2>2 DEF BootFailed, TypeOK, TaskState, timers
<1>6. ASSUME NEW l \in Lease, BootDone(l) PROVE TypeOK'
  <2>1. bstate' \in [Batch -> BatchState]
    BY <1>6, RefreshType DEF BootDone, TypeOK
  <2>2. handle' \in [Task -> {"none", "local", "gcp"}]
    BY <1>6 DEF BootDone, TypeOK
  <2>3a. st' \in [Task -> TaskState]
    BY <1>6 DEF BootDone, TypeOK, TaskState
  <2>3b. \E m \in {"up", "unremoved", "gone"} : vm' = [vm EXCEPT ![cur] = m]
    BY <1>6 DEF BootDone, TornDown
  <2>3. vm' \in [Task -> {"none", "booting", "up", "unremoved", "gone"}]
    BY <2>3b DEF TypeOK
  <2>4a. \/ /\ leases' = [leases EXCEPT ![l] = cur] /\ leaseId' = [leaseId EXCEPT ![cur] = l]
             /\ st[cur] = "starting"
         \/ leases' = leases /\ leaseId' = leaseId
    BY <1>6 DEF BootDone
  <2>4. leases' \in [Lease -> Task \cup {None}] /\ leaseId' \in [Task -> Lease \cup {None}]
    BY <2>4a DEF TypeOK
  <2>5a. issued' \in SUBSET Lease
    BY <1>6 DEF BootDone, TypeOK
  <2>5. fresh' = [fresh EXCEPT ![l] = TRUE] \/ fresh' = fresh
    BY <1>6 DEF BootDone
  <2>6. /\ loop' \in {"idle", "scan", "boot"} /\ cur' \in Task \cup {None}
        /\ UNCHANGED <<arrived, bexp, verdict, fin, members, cancelled>>
    BY <1>6 DEF BootDone
  <2> QED
    BY <2>1, <2>2, <2>3a, <2>3, <2>4, <2>5a, <2>5, FreshType, <2>6 DEF TypeOK
<1>7. ASSUME NEW t \in Task, NEW l \in Lease, BindProvisioned(t, l) PROVE TypeOK'
  <2>1. arrived' \in Seq(Task)
    BY <1>7, AppendProperties DEF BindProvisioned, TypeOK
  <2>2. /\ st' \in [Task -> TaskState]
        /\ vm' \in [Task -> {"none", "booting", "up", "unremoved", "gone"}]
        /\ handle' \in [Task -> {"none", "local", "gcp"}]
    BY <1>7 DEF BindProvisioned, TypeOK, TaskState
  <2>3. leases' \in [Lease -> Task \cup {None}] /\ leaseId' \in [Task -> Lease \cup {None}]
    BY <1>7 DEF BindProvisioned, TypeOK
  <2>4. issued' \in SUBSET Lease /\ fresh' \in [Lease -> BOOLEAN]
    BY <1>7, FreshType DEF BindProvisioned, TypeOK
  <2>5. UNCHANGED <<bexp, verdict, fin, loop, cur, batches, cancelled>>
    BY <1>7 DEF BindProvisioned
  <2> QED
    BY <2>1, <2>2, <2>3, <2>4, <2>5 DEF TypeOK, batches
<1>8. ASSUME NEW l \in Lease, Heartbeat(l) \/ LeaseDeadline(l) PROVE TypeOK'
  <2>0. fresh' \in [Lease -> BOOLEAN]
    BY <1>8, FreshType DEF Heartbeat, LeaseDeadline
  <2>1. st' \in [Task -> TaskState]
    BY <1>8 DEF Heartbeat, LeaseDeadline, TypeOK, TaskState, tables
  <2> QED
    BY <1>8, <2>0, <2>1 DEF Heartbeat, LeaseDeadline, TypeOK, tables, machine, batches
<1>9. ASSUME NEW l \in Lease, NEW v \in ClientVerdict, Complete(l, v) PROVE TypeOK'
  <2>1. st' \in [Task -> TaskState]
    BY <1>9, AfterType DEF Complete
  <2>2. /\ verdict' \in [Lease -> Verdict \cup {None}]
        /\ fin' \in [Lease -> {"none", "spawned", "destroying", "ended"}]
    BY <1>9, CloseType DEF Complete, Verdict
  <2> QED
    BY <1>9, <2>1, <2>2 DEF Complete, TypeOK, timers, machine, batches
<1>10. CASE ReaperTick
  <2>1. st' \in [Task -> TaskState] /\ bstate' \in [Batch -> BatchState]
    BY <1>10, AfterType, RefreshType DEF ReaperTick, TypeOK
  <2>2. /\ verdict' \in [Lease -> Verdict \cup {None}]
        /\ fin' \in [Lease -> {"none", "spawned", "destroying", "ended"}]
    BY <1>10, CloseType DEF ReaperTick, Verdict
  <2>3. bexp' \in [Batch -> {"none", "live", "expired"}] /\ cancelled' \in SUBSET Batch
    BY <1>10 DEF ReaperTick, TypeOK
  <2> QED
    BY <1>10, <2>1, <2>2, <2>3 DEF ReaperTick, TypeOK, machine
<1>11. ASSUME NEW l \in Lease, FinalizeStart(l) PROVE TypeOK'
  BY <1>11 DEF FinalizeStart, TypeOK, tables, timers, machine, batches
<1>12. ASSUME NEW l \in Lease, FinalizeDone(l) \/ FinalizeFailed(l) PROVE TypeOK'
  <2>1. bstate' \in [Batch -> BatchState]
    BY <1>12, RefreshType DEF FinalizeDone, FinalizeFailed, Forget
  <2>2. vm' \in [Task -> {"none", "booting", "up", "unremoved", "gone"}]
    BY <1>12 DEF FinalizeDone, FinalizeFailed, TypeOK, TornDown
  <2>3. loop' \in {"idle", "scan", "boot"}
    BY <1>12 DEF FinalizeDone, FinalizeFailed, EnsureDispatch, TypeOK
  <2>a. PICK outcome \in Terminal : Forget(l, leases[l], outcome)
    BY <1>12 DEF FinalizeDone, FinalizeFailed, Terminal
  <2>b. st' \in [Task -> TaskState]
    BY <2>a DEF Forget, TypeOK, TaskState, Terminal
  <2>4. handle' \in [Task -> {"none", "local", "gcp"}]
    BY <2>a DEF Forget, TypeOK
  <2>5a. leases' \in [Lease -> Task \cup {None}]
    BY <2>a DEF Forget, TypeOK
  <2>5b. fresh' = [fresh EXCEPT ![l] = FALSE]
    BY <2>a DEF Forget
  <2>5. fresh' \in [Lease -> BOOLEAN]
    BY <2>5b, FreshType
  <2>6. fin' \in [Lease -> {"none", "spawned", "destroying", "ended"}]
    BY <2>a DEF Forget, TypeOK
  <2>7. UNCHANGED <<arrived, leaseId, issued, bexp, verdict, cur, members, cancelled>>
    BY <1>12 DEF FinalizeDone, FinalizeFailed
  <2> QED
    BY <2>1, <2>2, <2>3, <2>b, <2>4, <2>5a, <2>5, <2>6, <2>7 DEF TypeOK
<1>13. CASE UNCHANGED vars
  BY <1>13 DEF vars, TypeOK
<1> QED
  BY <1>1, <1>2, <1>3, <1>4, <1>5, <1>6, <1>7, <1>8, <1>9, <1>10, <1>11, <1>12, <1>13
  DEF Next

\* Every reachable state has the types the scheduler's tables are declared with.
THEOREM TypeCorrect == Spec => []TypeOK
  BY TypeInit, TypeStep, PTL DEF Spec
----------------------------------------------------------------------------
(* The lease tables *)

\* Failing queued tasks and closing leases, however many at once: what
\* cancellation, completion, the reaper and the dispatch loop have in common.
LEMMA CloseStep ==
  ASSUME LeaseInv, TypeOK',
         NEW F, F \subseteq Queued, NEW C, C \subseteq Closable,
         NEW v \in Verdict, st' = After(F, C), Close(C, v),
         UNCHANGED <<leaseId, leases, issued, handle, vm, loop, cur>>
  PROVE  LeaseInv'
<1> USE ConstantAssumption DEF LeaseInv
<1>1. \A t \in Task : \/ t \in F /\ st[t] = "queued" /\ st'[t] = "failed"
                      \/ /\ st[t] \in Held /\ st'[t] = "resetting"
                         /\ leaseId[t] \in C /\ leases[leaseId[t]] = t
                      \/ st'[t] = st[t] /\ t \notin F /\ \A l \in C : leases[l] # t
  BY DEF After, Queued, Closable, TypeOK, TaskState, LeaseTableAgrees, Held
<1>2. \A l \in Lease : IF l \in C
                       THEN /\ leases[l] \in Task /\ st[leases[l]] \in Held
                            /\ leaseId[leases[l]] = l /\ fin'[l] = "spawned"
                            /\ verdict'[l] = v /\ fin[l] = "none"
                       ELSE fin'[l] = fin[l] /\ verdict'[l] = verdict[l]
  BY DEF Close, Closable, TypeOK, LeaseTableAgrees, LifeInv, Held
<1>3. BootInv'
  BY <1>1 DEF BootInv, OneBoot, Held
<1>3a. \A t \in Task : st[t] \in Held \cup {"resetting"}
                       <=> st'[t] \in Held \cup {"resetting"}
  BY <1>1 DEF Held
<1>4. LeaseTableAgrees'
  BY <1>3a DEF LeaseTableAgrees, TypeOK
<1>5. LeasedMachineRuns'
  BY <1>1, <1>2 DEF LeasedMachineRuns, LeaseTableAgrees, LifeInv, Held, TypeOK
<1>6. HistoryInv'
  BY <1>2 DEF HistoryInv, Verdict
<1>7. LifeInv'
  <2>1. /\ \A t \in Task : st'[t] \in {"absent", "queued", "starting"} => leaseId'[t] = None
        /\ \A t \in Task : st'[t] \in {"absent", "queued"} => vm'[t] = "none"
    BY <1>1, <1>2 DEF LifeInv
  <2>2. \A l \in Lease : leases[l] # None => leases[l] \in Task
    BY DEF TypeOK
  <2>3. \A l \in Lease : leases'[l] # None /\ st'[leases'[l]] \in Held => fin'[l] = "none"
    BY <1>1, <1>2, <2>2 DEF LifeInv, LeaseTableAgrees, Held
  <2>4. \A l \in Lease : leases'[l] # None /\ st'[leases'[l]] = "resetting" =>
                            fin'[l] \in {"spawned", "destroying"}
    BY <1>1, <1>2, <2>2 DEF LifeInv, LeaseTableAgrees
  <2> QED
    BY <2>1, <2>3, <2>4 DEF LifeInv
<1>8. LeftoverIsReported'
  BY <1>1 DEF LeftoverIsReported, Terminal, LifeInv, Held
<1> QED
  BY <1>3, <1>4, <1>5, <1>6, <1>7, <1>8

\* A machine is bound to a task that has none: by the dispatch loop when its boot
\* ends, or by the cluster worker to a task this process never saw.
LEMMA BindStep ==
  ASSUME LeaseInv, TypeOK',
         NEW t \in Task, NEW l \in Lease, l \notin issued, NEW h \in {"local", "gcp"},
         \/ st[t] = "absent" /\ UNCHANGED <<loop, cur>>
         \/ st[t] = "starting" /\ loop' = "scan" /\ cur' = None,
         issued' = issued \cup {l},
         leases' = [leases EXCEPT ![l] = t],
         leaseId' = [leaseId EXCEPT ![t] = l],
         handle' = [handle EXCEPT ![t] = h],
         vm' = [vm EXCEPT ![t] = "up"],
         st' = [st EXCEPT ![t] = "ready"],
         UNCHANGED <<verdict, fin>>
  PROVE  LeaseInv'
<1> USE ConstantAssumption DEF LeaseInv
<1>1. /\ leaseId[t] = None /\ leases[l] = None /\ fin[l] = "none"
      /\ \A u \in Task : leaseId[u] # l
      /\ \A k \in Lease : leases[k] # t
  BY DEF HistoryInv, LifeInv, LeaseTableAgrees, TypeOK, Held
<1>2. /\ \A u \in Task : IF u = t
                         THEN /\ st'[u] = "ready" /\ leaseId'[u] = l
                              /\ handle'[u] = h /\ vm'[u] = "up"
                         ELSE /\ st'[u] = st[u] /\ leaseId'[u] = leaseId[u]
                              /\ handle'[u] = handle[u] /\ vm'[u] = vm[u]
      /\ \A k \in Lease : leases'[k] = IF k = l THEN t ELSE leases[k]
  BY DEF TypeOK
<1>3. BootInv'
  BY <1>2 DEF BootInv, OneBoot, LifeInv
<1>4. LeaseTableAgrees'
  BY <1>1, <1>2 DEF LeaseTableAgrees, Held, TypeOK
<1>5. LeasedMachineRuns'
  BY <1>1, <1>2 DEF LeasedMachineRuns, LeaseTableAgrees, Held, TypeOK
<1>6. HistoryInv'
  BY <1>1, <1>2 DEF HistoryInv, TypeOK
<1>7. LifeInv'
  BY <1>1, <1>2 DEF LifeInv, LeaseTableAgrees, Held, TypeOK
<1>8. LeftoverIsReported'
  BY <1>2 DEF LeftoverIsReported, Terminal
<1> QED
  BY <1>3, <1>4, <1>5, <1>6, <1>7, <1>8

\* A finalizer ends, well or badly.
LEMMA ForgetStep ==
  ASSUME LeaseInv, TypeOK',
         NEW l \in Lease, fin[l] = "destroying", NEW outcome \in Terminal,
         Forget(l, leases[l], outcome),
         NEW left, vm' = [vm EXCEPT ![leases[l]] = left], left \in {"up", "unremoved", "gone"},
         outcome = "completed" => left \in TornDown,
         UNCHANGED <<leaseId, issued, verdict, cur>>,
         loop' = loop \/ (loop = "idle" /\ loop' = "scan")
  PROVE  LeaseInv'
<1> USE ConstantAssumption DEF LeaseInv
<1> DEFINE t == leases[l]
<1>1. t \in Task /\ st[t] = "resetting" /\ leaseId[t] = l
  BY DEF LeasedMachineRuns, LeaseTableAgrees, TypeOK
<1>2. /\ \A u \in Task : IF u = t
                         THEN st'[u] = outcome /\ handle'[u] = "none" /\ vm'[u] = left
                         ELSE st'[u] = st[u] /\ handle'[u] = handle[u] /\ vm'[u] = vm[u]
      /\ \A k \in Lease : IF k = l THEN leases'[k] = None /\ fin'[k] = "ended"
                                   ELSE leases'[k] = leases[k] /\ fin'[k] = fin[k]
  BY <1>1 DEF TypeOK, Forget
<1>3. \A k \in Lease : k # l => leases[k] # t
  BY <1>1 DEF LeaseTableAgrees, TypeOK
<1> HIDE DEF t
<1>4. BootInv'
  BY <1>1, <1>2 DEF BootInv, OneBoot, Terminal
<1>5. LeaseTableAgrees'
  BY <1>1, <1>2, <1>3 DEF LeaseTableAgrees, Held, Terminal, TypeOK
<1>6. LeasedMachineRuns'
  BY <1>1, <1>2, <1>3 DEF LeasedMachineRuns, Held, Terminal, TypeOK
<1>7. HistoryInv'
  BY <1>1, <1>2 DEF HistoryInv
<1>8. LifeInv'
  BY <1>1, <1>2, <1>3 DEF LifeInv, Held, Terminal, TypeOK
<1>9. LeftoverIsReported'
  BY <1>1, <1>2 DEF LeftoverIsReported
<1> QED
  BY <1>4, <1>5, <1>6, <1>7, <1>8, <1>9

\* With nothing submitted there is no lease and no boot, so the invariant holds.
LEMMA LeaseInit == Init => LeaseInv
<1> SUFFICES ASSUME Init PROVE LeaseInv
  OBVIOUS
<1> USE ConstantAssumption DEF Init
<1>1. TypeOK
  BY TypeInit
<1>2. BootInv
  BY DEF BootInv, OneBoot
<1>3. LeaseTableAgrees /\ LeasedMachineRuns
  BY DEF LeaseTableAgrees, LeasedMachineRuns, Held
<1>4. HistoryInv /\ LifeInv /\ LeftoverIsReported
  BY DEF HistoryInv, LifeInv, LeftoverIsReported, Held
<1> QED
  BY <1>1, <1>2, <1>3, <1>4 DEF LeaseInv

\* A refused or an accepted request touches only tasks nobody knew.
LEMMA StoredIsNew ==
  ASSUME NEW b \in Batch, SubmitBatch(b)
  PROVE  \E S \in SUBSET Task :
           /\ \A t \in S : st[t] = "absent"
           /\ st' = [t \in Task |-> IF t \notin S THEN st[t]
                                    ELSE IF t \in TooBig THEN "failed" ELSE "queued"]
           /\ \/ /\ S # {}
                 /\ members' = [members EXCEPT ![b] = S]
                 /\ bstate' = [bstate EXCEPT ![b] = "queued"]
                 /\ loop' = IF loop = "idle" THEN "scan" ELSE loop
              \/ UNCHANGED <<members, bstate, loop>>
<1>1. PICK n \in 0..Len(Request[b]) :
        /\ \A i \in 1..n : ~Refused(b, i)
        /\ st' = [t \in Task |-> IF t \notin {Request[b][i] : i \in 1..n} THEN st[t]
                                 ELSE IF t \in TooBig THEN "failed" ELSE "queued"]
        /\ IF n = Len(Request[b])
           THEN /\ members' = [members EXCEPT ![b] = {Request[b][i] : i \in 1..n}]
                /\ bstate' = [bstate EXCEPT ![b] = "queued"]
                /\ EnsureDispatch
           ELSE UNCHANGED <<members, bstate, loop>>
  BY DEF SubmitBatch
<1> DEFINE S == {Request[b][i] : i \in 1..n}
<1>2. S \in SUBSET Task
  BY RequestAssumption
<1>3. \A t \in S : st[t] = "absent"
  BY <1>1 DEF Refused
<1>4. n = Len(Request[b]) => S # {}
  <2>1. Request[b] \in Seq(Task) /\ Request[b] # <<>>
    BY RequestAssumption
  <2>2. Len(Request[b]) \in Nat \ {0}
    BY <2>1, EmptySeq, LenProperties
  <2>3. n = Len(Request[b]) => 1 \in 1..n
    BY <2>2
  <2> QED
    BY <2>3
<1>5. \/ /\ S # {}
         /\ members' = [members EXCEPT ![b] = S]
         /\ bstate' = [bstate EXCEPT ![b] = "queued"]
         /\ loop' = IF loop = "idle" THEN "scan" ELSE loop
      \/ UNCHANGED <<members, bstate, loop>>
  <2>1. CASE n = Len(Request[b])
    BY <1>1, <1>4, <2>1 DEF EnsureDispatch
  <2>2. CASE n # Len(Request[b])
    BY <1>1, <2>2
  <2> QED
    BY <2>1, <2>2
<1>6. st' = [t \in Task |-> IF t \notin S THEN st[t]
                           ELSE IF t \in TooBig THEN "failed" ELSE "queued"]
  BY <1>1
<1> HIDE DEF S
<1> QED
  BY <1>2, <1>3, <1>5, <1>6

\* Every operation preserves the agreement of tasks, leases, finalizers and machines.
LEMMA LeaseStep == LeaseInv /\ [Next]_vars => LeaseInv'
<1> SUFFICES ASSUME LeaseInv, [Next]_vars PROVE LeaseInv'
  OBVIOUS
<1> USE ConstantAssumption
<1>t. TypeOK'
  BY TypeStep DEF LeaseInv
<1>u. ASSUME UNCHANGED <<st, leaseId, leases, issued, verdict, fin, handle, vm, loop, cur>>
      PROVE  LeaseInv'
  BY <1>t, <1>u
  DEF LeaseInv, BootInv, OneBoot, LeaseTableAgrees, LeasedMachineRuns, HistoryInv, LifeInv,
      LeftoverIsReported
<1>1. ASSUME NEW b \in Batch, SubmitBatch(b) PROVE LeaseInv'
  <2>1. PICK S \in SUBSET Task :
          /\ \A t \in S : st[t] = "absent"
          /\ st' = [t \in Task |-> IF t \notin S THEN st[t]
                                   ELSE IF t \in TooBig THEN "failed" ELSE "queued"]
          /\ loop' = loop \/ (loop = "idle" /\ loop' = "scan")
    BY <1>1, StoredIsNew
  <2>2. UNCHANGED <<leaseId, leases, issued, verdict, fin, handle, vm, cur>>
    BY <1>1 DEF SubmitBatch, machine
  <2>3. \A t \in Task : IF t \in S THEN st[t] = "absent" /\ st'[t] \in {"failed", "queued"}
                                   ELSE st'[t] = st[t]
    BY <2>1
  <2>4. BootInv'
    BY <2>1, <2>2, <2>3 DEF LeaseInv, BootInv, OneBoot
  <2>5. LeaseTableAgrees'
    BY <2>2, <2>3 DEF LeaseInv, TypeOK, LeaseTableAgrees, Held
  <2>6. LeasedMachineRuns'
    BY <2>2, <2>3 DEF LeaseInv, TypeOK, LeasedMachineRuns, Held
  <2>7. HistoryInv'
    BY <2>2 DEF LeaseInv, HistoryInv
  <2>8. LifeInv'
    BY <2>2, <2>3 DEF LeaseInv, TypeOK, LifeInv, Held
  <2>9. LeftoverIsReported'
    BY <2>2, <2>3 DEF LeaseInv, LeftoverIsReported, LifeInv, Terminal
  <2> QED
    BY <1>t, <2>4, <2>5, <2>6, <2>7, <2>8, <2>9 DEF LeaseInv
<1>2. ASSUME NEW b \in Batch, HeartbeatBatch(b) \/ BatchDeadline(b) PROVE LeaseInv'
  BY <1>2, <1>u DEF HeartbeatBatch, BatchDeadline, tables, machine
<1>3. ASSUME NEW b \in Batch, CancelBatch(b) PROVE LeaseInv'
  BY <1>3, <1>t, CloseStep
  DEF CancelBatch, QueuedIn, Queued, LeasesIn, machine, Verdict
<1>4. CASE DispatchBoot
  <2>1. PICK t \in Routable :
          /\ st' = [After(Unroutable, {}) EXCEPT ![t] = "starting"]
          /\ cur' = t
          /\ vm' = [vm EXCEPT ![t] = "booting"]
    BY <1>4 DEF DispatchBoot
  <2>2. /\ loop = "scan" /\ loop' = "boot"
        /\ UNCHANGED <<leaseId, leases, issued, verdict, fin, handle>>
    BY <1>4 DEF DispatchBoot
  <2>3. /\ t \in Task /\ st[t] = "queued" /\ Route[t] # "none"
        /\ st'[t] = "starting" /\ vm'[t] = "booting"
        /\ \A u \in Task : u # t =>
             /\ st'[u] = st[u] \/ (st[u] = "queued" /\ st'[u] = "failed")
             /\ vm'[u] = vm[u]
    BY <2>1 DEF After, Unroutable, Routable, Queued, LeaseInv, TypeOK
  <2>4. BootInv'
    BY <2>1, <2>2, <2>3 DEF LeaseInv, BootInv, OneBoot
  <2>5a. \A u \in Task : st[u] \in Held \cup {"resetting"}
                          <=> st'[u] \in Held \cup {"resetting"}
    BY <2>3 DEF Held
  <2>5. LeaseTableAgrees'
    BY <2>2, <2>5a DEF LeaseInv, TypeOK, LeaseTableAgrees
  <2>6. LeasedMachineRuns'
    BY <2>2, <2>3 DEF LeaseInv, TypeOK, LeasedMachineRuns, Held
  <2>7. HistoryInv'
    BY <2>2 DEF LeaseInv, HistoryInv
  <2>8. LifeInv'
    <3>1. \A l \in Lease : leases[l] # None => leases[l] \in Task
      BY DEF LeaseInv, TypeOK
    <3>2. \A u \in Task : /\ st'[u] \in {"absent", "queued", "starting"} => leaseId'[u] = None
                          /\ st'[u] \in {"absent", "queued"} => vm'[u] = "none"
      BY <2>2, <2>3 DEF LeaseInv, LifeInv
    <3>3. \A l \in Lease : leases'[l] # None /\ st'[leases'[l]] \in Held => fin'[l] = "none"
      BY <2>2, <2>3, <3>1 DEF LeaseInv, LifeInv, Held
    <3>4. \A l \in Lease : leases'[l] # None /\ st'[leases'[l]] = "resetting" =>
                              fin'[l] \in {"spawned", "destroying"}
      BY <2>2, <2>3, <3>1 DEF LeaseInv, LifeInv
    <3> QED
      BY <3>2, <3>3, <3>4 DEF LifeInv
  <2>9. LeftoverIsReported'
    BY <2>3 DEF LeaseInv, LeftoverIsReported, Terminal
  <2> QED
    BY <1>t, <2>4, <2>5, <2>6, <2>7, <2>8, <2>9 DEF LeaseInv
<1>5. CASE DispatchEnds
  <2>1. \A u \in Task : st'[u] = st[u] \/ (st[u] = "queued" /\ st'[u] = "failed")
    BY <1>5 DEF DispatchEnds, After, Unroutable, Queued
  <2>2. /\ loop = "scan" /\ loop' = "idle"
        /\ UNCHANGED <<leaseId, leases, issued, verdict, fin, handle, vm, cur>>
    BY <1>5 DEF DispatchEnds, machine
  <2>3. BootInv'
    BY <2>1, <2>2 DEF LeaseInv, BootInv, OneBoot
  <2>4a. \A u \in Task : st[u] \in Held \cup {"resetting"}
                          <=> st'[u] \in Held \cup {"resetting"}
    BY <2>1 DEF Held
  <2>4. LeaseTableAgrees'
    BY <2>2, <2>4a DEF LeaseInv, TypeOK, LeaseTableAgrees
  <2>5. LeasedMachineRuns'
    BY <2>1, <2>2 DEF LeaseInv, TypeOK, LeasedMachineRuns, Held
  <2>6. HistoryInv'
    BY <2>2 DEF LeaseInv, HistoryInv
  <2>7. LifeInv'
    BY <2>1, <2>2 DEF LeaseInv, TypeOK, LifeInv, Held
  <2>8. LeftoverIsReported'
    BY <2>1, <2>2 DEF LeaseInv, LeftoverIsReported, Terminal
  <2> QED
    BY <1>t, <2>3, <2>4, <2>5, <2>6, <2>7, <2>8 DEF LeaseInv
<1>6. CASE BootFailed
  <2>1. cur \in Task /\ Route[cur] # "none" /\ st[cur] = "starting"
    BY <1>6 DEF BootFailed, LeaseInv, BootInv, OneBoot
  <2>2. /\ loop = "boot" /\ loop' = "scan" /\ cur' = None
        /\ UNCHANGED <<leaseId, leases, issued, verdict, fin, handle>>
    BY <1>6 DEF BootFailed
  <2>3. /\ st'[cur] = "failed" /\ vm'[cur] \in {"gone", "up"}
        /\ \A u \in Task : u # cur => st'[u] = st[u] /\ vm'[u] = vm[u]
    BY <1>6, <2>1 DEF BootFailed, LeaseInv, TypeOK
  <2>4. BootInv'
    BY <2>2, <2>3 DEF LeaseInv, BootInv, OneBoot
  <2>5a. \A u \in Task : st[u] \in Held \cup {"resetting"}
                          <=> st'[u] \in Held \cup {"resetting"}
    BY <2>1, <2>3 DEF Held
  <2>5. LeaseTableAgrees'
    BY <2>2, <2>5a DEF LeaseInv, TypeOK, LeaseTableAgrees
  <2>6. LeasedMachineRuns'
    BY <2>1, <2>2, <2>3 DEF LeaseInv, TypeOK, LeasedMachineRuns, Held
  <2>7. HistoryInv'
    BY <2>2 DEF LeaseInv, HistoryInv
  <2>8. LifeInv'
    BY <2>1, <2>2, <2>3 DEF LeaseInv, TypeOK, LifeInv, Held
  <2>9. LeftoverIsReported'
    BY <2>1, <2>3 DEF LeaseInv, LeftoverIsReported, Terminal
  <2> QED
    BY <1>t, <2>4, <2>5, <2>6, <2>7, <2>8, <2>9 DEF LeaseInv
<1>7. ASSUME NEW l \in Lease, BootDone(l) PROVE LeaseInv'
  <2>1. cur \in Task /\ Route[cur] \in {"local", "gcp"} /\ st[cur] = "starting"
    BY <1>7 DEF BootDone, LeaseInv, BootInv, OneBoot
  <2> QED
    BY <1>7, <1>t, <2>1, BindStep DEF BootDone
<1>8. ASSUME NEW t \in Task, NEW l \in Lease, BindProvisioned(t, l) PROVE LeaseInv'
  BY <1>8, <1>t, BindStep DEF BindProvisioned
<1>9. ASSUME NEW l \in Lease, Heartbeat(l) PROVE LeaseInv'
  <2>1. UNCHANGED <<leaseId, leases, issued, verdict, fin, handle, vm, loop, cur>>
    BY <1>9 DEF Heartbeat, machine
  <2>2. \A t \in Task : st'[t] = st[t] \/ (st[t] = "ready" /\ st'[t] = "leased")
    BY <1>9 DEF Heartbeat, LeaseInv, TypeOK
  <2>3. BootInv'
    BY <2>1, <2>2 DEF LeaseInv, BootInv, OneBoot
  <2>4a. \A u \in Task : st[u] \in Held \cup {"resetting"}
                          <=> st'[u] \in Held \cup {"resetting"}
    BY <2>2 DEF Held
  <2>4. LeaseTableAgrees'
    BY <2>1, <2>4a DEF LeaseInv, TypeOK, LeaseTableAgrees
  <2>5. LeasedMachineRuns'
    BY <2>1, <2>2 DEF LeaseInv, TypeOK, LeasedMachineRuns, Held
  <2>6. HistoryInv'
    BY <2>1 DEF LeaseInv, HistoryInv
  <2>7. LifeInv'
    BY <2>1, <2>2 DEF LeaseInv, TypeOK, LifeInv, Held
  <2>8. LeftoverIsReported'
    BY <2>1, <2>2 DEF LeaseInv, LeftoverIsReported, Terminal
  <2> QED
    BY <1>t, <2>3, <2>4, <2>5, <2>6, <2>7, <2>8 DEF LeaseInv
<1>10. ASSUME NEW l \in Lease, LeaseDeadline(l) PROVE LeaseInv'
  BY <1>10, <1>u DEF LeaseDeadline, tables, machine
<1>11. ASSUME NEW l \in Lease, NEW v \in ClientVerdict, Complete(l, v) PROVE LeaseInv'
  BY <1>11, <1>t, CloseStep DEF Complete, machine, Verdict
<1>12. CASE ReaperTick
  <2> DEFINE dead    == {b \in Batch : bexp[b] = "expired"}
             closing == {l \in Closable : ~fresh[l]} \cup LeasesIn(dead)
  <2>1. QueuedIn(dead) \subseteq Queued /\ closing \subseteq Closable
    BY DEF QueuedIn, Queued, LeasesIn
  <2>2. /\ st' = After(QueuedIn(dead), closing) /\ Close(closing, "abandoned")
        /\ UNCHANGED <<leaseId, leases, issued, handle, vm, loop, cur>>
    BY <1>12 DEF ReaperTick, machine
  <2> HIDE DEF dead, closing
  <2> QED
    BY <1>t, <2>1, <2>2, CloseStep DEF Verdict
<1>13. ASSUME NEW l \in Lease, FinalizeStart(l) PROVE LeaseInv'
  <2>1. UNCHANGED <<st, leaseId, leases, issued, verdict, handle, vm, loop, cur>>
    BY <1>13 DEF FinalizeStart, tables, machine
  <2>2. /\ fin[l] = "spawned" /\ fin'[l] = "destroying"
        /\ \A k \in Lease : k # l => fin'[k] = fin[k]
    BY <1>13 DEF FinalizeStart, LeaseInv, TypeOK
  <2>3. BootInv' /\ LeaseTableAgrees' /\ LeftoverIsReported'
    BY <2>1 DEF LeaseInv, BootInv, OneBoot, LeaseTableAgrees, LeftoverIsReported
  <2>4. LeasedMachineRuns'
    BY <2>1, <2>2 DEF LeaseInv, LeasedMachineRuns
  <2>5. HistoryInv'
    BY <2>1, <2>2 DEF LeaseInv, HistoryInv
  <2>6. LifeInv'
    BY <2>1, <2>2 DEF LeaseInv, LifeInv
  <2> QED
    BY <1>t, <2>3, <2>4, <2>5, <2>6 DEF LeaseInv
<1>14. ASSUME NEW l \in Lease, FinalizeDone(l) PROVE LeaseInv'
  <2>1. fin[l] = "destroying" /\ leases[l] \in Task /\ handle[leases[l]] # "none"
    BY <1>14 DEF FinalizeDone, LeaseInv, LeasedMachineRuns, LeaseTableAgrees, TypeOK
  <2>2. PICK left \in TornDown : vm' = [vm EXCEPT ![leases[l]] = left]
    BY <1>14, <2>1 DEF FinalizeDone
  <2>3. PICK outcome \in Terminal : Forget(l, leases[l], outcome)
    BY <1>14 DEF FinalizeDone, Terminal
  <2>4. /\ UNCHANGED <<leaseId, issued, verdict, cur>>
        /\ loop' = loop \/ (loop = "idle" /\ loop' = "scan")
    BY <1>14 DEF FinalizeDone, EnsureDispatch
  <2> QED
    BY <1>t, <2>1, <2>2, <2>3, <2>4, ForgetStep DEF TornDown
<1>15. ASSUME NEW l \in Lease, FinalizeFailed(l) PROVE LeaseInv'
  <2>1. fin[l] = "destroying" /\ Forget(l, leases[l], "failed")
    BY <1>15 DEF FinalizeFailed
  <2>2. PICK left \in {"up", "gone"} : vm' = [vm EXCEPT ![leases[l]] = left]
    BY <1>15 DEF FinalizeFailed
  <2>3. UNCHANGED <<leaseId, issued, verdict, cur, loop>>
    BY <1>15 DEF FinalizeFailed
  <2> QED
    BY <1>t, <2>1, <2>2, <2>3, ForgetStep DEF Terminal
<1>16. CASE UNCHANGED vars
  BY <1>16, <1>u DEF vars
<1> QED
  BY <1>1, <1>2, <1>3, <1>4, <1>5, <1>6, <1>7, <1>8, <1>9, <1>10, <1>11, <1>12, <1>13,
     <1>14, <1>15, <1>16
  DEF Next

\* In every state the tables of tasks, leases, finalizers and machines tell one story.
THEOREM LeaseInvariant == Spec => []LeaseInv
  BY LeaseInit, LeaseStep, PTL DEF Spec

\* In every reachable state the lease table, the handles and the task states agree:
\* a machine is held by exactly the tasks that are READY, LEASED or RESETTING.
THEOREM TablesAlwaysAgree == Spec => []LeaseTableAgrees
<1>1. LeaseInv => LeaseTableAgrees
  BY DEF LeaseInv
<1> QED
  BY <1>1, LeaseInvariant, PTL

\* No teardown begins while a client holds the machine.
THEOREM LeasedMachineAlwaysRuns == Spec => []LeasedMachineRuns
<1>1. LeaseInv => LeasedMachineRuns
  BY DEF LeaseInv
<1> QED
  BY <1>1, LeaseInvariant, PTL

\* A boot or a teardown that raised is never behind a COMPLETED task: the machine such
\* a task can leave is one whose removal command failed without raising.
THEOREM LeftoversAreReported == Spec => []LeftoverIsReported
<1>1. LeaseInv => LeftoverIsReported
  BY DEF LeaseInv
<1> QED
  BY <1>1, LeaseInvariant, PTL

\* At most one machine boots at a time, for the one task that is STARTING.
THEOREM OneBootAtATime == Spec => []OneBoot
<1>1. LeaseInv => OneBoot
  BY DEF LeaseInv, BootInv
<1> QED
  BY <1>1, LeaseInvariant, PTL
----------------------------------------------------------------------------
(* What one step does to a task and to a batch *)

\* A lease that can still be closed has no finalizer.
LEMMA ClosableIsOpen ==
  ASSUME LeaseInv, NEW l \in Closable
  PROVE  fin[l] = "none"
  BY DEF LeaseInv, LifeInv, Closable, TypeOK, LeaseTableAgrees, Held

\* A finalizer is created once, and what it was created with is kept.
LEMMA FirstVerdictStep ==
  ASSUME LeaseInv, [Next]_vars, NEW l \in Lease, fin[l] # "none"
  PROVE  /\ verdict'[l] = verdict[l]
         /\ fin'[l] = "spawned" => fin[l] = "spawned"
<1>1. ASSUME NEW C, C \subseteq Closable, NEW v, Close(C, v)
      PROVE  verdict'[l] = verdict[l] /\ fin'[l] = fin[l]
  BY <1>1, ClosableIsOpen DEF Close
<1>2. ASSUME NEW k \in Lease, NEW t, NEW outcome, Forget(k, t, outcome)
      PROVE  fin'[l] = "spawned" => fin[l] = "spawned"
  BY <1>2 DEF Forget, LeaseInv, TypeOK
<1>3. CASE \E b \in Batch : CancelBatch(b)
  BY <1>1, <1>3 DEF CancelBatch, LeasesIn
<1>4. CASE \E k \in Lease, v \in ClientVerdict : Complete(k, v)
  BY <1>1, <1>4 DEF Complete
<1>5. CASE ReaperTick
  BY <1>1, <1>5 DEF ReaperTick, LeasesIn
<1>6. CASE \E k \in Lease : FinalizeStart(k)
  BY <1>6 DEF FinalizeStart, LeaseInv, TypeOK
<1>7. CASE \E k \in Lease : FinalizeDone(k) \/ FinalizeFailed(k)
  BY <1>2, <1>7 DEF FinalizeDone, FinalizeFailed
<1>8. CASE UNCHANGED <<verdict, fin>>
  BY <1>8
<1> QED
  BY <1>3, <1>4, <1>5, <1>6, <1>7, <1>8
  DEF Next, vars, SubmitBatch, HeartbeatBatch, BatchDeadline, DispatchBoot, DispatchEnds,
      BootFailed, BootDone, BindProvisioned, Heartbeat, LeaseDeadline

\* A client, a canceller and the reaper may all close a lease; the first one does.
THEOREM FirstVerdictAlwaysStands == Spec => FirstVerdictStands
<1>1. LeaseInv /\ [Next]_vars =>
        [\A l \in Lease : fin[l] # "none" =>
           /\ verdict'[l] = verdict[l]
           /\ fin'[l] = "spawned" => fin[l] = "spawned"]_vars
  BY FirstVerdictStep
<1> QED
  BY <1>1, LeaseInvariant, PTL DEF Spec, FirstVerdictStands
----------------------------------------------------------------------------
(* The moves of a task *)

\* All that a step may do to the state of a task.
Moves == {<<"absent", "queued">>, <<"absent", "failed">>, <<"absent", "ready">>,
          <<"queued", "starting">>, <<"queued", "failed">>,
          <<"starting", "ready">>, <<"starting", "failed">>,
          <<"ready", "leased">>, <<"ready", "resetting">>, <<"leased", "resetting">>,
          <<"resetting", "completed">>, <<"resetting", "failed">>}

\* What the steps that leave every batch as it is do to a task.
QuietMoves == {<<"absent", "queued">>, <<"absent", "failed">>, <<"absent", "ready">>,
               <<"ready", "leased">>, <<"ready", "resetting">>, <<"leased", "resetting">>}

\* A cancellation fails queued tasks and closes leases of READY or LEASED ones, and
\* moves no other task.
LEMMA CloseMoves ==
  ASSUME LeaseInv, NEW F, F \subseteq Queued, NEW C, C \subseteq Closable,
         st' = After(F, C), NEW t \in Task
  PROVE  \/ st'[t] = st[t]
         \/ t \in F /\ st[t] = "queued" /\ st'[t] = "failed"
         \/ st[t] \in Held /\ st'[t] = "resetting"
  BY DEF After, Queued, Closable, LeaseInv, TypeOK, TaskState, LeaseTableAgrees, Held

\* The end of a finalizer only turns its own RESETTING task into an ended one.
LEMMA ForgetMoves ==
  ASSUME LeaseInv, NEW l \in Lease, fin[l] = "destroying", NEW outcome \in Terminal,
         Forget(l, leases[l], outcome), NEW t \in Task
  PROVE  \/ st'[t] = st[t]
         \/ st[t] = "resetting" /\ st'[t] = outcome
  BY DEF Forget, LeaseInv, LeasedMachineRuns, TypeOK

\* Every step moves every task along one edge of the state machine, or not at all.
LEMMA TaskMoves ==
  ASSUME LeaseInv, [Next]_vars, NEW t \in Task
  PROVE  st'[t] = st[t] \/ <<st[t], st'[t]>> \in Moves
<1>1. ASSUME NEW b \in Batch, SubmitBatch(b) PROVE st'[t] = st[t] \/ <<st[t], st'[t]>> \in Moves
  BY <1>1, StoredIsNew DEF Moves
<1>2. ASSUME NEW F, F \subseteq Queued, NEW C, C \subseteq Closable, st' = After(F, C)
      PROVE  st'[t] = st[t] \/ <<st[t], st'[t]>> \in Moves
  BY <1>2, CloseMoves DEF Moves, Held
<1>3. ASSUME NEW b \in Batch, CancelBatch(b) PROVE st'[t] = st[t] \/ <<st[t], st'[t]>> \in Moves
  BY <1>2, <1>3 DEF CancelBatch, QueuedIn, Queued, LeasesIn
<1>4. CASE DispatchBoot
  <2>1. PICK u \in Routable : st' = [After(Unroutable, {}) EXCEPT ![u] = "starting"]
    BY <1>4 DEF DispatchBoot
  <2>2. \/ t = u /\ st[t] = "queued" /\ st'[t] = "starting"
        \/ st[t] = "queued" /\ st'[t] = "failed"
        \/ st'[t] = st[t]
    BY <2>1 DEF After, Unroutable, Routable, Queued
  <2> QED
    BY <2>2 DEF Moves
<1>5. CASE DispatchEnds
  BY <1>2, <1>5 DEF DispatchEnds, Unroutable
<1>6. CASE BootFailed
  BY <1>6 DEF BootFailed, Moves, LeaseInv, TypeOK
<1>7. ASSUME NEW l \in Lease, BootDone(l) PROVE st'[t] = st[t] \/ <<st[t], st'[t]>> \in Moves
  BY <1>7 DEF BootDone, Moves, LeaseInv, TypeOK
<1>8. ASSUME NEW u \in Task, NEW l \in Lease, BindProvisioned(u, l)
      PROVE  st'[t] = st[t] \/ <<st[t], st'[t]>> \in Moves
  BY <1>8 DEF BindProvisioned, Moves, LeaseInv, TypeOK
<1>9. ASSUME NEW l \in Lease, Heartbeat(l) PROVE st'[t] = st[t] \/ <<st[t], st'[t]>> \in Moves
  BY <1>9 DEF Heartbeat, Moves, LeaseInv, TypeOK
<1>10. ASSUME NEW l \in Lease, NEW v, Complete(l, v)
       PROVE  st'[t] = st[t] \/ <<st[t], st'[t]>> \in Moves
  BY <1>2, <1>10 DEF Complete
<1>11. CASE ReaperTick
  <2> DEFINE dead    == {b \in Batch : bexp[b] = "expired"}
             closing == {l \in Closable : ~fresh[l]} \cup LeasesIn(dead)
  <2>1. QueuedIn(dead) \subseteq Queued /\ closing \subseteq Closable
    BY DEF QueuedIn, Queued, LeasesIn
  <2>2. st' = After(QueuedIn(dead), closing)
    BY <1>11 DEF ReaperTick
  <2> HIDE DEF dead, closing
  <2> QED
    BY <1>2, <2>1, <2>2
<1>12. ASSUME NEW l \in Lease, FinalizeDone(l) \/ FinalizeFailed(l)
       PROVE  st'[t] = st[t] \/ <<st[t], st'[t]>> \in Moves
  <2>1. PICK outcome \in Terminal : fin[l] = "destroying" /\ Forget(l, leases[l], outcome)
    BY <1>12 DEF FinalizeDone, FinalizeFailed, Terminal
  <2> QED
    BY <2>1, ForgetMoves DEF Moves, Terminal
<1>13. CASE UNCHANGED st
  BY <1>13
<1> QED
  BY <1>1, <1>3, <1>4, <1>5, <1>6, <1>7, <1>8, <1>9, <1>10, <1>11, <1>12, <1>13
  DEF Next, vars, HeartbeatBatch, BatchDeadline, LeaseDeadline, FinalizeStart, tables
----------------------------------------------------------------------------
(* The three things a step can do to the batches *)

\* A request is accepted: one new batch, of tasks nobody knew.
Accepted ==
    \E b \in Batch, S \in SUBSET Task :
      /\ bstate[b] = "absent" /\ S # {}
      /\ \A t \in S : st[t] = "absent" /\ st'[t] \in {"queued", "failed"}
      /\ \A t \in Task \ S : st'[t] = st[t]
      /\ members' = [members EXCEPT ![b] = S]
      /\ bstate' = [bstate EXCEPT ![b] = "queued"]
      /\ loop' # "idle" /\ cancelled' = cancelled

\* Every batch is recomputed; those cancelled in this step have an empty queue.
Recomputed ==
    /\ RefreshBatches(st')
    /\ UNCHANGED members
    /\ loop' = "idle" => loop = "idle" \/ \A t \in Task : st'[t] # "queued"
    /\ \A b \in cancelled' \ cancelled :
         bstate[b] # "absent" /\ \A t \in members[b] : st'[t] # "queued"

\* No batch is looked at: only early moves of tasks.
Quiet ==
    /\ UNCHANGED <<members, bstate, loop, cancelled>>
    /\ \A t \in Task : st'[t] = st[t] \/ <<st[t], st'[t]>> \in QuietMoves

\* Every step accepts one batch, recomputes all of them, or moves tasks of none.
LEMMA BatchMoves ==
  ASSUME LeaseInv, BatchInv, [Next]_vars
  PROVE  Accepted \/ Recomputed \/ Quiet
<1>1. ASSUME NEW b \in Batch, SubmitBatch(b) PROVE Accepted \/ Quiet
  <2>1. PICK S \in SUBSET Task :
           /\ \A t \in S : st[t] = "absent"
           /\ st' = [t \in Task |-> IF t \notin S THEN st[t]
                                    ELSE IF t \in TooBig THEN "failed" ELSE "queued"]
           /\ \/ /\ S # {}
                 /\ members' = [members EXCEPT ![b] = S]
                 /\ bstate' = [bstate EXCEPT ![b] = "queued"]
                 /\ loop' = IF loop = "idle" THEN "scan" ELSE loop
              \/ UNCHANGED <<members, bstate, loop>>
    BY <1>1, StoredIsNew
  <2>2. bstate[b] = "absent" /\ cancelled' = cancelled
    BY <1>1 DEF SubmitBatch
  <2>3. \A t \in Task : IF t \in S THEN st[t] = "absent" /\ st'[t] \in {"queued", "failed"}
                                   ELSE st'[t] = st[t]
    BY <2>1
  <2>4. CASE UNCHANGED <<members, bstate, loop>>
    BY <2>2, <2>3, <2>4 DEF Quiet, QuietMoves
  <2>5. CASE /\ S # {}
             /\ members' = [members EXCEPT ![b] = S]
             /\ bstate' = [bstate EXCEPT ![b] = "queued"]
             /\ loop' # "idle"
    BY <2>2, <2>3, <2>5 DEF Accepted
  <2> QED
    BY <2>1, <2>4, <2>5
<1>2. ASSUME NEW b \in Batch, CancelBatch(b) PROVE Recomputed
  <2>1. \A t \in members[b] : t \in Task
    BY DEF LeaseInv, TypeOK
  <2>2. \A t \in members[b] : st'[t] # "queued"
    BY <1>2, <2>1 DEF CancelBatch, After, QueuedIn
  <2> QED
    BY <1>2, <2>2 DEF CancelBatch, Recomputed
<1>3. CASE DispatchBoot
  BY <1>3 DEF DispatchBoot, Recomputed
<1>4. CASE DispatchEnds
  <2>1. \A t \in Task : st'[t] # "queued"
    BY <1>4 DEF DispatchEnds, After, Unroutable, Queued
  <2> QED
    BY <1>4, <2>1 DEF DispatchEnds, Recomputed
<1>5. CASE BootFailed
  BY <1>5 DEF BootFailed, Recomputed
<1>6. ASSUME NEW l \in Lease, BootDone(l) PROVE Recomputed
  <2>1. st[cur] = "starting"
    BY <1>6 DEF BootDone, LeaseInv, BootInv, OneBoot
  <2> QED
    BY <1>6, <2>1 DEF BootDone, Recomputed
<1>7. ASSUME NEW t \in Task, NEW l \in Lease, BindProvisioned(t, l) PROVE Quiet
  BY <1>7 DEF BindProvisioned, Quiet, QuietMoves, batches, LeaseInv, TypeOK
<1>8. ASSUME NEW l \in Lease, Heartbeat(l) PROVE Quiet
  BY <1>8 DEF Heartbeat, Quiet, QuietMoves, batches, LeaseInv, TypeOK
<1>9. ASSUME NEW F, F \subseteq Queued, NEW C, C \subseteq Closable, F = {}, st' = After(F, C)
      PROVE  \A t \in Task : st'[t] = st[t] \/ <<st[t], st'[t]>> \in QuietMoves
  BY <1>9, CloseMoves DEF QuietMoves, Held
<1>10. ASSUME NEW l \in Lease, NEW v, Complete(l, v) PROVE Quiet
  BY <1>9, <1>10 DEF Complete, Quiet, batches
<1>11. CASE ReaperTick
  <2> DEFINE dead    == {b \in Batch : bexp[b] = "expired"}
             closing == {l \in Closable : ~fresh[l]} \cup LeasesIn(dead)
  <2>1. QueuedIn(dead) \subseteq Queued /\ closing \subseteq Closable
    BY DEF QueuedIn, Queued, LeasesIn
  <2>2. /\ st' = After(QueuedIn(dead), closing)
        /\ cancelled' = cancelled \cup dead
        /\ IF dead = {} THEN UNCHANGED bstate ELSE RefreshBatches(st')
        /\ UNCHANGED <<members, loop>>
    BY <1>11 DEF ReaperTick
  <2>3. \A b \in dead : bstate[b] # "absent" /\ \A t \in members[b] : st'[t] # "queued"
    <3>1. \A b \in dead : bstate[b] # "absent"
      BY DEF BatchInv
    <3>2. \A b \in dead : \A t \in members[b] : t \in Task
      BY DEF LeaseInv, TypeOK
    <3>3. \A b \in dead : \A t \in members[b] : st'[t] # "queued"
      BY <2>2, <3>2 DEF After, QueuedIn
    <3> QED
      BY <3>1, <3>3
  <2>4. CASE dead = {}
    <3>1. QueuedIn(dead) = {}
      BY <2>4 DEF QueuedIn
    <3> HIDE DEF dead, closing
    <3>2. \A t \in Task : st'[t] = st[t] \/ <<st[t], st'[t]>> \in QuietMoves
      BY <1>9, <2>1, <2>2, <3>1
    <3> QED
      BY <2>2, <2>4, <3>2 DEF Quiet
  <2>5. CASE dead # {}
    <3> HIDE DEF dead, closing
    <3> QED
      BY <2>2, <2>3, <2>5 DEF Recomputed
  <2> QED
    BY <2>4, <2>5
<1>12. ASSUME NEW l \in Lease, FinalizeDone(l) \/ FinalizeFailed(l) PROVE Recomputed
  BY <1>12 DEF FinalizeDone, FinalizeFailed, Forget, EnsureDispatch, Recomputed
<1>13. CASE UNCHANGED <<st, members, bstate, loop, cancelled>>
  BY <1>13 DEF Quiet
<1> QED
  BY <1>1, <1>2, <1>3, <1>4, <1>5, <1>6, <1>7, <1>8, <1>10, <1>11, <1>12, <1>13
  DEF Next, vars, HeartbeatBatch, BatchDeadline, LeaseDeadline, FinalizeStart, tables, batches
----------------------------------------------------------------------------
(* Batches *)

\* What Aggregate says of a batch, in terms of its tasks.
LEMMA AggregateMeans ==
  ASSUME NEW b \in Batch, members[b] # {}, NEW s,
         NEW A, A = Aggregate({s[t] : t \in members[b]})
  PROVE  /\ A \in BatchState \ {"absent"}
         /\ A = "completed" <=> \A t \in members[b] : s[t] = "completed"
         /\ A = "failed" => \A t \in members[b] : s[t] \in Terminal
         /\ (\A t \in members[b] : s[t] \in Terminal) => A \in Terminal
  BY DEF Aggregate, BatchState, Terminal

\* Without batches there is nothing to agree about.
LEMMA BatchInit == Init => BatchInv
  BY DEF Init, BatchInv, Terminal

\* Every step recomputes the batches whose tasks it moves, or moves none of them.
LEMMA BatchStep == LeaseInv /\ BatchInv /\ [Next]_vars => BatchInv'
<1> SUFFICES ASSUME LeaseInv, BatchInv, [Next]_vars PROVE BatchInv'
  OBVIOUS
<1>t. /\ \A b \in Batch : members[b] \subseteq Task
      /\ \A t \in Task : st'[t] = st[t] \/ <<st[t], st'[t]>> \in Moves
  BY TaskMoves DEF LeaseInv, TypeOK
<1>d. \A b \in Batch : bexp'[b] # "none" => bstate'[b] # "absent"
  <2>1. \A b \in Batch : bstate[b] # "absent" => bstate'[b] # "absent"
    <3>1. CASE Accepted
      BY <3>1 DEF Accepted, LeaseInv, TypeOK
    <3>2. CASE Recomputed
      BY <3>2, AggregateType DEF Recomputed, RefreshBatches, Aggregate
    <3>3. CASE Quiet
      BY <3>3 DEF Quiet
    <3> QED
      BY <3>1, <3>2, <3>3, BatchMoves
  <2>2. \A b \in Batch : bexp'[b] # "none" => bexp[b] # "none" \/ bstate'[b] # "absent"
    <3>1. ASSUME NEW c \in Batch, SubmitBatch(c) \/ HeartbeatBatch(c) \/ BatchDeadline(c)
          PROVE  \A b \in Batch : bexp'[b] # "none" => bexp[b] # "none" \/ bstate'[b] # "absent"
      BY <3>1 DEF SubmitBatch, HeartbeatBatch, BatchDeadline, batches, LeaseInv, TypeOK
    <3>2. ASSUME NEW c \in Batch, CancelBatch(c)
          PROVE  \A b \in Batch : bexp'[b] # "none" => bexp[b] # "none"
      BY <3>2 DEF CancelBatch, LeaseInv, TypeOK
    <3>3. CASE ReaperTick
      BY <3>3 DEF ReaperTick
    <3>4. CASE UNCHANGED bexp
      BY <3>4
    <3> QED
      BY <3>1, <3>2, <3>3, <3>4
      DEF Next, vars, timers, DispatchBoot, DispatchEnds, BootDone, BootFailed,
          BindProvisioned, Heartbeat, LeaseDeadline, Complete, FinalizeStart, FinalizeDone,
          FinalizeFailed
  <2> QED
    BY <2>1, <2>2 DEF BatchInv
<1>1. CASE Accepted
  <2>1. PICK b \in Batch, S \in SUBSET Task :
          /\ bstate[b] = "absent" /\ S # {}
          /\ \A t \in S : st[t] = "absent" /\ st'[t] \in {"queued", "failed"}
          /\ \A t \in Task \ S : st'[t] = st[t]
          /\ members' = [members EXCEPT ![b] = S]
          /\ bstate' = [bstate EXCEPT ![b] = "queued"]
          /\ loop' # "idle" /\ cancelled' = cancelled
    BY <1>1 DEF Accepted
  <2>2. /\ members'[b] = S /\ bstate'[b] = "queued"
        /\ \A c \in Batch : c # b => /\ members'[c] = members[c] /\ bstate'[c] = bstate[c]
                                     /\ \A t \in members[c] : st'[t] = st[t]
    BY <2>1, <1>t DEF LeaseInv, TypeOK, BatchInv
  <2>3. ASSUME NEW c \in Batch, c # b
        PROVE  /\ members'[c] = members[c] /\ bstate'[c] = bstate[c]
               /\ \A t \in members[c] : st'[t] = st[t]
    BY <2>2, <2>3
  <2> QED
    BY <2>1, <2>2, <2>3, <1>d DEF BatchInv, Terminal
<1>2. CASE Recomputed
  <2>1. ASSUME NEW b \in Batch, bstate[b] # "absent"
        PROVE  /\ bstate'[b] \in BatchState \ {"absent"}
               /\ bstate'[b] = "completed" <=> \A t \in members[b] : st'[t] = "completed"
               /\ bstate'[b] = "failed" => \A t \in members[b] : st'[t] \in Terminal
               /\ (\A t \in members[b] : st'[t] \in Terminal) => bstate'[b] \in Terminal
    <3>1. bstate'[b] = Aggregate({st'[t] : t \in members[b]}) /\ members[b] # {}
      BY <1>2, <2>1 DEF Recomputed, RefreshBatches, BatchInv
    <3> QED
      BY <3>1, AggregateMeans
  <2>2. \A b \in Batch : bstate[b] = "absent" => bstate'[b] = "absent"
    BY <1>2 DEF Recomputed, RefreshBatches
  <2>3. \A b \in Batch : \A t \in members[b] : st'[t] # "absent"
    BY <1>t DEF BatchInv, Moves
  <2>4. members' = members /\ \A b \in cancelled' \ cancelled : bstate[b] # "absent"
    BY <1>2 DEF Recomputed
  <2> QED
    BY <1>d, <2>1, <2>2, <2>3, <2>4 DEF BatchInv
<1>3. CASE Quiet
  <2>1. UNCHANGED <<members, bstate, loop, cancelled>>
    BY <1>3 DEF Quiet
  <2>2. ASSUME NEW b \in Batch, NEW t \in members[b]
        PROVE  /\ st'[t] # "absent"
               /\ st'[t] = "completed" <=> st[t] = "completed"
               /\ st'[t] \in Terminal <=> st[t] \in Terminal
    BY <1>3, <1>t DEF Quiet, QuietMoves, BatchInv, Terminal
  <2> QED
    BY <2>1, <2>2, <1>d DEF BatchInv
<1> QED
  BY <1>1, <1>2, <1>3, BatchMoves

\* In every state each batch has the state its tasks call for, and its tasks are queued
\* only while the loop that will serve them is alive.
THEOREM BatchInvariant == Spec => []BatchInv
  BY BatchInit, BatchStep, LeaseInit, LeaseStep, PTL DEF Spec

\* GET /v1/batches/{id} never reports COMPLETED or FAILED before every task ended,
\* nor COMPLETED when one of them failed.
THEOREM BatchStateAlwaysTruthful == Spec => []BatchStateTruthful
<1>1. BatchInv => BatchStateTruthful
  BY DEF BatchInv, BatchStateTruthful, Terminal
<1> QED
  BY <1>1, BatchInvariant, PTL

\* No ended task starts again and no reported verdict on a batch is taken back.
THEOREM TerminalAlwaysFinal == Spec => TerminalIsFinal
<1>1. ASSUME LeaseInv, BatchInv, [Next]_vars
      PROVE  /\ \A t \in Task : st[t] \in Terminal => st'[t] = st[t]
             /\ \A b \in Batch : bstate[b] \in Terminal => bstate'[b] = bstate[b]
  <2>1. \A t \in Task : st[t] \in Terminal => st'[t] = st[t]
    BY <1>1, TaskMoves DEF Moves, Terminal
  <2>2. ASSUME NEW b \in Batch, bstate[b] \in Terminal PROVE bstate'[b] = bstate[b]
    <3>1. CASE Accepted
      BY <1>1, <2>2, <3>1 DEF Accepted, LeaseInv, TypeOK, Terminal
    <3>2. CASE Recomputed
      <4>1. bstate'[b] = Aggregate({st'[t] : t \in members[b]}) /\ members[b] # {}
        BY <1>1, <2>2, <3>2 DEF Recomputed, RefreshBatches, BatchInv, Terminal
      <4>2. \A t \in members[b] : t \in Task /\ st[t] \in Terminal
        BY <1>1, <2>2 DEF BatchInv, LeaseInv, TypeOK, Terminal
      <4>3. \A t \in members[b] : st'[t] = st[t]
        BY <2>1, <4>2
      <4>4. /\ bstate'[b] \in Terminal
            /\ bstate'[b] = "completed" <=> \A t \in members[b] : st[t] = "completed"
        BY <4>1, <4>2, <4>3, AggregateMeans
      <4> QED
        BY <1>1, <2>2, <4>1, <4>4 DEF BatchInv, Terminal
    <3>3. CASE Quiet
      BY <3>3 DEF Quiet
    <3> QED
      BY <1>1, <3>1, <3>2, <3>3, BatchMoves
  <2> QED
    BY <2>1, <2>2
<1>2. LeaseInv /\ BatchInv /\ [Next]_vars =>
        [/\ \A t \in Task : st[t] \in Terminal => st'[t] = st[t]
         /\ \A b \in Batch : bstate[b] \in Terminal => bstate'[b] = bstate[b]]_vars
  BY <1>1
<1> QED
  BY <1>2, LeaseInvariant, BatchInvariant, PTL DEF Spec, TerminalIsFinal

\* While a task of a batch is QUEUED the dispatch loop is alive: the event that put
\* it there, or the one that freed its place, started the loop.
THEOREM QueueAlwaysServed == Spec => []QueueIsServed
<1>1. Init => QueueIsServed
  BY DEF Init, QueueIsServed
<1>2. ASSUME LeaseInv, BatchInv, QueueIsServed, [Next]_vars
      PROVE  QueueIsServed'
  <2>1. \A b \in Batch : \A t \in members[b] :
          t \in Task /\ (st'[t] = "queued" => st[t] = "queued")
    BY <1>2, TaskMoves DEF BatchInv, Moves, LeaseInv, TypeOK
  <2>2. CASE Accepted
    BY <2>2 DEF Accepted, QueueIsServed
  <2>3. CASE Recomputed
    BY <1>2, <2>1, <2>3 DEF Recomputed, QueueIsServed
  <2>4. CASE Quiet
    BY <1>2, <2>1, <2>4 DEF Quiet, QueueIsServed
  <2> QED
    BY <1>2, <2>2, <2>3, <2>4, BatchMoves
<1>3. LeaseInv /\ BatchInv /\ QueueIsServed /\ [Next]_vars => QueueIsServed'
  BY <1>2
<1> QED
  BY <1>1, <1>3, LeaseInvariant, BatchInvariant, PTL DEF Spec

\* Once a batch was cancelled, by a client or by the reaper, no task of it waits.
THEOREM CancelledNeverQueued == Spec => []CancelledNotQueued
<1>1. Init => CancelledNotQueued
  BY DEF Init, CancelledNotQueued
<1>2. ASSUME LeaseInv, BatchInv, CancelledNotQueued, [Next]_vars
      PROVE  CancelledNotQueued'
  <2>1. \A b \in Batch : \A t \in members[b] :
          t \in Task /\ (st'[t] = "queued" => st[t] = "queued")
    BY <1>2, TaskMoves DEF BatchInv, Moves, LeaseInv, TypeOK
  <2>2. /\ cancelled \in SUBSET Batch
        /\ \A b \in cancelled : bstate[b] # "absent" /\ b \in Batch
    BY <1>2 DEF BatchInv, LeaseInv, TypeOK
  <2>3. CASE Accepted
    <3>1. \A b \in cancelled : members'[b] = members[b]
      BY <1>2, <2>2, <2>3 DEF Accepted, LeaseInv, TypeOK
    <3> QED
      BY <1>2, <2>1, <2>2, <2>3, <3>1 DEF Accepted, CancelledNotQueued
  <2>4. CASE Recomputed
    <3>1. /\ members' = members
          /\ \A b \in cancelled' \ cancelled : \A t \in members[b] : st'[t] # "queued"
      BY <2>4 DEF Recomputed
    <3> QED
      BY <1>2, <2>1, <2>2, <3>1 DEF CancelledNotQueued
  <2>5. CASE Quiet
    BY <1>2, <2>1, <2>2, <2>5 DEF Quiet, CancelledNotQueued
  <2> QED
    BY <1>2, <2>3, <2>4, <2>5, BatchMoves
<1>3. LeaseInv /\ BatchInv /\ CancelledNotQueued /\ [Next]_vars => CancelledNotQueued'
  BY <1>2
<1> QED
  BY <1>1, <1>3, LeaseInvariant, BatchInvariant, PTL DEF Spec
=============================================================================
