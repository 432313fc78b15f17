--------------------------- MODULE LifecycleProofs ---------------------------
(***************************************************************************)
(* The scheduler implements TaskLifecycle: every step of LeaseScheduler    *)
(* is, for every task at once, a step of the life of that task.  Rests on  *)
(* LeaseInv, the inductive invariant of LeaseSchedulerProofs.              *)
(***************************************************************************)
EXTENDS LeaseSchedulerProofs

\* The verdict that TaskLifecycle sees of a task.
Ver(t) == IF leaseId[t] = None THEN None ELSE verdict[leaseId[t]]

SameVer(t) == Ver(t)' = Ver(t)
SameVm(t)  == vm'[t] = vm[t]

\* What a step may do to one task, its verdict and its machine.
LifeStep(t) ==
    \/ st'[t] = st[t] /\ SameVer(t) /\ SameVm(t)
    \/ /\ <<st[t], st'[t]>> \in {<<"absent", "queued">>, <<"absent", "failed">>, <<"ready", "leased">>}
       /\ SameVer(t) /\ SameVm(t)
    \/ /\ <<st[t], st'[t]>> \in {<<"queued", "starting">>, <<"queued", "failed">>, <<"starting", "failed">>}
       /\ SameVer(t)
    \/ /\ st[t] \in {"absent", "starting"} /\ st'[t] = "ready"
       /\ SameVer(t) /\ vm'[t] = "up"
    \/ /\ st[t] \in Held /\ st'[t] = "resetting"
       /\ Ver(t) = None /\ Ver(t)' # None /\ SameVm(t)
    \/ /\ st[t] = "resetting" /\ st'[t] = "completed"
       /\ Ver(t) = "completed" /\ SameVer(t) /\ vm'[t] # "up"
    \/ /\ st[t] = "resetting" /\ st'[t] = "failed" /\ SameVer(t)
----------------------------------------------------------------------------
\* Cancellation, completion and the reaper give machines back, each with a verdict, and
\* touch nothing else but the queue.
LEMMA CloseLife ==
  ASSUME LeaseInv, NEW F, F \subseteq Queued, NEW C, C \subseteq Closable,
         NEW v \in Verdict, st' = After(F, C), Close(C, v), UNCHANGED <<leaseId, vm>>,
         NEW t \in Task
  PROVE  LifeStep(t)
<1> USE ConstantAssumption DEF LeaseInv
<1>1. \/ st[t] = "queued" /\ st'[t] = "failed" /\ \A l \in C : leases[l] # t
      \/ /\ st[t] \in Held /\ st'[t] = "resetting"
         /\ leaseId[t] \in C
      \/ st'[t] = st[t] /\ \A l \in C : leases[l] # t
  BY DEF After, Queued, Closable, TypeOK, TaskState, LeaseTableAgrees, Held
<1>2. \A l \in C : verdict[l] = None /\ verdict'[l] = v /\ leaseId[leases[l]] = l /\ leases[l] \in Task
                   /\ l \in Lease
  BY ClosableIsOpen DEF Close, Closable, HistoryInv, LeaseTableAgrees, TypeOK
<1>3. \A l \in Lease \ C : verdict'[l] = verdict[l]
  BY DEF Close
<1>4. \A l \in C : leases[l] # t => leaseId[t] # l
  BY <1>2 DEF HistoryInv
<1>5. (\A l \in C : leases[l] # t) => SameVer(t)
  BY <1>2, <1>3, <1>4 DEF SameVer, Ver, TypeOK
<1>6. leaseId[t] \in C => Ver(t) = None /\ Ver(t)' # None
  BY <1>2 DEF Ver, Verdict
<1> QED
  BY <1>1, <1>5, <1>6 DEF LifeStep, SameVm

\* A machine is granted with a lease that has no verdict yet.
LEMMA BindLife ==
  ASSUME LeaseInv, NEW u \in Task, NEW l \in Lease \ issued, st[u] \in {"absent", "starting"},
         leaseId' = [leaseId EXCEPT ![u] = l], vm' = [vm EXCEPT ![u] = "up"],
         st' = [st EXCEPT ![u] = "ready"], UNCHANGED verdict,
         NEW t \in Task
  PROVE  LifeStep(t)
<1> USE ConstantAssumption DEF LeaseInv
<1>1. leaseId[u] = None /\ verdict[l] = None /\ l # None
  BY DEF HistoryInv, LifeInv, TypeOK
<1>2. CASE t = u
  <2>1. st'[t] = "ready" /\ vm'[t] = "up" /\ leaseId'[t] = l
    BY <1>2 DEF TypeOK
  <2>2. SameVer(t)
    BY <1>1, <1>2, <2>1 DEF SameVer, Ver
  <2> QED
    BY <1>2, <2>1, <2>2 DEF LifeStep
<1>3. CASE t # u
  <2>1. st'[t] = st[t] /\ vm'[t] = vm[t] /\ leaseId'[t] = leaseId[t]
    BY <1>3 DEF TypeOK
  <2> QED
    BY <2>1 DEF LifeStep, SameVer, SameVm, Ver
<1> QED
  BY <1>2, <1>3

\* A finalizer ends its own task; the teardown of a COMPLETED one went through.
LEMMA ForgetLife ==
  ASSUME LeaseInv, NEW l \in Lease, fin[l] = "destroying", NEW outcome \in Terminal,
         Forget(l, leases[l], outcome), UNCHANGED <<leaseId, verdict>>,
         NEW left, vm' = [vm EXCEPT ![leases[l]] = left],
         outcome = "completed" => verdict[l] = "completed" /\ left # "up",
         NEW t \in Task
  PROVE  LifeStep(t)
<1> USE ConstantAssumption DEF LeaseInv
<1>1. leases[l] \in Task /\ st[leases[l]] = "resetting" /\ leaseId[leases[l]] = l /\ l # None
  BY DEF LeasedMachineRuns, LeaseTableAgrees, TypeOK
<1>2. SameVer(t)
  BY DEF SameVer, Ver
<1>3. CASE t = leases[l]
  BY <1>1, <1>2, <1>3 DEF Forget, LifeStep, Ver, TypeOK, Terminal
<1>4. CASE t # leases[l]
  BY <1>1, <1>2, <1>4 DEF Forget, LifeStep, SameVm, TypeOK
<1> QED
  BY <1>3, <1>4

\* Every step of the scheduler is a step in the life of every task.
LEMMA StepIsLife ==
  ASSUME LeaseInv, [Next]_vars, NEW t \in Task
  PROVE  LifeStep(t)
<1> USE ConstantAssumption
<1>1. ASSUME NEW b \in Batch, SubmitBatch(b) PROVE LifeStep(t)
  <2>1. PICK S \in SUBSET Task :
          /\ \A u \in S : st[u] = "absent"
          /\ st' = [u \in Task |-> IF u \notin S THEN st[u]
                                   ELSE IF u \in TooBig THEN "failed" ELSE "queued"]
    BY <1>1, StoredIsNew
  <2>2. SameVer(t) /\ SameVm(t)
    BY <1>1 DEF SubmitBatch, SameVer, SameVm, Ver, machine
  <2> QED
    BY <2>1, <2>2 DEF LifeStep
<1>2. ASSUME UNCHANGED <<st, leaseId, verdict, vm>> PROVE LifeStep(t)
  BY <1>2 DEF LifeStep, SameVer, SameVm, Ver
<1>3. ASSUME NEW b \in Batch, CancelBatch(b) PROVE LifeStep(t)
  <2>1. QueuedIn({b}) \subseteq Queued /\ LeasesIn({b}) \subseteq Closable
    BY DEF QueuedIn, Queued, LeasesIn
  <2> QED
    BY <1>3, <2>1, CloseLife DEF CancelBatch, machine, Verdict
<1>4. CASE DispatchBoot
  <2>1. PICK u \in Routable : /\ st' = [After(Unroutable, {}) EXCEPT ![u] = "starting"]
                              /\ vm' = [vm EXCEPT ![u] = "booting"]
    BY <1>4 DEF DispatchBoot
  <2>2. SameVer(t)
    BY <1>4 DEF DispatchBoot, SameVer, Ver
  <2>3. \/ t = u /\ st[t] = "queued" /\ st'[t] = "starting"
        \/ t # u /\ st[t] = "queued" /\ st'[t] = "failed"
        \/ t # u /\ st'[t] = st[t]
    BY <2>1 DEF After, Unroutable, Routable, Queued
  <2>4. t # u => vm'[t] = vm[t]
    BY <2>1 DEF LeaseInv, TypeOK
  <2> QED
    BY <2>2, <2>3, <2>4 DEF LifeStep, SameVm
<1>5. CASE DispatchEnds
  <2>1. \/ st[t] = "queued" /\ st'[t] = "failed"
        \/ st'[t] = st[t]
    BY <1>5 DEF DispatchEnds, After, Unroutable, Queued
  <2> QED
    BY <1>5, <2>1 DEF DispatchEnds, machine, LifeStep, SameVer, SameVm, Ver
<1>6. CASE BootFailed
  <2>1. cur \in Task /\ st[cur] = "starting"
    BY <1>6 DEF BootFailed, LeaseInv, BootInv, OneBoot
  <2>2. \E left : vm' = [vm EXCEPT ![cur] = left]
    BY <1>6 DEF BootFailed
  <2>3. t # cur => st'[t] = st[t] /\ vm'[t] = vm[t]
    BY <1>6, <2>1, <2>2 DEF BootFailed, LeaseInv, TypeOK
  <2>4. t = cur => st[t] = "starting" /\ st'[t] = "failed"
    BY <1>6, <2>1 DEF BootFailed, LeaseInv, TypeOK
  <2> QED
    BY <1>6, <2>3, <2>4 DEF BootFailed, LifeStep, SameVer, SameVm, Ver
<1>7. ASSUME NEW l \in Lease, BootDone(l) PROVE LifeStep(t)
  <2>1. cur \in Task /\ st[cur] = "starting"
    BY <1>7 DEF BootDone, LeaseInv, BootInv, OneBoot
  <2> QED
    BY <1>7, <2>1, BindLife DEF BootDone
<1>8. ASSUME NEW u \in Task, NEW l \in Lease, BindProvisioned(u, l) PROVE LifeStep(t)
  BY <1>8, BindLife DEF BindProvisioned
<1>9. ASSUME NEW l \in Lease, Heartbeat(l) PROVE LifeStep(t)
  <2>1. \/ st'[t] = st[t]
        \/ st[t] = "ready" /\ st'[t] = "leased"
    BY <1>9 DEF Heartbeat, LeaseInv, TypeOK
  <2> QED
    BY <1>9, <2>1 DEF Heartbeat, machine, LifeStep, SameVer, SameVm, Ver
<1>10. ASSUME NEW l \in Lease, NEW v \in ClientVerdict, Complete(l, v) PROVE LifeStep(t)
  <2>1. v \in Verdict /\ {} \subseteq Queued /\ {l} \subseteq Closable
    BY <1>10 DEF Complete, Verdict
  <2> QED
    BY <1>10, <2>1, CloseLife DEF Complete, machine
<1>11. CASE ReaperTick
  <2> DEFINE dead    == {b \in Batch : bexp[b] = "expired"}
             closing == {l \in Closable : ~fresh[l]} \cup LeasesIn(dead)
  <2>1. QueuedIn(dead) \subseteq Queued /\ closing \subseteq Closable
    BY DEF QueuedIn, Queued, LeasesIn
  <2>2. st' = After(QueuedIn(dead), closing) /\ Close(closing, "abandoned") /\ UNCHANGED <<leaseId, vm>>
    BY <1>11 DEF ReaperTick, machine
  <2>3. "abandoned" \in Verdict
    BY DEF Verdict
  <2> HIDE DEF dead, closing
  <2> QED
    BY <2>1, <2>2, <2>3, CloseLife
<1>12. ASSUME NEW l \in Lease, FinalizeDone(l) PROVE LifeStep(t)
  <2> DEFINE outcome == IF verdict[l] = "completed" THEN "completed" ELSE "failed"
  <2>1. handle[leases[l]] # "none"
    BY <1>12 DEF FinalizeDone, LeaseInv, LeasedMachineRuns, LeaseTableAgrees, TypeOK
  <2>2. PICK left : left # "up" /\ vm' = [vm EXCEPT ![leases[l]] = left]
    BY <1>12, <2>1 DEF FinalizeDone, TornDown
  <2>3. outcome \in Terminal /\ Forget(l, leases[l], outcome) /\ fin[l] = "destroying"
        /\ UNCHANGED <<leaseId, verdict>>
    BY <1>12 DEF FinalizeDone, Terminal
  <2>4. outcome = "completed" => verdict[l] = "completed"
    OBVIOUS
  <2> HIDE DEF outcome
  <2> QED
    BY <2>2, <2>3, <2>4, ForgetLife
<1>13. ASSUME NEW l \in Lease, FinalizeFailed(l) PROVE LifeStep(t)
  <2>1. PICK left : vm' = [vm EXCEPT ![leases[l]] = left]
    BY <1>13 DEF FinalizeFailed
  <2>2. "failed" \in Terminal /\ Forget(l, leases[l], "failed") /\ fin[l] = "destroying"
        /\ UNCHANGED <<leaseId, verdict>>
    BY <1>13 DEF FinalizeFailed, Terminal
  <2> QED
    BY <2>1, <2>2, ForgetLife
<1> QED
  BY <1>1, <1>2, <1>3, <1>4, <1>5, <1>6, <1>7, <1>8, <1>9, <1>10, <1>11, <1>12, <1>13
  DEF Next, vars, HeartbeatBatch, BatchDeadline, LeaseDeadline, FinalizeStart, tables, machine
----------------------------------------------------------------------------
\* A task has a phase of TaskLifecycle in each of its states.
LEMMA PhaseOf ==
  ASSUME NEW t \in Task
  PROVE  /\ st[t] = "absent" => Phase(t) = "absent"
         /\ st[t] \in {"queued", "starting"} => Phase(t) = "waiting"
         /\ st[t] \in Held => Phase(t) = "held"
         /\ st[t] = "resetting" => Phase(t) = "closing"
         /\ st[t] = "completed" => Phase(t) = "done"
         /\ st[t] = "failed" => Phase(t) = "aborted"
  BY DEF Phase, Held

\* The same of the state after a step.
LEMMA PhaseNext ==
  ASSUME NEW t \in Task
  PROVE  /\ st'[t] = "absent" => Phase(t)' = "absent"
         /\ st'[t] \in {"queued", "starting"} => Phase(t)' = "waiting"
         /\ st'[t] \in Held => Phase(t)' = "held"
         /\ st'[t] = "resetting" => Phase(t)' = "closing"
         /\ st'[t] = "completed" => Phase(t)' = "done"
         /\ st'[t] = "failed" => Phase(t)' = "aborted"
  BY DEF Phase, Held

\* The life of a task as TaskLifecycle writes it.
LEMMA LifeIsStep ==
  ASSUME LeaseInv, NEW t \in Task, LifeStep(t)
  PROVE  TL!Step(t)
<1> DEFINE ph == [u \in Task |-> Phase(u)]
           ve == [u \in Task |-> Ver(u)]
           ma == [u \in Task |-> MachineOf(u)]
<1>1. /\ ph[t] = Phase(t) /\ ph'[t] = Phase(t)'
      /\ ve[t] = Ver(t) /\ ve'[t] = Ver(t)'
      /\ ma[t] = MachineOf(t) /\ ma'[t] = MachineOf(t)'
  OBVIOUS
<1>2. /\ ph = [u \in Task |-> Phase(u)]
      /\ ve = [u \in Task |-> IF leaseId[u] = None THEN None ELSE verdict[leaseId[u]]]
      /\ ma = [u \in Task |-> MachineOf(u)]
  BY DEF Ver
<1>3. st'[t] = st[t] => Phase(t)' = Phase(t)
  BY DEF Phase
<1>4. SameVm(t) => MachineOf(t)' = MachineOf(t)
  BY DEF SameVm, MachineOf
<1>5. MachineOf(t)' = "up" <=> vm'[t] = "up"
  BY DEF MachineOf
<1> QED
  BY <1>1, <1>3, <1>4, <1>5, PhaseOf, PhaseNext
  DEF LifeStep, SameVer, Ver, TL!Step, TL!Accept, TL!Wait, TL!Grant, TL!GiveUp, TL!Return,
      TL!Finish, TL!Abort, TL!Rest, TL!Move, TL!SameVerdict, Held

\* Whatever races, every task lives the life that TaskLifecycle promises: one machine,
\* one verdict, one end, and a success only once the teardown went through.
THEOREM SchedulerImplementsLifecycle == Spec => ImplementsLifecycle
<1>1. ASSUME Init PROVE TL!Init
  <2>1. \A t \in Task : Phase(t) = "absent" /\ leaseId[t] = None /\ MachineOf(t) = "none"
    BY <1>1, PhaseOf DEF Init, MachineOf
  <2> QED
    BY <2>1 DEF TL!Init
<1>2. LeaseInv /\ [Next]_vars => [TL!Next]_(TL!vars)
  <2>1. ASSUME LeaseInv, [Next]_vars PROVE TL!Next
    BY <2>1, StepIsLife, LifeIsStep DEF TL!Next
  <2> QED
    BY <2>1
<1> QED
  BY <1>1, <1>2, LeaseInvariant, PTL DEF Spec, ImplementsLifecycle, TL!Spec
=============================================================================
