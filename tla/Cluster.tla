------------------------------ MODULE Cluster ------------------------------
(***************************************************************************)
(* A master and its workers: ClusterMaster and ClusterWorker over the      *)
(* connections of ClusterWire, and the clients that were told of a lease.  *)
(*                                                                         *)
(* Fault names the things that may go wrong: "cut" a connection breaks,    *)
(* "restart" a worker process restarts, "boot" a machine does not start,   *)
(* "slow" a boot outlasts the master's patience, "expire" a client stops   *)
(* its heartbeats (or never started: it was not told of the lease),        *)
(* "cancel" a client cancels its batch.  MaxLeft is a fault too: the       *)
(* machines that stay on a host after they were given up.                  *)
(***************************************************************************)
EXTENDS ClusterMaster, ClusterWorker

CONSTANTS Fault,    \* the faults of this instance
          MaxFault, \* BOUND: connections that break and workers that restart
          ClientVerdict \* the final statuses clients complete a lease with

ASSUME VerdictAssumption ==
    /\ ClientVerdict \subseteq {"completed", "failed", "abandoned"}
    /\ None \notin {"completed", "failed", "abandoned"}

VARIABLES faults,   \* how many did
          told      \* history: the leases a client was told of before they were given back

vars == <<master, worker, wire, faults, told>>

Init == MasterInit /\ WorkerInit /\ WireInit /\ faults = 0 /\ told = {}

\* The frames the master and the workers get.
MasterFrame ==
    [kind : {"register"}]
      \cup [kind : {"bound"}, lease : Lease, ok : BOOLEAN]
      \cup [kind : {"completed"}, lease : Lease, task : Task, status : Terminal]
WorkerFrame ==
    [kind : {"assign"}, lease : Lease, task : Task] \cup [kind : {"release"}, lease : Lease]

TypeOK ==
    /\ arrived \in Seq(Task)
    /\ tstate \in [Task -> {"absent", "queued", "starting", "ready", "completed", "failed"}]
    /\ tlease \in [Task -> Lease \cup {None}]
    /\ assigned \in [Task -> Lease \cup {None}]
    /\ retry \in [Task -> Nat]
    /\ bstate \in [Batch -> {"absent", "queued", "running", "completed", "failed"}]
    /\ owner \in [Lease -> [task : Task, worker : Worker] \cup {None}]
    /\ bound \in SUBSET Lease
    /\ load \in [Worker -> SUBSET Task]
    /\ call \in [Lease -> {"none", "waiting", "bound", "refused", "broken", "over"}]
    /\ runq \in Seq([kind : {"place"}, of : Task] \cup [kind : {"resume"}, of : Lease])
    /\ sess \in [Worker -> [conn : Conn \cup {None}, online : BOOLEAN]]
    /\ serving \in SUBSET Conn
    /\ releasing \in SUBSET Lease
    /\ cancelled \in SUBSET Batch
    /\ link \in [Conn -> {"free", "up", "cut"}]
    /\ toMaster \in [Conn -> Seq(MasterFrame)]
    /\ toWorker \in [Conn -> Seq(WorkerFrame)]
    /\ job \in [Lease -> JobState]
    /\ jobTask \in [Lease -> Task \cup {None}]
    /\ via \in [Lease -> Conn \cup {None}]
    /\ verdict \in [Lease -> {"completed", "failed", "abandoned", None}]
    /\ outcome \in [Lease -> {"completed", "failed", None}]
    /\ left \in SUBSET Lease
    /\ faults \in Nat
    /\ told \in SUBSET Lease
----------------------------------------------------------------------------
(* Steps of the master *)

\* The coroutine at the head of runq runs.
Scheduled ==
    \/ PlaceNone
    \/ \E t \in Task, w \in Worker, l \in Lease : PlaceOn(t, w, l)
    \/ \E l \in Lease : GiveBack(l)

MasterStep ==
    /\ \/ \E b \in Batch : Submit(b)
       \/ \E b \in Batch : "cancel" \in Fault /\ Cancel(b)
       \/ \E l \in Lease : SendRelease(l)
       \/ Scheduled
       \/ \E l \in Lease : "slow" \in Fault /\ Timeout(l)
       \/ \E c \in Conn : HandleRegister(c) \/ HandleBound(c) \/ HandleCompleted(c)
       \/ \E c \in Conn : EndUnregistered(c) \/ Disconnected(c)
    /\ UNCHANGED <<worker, faults, told>>

\* The client that polls the task reads the lease in its assignment.
GrantStep ==
    /\ \E l \in Lease : Grant(l) /\ told' = IF verdict[l] = None THEN told \cup {l} ELSE told
    /\ UNCHANGED <<worker, faults>>

\* Steps of the workers, and of the clients that talk to them.
WorkerStep ==
    /\ \/ \E w \in Worker : Dial(w)
       \/ \E c \in Conn : RecvAssign(c) \/ RecvRelease(c)
       \/ \E l \in Lease : BootDone(l)
       \/ \E l \in Lease : "boot" \in Fault /\ BootFailed(l)
       \/ \E l \in told, v \in ClientVerdict : CompleteLease(l, v)
       \/ \E l \in Lease : "expire" \in Fault /\ CompleteLease(l, "abandoned")
       \/ \E l \in Lease : Finalize(l)
    /\ UNCHANGED <<master, faults, told>>

FaultStep ==
    /\ faults < MaxFault
    /\ \/ \E c \in Conn : "cut" \in Fault /\ Cut(c)
       \/ \E w \in Worker : "restart" \in Fault /\ Restart(w)
    /\ faults' = faults + 1
    /\ UNCHANGED <<master, told>>

Next == MasterStep \/ GrantStep \/ WorkerStep \/ FaultStep

Spec == Init /\ [][Next]_vars

\* What the processes do by themselves: ready coroutines run, frames are read,
\* boots and teardowns end, a broken connection is noticed and dialled again.
\* Nothing is assumed of clients, and no fault is bound to happen.
Fairness ==
    /\ WF_vars(MasterStep /\ Scheduled)
    /\ WF_vars(GrantStep)
    /\ \A c \in Conn :
         /\ WF_vars(MasterStep /\ (HandleRegister(c) \/ HandleBound(c) \/ HandleCompleted(c)))
         /\ WF_vars(MasterStep /\ (EndUnregistered(c) \/ Disconnected(c)))
         /\ WF_vars(WorkerStep /\ (RecvAssign(c) \/ RecvRelease(c)))
    /\ \A w \in Worker : WF_vars(WorkerStep /\ Dial(w))
    /\ \A l \in Lease : /\ WF_vars(WorkerStep /\ (BootDone(l) \/ BootFailed(l)))
                         /\ WF_vars(WorkerStep /\ Finalize(l))

FairSpec == Spec /\ Fairness
----------------------------------------------------------------------------
(* Safety, whatever goes wrong *)

\* The capacity ledger holds nothing back for good: every entry belongs to a lease
\* that is still in the lease table, so the event that removes the lease gives the
\* capacity back, on every path (completion, refusal, timeout, disconnect).
LedgerIsBacked ==
    \A w \in Worker : \A t \in load[w] :
      \E l \in bound : owner[l] = [task |-> t, worker |-> w]

\* The attempt of lease l waits for an answer that can still arrive: its assignment is
\* on the way, or the machine boots, or the reply is on the way; or the connection it
\* was sent on broke, and its handler has yet to find that and to fail the future.
Answerable(l) ==
    \E c \in serving :
      /\ c[1] = owner[l].worker
      /\ \/ link[c] = "cut"
         \/ \E i \in DOMAIN toWorker[c] :
              toWorker[c][i].kind = "assign" /\ toWorker[c][i].lease = l
         \/ job[l] = "booting" /\ via[l] = c
         \/ \E i \in DOMAIN toMaster[c] :
              toMaster[c][i].kind = "bound" /\ toMaster[c][i].lease = l

\* A STARTING task always has the attempt that took it out of the queue at work: the
\* coroutine waits for an answer that can still arrive, without the help of a timeout,
\* or it is among those that are ready to run.  So somebody is left to move the task on.
StartingIsAttended ==
    \A t \in Task : tstate[t] = "starting" =>
      LET l == tlease[t] IN
      /\ l # None
      /\ owner[l].task = t
      /\ \/ call[l] = "waiting" /\ Answerable(l)
         \/ /\ call[l] \in {"bound", "refused", "broken"}
            /\ \E i \in DOMAIN runq : runq[i] = Resume(l)

\* A task is COMPLETED only because a client completed one of its leases and the
\* teardown that followed returned without an error.  (That is all destroy_vm vouches
\* for: the machine may have stayed.)
CompletedIsEarned ==
    \A t \in Task : tstate[t] = "completed" =>
      \E l \in Lease : jobTask[l] = t /\ outcome[l] = "completed" /\ verdict[l] = "completed"

\* The state of a batch is terminal exactly when all its tasks are.  As long as it says
\* QUEUED, none of them has gone further than STARTING (placement recomputes nothing);
\* RUNNING says that one has at least left the queue.
BatchVerdictTruthful ==
    \A b \in Batch : bstate[b] # "absent" =>
      LET S == {tstate[t] : t \in Members(b)} IN
      /\ bstate[b] \in Terminal <=> S \subseteq Terminal
      /\ bstate[b] = "completed" <=> S = {"completed"}
      /\ bstate[b] = "queued" => S \subseteq {"queued", "starting"}
      /\ bstate[b] = "running" => S # {"queued"}

----------------------------------------------------------------------------
(* Liveness, under Fairness *)

\* No task stays STARTING: the attempt is answered, or its connection is found
\* broken and its future fails with it.
StartingEnds == \A t \in Task : tstate[t] = "starting" ~> tstate[t] # "starting"

\* The master learns that a lease it relies on has ended, even if the notice was
\* lost with its connection: then the task is queued again.
EndIsNoticed ==
    \A t \in Task :
      (tstate[t] = "ready" /\ tlease[t] \in bound /\ job[tlease[t]] = "ended")
        ~> (tstate[t] # "ready")

\* A task that waits while an idle worker is online, as after the first worker of a
\* cluster joined, does not wait for ever ("accept, let queue drain when a worker
\* joins", submit_batch).
QueueDrainsOnJoin ==
    \A t \in Task :
      [](tstate[t] = "queued" => \E w \in Worker : Room(w, t)) =>
        (tstate[t] = "queued" ~> tstate[t] # "queued")
----------------------------------------------------------------------------
(* Safety, as long as connections and workers stand *)

\* As long as no connection broke, no worker restarted and every boot was awaited, the
\* ledger covers the machines, whatever is cancelled or expires: what a worker is at
\* work with for the master is in the ledger of that worker.  A machine that was left
\* behind is not: the master was told that its task ended, or was refused.
LedgerCoversMachines ==
    faults = 0 =>
      \A w \in Worker : \A l \in Running(w) \ left : jobTask[l] \in load[w]

\* What the machines of the leases in S ask for of one resource.
Demand(S, r) == FoldSet(LAMBDA l, sum : Need[jobTask[l]][r] + sum, 0, S)

\* Then the machines on a worker fit into it, but for those that were left behind: by
\* no more than these is a worker ever asked for more than it has.
MachinesFit ==
    faults = 0 =>
      \A w \in Worker, r \in Resource :
        Demand(Running(w), r) <= Capacity[w][r] + Demand(Running(w) \cap left, r)

----------------------------------------------------------------------------
(* Safety, in calm weather *)

\* So far no connection broke, no worker restarted, and no lease was given back before
\* its client was told of it: neither did it expire untold, nor was it released for a
\* batch that was cancelled while the task was STARTING.
Calm == faults = 0 /\ \A l \in Lease : verdict[l] # None => l \in told

\* READY means a machine, as long as it is calm: the lease the client is told of is the
\* task's own, is in the lease table (or the proxy could not find it) and its worker
\* has bound it.
ReadyIsBacked ==
    Calm => \A t \in Task : tstate[t] = "ready" =>
      /\ assigned[t] = tlease[t] /\ tlease[t] \in bound
      /\ jobTask[tlease[t]] = t /\ job[tlease[t]] \in {"held", "closing", "ended"}

\* The life of a task as its client sees it: the lease, once granted, is the worker's.
Phase(t) ==
    CASE tstate[t] = "absent" -> "absent"
      [] tstate[t] \in {"queued", "starting"} -> "waiting"
      [] tstate[t] = "completed" -> "done"
      [] tstate[t] = "failed" -> "aborted"
      [] tstate[t] = "ready" ->
           LET l == assigned[t] IN
           CASE job[l] = "closing" -> "closing"
             [] job[l] = "ended" /\ outcome[l] = "completed" -> "done"
             [] job[l] = "ended" /\ outcome[l] = "failed" -> "aborted"
             [] OTHER -> "held"

MachineOf(t) ==
    CASE \E l \in Lease : jobTask[l] = t /\ job[l] \in {"held", "closing"} -> "up"
      [] \E l \in left : jobTask[l] = t
           /\ \A k \in Lease : jobTask[k] = t => job[k] \notin {"held", "closing"} -> "left"
      [] OTHER -> "none"

TL == INSTANCE TaskLifecycle WITH
        NoVerdict <- None,
        phase   <- [t \in Task |-> Phase(t)],
        verdict <- [t \in Task |-> IF assigned[t] = None THEN None ELSE verdict[assigned[t]]],
        machine <- [t \in Task |-> MachineOf(t)]

\* As long as it is calm, master, workers and wire together implement the life of a task.
ImplementsLifecycle == TL!Init /\ [][Calm' => TL!Next]_(TL!vars)
----------------------------------------------------------------------------
(* What the documentation says of tasks, and the program does not do *)

\* "Tasks with retry_count > 2 permanently FAIL" (handle_worker_disconnect).
RetryBudgetIsFinal ==
    [][\A t \in Task : tstate[t] = "failed" /\ retry[t] > 2 => tstate'[t] = "failed"]_vars

\* "COMPLETED: terminal success" (docs/architecture/overview.md).
CompletedIsFinal ==
    [][\A t \in Task : tstate[t] = "completed" => tstate'[t] = "completed"]_vars
=============================================================================
