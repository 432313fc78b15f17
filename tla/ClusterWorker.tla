--------------------------- MODULE ClusterWorker ---------------------------
(***************************************************************************)
(* The workers of a cluster (cluster/worker_client.py) and what their      *)
(* schedulers do with the tasks a master assigns (scheduler/core.py).      *)
(* Every assignment is one coroutine, so a worker boots several machines   *)
(* at a time; its reply goes to the connection the assignment came from,   *)
(* even if that one broke in the meantime.                                 *)
(***************************************************************************)
EXTENDS ClusterWire, FiniteSets

CONSTANT MaxLeft \* BOUND: machines that stay on their hosts at a time, nobody looking after them

ASSUME LeftAssumption == MaxLeft \in Nat

VARIABLES job,     \* job[l]: the assignment with lease l, as its worker sees it
          jobTask, \* jobTask[l]: its task
          via,     \* via[l]: the connection it came from
          verdict, \* verdict[l]: the final_status it was completed with
          outcome, \* outcome[l]: what TaskCompleted says, or would have said
          left     \* the leases whose machine stays on the host though the worker is done
                   \* with it: the boot or the teardown raised, or the command that
                   \* removes the container failed and nobody read its exit status

worker == <<job, jobTask, via, verdict, outcome, left>>

JobState == {"none", "booting", "held", "closing", "ended", "gone"}

WorkerInit ==
    /\ job = [l \in Lease |-> "none"]
    /\ jobTask = [l \in Lease |-> None]
    /\ via = [l \in Lease |-> None]
    /\ verdict = [l \in Lease |-> None]
    /\ outcome = [l \in Lease |-> None]
    /\ left = {}

At(l) == via[l][1]

\* The leases whose machine is on worker w: the worker is at work with it, or it was
\* left behind.
Running(w) ==
    {l \in Lease : (job[l] \in {"booting", "held", "closing"} \/ l \in left) /\ At(l) = w}

\* The worker is done with the machine of l, which may stay: qemu.py removes containers
\* with check=False, and neither a boot nor a teardown that raised says what it left.
MayStay(l) ==
    \/ left' = left
    \/ Cardinality(left) < MaxLeft /\ left' = left \cup {l}

\* The scheduler of w has t in its _tasks, whose entries are never removed.
Known(w, t) ==
    \E l \in Lease : job[l] \in {"held", "closing", "ended"} /\ At(l) = w /\ jobTask[l] = t
----------------------------------------------------------------------------
(* Connection *)

\* _connect_once: dial and send Register.
Dial(w) ==
    /\ OpenOf(w) = {}
    /\ \E c \in Conn :
         /\ c[1] = w /\ link[c] = "free"
         /\ link' = [link EXCEPT ![c] = "up"]
         /\ toMaster' = [toMaster EXCEPT ![c] = <<[kind |-> "register"]>>]
    /\ UNCHANGED <<toWorker, worker>>

\* AssignTask: a coroutine of its own starts to boot a machine.
RecvAssign(c) ==
    /\ toWorker[c] # <<>>
    /\ LET frame == Head(toWorker[c]) IN
         /\ frame.kind = "assign"
         /\ job' = [job EXCEPT ![frame.lease] = "booting"]
         /\ jobTask' = [jobTask EXCEPT ![frame.lease] = frame.task]
         /\ via' = [via EXCEPT ![frame.lease] = c]
    /\ toWorker' = [toWorker EXCEPT ![c] = Tail(@)]
    /\ UNCHANGED <<verdict, outcome, left, link, toMaster>>

\* ReleaseLease: complete() of the scheduler, which knows the lease only once the
\* machine is bound.  The answer carries an id nobody waits for, and is left out.
RecvRelease(c) ==
    /\ toWorker[c] # <<>>
    /\ LET l == Head(toWorker[c]).lease IN
         /\ Head(toWorker[c]).kind = "release"
         /\ IF job[l] = "held"
            THEN /\ job' = [job EXCEPT ![l] = "closing"]
                 /\ verdict' = [verdict EXCEPT ![l] = "abandoned"]
            ELSE UNCHANGED <<job, verdict>>
    /\ toWorker' = [toWorker EXCEPT ![c] = Tail(@)]
    /\ UNCHANGED <<jobTask, via, outcome, left, link, toMaster>>
----------------------------------------------------------------------------
(* Booting *)

\* provision_vm returned: bind_provisioned_task, or tear the machine down again
\* when the scheduler has the task id already.
BootDone(l) ==
    /\ job[l] = "booting"
    /\ LET ok == ~Known(At(l), jobTask[l]) IN
         /\ job' = [job EXCEPT ![l] = IF ok THEN "held" ELSE "gone"]
         /\ IF ok THEN left' = left ELSE MayStay(l)
         /\ ToMaster(via[l], [kind |-> "bound", lease |-> l, ok |-> ok])
    /\ UNCHANGED <<jobTask, via, verdict, outcome, link, toWorker>>

\* provision_vm raised (or the image is unknown here).
BootFailed(l) ==
    /\ job[l] = "booting"
    /\ job' = [job EXCEPT ![l] = "gone"]
    /\ MayStay(l)
    /\ ToMaster(via[l], [kind |-> "bound", lease |-> l, ok |-> FALSE])
    /\ UNCHANGED <<jobTask, via, verdict, outcome, link, toWorker>>
----------------------------------------------------------------------------
(* Leases *)

\* A client completes the lease, or its heartbeats stop and the reaper does.
CompleteLease(l, v) ==
    /\ job[l] = "held"
    /\ job' = [job EXCEPT ![l] = "closing"]
    /\ verdict' = [verdict EXCEPT ![l] = v]
    /\ UNCHANGED <<jobTask, via, outcome, left, wire>>

\* X: the hook is skipped when the machine could not be taken down cleanly.
FinalizeX(l) ==
    /\ job[l] = "closing"
    /\ MayStay(l)
    /\ \E clean \in BOOLEAN :
         /\ job' = [job EXCEPT ![l] = "ended"]
         /\ outcome' = [outcome EXCEPT ![l] =
                          IF clean /\ verdict[l] = "completed" THEN "completed" ELSE "failed"]
         /\ toMaster' = [c \in Conn |->
              IF c \in OpenOf(At(l)) /\ clean
              THEN Append(toMaster[c], [kind |-> "completed", lease |-> l,
                                        task |-> jobTask[l], status |-> outcome'[l]])
              ELSE toMaster[c]]
    /\ UNCHANGED <<jobTask, via, verdict, link, toWorker>>

\* X: the notice says that the task is completed, whatever became of the machine.
FinalizeOutcomeX(l) ==
    /\ job[l] = "closing"
    /\ MayStay(l)
    /\ job' = [job EXCEPT ![l] = "ended"]
    /\ outcome' = [outcome EXCEPT ![l] = "completed"]
    /\ toMaster' = [c \in Conn |->
         IF c \in OpenOf(At(l))
         THEN Append(toMaster[c], [kind |-> "completed", lease |-> l,
                                   task |-> jobTask[l], status |-> "completed"])
         ELSE toMaster[c]]
    /\ UNCHANGED <<jobTask, via, verdict, link, toWorker>>

\* X: the notice carries the verdict as the client gave it.
FinalizeRawX(l) ==
    /\ job[l] = "closing"
    /\ MayStay(l)
    /\ job' = [job EXCEPT ![l] = "ended"]
    /\ outcome' = [outcome EXCEPT ![l] = verdict[l]]
    /\ toMaster' = [c \in Conn |->
         IF c \in OpenOf(At(l))
         THEN Append(toMaster[c], [kind |-> "completed", lease |-> l,
                                   task |-> jobTask[l], status |-> verdict[l]])
         ELSE toMaster[c]]
    /\ UNCHANGED <<jobTask, via, verdict, link, toWorker>>

\* _finalize_task and its hook _on_task_finalized: the machine is torn down, then
\* TaskCompleted goes to the connection that is open now, if there is one.  The teardown
\* is clean when destroy_vm returned; the machine may stay either way.
Finalize(l) ==
    /\ job[l] = "closing"
    /\ MayStay(l)
    /\ \E clean \in BOOLEAN :
         /\ job' = [job EXCEPT ![l] = "ended"]
         /\ outcome' = [outcome EXCEPT ![l] =
                          IF clean /\ verdict[l] = "completed" THEN "completed" ELSE "failed"]
         /\ toMaster' = [c \in Conn |->
              IF c \in OpenOf(At(l))
              THEN Append(toMaster[c], [kind |-> "completed", lease |-> l,
                                        task |-> jobTask[l], status |-> outcome'[l]])
              ELSE toMaster[c]]
    /\ UNCHANGED <<jobTask, via, verdict, link, toWorker>>
----------------------------------------------------------------------------
(* Faults *)

\* The connection breaks: network, master handler or idle timeout.
Cut(c) ==
    /\ link[c] = "up"
    /\ Break(c)
    /\ UNCHANGED worker

\* The worker process restarts: its tables are lost, and the containers it left are
\* removed when it starts, again without a look at the result (cleanup_orphaned_state).
Restart(w) ==
    /\ \E l \in Lease : (job[l] \notin {"none", "gone"} \/ l \in left) /\ At(l) = w
    /\ \E stay \in SUBSET Running(w) :
         /\ left' = (left \ Running(w)) \cup stay
         /\ Cardinality(left') <= MaxLeft
    /\ job' = [l \in Lease |-> IF job[l] # "none" /\ At(l) = w THEN "gone" ELSE job[l]]
    /\ \/ OpenOf(w) = {} /\ UNCHANGED wire
       \/ \E c \in OpenOf(w) : Break(c)
    /\ UNCHANGED <<jobTask, via, verdict, outcome>>
=============================================================================
