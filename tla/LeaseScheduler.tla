--------------------------- MODULE LeaseScheduler ---------------------------
(***************************************************************************)
(* The task / batch / lease scheduler of one cua-house process             *)
(* (scheduler/core.py, class EnvScheduler).  It serves two flows at once:  *)
(* batches submitted over HTTP, whose tasks its own dispatch loop boots    *)
(* one after the other, and tasks a cluster worker binds to it after       *)
(* booting them on behalf of a master.                                     *)
(*                                                                         *)
(* Grain of atomicity.  The process is one asyncio event loop and the      *)
(* scheduler's lock is never held across a suspension, so everything       *)
(* between two suspensions is one step here.  The suspensions are the boot *)
(* of a machine, its destruction, the start of a finalizer created with    *)
(* create_task, and the sleep of the reaper.                               *)
(*                                                                         *)
(* Time is a flag: a deadline is either ahead ("fresh", "live") or past,   *)
(* and passes at any moment.  Runtime errors are choices: a boot and a     *)
(* teardown may each raise, and the command that removes a machine may     *)
(* fail without anybody noticing (both runtimes run it with check=False).  *)
(***************************************************************************)
EXTENDS Naturals, Sequences

CONSTANTS Task,    \* task ids a client or a master may name
          Batch,   \* batch ids a client may name
          Lease,   \* lease ids (uuid4: every bind draws an unused one)
          None,    \* no lease, no task, no verdict
          Request, \* Request[b]: the task ids of the POST that names batch b
          External,\* the task ids a master may bind here
          Unknown, \* tasks whose snapshot_name is in no image catalog
          TooBig,  \* tasks that exceed the capacity of the whole host
          Route,   \* Route[t]: the runtime of its image, "none" if there is none
          ClientVerdict \* the final statuses clients complete a lease with

\* BatchCreateRequest refuses an empty request and a repeated task id.
ASSUME RequestAssumption ==
    /\ Request \in [Batch -> Seq(Task)]
    /\ \A b \in Batch :
         /\ Request[b] # <<>>
         /\ \A i, j \in 1..Len(Request[b]) : Request[b][i] = Request[b][j] => i = j

ASSUME ConstantAssumption ==
    /\ None \notin Task /\ None \notin Lease
    /\ None \notin {"completed", "failed", "abandoned"}
    /\ External \subseteq Task /\ Unknown \subseteq Task /\ TooBig \subseteq Task
    /\ Route \in [Task -> {"local", "gcp", "none"}]
    /\ ClientVerdict \subseteq {"completed", "failed", "abandoned"}

VARIABLES
    arrived,  \* _tasks: the ids in it, in order of insertion
    st,       \* st[t]: task.state, "absent" while t is not in _tasks
    leaseId,  \* leaseId[t]: task.lease_id
    leases,   \* leases[l]: the task of lease l in _leases, None if l is not there
    issued,   \* the lease ids drawn so far
    fresh,    \* fresh[l]: lease l is in _leases and its expires_at is in the future
    verdict,  \* verdict[l]: lease.final_status, as its finalizer captured it
    fin,      \* fin[l]: the _finalize_task coroutine of lease l
    handle,   \* handle[t]: the table that holds the machine's handle
    vm,       \* vm[t]: the machine booted for t, as the host sees it ("unremoved": the
              \* command that removes it ran, failed, and nobody read its exit status)
    loop,     \* _dispatch_task: not running, scanning _tasks, or booting
    cur,      \* the task the dispatch loop is booting
    members,  \* members[b]: the tasks of batch.tasks
    bstate,   \* bstate[b]: batch.state, "absent" while b is not in _batches
    bexp,     \* bexp[b]: its deadline in _batch_expires_at
    cancelled \* history: the batches that were cancelled

tables  == <<arrived, st, leaseId, leases, issued>>
timers  == <<fresh, bexp>>
machine == <<handle, vm>>
batches == <<members, bstate>>
vars == <<arrived, st, leaseId, leases, issued, fresh, verdict, fin, handle, vm,
          loop, cur, members, bstate, bexp, cancelled>>

TaskState  == {"absent", "queued", "starting", "ready", "leased", "resetting",
               "completed", "failed"}
BatchState == {"absent", "queued", "running", "completed", "failed"}
Held       == {"ready", "leased"}
Terminal   == {"completed", "failed"}
Verdict    == {"completed", "failed", "abandoned"}

\* What becomes of a machine whose teardown returned: docker rm -f and gcloud
\* instances delete may have failed all the same.
TornDown == {"gone", "unremoved"}

TypeOK ==
    /\ arrived \in Seq(Task)
    /\ st \in [Task -> TaskState]
    /\ leaseId \in [Task -> Lease \cup {None}]
    /\ leases \in [Lease -> Task \cup {None}]
    /\ issued \in SUBSET Lease
    /\ fresh \in [Lease -> BOOLEAN]
    /\ verdict \in [Lease -> Verdict \cup {None}]
    /\ fin \in [Lease -> {"none", "spawned", "destroying", "ended"}]
    /\ handle \in [Task -> {"none", "local", "gcp"}]
    /\ vm \in [Task -> {"none", "booting", "up", "unremoved", "gone"}]
    /\ loop \in {"idle", "scan", "boot"}
    /\ cur \in Task \cup {None}
    /\ members \in [Batch -> SUBSET Task]
    /\ bstate \in [Batch -> BatchState]
    /\ bexp \in [Batch -> {"none", "live", "expired"}]
    /\ cancelled \in SUBSET Batch

Init ==
    /\ arrived = <<>>
    /\ st = [t \in Task |-> "absent"]
    /\ leaseId = [t \in Task |-> None]
    /\ leases = [l \in Lease |-> None]
    /\ issued = {}
    /\ fresh = [l \in Lease |-> FALSE]
    /\ verdict = [l \in Lease |-> None]
    /\ fin = [l \in Lease |-> "none"]
    /\ handle = [t \in Task |-> "none"]
    /\ vm = [t \in Task |-> "none"]
    /\ loop = "idle"
    /\ cur = None
    /\ members = [b \in Batch |-> {}]
    /\ bstate = [b \in Batch |-> "absent"]
    /\ bexp = [b \in Batch |-> "none"]
    /\ cancelled = {}
----------------------------------------------------------------------------
(* Helpers *)

\* (Names ending in a capital X are broken variants that the mutation runs put in
\* the place of the definition that follows them.)

\* X: one failed task fails the batch while others still run.
AggregateX(S) ==
    CASE S \subseteq {"completed"} -> "completed"
      [] "failed" \in S -> "failed"
      [] S = {"queued"} -> "queued"
      [] OTHER -> "running"

\* The state of a batch, from the states of its tasks.  The order of the tests
\* matters: a batch with a failed and a queued task is still running.
Aggregate(S) ==
    CASE S \subseteq {"completed"} -> "completed"
      [] "failed" \in S /\ S \subseteq Terminal -> "failed"
      [] S = {"queued"} -> "queued"
      [] OTHER -> "running"

\* _refresh_batch_states_locked: every batch is recomputed, in every state s.
RefreshBatches(s) ==
    bstate' = [b \in Batch |->
                 IF bstate[b] = "absent" THEN "absent"
                 ELSE Aggregate({s[t] : t \in members[b]})]

\* X: the loop is started for the first batch only.
EnsureDispatchOnceX == loop' = IF arrived = <<>> THEN "scan" ELSE loop

\* X: a second loop is started beside one that is still booting.
EnsureDispatchTwiceX == loop' = "scan"

\* _ensure_dispatch: start the dispatch loop unless one is alive.
EnsureDispatch == loop' = IF loop = "idle" THEN "scan" ELSE loop

\* X: a lease that is being torn down is closed again.
ClosableX == {l \in Lease : leases[l] # None /\ st[leases[l]] \notin Terminal}

\* The leases whose completion is not under way yet; complete() answers for
\* the others and changes nothing.
Closable == {l \in Lease : leases[l] # None
                           /\ st[leases[l]] \notin {"completed", "failed", "resetting"}}

\* The task states after some queued tasks failed and some leases were closed.
After(failing, closing) ==
    [t \in Task |-> IF t \in failing THEN "failed"
                    ELSE IF \E l \in closing : leases[l] = t THEN "resetting"
                    ELSE st[t]]

\* The effect of complete() on a set of closable leases: one finalizer each.
Close(closing, v) ==
    /\ verdict' = [l \in Lease |-> IF l \in closing THEN v ELSE verdict[l]]
    /\ fin' = [l \in Lease |-> IF l \in closing THEN "spawned" ELSE fin[l]]

\* X: cancelling fails every task that is not at work, ended ones included.
QueuedInAllX(bs) == {t \in Task : st[t] \in {"queued", "completed", "failed"}
                                  /\ \E b \in bs : t \in members[b]}

\* What cancel_batch does to the members of the batches bs.  A task that is
\* STARTING is in neither set: cancellation leaves it alone.
QueuedIn(bs) == {t \in Task : st[t] = "queued" /\ \E b \in bs : t \in members[b]}
LeasesIn(bs) ==
    {l \in Closable : \E b \in bs : \E t \in members[b] : st[t] \in Held /\ leaseId[t] = l}

----------------------------------------------------------------------------
(* Batches *)

\* The i-th task of the request raises ValueError: an id already taken or an
\* image nobody knows.
Refused(b, i) == Request[b][i] \in Unknown \/ st[Request[b][i]] # "absent"

\* POST /v1/batches.  The tasks enter _tasks one after the other, so a request
\* that is refused at its (n+1)-th task has already stored the n before it: they
\* stay QUEUED, in no batch.  A task no host could serve is stored FAILED.
SubmitBatch(b) ==
    /\ bstate[b] = "absent"
    /\ \E n \in 0..Len(Request[b]) :
         LET stored == {Request[b][i] : i \in 1..n} IN
         /\ \A i \in 1..n : ~Refused(b, i)
         /\ n < Len(Request[b]) => Refused(b, n + 1)
         /\ arrived' = arrived \o SubSeq(Request[b], 1, n)
         /\ st' = [t \in Task |-> IF t \notin stored THEN st[t]
                                  ELSE IF t \in TooBig THEN "failed" ELSE "queued"]
         /\ IF n = Len(Request[b])
            THEN /\ members' = [members EXCEPT ![b] = stored]
                 /\ bstate' = [bstate EXCEPT ![b] = "queued"]
                 /\ bexp' = [bexp EXCEPT ![b] = "live"]
                 /\ EnsureDispatch
            ELSE UNCHANGED <<members, bstate, bexp, loop>>
    /\ UNCHANGED <<leaseId, leases, issued, fresh, verdict, fin, machine, cur, cancelled>>

\* POST /v1/batches/{id}/heartbeat: also for a batch that is over or cancelled.
HeartbeatBatch(b) ==
    /\ bstate[b] # "absent"
    /\ bexp' = [bexp EXCEPT ![b] = "live"]
    /\ UNCHANGED <<tables, fresh, verdict, fin, machine, loop, cur, batches, cancelled>>

BatchDeadline(b) ==
    /\ bexp[b] = "live"
    /\ bexp' = [bexp EXCEPT ![b] = "expired"]
    /\ UNCHANGED <<tables, fresh, verdict, fin, machine, loop, cur, batches, cancelled>>

\* POST /v1/batches/{id}/cancel.
CancelBatch(b) ==
    /\ bstate[b] # "absent"
    /\ st' = After(QueuedIn({b}), LeasesIn({b}))
    /\ Close(LeasesIn({b}), "abandoned")
    /\ RefreshBatches(st')
    /\ bexp' = [bexp EXCEPT ![b] = "none"]
    /\ cancelled' = cancelled \cup {b}
    /\ UNCHANGED <<arrived, leaseId, leases, issued, fresh, machine, loop, cur, members>>
----------------------------------------------------------------------------
(* The dispatch loop *)

Queued == {t \in Task : st[t] = "queued"}

\* t entered _tasks before u.
Before(t, u) ==
    \E i, j \in 1..Len(arrived) : i < j /\ arrived[i] = t /\ arrived[j] = u

Routable == {t \in Queued : Route[t] # "none"}

\* The first routable task in order of creation: the loop stops on it.
Candidate(t) == t \in Routable /\ \A u \in Routable \ {t} : Before(t, u)

\* The tasks the loop passes on its way there, and fails for want of a runtime.
Unroutable == {t \in Queued \ Routable : \A u \in Routable : Before(t, u)}

\* One run of the loop, from one suspension to the next.
DispatchBoot ==
    /\ loop = "scan"
    /\ \E t \in Routable :
         /\ Candidate(t)
         /\ st' = [After(Unroutable, {}) EXCEPT ![t] = "starting"]
         /\ cur' = t
         /\ vm' = [vm EXCEPT ![t] = "booting"]
    /\ loop' = "boot"
    /\ RefreshBatches(st')
    /\ UNCHANGED <<arrived, leaseId, leases, issued, timers, verdict, fin, handle,
                   members, cancelled>>

DispatchEnds ==
    /\ loop = "scan"
    /\ Routable = {}
    /\ st' = After(Unroutable, {})
    /\ loop' = "idle"
    /\ RefreshBatches(st')
    /\ UNCHANGED <<arrived, leaseId, leases, issued, timers, verdict, fin, machine, cur,
                   members, cancelled>>

\* provision_vm (or start_slot) returned a machine: bind it to the task.  The
\* branch for a task that is no longer STARTING tears the machine down again.
BootDone(l) ==
    /\ loop = "boot"
    /\ l \in Lease \ issued
    /\ loop' = "scan"
    /\ cur' = None
    /\ IF st[cur] = "starting"
       THEN /\ issued' = issued \cup {l}
            /\ leases' = [leases EXCEPT ![l] = cur]
            /\ leaseId' = [leaseId EXCEPT ![cur] = l]
            /\ fresh' = [fresh EXCEPT ![l] = TRUE]
            /\ handle' = [handle EXCEPT ![cur] = Route[cur]]
            /\ vm' = [vm EXCEPT ![cur] = "up"]
            /\ st' = [st EXCEPT ![cur] = "ready"]
            /\ RefreshBatches(st')
       ELSE /\ \E left \in TornDown : vm' = [vm EXCEPT ![cur] = left]
            /\ UNCHANGED <<st, leaseId, leases, issued, fresh, handle, bstate>>
    /\ UNCHANGED <<arrived, bexp, verdict, fin, members, cancelled>>

\* X: the exception of the boot ends the loop.
BootFailedX ==
    /\ loop = "boot"
    /\ loop' = "idle"
    /\ cur' = None
    /\ \E left \in {"gone", "up"} : vm' = [vm EXCEPT ![cur] = left]
    /\ st' = [st EXCEPT ![cur] = IF @ = "starting" THEN "failed" ELSE @]
    /\ RefreshBatches(st')
    /\ UNCHANGED <<arrived, leaseId, leases, issued, timers, verdict, fin, handle,
                   members, cancelled>>

\* The boot raised.  The machine may be there all the same: the local runtime removes
\* its container with check=False, and not at all when a step before the wait for the
\* guest raises; start_slot of the cloud runtime can raise with the instance running.
BootFailed ==
    /\ loop = "boot"
    /\ loop' = "scan"
    /\ cur' = None
    /\ \E left \in {"gone", "up"} : vm' = [vm EXCEPT ![cur] = left]
    /\ st' = [st EXCEPT ![cur] = IF @ = "starting" THEN "failed" ELSE @]
    /\ RefreshBatches(st')
    /\ UNCHANGED <<arrived, leaseId, leases, issued, timers, verdict, fin, handle,
                   members, cancelled>>

\* bind_provisioned_task: the cluster worker booted a machine for a task of the
\* master.  The task joins no batch of this process; an id already in _tasks
\* raises (and the worker destroys the machine).
BindProvisioned(t, l) ==
    /\ t \in External
    /\ st[t] = "absent"
    /\ l \in Lease \ issued
    /\ issued' = issued \cup {l}
    /\ arrived' = Append(arrived, t)
    /\ st' = [st EXCEPT ![t] = "ready"]
    /\ leases' = [leases EXCEPT ![l] = t]
    /\ leaseId' = [leaseId EXCEPT ![t] = l]
    /\ fresh' = [fresh EXCEPT ![l] = TRUE]
    /\ handle' = [handle EXCEPT ![t] = "local"]
    /\ vm' = [vm EXCEPT ![t] = "up"]
    /\ UNCHANGED <<bexp, verdict, fin, loop, cur, batches, cancelled>>
----------------------------------------------------------------------------
(* Leases *)

\* POST /v1/leases/{id}/heartbeat.  A lease that is being closed is renewed too.
Heartbeat(l) ==
    /\ leases[l] # None
    /\ fresh' = [fresh EXCEPT ![l] = TRUE]
    /\ st' = [st EXCEPT ![leases[l]] = IF @ = "ready" THEN "leased" ELSE @]
    /\ UNCHANGED <<arrived, leaseId, leases, issued, bexp, verdict, fin, machine, loop,
                   cur, batches, cancelled>>

LeaseDeadline(l) ==
    /\ leases[l] # None
    /\ fresh[l]
    /\ fresh' = [fresh EXCEPT ![l] = FALSE]
    /\ UNCHANGED <<tables, bexp, verdict, fin, machine, loop, cur, batches, cancelled>>

\* X: the task turns RESETTING only when its finalizer gets to run.
CompleteX(l, v) ==
    /\ l \in Closable
    /\ Close({l}, v)
    /\ UNCHANGED <<tables, timers, machine, loop, cur, batches, cancelled>>

\* POST /v1/leases/{id}/complete.  Repeating it changes nothing.
Complete(l, v) ==
    /\ l \in Closable
    /\ st' = After({}, {l})
    /\ Close({l}, v)
    /\ UNCHANGED <<arrived, leaseId, leases, issued, timers, machine, loop, cur, batches,
                   cancelled>>

\* X: the reaper passes over leases whose client never sent a heartbeat.
ReaperTickX ==
    LET closing == {l \in Closable : ~fresh[l] /\ st[leases[l]] = "leased"} IN
    /\ closing # {}
    /\ st' = After({}, closing)
    /\ Close(closing, "abandoned")
    /\ UNCHANGED <<arrived, leaseId, leases, issued, timers, machine, loop, cur, batches,
                   cancelled>>

\* X: the reaper makes up a final status that is none of the three.
ReaperTickTypeX ==
    LET closing == {l \in Closable : ~fresh[l]} IN
    /\ closing # {}
    /\ st' = After({}, closing)
    /\ Close(closing, "expired")
    /\ UNCHANGED <<arrived, leaseId, leases, issued, timers, machine, loop, cur, batches,
                   cancelled>>

\* One tick of _lease_reaper_loop: abandon every expired lease, then cancel
\* every expired batch.
ReaperTick ==
    LET expired == {l \in Closable : ~fresh[l]}
        dead    == {b \in Batch : bexp[b] = "expired"}
        closing == expired \cup LeasesIn(dead)
    IN  /\ closing # {} \/ dead # {}
        /\ st' = After(QueuedIn(dead), closing)
        /\ Close(closing, "abandoned")
        /\ IF dead = {} THEN UNCHANGED bstate ELSE RefreshBatches(st')
        /\ bexp' = [b \in Batch |-> IF b \in dead THEN "none" ELSE bexp[b]]
        /\ cancelled' = cancelled \cup dead
        /\ UNCHANGED <<arrived, leaseId, leases, issued, fresh, machine, loop, cur, members>>
----------------------------------------------------------------------------
(* Finalizers: one coroutine per closed lease *)

FinalizeStart(l) ==
    /\ fin[l] = "spawned"
    /\ fin' = [fin EXCEPT ![l] = "destroying"]
    /\ UNCHANGED <<tables, timers, verdict, machine, loop, cur, batches, cancelled>>

\* X: the lease stays in the table.
ForgetX(l, t, outcome) ==
    /\ st' = [st EXCEPT ![t] = outcome]
    /\ handle' = [handle EXCEPT ![t] = "none"]
    /\ fin' = [fin EXCEPT ![l] = "ended"]
    /\ RefreshBatches(st')
    /\ UNCHANGED <<leases, fresh>>

\* What both ends of a finalizer do to the tables.
Forget(l, t, outcome) ==
    /\ st' = [st EXCEPT ![t] = outcome]
    /\ leases' = [leases EXCEPT ![l] = None]
    /\ fresh' = [fresh EXCEPT ![l] = FALSE]
    /\ handle' = [handle EXCEPT ![t] = "none"]
    /\ fin' = [fin EXCEPT ![l] = "ended"]
    /\ RefreshBatches(st')

\* X: every teardown that succeeds makes its task COMPLETED.
FinalizeDoneX(l) ==
    LET t == leases[l] IN
    /\ fin[l] = "destroying"
    /\ Forget(l, t, "completed")
    /\ \E left \in TornDown : vm' = [vm EXCEPT ![t] = left]
    /\ EnsureDispatch
    /\ UNCHANGED <<arrived, leaseId, issued, bexp, verdict, cur, members, cancelled>>

\* destroy_vm (or reset_slot) returned: the task gets its verdict, whether or not the
\* command that removes the machine succeeded.
FinalizeDone(l) ==
    LET t == leases[l] IN
    /\ fin[l] = "destroying"
    /\ Forget(l, t, IF verdict[l] = "completed" THEN "completed" ELSE "failed")
    /\ \E left \in (IF handle[t] = "none" THEN {vm[t]} ELSE TornDown) :
         vm' = [vm EXCEPT ![t] = left]
    /\ EnsureDispatch
    /\ UNCHANGED <<arrived, leaseId, issued, bexp, verdict, cur, members, cancelled>>

\* X: a teardown that raised is reported as the client's verdict.
FinalizeFailedVerdictX(l) ==
    LET t == leases[l] IN
    /\ fin[l] = "destroying"
    /\ Forget(l, t, IF verdict[l] = "completed" THEN "completed" ELSE "failed")
    /\ UNCHANGED <<arrived, leaseId, issued, bexp, verdict, loop, cur, members, cancelled, vm>>

\* X: a teardown that raised is logged and nothing else.
FinalizeFailedLogX(l) ==
    /\ fin[l] = "destroying"
    /\ fin' = [fin EXCEPT ![l] = "ended"]
    /\ UNCHANGED <<tables, timers, verdict, machine, loop, cur, batches, cancelled>>

\* destroy_vm raised: the task fails, and its machine may still be running.
FinalizeFailed(l) ==
    LET t == leases[l] IN
    /\ fin[l] = "destroying"
    /\ Forget(l, t, "failed")
    /\ \E left \in {"up", "gone"} : vm' = [vm EXCEPT ![t] = left]
    /\ UNCHANGED <<arrived, leaseId, issued, bexp, verdict, loop, cur, members, cancelled>>
----------------------------------------------------------------------------
Next ==
    \/ \E b \in Batch : SubmitBatch(b) \/ HeartbeatBatch(b) \/ BatchDeadline(b) \/ CancelBatch(b)
    \/ DispatchBoot \/ DispatchEnds \/ BootFailed
    \/ \E l \in Lease : BootDone(l)
    \/ \E t \in Task, l \in Lease : BindProvisioned(t, l)
    \/ \E l \in Lease : Heartbeat(l) \/ LeaseDeadline(l)
    \/ \E l \in Lease, v \in ClientVerdict : Complete(l, v)
    \/ ReaperTick
    \/ \E l \in Lease : FinalizeStart(l) \/ FinalizeDone(l) \/ FinalizeFailed(l)

Spec == Init /\ [][Next]_vars

\* What the event loop and the runtime guarantee: a ready coroutine runs, a boot
\* and a teardown end (each bounds its waits), the reaper keeps ticking.
\* Nothing is assumed of clients, of masters or of the clock.
Fairness ==
    /\ WF_vars(DispatchBoot \/ DispatchEnds)
    /\ WF_vars(BootFailed \/ \E l \in Lease : BootDone(l))
    /\ WF_vars(ReaperTick)
    /\ \A l \in Lease : WF_vars(FinalizeStart(l))
                        /\ WF_vars(FinalizeDone(l) \/ FinalizeFailed(l))

FairSpec == Spec /\ Fairness
----------------------------------------------------------------------------
(* Safety *)

\* The lease table, the machine handles and the task states agree: a task has an
\* entry in both tables exactly while it is READY, LEASED or RESETTING, and the
\* lease in the table is the one the task names.  (Entries are added and removed
\* by five different methods and a background coroutine.)
LeaseTableAgrees ==
    /\ \A t \in Task :
         st[t] \in Held \cup {"resetting"} =>
           /\ leaseId[t] # None
           /\ leases[leaseId[t]] = t
           /\ handle[t] # "none"
    /\ \A t \in Task : st[t] \notin Held \cup {"resetting"} => handle[t] = "none"
    /\ \A l \in Lease :
         leases[l] # None => /\ leaseId[leases[l]] = l
                             /\ st[leases[l]] \in Held \cup {"resetting"}

\* A client that holds a lease has its machine: no teardown begins while the task
\* is READY or LEASED, whichever of client, canceller and reaper comes first.
LeasedMachineRuns ==
    /\ \A t \in Task : st[t] \in Held => vm[t] = "up"
    /\ \A l \in Lease : fin[l] \in {"spawned", "destroying"} =>
         leases[l] # None /\ st[leases[l]] = "resetting"

\* A boot or a teardown that raised is never hidden behind a success: what a COMPLETED
\* task can leave on its host is only a machine whose removal command failed without
\* raising, never one that nobody tried to remove or whose teardown broke off.
LeftoverIsReported ==
    \A t \in Task : st[t] = "completed" => vm[t] \in TornDown

\* The state GET /v1/batches/{id} reports is the verdict on the tasks: it turns
\* COMPLETED or FAILED when, and only when, every task has ended.  (A batch whose
\* tasks were all refused on arrival waits for the dispatch loop to say so.)
BatchStateTruthful ==
    \A b \in Batch : bstate[b] # "absent" =>
      LET S == {st[t] : t \in members[b]} IN
      /\ bstate[b] = "completed" <=> S = {"completed"}
      /\ bstate[b] = "failed" => S \subseteq Terminal
      /\ S \subseteq Terminal /\ loop = "idle" => bstate[b] \in Terminal

\* No lost wakeup: while a task of a batch is QUEUED the dispatch loop is alive.
\* (Only what a refused request left behind can be QUEUED with nobody at work.)
QueueIsServed ==
    \A b \in Batch : \A t \in members[b] : st[t] = "queued" => loop # "idle"

\* The loop boots one machine at a time, and STARTING means exactly that.
OneBoot ==
    /\ \A t \in Task : st[t] = "starting" <=> (loop = "boot" /\ cur = t)
    /\ \A t \in Task : vm[t] = "booting" <=> (loop = "boot" /\ cur = t)

\* A cancelled batch has nothing left in the queue, whenever it was cancelled.
CancelledNotQueued ==
    \A b \in cancelled : \A t \in members[b] : st[t] # "queued"

----------------------------------------------------------------------------
(* What a step may never do *)

\* COMPLETED and FAILED are final, for tasks and for batches.
TerminalIsFinal ==
    [][/\ \A t \in Task : st[t] \in Terminal => st'[t] = st[t]
       /\ \A b \in Batch : bstate[b] \in Terminal => bstate'[b] = bstate[b]]_vars

\* A lease is torn down once, and the first verdict stands: a client's completion,
\* a cancellation and the reaper race for it and the losers change nothing.
FirstVerdictStands ==
    [][\A l \in Lease : fin[l] # "none" =>
         /\ verdict'[l] = verdict[l]
         /\ fin'[l] = "spawned" => fin[l] = "spawned"]_vars

\* A task of a cancelled batch whose machine is still booting is torn down when
\* the boot ends, as the comment in _provision_local_and_bind has it.
CancelledNeverBinds ==
    [][\A b \in cancelled : \A t \in members[b] :
         st[t] = "starting" => st'[t] # "ready"]_vars

----------------------------------------------------------------------------
(* Liveness, under Fairness *)

\* Every task of a batch leaves the queue: it is booted, failed or cancelled.
QueueMoves ==
    \A t \in Task : (st[t] = "queued" /\ \E b \in Batch : t \in members[b])
                      ~> st[t] # "queued"

\* A lease nobody renews is given up, and its tables are cleared.
ExpiredLeaseReclaimed ==
    \A l \in Lease : (leases[l] # None /\ ~fresh[l]) ~> (fresh[l] \/ leases[l] = None)

\* A task whose completion was requested ends.
TeardownEnds == \A t \in Task : st[t] = "resetting" ~> st[t] \in Terminal

----------------------------------------------------------------------------
(* The scheduler implements the life of a task *)

Phase(t) ==
    CASE st[t] = "absent" -> "absent"
      [] st[t] \in {"queued", "starting"} -> "waiting"
      [] st[t] \in Held -> "held"
      [] st[t] = "resetting" -> "closing"
      [] st[t] = "completed" -> "done"
      [] st[t] = "failed" -> "aborted"

MachineOf(t) ==
    CASE vm[t] = "up" -> "up"
      [] vm[t] = "unremoved" -> "left"
      [] OTHER -> "none"

TL == INSTANCE TaskLifecycle WITH
        NoVerdict <- None,
        phase   <- [t \in Task |-> Phase(t)],
        verdict <- [t \in Task |-> IF leaseId[t] = None THEN None ELSE verdict[leaseId[t]]],
        machine <- [t \in Task |-> MachineOf(t)]

\* Every behaviour of the scheduler is a behaviour of TaskLifecycle.
ImplementsLifecycle == TL!Spec
=============================================================================
