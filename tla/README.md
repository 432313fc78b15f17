# cua-house: a TLA+ model

cua-house runs ephemeral virtual machines for agents. A client submits a batch of tasks, gets a
lease on one machine per task, works on it, and returns the lease with a verdict; the machine is
destroyed. One process can serve a host alone (*standalone*), or a *master* places tasks on
*workers* over WebSockets. All paths below are relative to
`packages/server/src/cua_house_server/` unless they start with `packages/` or `docs/`.

## The system

| Part | State | Operations | What it talks to |
|------|-------|-----------|------------------|
| `EnvScheduler` (`scheduler/core.py`) | tasks, batches and their expiry, leases, machine handles, one dispatch loop, one reaper | submit, heartbeat and cancel a batch; heartbeat and complete a lease; boot and bind; finalize; reap; `bind_provisioned_task`; staging | runtimes (boot, destroy), the hook of the cluster worker |
| `ClusterDispatcher` (`cluster/dispatcher.py`) | tasks, batches, lease table, capacity ledger | submit, cancel, place, revert, task completed, worker disconnect | registry, coordinator |
| `WorkerRegistry`, `RpcCoordinator`, `cluster_ws` | one session per worker, one future per assignment | register, send, mark offline; issue, resolve, cancel, time out | WebSockets |
| `WorkerClusterClient` (`cluster/worker_client.py`) | the open connection, handles | dial with back-off, assign, release, report the end of a task | master, its own scheduler and runtime |
| `DockerQemuRuntime` (`runtimes/qemu.py`) | containers, ports, templates | `provision_vm`, `destroy_vm`, clean-up at start | docker, snapshot cache, port pool |
| Snapshot cache (`runtimes/snapshot_cache.py`) | a directory of snapshots with sidecar files, no index in memory | lookup with eviction, write, listing for the master, sweep at the start of a worker | the runtime; other boots of the same shape; the process before it |
| Port pools (`_internal/port_pool.py`) | the ports that are taken | allocate, release | the runtime |
| `GCPVMRuntime` (`runtimes/gcp.py`) | cloud instances and disks | prepare, start, reset, stage, clean-up at start | `gcloud` |
| Staging (`data/staging.py`) | links, directories and mounts on the machine of a lease | stage the runtime phase, stage the eval phase | docker, the guest |
| HTTP API and proxies (`api/`) | none | routes to the operations above | clients |
| Client SDK (`packages/client`) | the lease a client holds | requests with retries, polling, heartbeats, the end of "async with" | HTTP API |

### What is hard, and what makes each part correct

* **EnvScheduler.** Every coroutine suspends in `provision_vm`, `destroy_vm`, `start_slot`,
  `reset_slot`, the sleep of the reaper and the start of a created task, and nowhere else that
  matters: its lock is never held across a suspension. A completion, a cancellation and two
  reapers race for a lease; a batch is cancelled while a machine boots; the dispatch loop ends
  while a batch arrives; a teardown raises. Correct means: tables, leases, finalizers and machines
  agree; a lease is closed once and keeps its first verdict; COMPLETED and FAILED are final; no
  QUEUED task of a batch is forgotten; a boot or a teardown that raised is reported as a FAILED
  task. (A machine can be left behind a COMPLETED task, too: both runtimes remove it with
  `check=False`, so a teardown that returns is not a machine that is gone.)
* **Dispatcher and workers.** Between `AssignTask` and `TaskBound` lies a boot of minutes. In that
  time connections break and are replaced, workers restart, the master gives up, notices are lost
  or arrive after their task was placed again, clients cancel. Correct means: the ledger covers
  what workers are at work with and keeps nothing for ever; a STARTING task has somebody who moves it
  on; COMPLETED is earned by a client, and by a teardown that returned; batches tell the truth about
  their tasks; the end of a lease is noticed; READY means a machine.
* **Runtime, cache, ports.** Boots suspend between taking ports, copying a disk, starting a
  container and waiting for the guest, and fail at each of these; teardowns and other boots come in
  between. Boots of one shape share one cache entry, which is written in place and read without a
  lock; the process may end inside a write and come back with another QEMU. Correct means: two
  machines never share a port; what is out of a pool has an owner; what a handle was given
  stays until its teardown; a hit is a whole snapshot of the QEMU that is to load it; what a worker reports as cached
  boots from the cache.
* **Staging and the client.** The SDK sends a request again when its connection breaks, whether or
  not the server handled it, while the first attempt may still wait for the guest, the reaper
  closes the lease, or the server restarts. Correct means: the agent's input and output stay where
  they are; it does not see the reference; the judge does; a task is COMPLETED only if its client
  said so; what a client leaves behind ends.
* **Cloud machines.** A start is a row of `gcloud` commands, any of which may fail after it did its
  work. Correct means: what exists outside belongs to a task, or to a failure that can be named.

`PROJECT.json` lists the places in the code where each of these bites, and which property is
watching.

## Modules

| Module | Models | |
|--------|--------|-|
| `TaskLifecycle` | the promise: what one task goes through, as its client sees it | abstract, no code |
| `LeaseScheduler` | `EnvScheduler` | implements `TaskLifecycle` |
| `LeaseSchedulerProofs` | theorems about `LeaseScheduler` | |
| `LifecycleProofs` | the theorem that `LeaseScheduler` implements `TaskLifecycle` | over `LeaseSchedulerProofs` |
| `ClusterWire` | the connections | |
| `ClusterWorker` | the worker's side of an assignment | over `ClusterWire` |
| `ClusterMaster` | dispatcher, sessions, futures, frame handlers | over `ClusterWire` |
| `Cluster` | master, workers and clients together | implements `TaskLifecycle` in calm weather |
| `ClusterProofs` | theorems about `Cluster` under every fault | |
| `ClusterQueueProofs` | theorems about `Cluster` under every fault: coroutines, attempts, the ends of leases | over `ClusterProofs` |
| `CalmProofs` | theorems about `Cluster` while connections and workers stand, its refinement of `TaskLifecycle` included | over `ClusterProofs` |
| `ClusterCapacityProofs` | theorems about capacity | over `CalmProofs` and `ClusterQueueProofs` |
| `MachineContract` | the promise: what a scheduler may rely on when it asks for a machine | abstract, no code |
| `SnapshotCache` | the cache directory: lookup, the steps of a write, sweep, listing | |
| `VmRuntime` | `provision_vm`, `destroy_vm`, ports, containers, templates, restarts | over `SnapshotCache`; implements `MachineContract` |
| `VmRuntimeProofs` | theorems about `VmRuntime` | |
| `Staging` | what a machine shows of its task's data, and the two staging phases | |
| `CloudSlots` | slots, `gcloud` commands, clean-up at start | |
| `Session` | one task from its client's side: SDK, requests, lease handlers, staging, machine | over `Staging` and `CloudSlots`; implements `MachineContract` |
| `SessionProofs` | theorems about `Session` | |
| `MCLeaseScheduler`, `MCCluster`, `MCVmRuntime`, `MCSession` | instances for TLC | |

The models meet at two contracts. `TaskLifecycle` is what a client sees of a task, and the
scheduler and the cluster implement it. `MachineContract` is what a scheduler may expect of a
runtime, and the local runtime and the machines of `Session` implement it: so `LeaseScheduler` and
`ClusterWorker` may treat a boot as one action that succeeds or fails and a teardown as one that
ends.

Definitions whose names end in `X` are the operations with a plausible mistake in them; no
specification uses them. They show that the properties notice the mistake.

### LeaseScheduler

`st` is `task.state`, `leases` the table `_leases`, `leaseId` the `lease_id` of a task, `handle` the
three tables `_local_handles`, `_gcp_handles` and `_task_runtime`, `loop` and `cur` the place where
the dispatch loop is suspended, `fin` one finalizer coroutine per closed lease, `vm` the machine
itself. Time is reduced to "the deadline has passed": `fresh[l]` and `bexp[b]` say whether the
expiry of a lease or batch lies ahead, and `LeaseDeadline` and `BatchDeadline` let it pass at any
moment; the reaper sees it in a later step. An action is the code between two suspensions:
`DispatchBoot` is the loop from its wake-up to the `await` of a boot, `BootDone` from there to the
next round, `Complete` all of `complete()`, `ReaperTick` a whole tick, and `FinalizeStart`,
`FinalizeDone` and `FinalizeFailed` the three stretches of `_finalize_task`. What a teardown that
returned leaves of a machine is `TornDown`: gone, or `"unremoved"`, when the command failed and
nobody read its exit status; a boot or a teardown that raised leaves it gone or up. A request that is
refused half-way leaves the tasks before the refused one in `_tasks` and in no batch, as the code
does.

### Cluster

`tstate`, `tlease`, `assigned` and `retry` are the fields of a task of the master, `bound` the table
`_leases`, `load` the ledger `_worker_load`, `sess` the sessions of the registry, `call[l]` the
`_try_place` coroutine that drew lease `l` together with its future, `job[l]` the same assignment on
the worker. Lease ids are numbers in the order in which they are drawn.

*Atomicity.* The master is one event loop, and none of the locks of dispatcher, registry and
coordinator is held across a suspension. So `_try_place` is one step up to the send
(`PlaceOn`) and one from the reply to its end (`Grant`, `GiveBack`), and a frame handler is one
step. Coroutines that became ready wait in `runq` and run in that order, as asyncio runs them:
futures that `cancel_worker` failed are resumed before the placements that
`handle_worker_disconnect` starts after it. Frames and HTTP requests may be handled before any of
them. (A `wait_for` of Python 3.12 or later adds no further turn between a future and its
coroutine.) The sends of `cancel_batch` are a step each.

*Connections.* Each direction is a FIFO. A worker sees a break at once and dials again; the master
reads an arbitrary prefix of what was under way and finds the end later, so the old handler and a
new session overlap. Two slots per worker are the old and the new connection. A restarted worker
has forgotten its leases and removed its containers, those in `left` excepted. The master does not restart: all it knows is in
memory, and it starts from `Init`.

*Machines that stay.* `left` has the leases whose machine stays on its host though the worker is done
with it: a boot or a teardown raised, or `docker rm` failed unnoticed (`MayStay`, bounded by
`MaxLeft`). `Running(w)` counts them, while the master gives their capacity back. The runs whose
properties do not look at machines have `MaxLeft = 0`.

*Placement.* Which worker is taken among those with room (cached shape first, then fewest tasks) is
left open. Shapes are one resource in the instances; the model has any number.

### SnapshotCache and VmRuntime

`pc[b]` is where one call of `provision_vm` is suspended; `handles` is `_hotplug_handles`, `taken`
the `_allocated` of both pools, `slots`, `box` and `disk` what the host has of a machine, and
`closing[b]` counts the calls of `destroy_vm` between their pop of the handle and the lock. `file`,
`maker` and `side` are a qcow2 in the cache, the QEMU build that made it, and what its sidecar says;
`doubt` remembers the shapes with a write that failed, was cut short, replaced an entry, or followed
a savevm that answered nothing.

*Atomicity.* A step is what the event loop runs between two suspensions. Docker commands block the
loop and belong to the step that issues them. `provision_vm` suspends at the mutation lock
(`Acquire`), at the download of a template (`Pulled`), at the copy of the disk, which is a thread
(`CopyEnds`), at `wait_ready` (`Ready`, `NotReady`), and at `savevm` (`Saved`). `write()` copies a
disk of gigabytes without a suspension: while a call is in `"writing"` nothing else of the loop
happens (`LoopFree`), but a copying thread goes on and may read the entry half-written (`Copies`),
and the process may end. The lookup comes *before* the lock, so its answer is old when it is used.
A `Restart` may happen at any moment: memory is gone, containers and directories are removed, the
cache stays as it is, on the same build or another, with a sweep (worker) or without (standalone).

*What is external.* Docker, QEMU and the guest: a command fails or works, a guest answers, exits or
never answers, `docker rm` may leave a container (`rmFailed`), savevm saves, reports an error or
answers nothing. `box[b]` says that a container is there, not that QEMU in it runs: after
`wait_ready` nobody looks, and the model does not say either. So a container of an earlier process
may or may not be in the way of a new one on the same port (`Start`, `StartFails`).

*A start that raises.* `_start_vm_container` can raise before docker knows of the container, after
it (docker run fails), and after the container runs (its log cannot be written); or while boot.sh is
extracted, with the raw file left. `StartFails` has all of these; nobody will remove that container.

### Staging, CloudSlots and Session

`cl` is where the program of a client stands (`packages/client/README.md`: acquire a lease, stage
the runtime data, work, stage the reference, judge, complete), `tries` and `waiting` the state of
`_request`, `wire` the requests under way, `jobs` the staging handlers suspended at a command of the
guest, `st`, `verdict` and `batch` the task, the pending verdict and the watched expiry. `seen`,
`mounted` and `work` say what the machine shows of the data and what became of the agent's output;
`todo` are the `gcloud` commands of a start still to run, `cloud[s]` what exists of slot `s`.

A lost answer is `Break` (the request may be lost too, or go on), a read timeout is `Late` (which
the SDK does not retry), and every attempt has its own number, so that the answer to an old one is
not heard. Requests arrive in order on a direct connection and in any order behind the proxy of the
master. `gcloud` runs in the event loop and stops it (`LoopFree` of `CloudSlots`); staging suspends
at commands of the guest, between which everything else may happen. A worker has no cloud runtime
(`api/app.py:71-72`), so `cloudly` and `proxied` exclude each other. `quiet` remembers a guest
command whose non-zero return code nobody looked at.

## Runs

All runs end within five minutes on two cores, most within one.

| Run | Instance | Shows |
|-----|----------|-------|
| `scheduler` | five tasks (one external, one too big, one without a runtime, one in the cloud) in two requests that overlap, three leases with symmetry | nine properties and the refinement of `TaskLifecycle` |
| `scheduler_liveness` | two tasks in two batches, two leases, fairness, no symmetry | queue moves, expired leases are reclaimed, teardowns end |
| `scheduler_cancel` | the same, safety only | **violated**: a cancelled batch gets a machine that was booting |
| `cluster_faults` | one task, two workers with two connections each, three leases, one cut or restart, slow boots, clients that go away | what holds under every fault |
| `cluster_batches` | two tasks in two overlapping batches on one worker, one cut, cancellation, failed boots, fairness | what batches say of their tasks, attempts end, ends are noticed |
| `cluster_calm` | two tasks, two workers, failed boots, all verdicts, cancellation and expiry, one machine left behind, no cut | ledger and capacity; READY and the refinement of `TaskLifecycle` as long as it is `Calm` |
| `cluster_budget` | one task, two workers, two cuts | **violated**: a task that failed for good is queued again |
| `cluster_join` | one task, one worker, no fault, fairness | **violated**: the queue does not drain when a worker joins |
| `cluster_terminal` | one task, two workers, one cut | **violated**: a COMPLETED task is queued again |
| `vm_runtime` | three calls for one shape, published ports for three and noVNC ports for two, two QEMU builds, one restart, one container docker will not remove | ports, handles, containers, cache entries, and the refinement of `MachineContract` with its liveness |
| `vm_cache` | two calls for one shape | **violated**: what a failed cache write leaves is served as a hit |
| `session` | one client with two attempts per request, local, proxied or in the cloud; two slots, one restart | staging, verdicts, orphans, the end of what a client leaves, and the refinement of `MachineContract` |

*Why the bounds are enough.* In `scheduler`, two requests that share a task give the refused request
with stored tasks before it; three leases are three finalizers, more than the loop, the reaper and
a client can contend for at once. In the cluster, one fault already separates what the master
believes from what a worker does; with three leases a task is placed again twice, so that a notice
of the first lease meets the attempt of the third. `MaxLease` (assignments) and `MaxFault` (cuts and
restarts) bound otherwise endless retries: with no id left an attempt ends in `PlaceNone`, as if no
worker had room. A batch is cancelled at most once in the cluster. `MaxLeft` is 1 in `cluster_calm`: one machine
that stays already separates what runs from what is in the ledger. `cluster_faults` with two tasks
and four leases (11 million states) was run once and holds as well; `cluster_batches` holds with two
connections, too, in four minutes.

In `vm_runtime` two cold boots of one entry and a third call that finds it are all that can contend
for it; the third call also meets the empty noVNC pool, whose exception strands the ports taken
before. One restart separates the build that wrote an entry from the one that reads it. The shapes
do not interact, and the proofs have any number of them. In `session`, `Attempts` is 2 of the 4 of
the code: what matters is that an attempt meets the one before it. Two slots are a machine and what
is left of it when the server has restarted and the client submits once more. `MaxRestarts` and
`MaxRmFails` (containers left at a time) are the other bounds. The cache starts on one build (`First`):
which of them it is tells nothing apart.

`CHECK_DEADLOCK FALSE` is said where the system may really stop: all tasks ended, no lease id left.

## Fairness

`LeaseScheduler`: the dispatch loop runs, boots and teardowns end (they have timeouts or raise), the
reaper ticks every five seconds, and deadlines pass. Nothing is assumed of clients.
`Cluster`: coroutines that are ready run, frames are read, boots and teardowns end, a broken
connection is noticed by both ends some time, and workers dial again (`_run_forever` never gives
up). Not assumed: that a client completes, heartbeats or cancels, that a timeout fires, or that the
sends of a cancellation go out; no property needs it. That a broken connection is noticed is an
assumption about TCP and uvicorn's pings: `reap_stale`, which the documentation calls the second
safety net, has no caller.
`VmRuntime`: the loop runs what is ready, the lock is granted in order, commands, downloads and
copies end or raise, `wait_ready` and `savevm` have deadlines. Nobody must call, destroy or restart.
`Session`: the loops of the server run, `gcloud` and the waits for a machine end, and the lease of a
client that left expires. Nothing is assumed of the client or the network.

## Where code and documentation disagree

`findings` in `PROJECT.json` quotes the lines.

1. *Cancelled batches still get machines.* `cancel_batch` overlooks STARTING tasks; the branch in
   `_provision_local_and_bind` that tears the machine down again is never taken (`scheduler_cancel`).
2. *The retry budget is not final.* When a worker is lost while a task is STARTING, the disconnect
   handler may fail the task for good, and the reverted attempt queues it again (`cluster_budget`).
3. *The queue does not drain when a worker joins* (`cluster_join`).
4. *COMPLETED is not terminal on the master.* `handle_task_completed` looks at the task id only, and
   an attempt that is under way overwrites the state later (`cluster_terminal`).

5. *A failed cache write is served.* `runtime-model.md:82` says that the next task of the shape
   cold-boots again; `write()` logs the error and leaves what it copied, and `lookup()` asks only
   whether a file exists (`vm_cache`).

Smaller disagreements, seen while modelling and not run as findings:

* `docs/architecture/runtime-model.md:144-146` says the agent's output survives `destroy_vm`;
  `data/staging.py` puts it into the slot directory on purpose, and `destroy_vm` removes it. The
  model does what the code does (`Wipe`).
* `docs/architecture/overview.md:64` says the client's heartbeats keep the lease alive. They do, but
  the SDK never renews the batch, so that a batch with an expiry is cancelled under a client at
  work (`ReapBatch`).
* `packages/server/src/cua_house_server/runtimes/gcp.py:424`, "Used for error cleanup": `destroy_vm`
  of the cloud runtime has no caller, so what a failed start leaves stays (`abandoned`).
* `api/app.py:72`, "GCP overflow lives on master only": the dispatcher never uses a cloud runtime.
* `api/routes.py:85` reads `sched._vms`, which the scheduler no longer has.
* The sizing advice for port ranges (`config/loader.py`) does not count the ports that failed starts
  keep for ever: `PortsAccounted` names them (`Owners`).

What holds in `cluster_calm` has its conditions written into the properties, because the code needs
them. Once a connection breaks, the ledger of the worker is emptied while its machines go on running,
so a worker that comes back can be asked for more than it has. A machine that stays behind a
teardown is over-booked for good (`left`). And a lease that is given back before its client was told
of it (its batch was cancelled while the task was STARTING, or it expired at once) breaks READY
without any fault: TaskCompleted overtakes the coroutine that TaskBound woke, the lease goes from the
table, and then the task turns READY with it. `Calm` excludes exactly this, not cancellation and
expiry as such: the run has both. No document promises otherwise, so these are listed as hazards and
not as findings.

## Proofs

`LeaseSchedulerProofs` proves about `LeaseScheduler`, for every set of tasks, batches and leases and
every content of the requests (assumptions `RequestAssumption` and `ConstantAssumption`, which say
what `BatchCreateRequest` validates and that `None` is no id): the types, all the safety invariants
of the run `scheduler` and the two action properties `FirstVerdictStands` and `TerminalIsFinal`.

The argument has two inductive invariants, both checked by TLC first. `LeaseInv` joins the types, the
agreement of the tables and the history of a lease: an id is never drawn twice, a lease has a
finalizer exactly from its first verdict on, and a task has the lease of its one bind. The history is
needed because a lease that is gone from the table must not come back: without it a finalizer could
end the task of another lease. `BatchInv` adds that members are accepted, that the state of a
batch is what its tasks call for, up to what the loop has yet to recompute, and rests on
`TaskMoves`, which lists all a step can do to a task, and `BatchMoves`, which says that a step accepts
one batch, recomputes all, or leaves them alone.

`LifecycleProofs` proves from `LeaseInv` that the scheduler implements `TaskLifecycle`
(`ImplementsLifecycle`, which has no liveness): `LifeStep` lists what a step may do to the state,
the verdict and the machine of one task, every action is shown to do no more, and each of these is
a step of the abstract module.

`VmRuntimeProofs` proves about `VmRuntime`, for any number of calls, shapes, builds and ports
(`PortAssumption`: two finite, disjoint ranges and an image with at least one guest port;
`BuildAssumption`: builds are none of the marks for a missing or a broken sidecar, and one is the
first), all the
invariants of the run `vm_runtime` and, as `KeepsContract`, that every step is one of
`MachineContract` or none. `HitIsSound` and `ListedIsServed` are about the fingerprint check alone:
what a write that went wrong or replaced an entry leaves is in `doubt`, and outside of them. `VmInv` is the first inductive invariant: `CallOK` says what a call has
at each point of `provision_vm`, `PoolsOK` that a port is out of its pool exactly if one call owns
it. The proof that a step keeps `PoolsOK` has three shapes (nothing happens to the pools, a call
draws ports, an owner gives its own back), which are the lemmas `PoolsKept`, `PoolsAdd` and
`PoolsDrop`. `CacheInv` is the second: an entry free of doubt is nothing, or whole with its maker in
its sidecar, or being written by a boot of this build; and a hit stays true until the copy that goes
by it. It needs `DiskOK`, that at most one boot writes, which is where `LoopFree` enters, and without
the clause about `found` it is not inductive, for the lookup is older than the copy.

`SessionProofs` proves about `Session`, for any number of attempts, slots and restarts
(`BoundAssumption`, `SlotAssumption`), every safety property of the run `session` and, as
`SlotsKeepContract`, that every step is one of `MachineContract` or none. The invariant is built in
layers, each inductive with those below it. `SlotInv` says what exists of the slots. `AllAsked` says
where the client's program may be while a request of each kind is on the wire or being handled: a
completion can be under way only when the client is leaving, which with `EarnInv` gives
`EarnedByClient`. `OrderInv` says what a direct connection adds: the attempt the client waits for
is the last on the wire, and no stage-runtime is left once one was answered; a proxy breaks it,
and so the properties that need it ask for `~proxied`. `LeaseInv` says that the lease the client got
is not given again before a restart. `PastInv` and `SightInv` relate what the machine shows to the
phases of staging, and `WorkInv` adds the agent's output. The lemma `Removed` says what taking one
request from the wire leaves, since requests are lost and taken up in the middle of it.

`ClusterProofs` proves about `Cluster`, for any number of tasks, batches, workers, connections,
leases and faults (`ClusterAssumption`: requests are not empty and name no task twice, needs and
capacities are naturals; `VerdictAssumption`: the final statuses of the API; `LeftAssumption`:
`MaxLeft` is a natural), what holds of ledger,
verdicts and batches whatever goes wrong. `Bookkeeping` is what the proofs share, in layers: the
types; `SessInv`, that an online worker was
reached over a connection of its own; `DrawnInv`, that whatever names a lease names one that was
drawn, for the task and worker of its owner; `AssignInv`, that an assignment on the wire is the only
one of its lease and no job yet; `NoticeInv`, that a notice of an end tells what happened. Without
the uniqueness in `AssignInv` a lost and repeated assignment could start a job anew and make an old
notice untrue, so that `CompletedIsEarned` would not be inductive. `Traced` says that a frame was on
the wire before the step, or is sent by it; the layers about frames rest on it and on how Tail,
Append and a broken connection shift the positions of a queue (`WireShifts`). Over these, one lemma
per property goes through the moves of the master (`MasterMoves`).

`ClusterQueueProofs` follows one attempt, and then one lease, from end to end, again under every
fault and for any number of everything. Five invariants stand on one another:

* `RestTypes`, the types `ClusterProofs` does without. With it `TypeOK` is proved as a whole
  (`ClusterTypes`). `runq` is built from selections of sequences, so this rests on what `Picked`
  returns for every sequence (its elements, their order, each as often as before). The library's
  induction theorems need an operator; the lemma `Smallest` (a non-empty set of naturals has a
  least element) replaces them: a least counterexample is one step of the fold away from a
  sequence for which the lemma holds.
* `AnsweredOnce`: the attempts in `runq` are exactly those whose future is done, once each. No
  coroutine runs twice, so a task is not reverted twice for one refusal, and none is forgotten. That
  they are distinct is what makes "the head of the queue is gone" mean "this attempt is not in it".
* `WaitInv`: an attempt that waits has its assignment on the way, or its machine booting, or its reply
  on the way, on a connection that a handler of its worker serves, or that connection broke and the
  handler has yet to find it. `ConnInv` says what a connection that is not served can hold. Together
  with `StartingHasAttempt` of `ClusterProofs` this is `StartingIsAttended`: the master does not
  depend on the timeout of a boot to get a task back. It is not inductive for STARTING tasks alone,
  since an attempt may wait after its task was moved on by a late notice.
* `EndInv` continues after the reply: a lease in the table that was accepted has its machine on a
  served connection, or its notice is on the wire, or the connection broke and its handler is still to
  end (`EndsAreAnnounced`). `ReplyTrue` is needed because the machine may end before the master has
  read that it came up: then the notice must be behind the reply in the same queue. So what
  `EndIsNoticed` says of fair behaviours of one instance rests on a fact about all of them.
* `LedgerIsBacked` and these give `CapacityIsNeverLost`: every entry of the ledger belongs to a lease
  that some event still to come ends.

On the worker, `TasksAreTakenOnce`: however often a task is assigned to it, a worker binds one machine
for it until it restarts, which is why its handlers may look machines up by task id.
`LossesAreCounted` shows that the closed form `After` is the loop of `handle_worker_disconnect`.

`ClusterCapacityProofs` is about sums. `Used` is a fold over a set, as in the code; a sum of naturals
is the cardinality of the set of pieces it counts (`Pieces`, `SumCounts`), and about cardinalities the
library has theorems without operators. `LedgerAlwaysFits` says, under every fault, that the tasks in
the ledger of a worker fit into it, since only `PlaceOn` adds to it, to a worker with room.
`MachinesAlwaysFit` carries that to the machines the ledger covers: an injection takes the pieces of
these machines to those of the ledger, since two machines of one worker have two tasks. The rest are
the machines left behind, whose pieces are added on both sides (`PiecesOfTwo`).

`CalmProofs` is about workers whose boots the master awaits (`Awaited`: `"slow"` is not in `Fault`),
whatever else may go wrong, and any number of everything. The conditions of its properties are state
predicates, so the invariants have them as hypotheses, in two layers. `SteadyInv` says that, as long
as no connection broke and no worker restarted (`faults = 0`), each side knows of the other what it
was told: `LeaseOK` where the worker is with a lease at each point of the attempt on the master (a
reply that was read and not yet acted on included), `ReplyOK` and `OrderOK` that the frames under way
are true. It survives cancellation, expiry and machines left behind, and gives `LedgerAlwaysCovers`.
`CalmInv` adds, as long as it is `Calm` as well, what a READY task stands for (`TaskOK`) and
where its lease is (`GrantedOK`): with them READY
means a machine (`ReadyAlwaysBacked`), a task that ended keeps its state (`EndsStandWhenCalm`), and
every step that keeps it `Calm` is one of `TaskLifecycle` or none (`ClusterImplementsLifecycle`).
`Calm` can end and does not come back, so each proof that a step keeps it starts from a calm state.
Two leases of one task are never alive together (`Alone`): that is what lets `handle_task_completed`
look at the task id only. `LifeStep` lists what a step may do to the phase, the verdict and the
machine of one task, as in `LifecycleProofs`. What breaks without `Calm` is in the findings
(`CompletedIsFinal`, `RetryBudgetIsFinal`).

With these, every safety invariant and every action property of the passing runs is a theorem. Only
model-checked is liveness, for tlapm does not reason about fairness and ENABLED: `QueueMoves`,
`ExpiredLeaseReclaimed`, `TeardownEnds`, `StartingEnds`, `EndIsNoticed`, `AbandonedEnds`, and the
liveness half of `ImplementsContract` (its steps are proved, as `KeepsContract` and
`SlotsKeepContract`). What the violation runs refute is not a theorem, of course; `EndsStandWhenCalm`
says under which conditions two of those claims are true.

## Plan

1. `Placement`: admission and choice of a worker with two resources against a reference definition,
   and the retry of a task that no worker can boot.
2. The cluster: cancellation of STARTING tasks and the futures that are left behind.
3. Several sessions on one worker, with `cancel_batch` and `heartbeat_batch` as calls of the SDK.

## Not modelled

* Heartbeat frames of the cluster (they only refresh what placement prefers), `heartbeat_batch` of
  the master (the expiry it renews is read by nobody), `reap_stale` and `purge_version` (no caller).
* The samba and upload variants of staging: `use_symlink_inject` is always true.
* The durations: heartbeat intervals against times to live, and back-off. A deadline is a step that
  may come at any moment, which includes all of them.
* Reverse proxies of machine ports, authentication and URL rewriting (no state), configuration and
  catalog (constants here), image baking (an operator's script of shell commands), events (a log),
  dashboards, scripts and bridges. `PROJECT.json` gives the reason for each part.
