--------------------------- MODULE ClusterMaster ---------------------------
(***************************************************************************)
(* The master of a cluster: ClusterDispatcher (cluster/dispatcher.py), the *)
(* sessions of WorkerRegistry, the futures of RpcCoordinator and the frame *)
(* handlers of cluster/master_ws.py.                                       *)
(*                                                                         *)
(* Grain of atomicity.  The master is one asyncio event loop and none of   *)
(* its locks is held across a suspension, so a frame handler is one step,  *)
(* and so is _try_place from its look at the task to the end of the send,  *)
(* and again from the moment its reply arrived to its end.  Coroutines     *)
(* that are ready, because create_task started them or their future is     *)
(* done, run in the order in which they became ready (runq); handlers of   *)
(* frames and of HTTP requests may run before them.                        *)
(*                                                                         *)
(* The choice among the workers that have room (cached snapshot, then      *)
(* least loaded) is left open: any of them may be picked.                  *)
(***************************************************************************)
EXTENDS ClusterWire, SequencesExt

CONSTANTS Batch,    \* batch ids a client may name
          Request,  \* Request[b]: the task ids of the POST that names batch b
          Unknown,  \* tasks whose snapshot_name is in no image catalog
          Resource, \* {"cpu", "mem"}
          Need,     \* Need[t][r]: what task t asks for
          Capacity  \* Capacity[w][r]: total less reserved of worker w

\* BatchCreateRequest refuses an empty request and a repeated task id.
ASSUME ClusterAssumption ==
    /\ MaxLease \in Nat /\ None \notin Task /\ None \notin Lease /\ None \notin Worker
    /\ Request \in [Batch -> Seq(Task)]
    /\ \A b \in Batch :
         /\ Request[b] # <<>>
         /\ \A i, j \in 1..Len(Request[b]) : Request[b][i] = Request[b][j] => i = j
    /\ Need \in [Task -> [Resource -> Nat]]
    /\ Capacity \in [Worker -> [Resource -> Nat]]

VARIABLES
    arrived,  \* _tasks: the ids in it, in order of insertion
    tstate,   \* tstate[t]: task.state, "absent" while t is not in _tasks
    tlease,   \* tlease[t]: task.lease_id
    assigned, \* assigned[t]: the lease of task.assignment, what a client is told
    retry,    \* retry[t]: task.metadata["retry_count"]
    bstate,   \* bstate[b]: batch.state, "absent" while b is not in _batches
    owner,    \* owner[l]: the task and the worker lease l was drawn for
    bound,    \* the leases in _leases
    load,     \* load[w]: the tasks in _worker_load[w]
    call,     \* call[l]: the _try_place coroutine of lease l and its future
    runq,     \* the coroutines that are ready to run
    sess,     \* sess[w]: the connection and the online flag of its session
    serving,  \* the connections whose handler has read a Register
    releasing, \* the leases whose ReleaseLease cancel_batch has yet to send
    cancelled \* history: the batches that were cancelled

ledger == <<bound, load>>
tasks  == <<arrived, tstate, tlease, assigned, retry>>
master == <<tasks, bstate, owner, ledger, call, runq, sess, serving, releasing, cancelled>>

Terminal == {"completed", "failed"}
Members(b) == {Request[b][i] : i \in 1..Len(Request[b])}

MasterInit ==
    /\ arrived = <<>>
    /\ tstate = [t \in Task |-> "absent"]
    /\ tlease = [t \in Task |-> None]
    /\ assigned = [t \in Task |-> None]
    /\ retry = [t \in Task |-> 0]
    /\ bstate = [b \in Batch |-> "absent"]
    /\ owner = [l \in Lease |-> None]
    /\ bound = {}
    /\ load = [w \in Worker |-> {}]
    /\ call = [l \in Lease |-> "none"]
    /\ runq = <<>>
    /\ sess = [w \in Worker |-> [conn |-> None, online |-> FALSE]]
    /\ serving = {}
    /\ releasing = {}
    /\ cancelled = {}
----------------------------------------------------------------------------
(* Helpers *)

\* X: one task that failed fails the batch, whatever the others still do.
AggregateX(S) ==
    CASE S \subseteq {"completed"} -> "completed"
      [] "failed" \in S -> "failed"
      [] S = {"queued"} -> "queued"
      [] OTHER -> "running"

\* _refresh_batch_states_locked, with S the states of the tasks of a batch.
Aggregate(S) ==
    CASE S \subseteq {"completed"} -> "completed"
      [] "failed" \in S /\ S \subseteq Terminal -> "failed"
      [] S = {"queued"} -> "queued"
      [] OTHER -> "running"
RefreshBatches(s) ==
    bstate' = [b \in Batch |-> IF bstate[b] = "absent" THEN "absent"
                               ELSE Aggregate({s[t] : t \in Members(b)})]

\* What the tasks in S ask for of one resource.
Used(S, r) == FoldSet(LAMBDA t, sum : Need[t][r] + sum, 0, S)

\* X: what is assigned already is not subtracted.
RoomX(w, t) == \A r \in Resource : Need[t][r] <= Capacity[w][r]

\* _worker_free_capacity, compared with what t asks for.
Room(w, t) == \A r \in Resource : Need[t][r] + Used(load[w], r) <= Capacity[w][r]

Online == {w \in Worker : sess[w].online}
Candidates(t) == {w \in Online : Room(w, t)}

\* _max_online_worker_capacity: the largest of each resource, not of one worker.
Admissible(t) ==
    Online # {} => \A r \in Resource : \E w \in Online : Need[t][r] <= Capacity[w][r]

Place(t)  == [kind |-> "place", of |-> t]
Resume(l) == [kind |-> "resume", of |-> l]

\* The elements of a sequence that are in S, in their order.
Picked(s, S) == FoldLeft(LAMBDA q, x : IF x \in S THEN Append(q, x) ELSE q, <<>>, s)

\* create_task(_try_place(t)) for the tasks of a sequence.
PlaceAll(s) == [i \in 1..Len(s) |-> Place(s[i])]

\* The futures of some leases fail, in the order in which the leases were drawn.
ResumeAll(S) ==
    LET order == Picked([l \in Lease |-> l], S)
    IN  [i \in 1..Len(order) |-> Resume(order[i])]

\* registry.send to a worker that is online: the frame arrives if the connection of
\* its session is open.  On a broken one it is lost, or the send raises and the
\* session is marked offline.
Send(w, frame) ==
    LET c == sess[w].conn IN
    /\ toWorker' = [toWorker EXCEPT ![c] = IF link[c] = "up" THEN Append(@, frame) ELSE @]
    /\ \/ sess' = sess
       \/ link[c] # "up" /\ sess' = [sess EXCEPT ![w].online = FALSE]
----------------------------------------------------------------------------
(* Batches *)

Refused(b, i) == Request[b][i] \in Unknown \/ tstate[Request[b][i]] # "absent"

\* POST /v1/batches.  A request that is refused at its (n+1)-th task has stored the
\* n before it: they stay QUEUED in no batch, and are placed like the others.
Submit(b) ==
    /\ bstate[b] = "absent"
    /\ \E n \in 0..Len(Request[b]) :
         LET stored == SubSeq(Request[b], 1, n)
             queue  == Picked(stored, {t \in Task : Admissible(t)}) IN
         /\ \A i \in 1..n : ~Refused(b, i)
         /\ n < Len(Request[b]) => Refused(b, n + 1)
         /\ arrived' = arrived \o stored
         /\ tstate' = [t \in Task |-> IF t \notin {stored[i] : i \in 1..n} THEN tstate[t]
                                      ELSE IF Admissible(t) THEN "queued" ELSE "failed"]
         /\ IF n = Len(Request[b])
            THEN /\ runq' = runq \o PlaceAll(queue)
                 /\ bstate' = [c \in Batch |->
                      IF bstate[c] = "absent" /\ c # b THEN "absent"
                      ELSE Aggregate({tstate'[t] : t \in Members(c)})]
            ELSE UNCHANGED <<runq, bstate>>
    /\ UNCHANGED <<tlease, assigned, retry, owner, ledger, call, sess, serving, releasing, cancelled, wire>>

\* POST /v1/batches/{id}/cancel: queued tasks fail, and the leases of the others are
\* to be released.  (BOUND: once per batch.)
Cancel(b) ==
    /\ bstate[b] # "absent" /\ b \notin cancelled
    /\ tstate' = [t \in Task |-> IF t \in Members(b) /\ tstate[t] = "queued" THEN "failed"
                                 ELSE tstate[t]]
    /\ RefreshBatches(tstate')
    /\ releasing' = releasing \cup
         {l \in bound : \E t \in Members(b) : tstate[t] # "queued" /\ tlease[t] = l}
    /\ cancelled' = cancelled \cup {b}
    /\ UNCHANGED <<arrived, tlease, assigned, retry, owner, ledger, call, runq, sess, serving, wire>>

\* The sends of cancel_batch, each of them a suspension, in any order: the worker is
\* told to release the lease, if it is online.
SendRelease(l) ==
    /\ l \in releasing
    /\ releasing' = releasing \ {l}
    /\ IF sess[owner[l].worker].online
       THEN Send(owner[l].worker, [kind |-> "release", lease |-> l])
       ELSE UNCHANGED <<toWorker, sess>>
    /\ UNCHANGED <<tasks, bstate, owner, ledger, call, runq, serving, cancelled, link, toMaster>>
----------------------------------------------------------------------------
(* Placement *)

\* The next lease id: ids are numbered in the order in which they are drawn.
Drawn(l) == call[l] = "none" /\ \A k \in Lease : k < l => call[k] # "none"

\* Nothing to place, or nowhere: the attempt ends and is not repeated by itself.
\* (BOUND: so it does when no lease id is left.)
PlaceNone ==
    /\ runq # <<>> /\ Head(runq).kind = "place"
    /\ LET t == Head(runq).of IN
         tstate[t] # "queued" \/ Candidates(t) = {} \/ \A l \in Lease : call[l] # "none"
    /\ runq' = Tail(runq)
    /\ UNCHANGED <<tasks, bstate, owner, ledger, call, sess, serving, releasing, cancelled, wire>>

\* _try_place up to the send of AssignTask.  The batches are not recomputed.
PlaceOn(t, w, l) ==
    /\ runq # <<>> /\ Head(runq) = Place(t) /\ Drawn(l)
    /\ tstate[t] = "queued" /\ w \in Candidates(t)
    /\ tstate' = [tstate EXCEPT ![t] = "starting"]
    /\ tlease' = [tlease EXCEPT ![t] = l]
    /\ owner' = [owner EXCEPT ![l] = [task |-> t, worker |-> w]]
    /\ bound' = bound \cup {l}
    /\ load' = [load EXCEPT ![w] = @ \cup {t}]
    /\ Send(w, [kind |-> "assign", lease |-> l, task |-> t])
    /\ IF sess' = sess
       THEN /\ call' = [call EXCEPT ![l] = "waiting"]
            /\ runq' = Tail(runq)
       ELSE /\ call' = [call EXCEPT ![l] = "broken"]
            /\ runq' = Append(Tail(runq), Resume(l))
    /\ UNCHANGED <<arrived, assigned, retry, bstate, serving, releasing, cancelled, link, toMaster>>

\* X: the task is not queued again.
RevertStateX(l) ==
    LET t == owner[l].task IN
    /\ UNCHANGED <<tstate, tlease, assigned>>
    /\ retry' = [retry EXCEPT ![t] = @ + 1]
    /\ bound' = bound \ {l}
    /\ load' = [load EXCEPT ![owner[l].worker] = @ \ {t}]
    /\ RefreshBatches(tstate')
    /\ call' = [call EXCEPT ![l] = "over"]

\* _revert_assignment: whatever became of the task meanwhile, it is queued again.
Revert(l) ==
    LET t == owner[l].task IN
    /\ tstate' = [tstate EXCEPT ![t] = "queued"]
    /\ tlease' = [tlease EXCEPT ![t] = None]
    /\ assigned' = [assigned EXCEPT ![t] = None]
    /\ retry' = [retry EXCEPT ![t] = @ + 1]
    /\ bound' = bound \ {l}
    /\ load' = [load EXCEPT ![owner[l].worker] = @ \ {t}]
    /\ RefreshBatches(tstate')
    /\ call' = [call EXCEPT ![l] = "over"]

\* X: the ledger counts a task only until its machine runs.
GrantX(l) ==
    /\ runq # <<>> /\ Head(runq) = Resume(l) /\ call[l] = "bound"
    /\ tstate' = [tstate EXCEPT ![owner[l].task] = "ready"]
    /\ assigned' = [assigned EXCEPT ![owner[l].task] = l]
    /\ load' = [load EXCEPT ![owner[l].worker] = @ \ {owner[l].task}]
    /\ RefreshBatches(tstate')
    /\ call' = [call EXCEPT ![l] = "over"]
    /\ runq' = Tail(runq)
    /\ UNCHANGED <<arrived, tlease, retry, owner, bound, sess, serving, releasing, cancelled, wire>>

\* _try_place from TaskBound(ok) to its end: the task is READY, whatever it was.
Grant(l) ==
    /\ runq # <<>> /\ Head(runq) = Resume(l) /\ call[l] = "bound"
    /\ tstate' = [tstate EXCEPT ![owner[l].task] = "ready"]
    /\ assigned' = [assigned EXCEPT ![owner[l].task] = l]
    /\ RefreshBatches(tstate')
    /\ call' = [call EXCEPT ![l] = "over"]
    /\ runq' = Tail(runq)
    /\ UNCHANGED <<arrived, tlease, retry, owner, ledger, sess, serving, releasing, cancelled, wire>>

\* The worker refused, its connection broke or it could not be reached.
GiveBack(l) ==
    /\ runq # <<>> /\ Head(runq) = Resume(l) /\ call[l] \in {"refused", "broken"}
    /\ Revert(l)
    /\ runq' = Append(Tail(runq), Place(owner[l].task))
    /\ UNCHANGED <<arrived, owner, sess, serving, releasing, cancelled, wire>>

\* wait_for gives up after batch_heartbeat_ttl_s; a later reply is dropped.
Timeout(l) ==
    /\ call[l] = "waiting"
    /\ Revert(l)
    /\ runq' = Append(runq, Place(owner[l].task))
    /\ UNCHANGED <<arrived, owner, sess, serving, releasing, cancelled, wire>>
----------------------------------------------------------------------------
(* Frames *)

Frame(c, kind) == toMaster[c] # <<>> /\ Head(toMaster[c]).kind = kind
Consume(c) ==
    /\ toMaster' = [toMaster EXCEPT ![c] = Tail(@)]
    /\ UNCHANGED <<link, toWorker>>

\* Register: a new session takes the place of the one before, and no task is placed.
HandleRegister(c) ==
    /\ Frame(c, "register")
    /\ Consume(c)
    /\ sess' = [sess EXCEPT ![c[1]] = [conn |-> c, online |-> TRUE]]
    /\ serving' = serving \cup {c}
    /\ UNCHANGED <<tasks, bstate, owner, ledger, call, runq, releasing, cancelled>>

\* X: a refusal counts as an answer like any other.
HandleBoundX(c) ==
    /\ Frame(c, "bound")
    /\ Consume(c)
    /\ LET l == Head(toMaster[c]).lease IN
         IF call[l] = "waiting"
         THEN /\ call' = [call EXCEPT ![l] = "bound"]
              /\ runq' = Append(runq, Resume(l))
         ELSE UNCHANGED <<call, runq>>
    /\ UNCHANGED <<tasks, bstate, owner, ledger, sess, serving, releasing, cancelled>>

\* TaskBound resolves the future of its lease, if anybody still waits.
HandleBound(c) ==
    /\ Frame(c, "bound")
    /\ Consume(c)
    /\ LET frame == Head(toMaster[c])
           l == frame.lease IN
         IF call[l] = "waiting"
         THEN /\ call' = [call EXCEPT ![l] = IF frame.ok THEN "bound" ELSE "refused"]
              /\ runq' = Append(runq, Resume(l))
         ELSE UNCHANGED <<call, runq>>
    /\ UNCHANGED <<tasks, bstate, owner, ledger, sess, serving, releasing, cancelled>>

\* X: the capacity of a task that ended is not given back.
HandleCompletedX(c) ==
    /\ Frame(c, "completed")
    /\ Consume(c)
    /\ LET frame == Head(toMaster[c]) IN
         /\ tstate' = [tstate EXCEPT ![frame.task] = frame.status]
         /\ bound' = bound \ {frame.lease}
    /\ RefreshBatches(tstate')
    /\ runq' = runq \o PlaceAll(Picked(arrived, {t \in Task : tstate'[t] = "queued"}))
    /\ UNCHANGED <<arrived, tlease, assigned, retry, owner, load, call, sess, serving, releasing, cancelled>>

\* handle_task_completed and _reevaluate_queued.  The task ends, whichever of its
\* leases the notice is about.
HandleCompleted(c) ==
    /\ Frame(c, "completed")
    /\ Consume(c)
    /\ LET frame == Head(toMaster[c]) IN
         /\ tstate' = [tstate EXCEPT ![frame.task] = frame.status]
         /\ bound' = bound \ {frame.lease}
         /\ load' = [load EXCEPT ![c[1]] = @ \ {frame.task}]
    /\ RefreshBatches(tstate')
    /\ runq' = runq \o PlaceAll(Picked(arrived, {t \in Task : tstate'[t] = "queued"}))
    /\ UNCHANGED <<arrived, tlease, assigned, retry, owner, call, sess, serving, releasing, cancelled>>

\* A handler whose connection never registered ends without a trace.
EndUnregistered(c) ==
    /\ link[c] = "cut" /\ toMaster[c] = <<>> /\ c \notin serving
    /\ link' = [link EXCEPT ![c] = "free"]
    /\ UNCHANGED <<toMaster, toWorker, master>>

\* The leases of worker w in _leases whose task has not ended.
Lost(w) ==
    {l \in bound : owner[l].worker = w /\ tstate[owner[l].task] \notin Terminal}
LossesOf(t, w) == Cardinality({l \in Lost(w) : owner[l].task = t})

\* retry_count after n leases of a task were lost one after the other: the count
\* stops at the one that exceeds the budget.
After(n, count) == IF count + n <= 2 THEN count + n
                   ELSE IF count < 2 THEN 3 ELSE count + 1

\* X: the tasks are queued again, but their futures are left to the timeout.
DisconnectedX(c) ==
    LET w   == c[1]
        hit == {t \in Task : LossesOf(t, w) > 0}
    IN
    /\ link[c] = "cut" /\ toMaster[c] = <<>> /\ c \in serving
    /\ link' = [link EXCEPT ![c] = "free"]
    /\ serving' = serving \ {c}
    /\ sess' = [sess EXCEPT ![w].online = FALSE]
    /\ tstate' = [t \in Task |-> IF t \in hit /\ tstate[t] = "ready" THEN "queued" ELSE tstate[t]]
    /\ load' = [load EXCEPT ![w] = {}]
    /\ RefreshBatches(tstate')
    /\ UNCHANGED <<arrived, tlease, assigned, retry, call, runq, bound, owner, releasing, cancelled,
                   toMaster, toWorker>>

\* The finally clause of the handler: mark_offline, cancel_worker and
\* handle_worker_disconnect for the worker of c, whatever session it has now.
Disconnected(c) ==
    LET w     == c[1]
        hit   == {t \in Task : LossesOf(t, w) > 0}
        waits == {l \in Lease : call[l] = "waiting" /\ owner[l].worker = w}
    IN
    /\ link[c] = "cut" /\ toMaster[c] = <<>> /\ c \in serving
    /\ link' = [link EXCEPT ![c] = "free"]
    /\ serving' = serving \ {c}
    /\ sess' = [sess EXCEPT ![w].online = FALSE]
    /\ call' = [l \in Lease |-> IF l \in waits THEN "broken" ELSE call[l]]
    /\ retry' = [t \in Task |-> IF t \in hit THEN After(LossesOf(t, w), retry[t]) ELSE retry[t]]
    /\ tstate' = [t \in Task |-> IF t \notin hit THEN tstate[t]
                                 ELSE IF retry'[t] > 2 THEN "failed" ELSE "queued"]
    /\ tlease' = [t \in Task |-> IF t \in hit /\ retry[t] < 2 THEN None ELSE tlease[t]]
    /\ assigned' = [t \in Task |-> IF t \in hit /\ retry[t] < 2 THEN None ELSE assigned[t]]
    /\ bound' = {l \in bound : owner[l].worker # w}
    /\ load' = [load EXCEPT ![w] = {}]
    /\ RefreshBatches(tstate')
    /\ runq' = runq \o ResumeAll(waits)
                    \o PlaceAll(Picked([l \in Lease |-> IF l \in Lost(w) THEN owner[l].task
                                                        ELSE None],
                                       {t \in Task : tstate'[t] = "queued"}))
    /\ UNCHANGED <<arrived, owner, releasing, cancelled, toMaster, toWorker>>
=============================================================================
