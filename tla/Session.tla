------------------------------- MODULE Session -------------------------------
(***************************************************************************)
(* One task from the side of its client: the SDK (packages/client) with    *)
(* its retries, the lease handlers of the server as its requests meet      *)
(* them, staging on the machine, and the machine's life until its clean-up *)
(* (LeaseScheduler has the scheduler with many tasks).                     *)
(*                                                                         *)
(* The client is the program of packages/client/README.md: submit and      *)
(* poll (acquire_lease), stage the runtime data, let the agent work, stage *)
(* the reference, judge, complete (AcquiredLease).  Every call but the     *)
(* polls and beats is a request that may be sent again while an earlier    *)
(* attempt of it is still under way or being handled; only the answer to   *)
(* the last attempt is heard.  Polls and beats change nothing when they    *)
(* are repeated and are one step.                                          *)
(*                                                                         *)
(* Requests are handled in the order in which they were sent if the client *)
(* talks to the server itself, and in any order behind a proxy that        *)
(* forwards each by itself (api/cluster_lease_proxy.py).                   *)
(***************************************************************************)
EXTENDS Naturals, Sequences, SequencesExt, Staging, CloudSlots

CONSTANTS Attempts,   \* how often _request tries (4 in the code)
          MaxRestarts \* bound: how often the server starts again

ASSUME BoundAssumption == Attempts \in Nat \ {0} /\ MaxRestarts \in Nat

VARIABLES
    cloudly,  \* the runtime of the image: gcp, or local
    proxied,  \* requests go through a proxy
    cl,       \* where the client's program is
    tries,    \* attempts of the current call that were made
    waiting,  \* the last one has neither been answered nor broken
    raised,   \* the body of the client's "async with" raised
    wire,     \* requests that the server has not taken up: [op, n]
    jobs,     \* staging handlers that are suspended: [op, n, at]
    st,       \* state of the task, "none" if the server does not know it
    verdict,  \* final_status of the first completion
    batch,    \* the expiry of the batch is watched
    unlocked, \* history: a handler of stage-eval has begun
    overlap,  \* history: a stage-runtime request was left over at that time
    restarts

clientVars == <<cl, tries, waiting, raised>>
serverVars == <<st, verdict, batch>>
pastVars   == <<unlocked, overlap, restarts>>
vars == <<cloudly, proxied, cl, tries, waiting, raised, wire, jobs, st, verdict, batch,
          unlocked, overlap, restarts, slot, todo, cloud, used, abandoned, undeleted,
          seen, mounted, work, quiet>>

Op == {"submit", "stage-runtime", "stage-eval", "complete"}
Calling == {"submitting", "staging", "unlocking", "leaving"}
Inside  == {"staging", "working", "unlocking", "judging"}
Out     == {"over", "gone"}
Cl == Calling \cup Inside \cup Out \cup {"polling"}

Live  == {"ready", "leased"}
Ended == {"none", "completed", "failed"}
St == Live \cup Ended \cup {"queued", "starting", "resetting"}

\* The request of each call.
Request == [submitting |-> "submit", staging |-> "stage-runtime",
            unlocking |-> "stage-eval", leaving |-> "complete"]

TypeOK ==
    /\ DataTypeOK /\ SlotTypeOK
    /\ cloudly \in BOOLEAN /\ proxied \in BOOLEAN
    /\ cl \in Cl /\ tries \in 0..Attempts
    /\ waiting \in BOOLEAN /\ raised \in BOOLEAN
    /\ wire \in Seq([op : Op, n : 1..Attempts])
    /\ jobs \subseteq [op : Op, n : 1..Attempts, at : {"mount", "reference", "others", "unlock"}]
    /\ st \in St
    /\ verdict \in {"none", "completed", "failed", "abandoned"}
    /\ batch \in BOOLEAN
    /\ unlocked \in BOOLEAN /\ overlap \in BOOLEAN
    /\ restarts \in 0..MaxRestarts

Init ==
    /\ NoData /\ SlotInit
    /\ cloudly \in BOOLEAN /\ proxied \in BOOLEAN /\ ~(cloudly /\ proxied)
    /\ cl = "submitting" /\ tries = 0 /\ waiting = FALSE /\ raised = FALSE
    /\ wire = <<>> /\ jobs = {}
    /\ st = "none" /\ verdict = "none" /\ batch = FALSE
    /\ unlocked = FALSE /\ overlap = FALSE /\ restarts = 0

----------------------------------------------------------------------------
(* The client *)

\* A call returned, or it raised: submit ends the program, a staging call the body of
\* "async with", and complete raises in vain, for __aexit__ swallows it.
Returns ==
    /\ cl' = CASE cl = "submitting" -> "polling"
               [] cl = "staging"    -> "working"
               [] cl = "unlocking"  -> "judging"
               [] cl = "leaving"    -> "over"
    /\ tries' = 0 /\ waiting' = FALSE
    /\ UNCHANGED raised

Raises ==
    /\ cl' = IF cl \in Inside THEN "leaving" ELSE "over"
    /\ raised' = (raised \/ cl \in Inside)
    /\ tries' = 0 /\ waiting' = FALSE

\* The answer to request r: the client hears it if it waits for that attempt.
Answer(r, ok) ==
    IF cl \in Calling /\ waiting /\ r = [op |-> Request[cl], n |-> tries]
    THEN IF ok THEN Returns ELSE Raises
    ELSE UNCHANGED clientVars

Send ==
    /\ cl \in Calling /\ ~waiting /\ tries < Attempts
    /\ wire' = Append(wire, [op |-> Request[cl], n |-> tries + 1])
    /\ tries' = tries + 1 /\ waiting' = TRUE
    /\ UNCHANGED <<cl, raised>>

\* No connection: nothing was sent.
Unsent ==
    /\ cl \in Calling /\ ~waiting /\ tries < Attempts
    /\ IF tries + 1 = Attempts
       THEN Raises
       ELSE tries' = tries + 1 /\ UNCHANGED <<cl, waiting, raised>>
    /\ UNCHANGED wire

\* The connection breaks before the answer: the request is lost, goes on, or was handled.
Break ==
    /\ waiting
    /\ IF tries = Attempts THEN Raises ELSE waiting' = FALSE /\ UNCHANGED <<cl, tries, raised>>
    /\ \/ UNCHANGED wire
       \/ \E i \in DOMAIN wire : /\ wire[i] = [op |-> Request[cl], n |-> tries]
                                /\ wire' = RemoveAt(wire, i)

\* A read timeout is no connection error: it raises at once.
Late == waiting /\ Raises /\ UNCHANGED wire

\* acquire_lease reads the task: a lease, an end, or nothing yet; it gives up on errors
\* and after max_wait_s, and leaves the batch behind.
Poll ==
    /\ cl = "polling" /\ LoopFree
    /\ \/ st \in Live /\ cl' = "staging"
       \/ st \in Ended /\ cl' = "over"
    /\ UNCHANGED <<tries, waiting, raised, wire>>

GiveUp == cl = "polling" /\ cl' = "over" /\ UNCHANGED <<tries, waiting, raised, wire>>

\* The body goes on, or raises; its end is the call of __aexit__.
Proceed ==
    /\ \/ cl = "working" /\ cl' = "unlocking" /\ UNCHANGED raised
       \/ cl = "judging" /\ cl' = "leaving" /\ UNCHANGED raised
       \/ cl \in {"working", "judging"} /\ cl' = "leaving" /\ raised' = TRUE
    /\ UNCHANGED <<tries, waiting, wire>>

Crash ==
    /\ cl \notin Out /\ cl' = "gone"
    /\ tries' = 0 /\ waiting' = FALSE
    /\ UNCHANGED <<raised, wire>>

Client ==
    /\ Send \/ Unsent \/ Break \/ Late \/ Poll \/ GiveUp \/ Proceed \/ Crash
    /\ UNCHANGED <<cloudly, proxied, jobs, serverVars, pastVars, slotVars, dataVars>>

\* The agent writes its output where runtime staging put it.
Write ==
    /\ cl = "working" /\ st \in Live /\ work = "none"
    /\ "output" \in seen /\ mounted
    /\ work' = "there"
    /\ UNCHANGED <<seen, mounted, quiet, cloudly, proxied, clientVars, wire, jobs, serverVars,
                   pastVars, slotVars>>

\* The heartbeat loop, and the handler: READY becomes LEASED, and the reaper waits on.
Beat ==
    /\ cl \in Inside /\ LoopFree /\ st = "ready"
    /\ st' = "leased"
    /\ UNCHANGED <<verdict, batch, cloudly, proxied, clientVars, wire, jobs, pastVars, slotVars,
                   dataVars>>

----------------------------------------------------------------------------
(* The handlers *)

\* submit_batch refuses an id it has, also if it was an earlier attempt that gave it.
Submit(r) ==
    /\ r.op = "submit"
    /\ IF st = "none"
       THEN st' = "queued" /\ batch' = TRUE /\ Answer(r, TRUE)
       ELSE UNCHANGED <<st, batch>> /\ Answer(r, FALSE)
    /\ UNCHANGED <<verdict, jobs, unlocked, overlap, dataVars>>

\* complete: the lease is in the table until its teardown has ended; only the first
\* completion counts.
Complete(r) ==
    /\ r.op = "complete"
    /\ \/ /\ st \in Live
          /\ st' = "resetting" /\ verdict' = IF raised THEN "failed" ELSE "completed"
          /\ Answer(r, TRUE)
       \/ /\ st \notin Live
          /\ UNCHANGED <<st, verdict>> /\ Answer(r, st = "resetting")
    /\ UNCHANGED <<batch, jobs, unlocked, overlap, dataVars>>

\* _stage_phase refuses a lease that is unknown or being closed.
StageRefused(r) ==
    /\ r.op \in {"stage-runtime", "stage-eval"} /\ st \notin Live
    /\ Answer(r, FALSE)
    /\ UNCHANGED <<jobs, unlocked, overlap, serverVars, dataVars>>

Suspend(r, at) == jobs' = jobs \cup {[op |-> r.op, n |-> r.n, at |-> at]}

\* The docker commands run before the first suspension, the mount is awaited.
StageRuntime(r) ==
    /\ r.op = "stage-runtime" /\ st \in Live
    /\ \/ ~cloudly /\ Link(TRUE)  /\ Suspend(r, "mount") /\ UNCHANGED clientVars
       \/ ~cloudly /\ Link(FALSE) /\ Answer(r, FALSE) /\ UNCHANGED jobs
       \/ cloudly /\ Suspend(r, "reference") /\ UNCHANGED <<clientVars, dataVars>>
    /\ UNCHANGED <<unlocked, overlap, serverVars>>

StageEval(r) ==
    /\ r.op = "stage-eval" /\ st \in Live
    /\ \/ cloudly /\ Suspend(r, "unlock") /\ UNCHANGED <<clientVars, dataVars>>
       \/ ~cloudly /\ UNCHANGED jobs /\ \E ok \in BOOLEAN : Unlock(TRUE, ok) /\ Answer(r, ok)
    /\ unlocked' = TRUE
    /\ overlap' = (overlap \/ \E o \in ToSet(wire) \cup jobs : o.op = "stage-runtime")
    /\ UNCHANGED serverVars

\* The server takes up a request.
Take ==
    /\ LoopFree
    /\ \E i \in DOMAIN wire :
         /\ proxied \/ i = 1
         /\ wire' = RemoveAt(wire, i)
         /\ \/ Submit(wire[i]) \/ Complete(wire[i]) \/ StageRefused(wire[i])
            \/ StageRuntime(wire[i]) \/ StageEval(wire[i])
    /\ UNCHANGED <<cloudly, proxied, restarts, slotVars>>

\* A command of the guest was answered, and the handler goes on or ends.  A machine that
\* is gone answers nothing.
JobStep ==
    /\ LoopFree
    /\ \E j \in jobs, ok \in BOOLEAN :
         LET End == jobs' = jobs \ {j} /\ Answer([op |-> j.op, n |-> j.n], ok)
             On(at) == jobs' = (jobs \ {j}) \cup {[j EXCEPT !.at = at]} /\ UNCHANGED clientVars
         IN /\ ok => slot # NoSlot
            /\ IF slot = NoSlot
               THEN UNCHANGED dataVars /\ End
               ELSE \/ j.at = "mount" /\ Mount(ok) /\ End
                    \/ j.at = "reference" /\ Deny("reference", ok) /\ (IF ok THEN On("others") ELSE End)
                    \/ j.at = "others" /\ Deny("others", ok) /\ End
                    \/ j.at = "unlock" /\ Unlock(FALSE, ok) /\ End
    /\ UNCHANGED <<cloudly, proxied, wire, serverVars, pastVars, slotVars>>

----------------------------------------------------------------------------
(* Scheduler and machine *)

\* The dispatch loop takes the task and asks the runtime for a machine.
Dispatch ==
    /\ LoopFree /\ st = "queued" /\ slot = NoSlot
    /\ Prepare(cloudly)
    /\ st' = "starting"
    /\ UNCHANGED <<verdict, batch, dataVars>>

RunStart == st = "starting" /\ RunCommand /\ UNCHANGED <<serverVars, dataVars>>

\* The start raises: at a command, which may have done its work all the same, or later,
\* when the machine does not come up.
StartFails ==
    /\ st = "starting"
    /\ IF todo # <<>>
       THEN \E left \in {cloud[slot], Made(cloud[slot], Head(todo))} : StartRaises(left)
       ELSE StartRaises(cloud[slot])
    /\ st' = "failed"
    /\ UNCHANGED <<verdict, batch, dataVars>>

\* The machine is up, and gets a lease.
Bind ==
    /\ st = "starting" /\ LoopFree
    /\ st' = "ready"
    /\ cloud' = [cloud EXCEPT ![slot] = {"vm"}]
    /\ Fresh(cloudly)
    /\ UNCHANGED <<verdict, batch, slot, todo, used, abandoned, undeleted>>

\* X: only a lease that was used is looked at.
ReapX ==
    /\ LoopFree /\ st = "leased"
    /\ st' = "resetting" /\ verdict' = "abandoned"
    /\ UNCHANGED <<batch, slotVars, dataVars>>

\* The reaper closes a lease that has had no beat for its time to live.
Reap ==
    /\ LoopFree /\ st \in Live
    /\ st' = "resetting" /\ verdict' = "abandoned"
    /\ UNCHANGED <<batch, slotVars, dataVars>>

\* And it cancels an expired batch, whose beats the SDK never sends; a task that is
\* STARTING is overlooked.
ReapBatch ==
    /\ LoopFree /\ batch
    /\ batch' = FALSE
    /\ st' = CASE st = "queued" -> "failed" [] st \in Live -> "resetting" [] OTHER -> st
    /\ verdict' = IF st \in Live THEN "abandoned" ELSE verdict
    /\ UNCHANGED <<slotVars, dataVars>>

\* X: the task ends in its verdict, whatever that says.
FinalizeRawX ==
    /\ LoopFree /\ st = "resetting"
    /\ Delete /\ Wipe
    /\ st' = verdict /\ verdict' = "none"
    /\ UNCHANGED batch

\* X: only "failed" fails a task.
FinalizeX ==
    /\ LoopFree /\ st = "resetting"
    /\ Delete /\ Wipe
    /\ st' = IF verdict = "failed" THEN "failed" ELSE "completed"
    /\ verdict' = "none"
    /\ UNCHANGED batch

\* _finalize_task: the machine is torn down, and the task ends as its verdict says, unless the
\* teardown raises, which only a local one does.
Finalize ==
    /\ LoopFree /\ st = "resetting"
    /\ Delete /\ Wipe
    /\ \/ st' = IF verdict = "completed" THEN "completed" ELSE "failed"
       \/ ~cloudly /\ st' = "failed"
    /\ verdict' = "none"
    /\ UNCHANGED batch

Scheduler ==
    /\ \/ Dispatch \/ RunStart \/ StartFails \/ Bind \/ Reap \/ ReapBatch \/ Finalize
    /\ UNCHANGED <<cloudly, proxied, clientVars, wire, jobs, pastVars>>

\* The server ends, at any moment, and starts again: tasks, leases and requests are gone.
Restart ==
    /\ restarts < MaxRestarts /\ restarts' = restarts + 1
    /\ Cleanup
    /\ st' = "none" /\ verdict' = "none" /\ batch' = FALSE
    /\ jobs' = {} /\ wire' = <<>>
    /\ unlocked' = FALSE /\ overlap' = FALSE
    /\ Wipe
    /\ UNCHANGED <<cloudly, proxied, clientVars>>

Next == Client \/ Write \/ Beat \/ Take \/ JobStep \/ Scheduler \/ Restart

(***************************************************************************)
(* The loops of the server run, gcloud and the waits for a machine end,    *)
(* and the lease of a client that went away expires.  Of the client and    *)
(* the network nothing is assumed.                                         *)
(***************************************************************************)
Spec ==
    /\ Init /\ [][Next]_vars
    /\ WF_vars((Dispatch \/ RunStart \/ StartFails \/ Bind \/ Finalize) /\ Scheduler)
    /\ WF_vars(cl \in Out /\ Reap /\ Scheduler)

----------------------------------------------------------------------------
(* Properties *)

\* On a direct connection, whatever was tried again: from the answer to stage-runtime to
\* the end of the lease the agent has its input and an output directory, and what it
\* wrote stays there (the order of staging.py: everything is cleared before the mount).
WorkplaceStands ==
    cl \in {"working", "unlocking", "judging"} /\ st \in Live /\ restarts = 0 /\ ~proxied =>
        /\ {"input", "output"} \subseteq seen /\ work # "lost"
        /\ mounted \/ quiet

\* Between the answer to stage-runtime and the first stage-eval the machine shows no
\* reference and nothing of other tasks, unless a guest command failed unnoticed.
ReferenceHidden ==
    cl \in {"working", "unlocking"} /\ st \in Live /\ restarts = 0 /\ ~unlocked =>
        seen \cap {"reference", "others"} = {} \/ quiet

\* After the answer to stage-eval the judge has the reference until the lease ends,
\* unless a stage-runtime that was left over takes it away again: behind a proxy, or in
\* the cloud, where staging suspends before every denial.
JudgeSeesReference ==
    cl = "judging" /\ st \in Live /\ restarts = 0 =>
        \/ "reference" \in seen \/ quiet
        \/ overlap /\ (proxied \/ cloudly)

\* A task only ends COMPLETED if its client left the body without an exception, whatever
\* the reaper, retries and late requests did.
EarnedByClient ==
    st = "completed" => ~raised /\ cl \in {"leaving"} \cup Out

\* What exists outside the process belongs to the slot of a task that has a machine or
\* awaits one, unless a start failed half-way or a deletion did.
CloudAccounted ==
    \A s \in Slot : cloud[s] # {} =>
        \/ s = slot /\ st \in Live \cup {"starting", "resetting"}
        \/ s \in abandoned \cup undeleted

\* Once the client has left, given up or crashed, its task ends, and no request that is
\* still under way brings it to stay again.
AbandonedEnds == cl \in Out ~> [](st \in Ended)

Contract == INSTANCE MachineContract WITH
    Boot <- Slot, Port <- Slot,
    vm <- [s \in Slot |-> CASE s \notin used                     -> "none"
                            [] s = slot /\ st = "starting"  -> "booting"
                            [] s = slot /\ st \in Live      -> "serving"
                            [] s = slot /\ st = "resetting" -> "closing"
                            [] OTHER                        -> "gone"],
    addr <- [s \in Slot |-> IF s = slot /\ st \in Live \cup {"resetting"} THEN {s} ELSE {}]

\* The runtimes keep their contract with the scheduler here, too: a request ends with a
\* machine or without, and a teardown asked for ends.
ImplementsContract == Contract!Spec
=============================================================================
