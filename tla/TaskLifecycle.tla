--------------------------- MODULE TaskLifecycle ---------------------------
(***************************************************************************)
(* What cua-house promises the submitter of a task, whoever runs it: the   *)
(* task waits, is granted one machine of its own, gives it back with one   *)
(* verdict, and ends once.  A task ends well only after the teardown of    *)
(* its machine went through, which is not to say that the machine is gone: *)
(* the command that removes it may have failed with nobody looking.        *)
(* Nothing is said of batches, leases, timers, runtimes or the network:    *)
(* the schedulers add those and must still behave like this module.        *)
(*                                                                         *)
(* A step of an implementation can move several tasks at once (a batch is  *)
(* cancelled, the reaper abandons every expired lease), so Next constrains *)
(* every task separately instead of choosing one task to move.             *)
(***************************************************************************)

CONSTANT Task,     \* the tasks a client can name
         NoVerdict \* the verdict of a task that was not given back

VARIABLES phase,   \* phase[t]: where the task is in its life
          verdict, \* verdict[t]: what the task was given back with
          machine  \* machine[t]: "up" while a machine of the task is running, "left" once
                   \* a teardown went through that did not remove it, "none" otherwise

vars == <<phase, verdict, machine>>

Phase == {"absent", "waiting", "held", "closing", "done", "aborted"}

Init ==
    /\ phase = [t \in Task |-> "absent"]
    /\ verdict = [t \in Task |-> NoVerdict]
    /\ machine = [t \in Task |-> "none"]
----------------------------------------------------------------------------
Move(t, from, to) == phase[t] = from /\ phase'[t] = to

\* Nothing was given back in this step.
SameVerdict(t) == verdict'[t] = verdict[t]

\* A machine may come and go while its task waits: it is being started.
Wait(t) ==
    /\ Move(t, "waiting", "waiting")
    /\ SameVerdict(t)

\* The task is accepted and queued, or refused outright.
Accept(t) ==
    /\ \/ Move(t, "absent", "waiting")
       \/ Move(t, "absent", "aborted")
    /\ SameVerdict(t)
    /\ machine'[t] = machine[t]

\* The client gets a running machine.
Grant(t) ==
    /\ \/ Move(t, "absent", "held")
       \/ Move(t, "waiting", "held")
    /\ SameVerdict(t)
    /\ machine'[t] = "up"

\* No machine could be started, or nobody wants it any more.
GiveUp(t) ==
    /\ Move(t, "waiting", "aborted")
    /\ SameVerdict(t)

\* The machine is given back, with a verdict that stands from here on.
Return(t) ==
    /\ Move(t, "held", "closing")
    /\ verdict[t] = NoVerdict
    /\ verdict'[t] # NoVerdict
    /\ machine'[t] = machine[t]

\* Success: only on the verdict "completed", and only when the teardown went through.
Finish(t) ==
    /\ Move(t, "closing", "done")
    /\ verdict[t] = "completed"
    /\ SameVerdict(t)
    /\ machine'[t] # "up"

\* Any other verdict, or a teardown that raised: its machine may be up still.
Abort(t) ==
    /\ Move(t, "closing", "aborted")
    /\ SameVerdict(t)

Rest(t) ==
    /\ phase'[t] = phase[t]
    /\ SameVerdict(t)
    /\ machine'[t] = machine[t]

Step(t) ==
    \/ Accept(t) \/ Wait(t)   \/ Grant(t) \/ GiveUp(t)
    \/ Return(t) \/ Finish(t) \/ Abort(t) \/ Rest(t)

Next == \A t \in Task : Step(t)

Spec == Init /\ [][Next]_vars
=============================================================================
