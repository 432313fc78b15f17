------------------------------ MODULE CloudSlots ------------------------------
(***************************************************************************)
(* The machines behind the leases and what exists of them outside the      *)
(* process.  For the cloud (runtimes/gcp.py) these are disks and an        *)
(* instance per slot, made by one gcloud command each; for a local machine *)
(* the container, whose own steps VmRuntime has.                           *)
(*                                                                         *)
(* gcloud runs in the event loop and keeps it from everything else.  A     *)
(* command that is tried again after a transient error may fail because    *)
(* the resource exists by then.                                            *)
(***************************************************************************)
EXTENDS Sequences

CONSTANTS Slot,  \* slot ids, one per request for a machine
          NoSlot

ASSUME SlotAssumption == NoSlot \notin Slot

VARIABLES
    slot,      \* the slot of the task's machine, from prepare_slot to its teardown
    todo,      \* the gcloud commands of start_slot that are still to be run
    cloud,     \* cloud[s]: what exists of slot s: a "disk" without an instance, or
               \*   the "vm" with its disks
    used,      \* the slots that were drawn
    abandoned, \* history: slots of which a failed start left something
    undeleted  \* history: slots whose deletion failed

slotVars == <<slot, todo, cloud, used, abandoned, undeleted>>

Command == {"disk", "vm"}

\* The data disk and the boot disk are made apart if the image has snapshots for them.
Plans(cloudly) ==
    IF cloudly THEN {<<"vm">>, <<"disk", "vm">>, <<"disk", "disk", "vm">>} ELSE {<<>>}

SlotTypeOK ==
    /\ slot \in Slot \cup {NoSlot}
    /\ todo \in Seq(Command)
    /\ cloud \in [Slot -> SUBSET Command]
    /\ used \subseteq Slot /\ abandoned \subseteq Slot /\ undeleted \subseteq Slot

SlotInit ==
    /\ slot = NoSlot /\ todo = <<>>
    /\ cloud = [s \in Slot |-> {}]
    /\ used = {} /\ abandoned = {} /\ undeleted = {}

LoopFree == todo = <<>>

\* What a command adds to what there is; an instance takes the disks over.
Made(there, command) == IF command = "vm" THEN {"vm"} ELSE there \cup {command}

\* X: slot ids are counted from the start of the process.
PrepareX(cloudly) ==
    /\ used # Slot
    /\ slot' = CHOOSE s \in Slot : TRUE
    /\ used' = used \cup {slot'}
    /\ todo' \in Plans(cloudly)
    /\ UNCHANGED <<cloud, abandoned, undeleted>>

\* A slot id that was never drawn before; which one makes no difference.
Prepare(cloudly) ==
    /\ used # Slot
    /\ slot' = CHOOSE s \in Slot : s \notin used
    /\ used' = used \cup {slot'}
    /\ todo' \in Plans(cloudly)
    /\ UNCHANGED <<cloud, abandoned, undeleted>>

RunCommand ==
    /\ todo # <<>>
    /\ cloud' = [cloud EXCEPT ![slot] = Made(@, Head(todo))]
    /\ todo' = Tail(todo)
    /\ UNCHANGED <<slot, used, abandoned, undeleted>>

\* The start raises, at a command or later: no handle was kept, what there is stays.
StartRaises(left) ==
    /\ cloud' = [cloud EXCEPT ![slot] = left]
    /\ abandoned' = IF left = {} THEN abandoned ELSE abandoned \cup {slot}
    /\ slot' = NoSlot /\ todo' = <<>>
    /\ UNCHANGED <<used, undeleted>>

\* X: the slot of a task that is no longer known as a cloud task is not deleted.
DeleteX ==
    /\ slot' = NoSlot
    /\ UNCHANGED <<todo, cloud, used, abandoned, undeleted>>

\* reset_slot or destroy_vm: the deletion takes the attached disks along.  It runs with
\* check=False.
Delete ==
    /\ \/ cloud' = [cloud EXCEPT ![slot] = {}] /\ UNCHANGED undeleted
       \/ undeleted' = undeleted \cup {slot} /\ UNCHANGED cloud
    /\ slot' = NoSlot
    /\ UNCHANGED <<todo, used, abandoned>>

\* The command that runs, if any, does its work.
Done(there) == IF todo = <<>> THEN there ELSE [there EXCEPT ![slot] = Made(@, Head(todo))]

\* The process starts again and cleanup_orphaned_state deletes the instances that it
\* lists: disks without one stay.  A gcloud that outlives the old process may do its
\* work before the listing, after it, or not at all.
Cleanup ==
    \E there \in {cloud, Done(cloud)} :
    \E F \in SUBSET {s \in Slot : "vm" \in there[s]} :
      LET left == [s \in Slot |-> IF "vm" \in there[s] /\ s \notin F THEN {} ELSE there[s]]
      IN /\ cloud' \in IF there = cloud THEN {left, Done(left)} ELSE {left}
         /\ undeleted' = F
         /\ abandoned' = {s \in abandoned : "vm" \notin cloud[s]}
                            \cup {s \in {slot} : todo # <<>> /\ cloud'[s] # {}}
         /\ slot' = NoSlot /\ todo' = <<>>
         /\ UNCHANGED used
=============================================================================
