------------------------------- MODULE Staging -------------------------------
(***************************************************************************)
(* What a machine can reach of the data of its task, and how the two       *)
(* staging phases change it.  A local machine (data/staging.py) sees the   *)
(* links that docker exec makes in its share, once the share is mounted;   *)
(* a machine in the cloud (runtimes/gcp.py) has all the data on its disk   *)
(* and is denied what is not on the task's list.                           *)
(*                                                                         *)
(* docker exec raises on a failed command.  A command that the guest runs  *)
(* raises if the call fails, but a return code other than zero goes        *)
(* unnoticed.                                                              *)
(***************************************************************************)
VARIABLES
    seen,    \* what of the data the share or the disk shows
    mounted, \* the guest has the share, or the disk, in its place
    work,    \* the agent's output: "none", "there" or "lost"
    quiet    \* history: a guest command failed and nobody noticed

dataVars == <<seen, mounted, work, quiet>>

\* Input stands for input and software; others, for all that belongs to other tasks.
Item == {"input", "output", "reference", "others"}

DataTypeOK ==
    /\ seen \subseteq Item
    /\ mounted \in BOOLEAN
    /\ work \in {"none", "there", "lost"}
    /\ quiet \in BOOLEAN

NoData == seen = {} /\ mounted = FALSE /\ work = "none" /\ quiet = FALSE

\* A new machine: nothing is linked, or nothing denied.  A data disk that gets no drive
\* letter is only logged.
Fresh(cloudly) ==
    /\ seen' = IF cloudly THEN Item ELSE {}
    /\ mounted' \in IF cloudly THEN BOOLEAN ELSE {FALSE}
    /\ quiet' = (cloudly /\ ~mounted')
    /\ work' = "none"

\* The lease is over: whatever is left of its machine, disk and share serves nobody.
Wipe == seen' = {} /\ mounted' = FALSE /\ work' = "none" /\ quiet' = FALSE

Erased == IF work = "there" THEN "lost" ELSE work

\* The docker commands of the runtime phase, without a suspension: clear the tree of
\* the share, link the input, make an empty output directory and link it.
Link(ok) ==
    /\ \/ /\ ok
          /\ seen' = {"input", "output"} /\ work' = Erased
       \/ /\ ~ok
          /\ \/ seen' \in {seen, {}, {"input"}} /\ UNCHANGED work
             \/ seen' = {"input"} /\ work' = Erased
    /\ UNCHANGED <<mounted, quiet>>

\* X: the output directory is emptied once it is mounted, not before.
MountX(ok) == mounted' = TRUE /\ work' = Erased /\ UNCHANGED <<seen, quiet>>

\* X: the links are made anew once the share is mounted.
MountTreeX(ok) == mounted' = TRUE /\ seen' = {"input", "output"} /\ UNCHANGED <<work, quiet>>

\* The guest maps the share.
Mount(ok) ==
    /\ \/ mounted' = TRUE /\ UNCHANGED quiet
       \/ ok /\ quiet' = TRUE /\ UNCHANGED mounted
       \/ ~ok /\ UNCHANGED <<mounted, quiet>>
    /\ UNCHANGED <<seen, work>>

\* X: an item that cannot be denied is skipped.
DenyX(item, ok) ==
    /\ seen' \in {seen, seen \ {item}}
    /\ UNCHANGED <<mounted, work, quiet>>

\* The guest denies the user an item, or what it lists of it.
Deny(item, ok) ==
    /\ \/ seen' = seen \ {item} /\ UNCHANGED quiet
       \/ ok /\ quiet' = TRUE /\ UNCHANGED seen
       \/ ~ok /\ UNCHANGED <<seen, quiet>>
    /\ UNCHANGED <<mounted, work>>

\* The eval phase links the reference, or takes its denial back.
Unlock(noticed, ok) ==
    /\ \/ seen' = seen \cup {"reference"} /\ UNCHANGED quiet
       \/ ok /\ ~noticed /\ quiet' = TRUE /\ UNCHANGED seen
       \/ ~ok /\ UNCHANGED <<seen, quiet>>
    /\ UNCHANGED <<mounted, work>>
=============================================================================
