------------------------------ MODULE VmRuntime ------------------------------
(***************************************************************************)
(* The local runtime (runtimes/qemu.py, DockerQemuRuntime): one docker     *)
(* container with a QEMU machine per request, a directory for its disk,    *)
(* host ports from two pools (_internal/port_pool.py) and the snapshot     *)
(* cache.  provision_vm and destroy_vm run as coroutines of one event      *)
(* loop, as many at a time as the scheduler starts.                        *)
(*                                                                         *)
(* Grain of atomicity.  A step is what the loop runs between two           *)
(* suspensions; docker commands block the loop and are part of the step    *)
(* that issues them.  The suspensions of provision_vm are the mutation     *)
(* lock, the download of a template, the copy of the disk (a thread, so    *)
(* it also runs while the loop is busy), the polls of wait_ready and       *)
(* savevm.  The write of a cache entry blocks the loop, but not a thread.  *)
(*                                                                         *)
(* docker, QEMU and the guest are external: a command may fail, a guest    *)
(* may never answer, and the process may end at any moment.  A container   *)
(* stays until it is removed; whether QEMU in it still runs nobody is told *)
(* after wait_ready, and the model does not tell either.                   *)
(***************************************************************************)
EXTENDS Naturals, FiniteSets, SnapshotCache

CONSTANTS Boot,        \* calls of provision_vm (each draws a vm_id of its own)
          Published,   \* published_port_range
          Novnc,       \* novnc_port_range
          Guests,      \* how many guest ports an image publishes
          MaxRestarts, \* bound: how often the process starts again
          MaxRmFails   \* bound: how many containers "docker rm" leaves at a time

ASSUME PortAssumption ==
    /\ Published \subseteq Nat /\ Novnc \subseteq Nat /\ Published \cap Novnc = {}
    /\ IsFiniteSet(Published) /\ IsFiniteSet(Novnc)
    /\ Guests \in Nat \ {0}
    /\ MaxRestarts \in Nat /\ MaxRmFails \in Nat

VARIABLES
    pc,       \* pc[b]: where the coroutine of provision_vm is
    shape,    \* shape[b]: the cache key it asks for
    found,    \* found[b]: what its lookup said, until the copy that goes by it
    held,     \* held[b]: the host ports of its handle
    disk,     \* disk[b]: the disk in its slot directory
    taken,    \* _allocated of both pools
    handles,  \* _hotplug_handles
    closing,  \* closing[b]: calls of destroy_vm between the pop and the lock
    slots,    \* the slot directories on the host
    box,      \* box[b]: its container on the host: none, or there, whether it runs or not
    template, \* the template of the image is on this host
    bootsh,   \* boot-patched.sh: not there, patched, or as docker cp or a failure left it
    restarts, \* how often the process has started again
    rmFailed  \* history: the containers the last "docker rm" left where they were

bootVars == <<pc, shape, found, held, disk>>
ownVars  == <<taken, handles, closing>>
hostVars == <<slots, box, template, bootsh>>
vars == <<pc, shape, found, held, disk, taken, handles, closing, slots, box,
          template, bootsh, restarts, rmFailed, build, file, maker, side, doubt>>

Port == Published \cup Novnc

Pc == {"new", "queued", "pulling", "copying", "starting", "waiting", "saving",
       "writing", "served", "refused", "failed", "lost"}
InFlight == {"queued", "pulling", "copying", "starting", "waiting", "saving", "writing"}
Locking  == {"pulling", "copying", "starting"}
Disk == [of : {"none", "template", "entry"}, state : {"none", "unfit", "whole"},
         maker : Build \cup {NoBuild}]
NoDisk == [of |-> "none", state |-> "none", maker |-> NoBuild]

TypeOK ==
    /\ CacheTypeOK
    /\ pc \in [Boot -> Pc]
    /\ shape \in [Boot -> Shape]
    /\ found \in [Boot -> {"none", "hit", "miss"}]
    /\ held \in [Boot -> SUBSET Port]
    /\ disk \in [Boot -> Disk]
    /\ taken \subseteq Port
    /\ handles \subseteq Boot
    /\ closing \in [Boot -> Nat]
    /\ slots \subseteq Boot
    /\ box \in [Boot -> {"none", "there"}]
    /\ template \in BOOLEAN
    /\ bootsh \in {"absent", "raw", "patched"}
    /\ restarts \in 0..MaxRestarts
    /\ rmFailed \subseteq Boot

Init ==
    /\ CacheInit
    /\ pc = [b \in Boot |-> "new"]
    /\ shape \in [Boot -> Shape]
    /\ found = [b \in Boot |-> "none"]
    /\ held = [b \in Boot |-> {}]
    /\ disk = [b \in Boot |-> NoDisk]
    /\ taken = {} /\ handles = {} /\ slots = {} /\ rmFailed = {}
    /\ closing = [b \in Boot |-> 0]
    /\ box = [b \in Boot |-> "none"]
    /\ template \in BOOLEAN
    /\ bootsh = "absent"
    /\ restarts = 0

\* write() is the one call that keeps the loop from everything else for long.
LoopFree == \A b \in Boot : pc[b] # "writing"
LockFree == \A b \in Boot : pc[b] \notin Locking

Goto(b, to) == pc' = [pc EXCEPT ![b] = to]

----------------------------------------------------------------------------
(* provision_vm *)

\* The lookup comes before the lock: its answer may be old when it is used.
Call(b) ==
    /\ LoopFree /\ pc[b] = "new"
    /\ Goto(b, "queued")
    /\ found' = [found EXCEPT ![b] = IF Hit(shape[b]) THEN "hit" ELSE "miss"]
    /\ Lookup(shape[b])
    /\ UNCHANGED <<shape, held, disk, ownVars, hostVars, restarts, rmFailed>>

\* PortPool.allocate, n times: the lowest free ports, or all of them if they are fewer.
Draw(n, free) == {S \in SUBSET free : /\ \A p \in S, q \in free \ S : p < q
                                      /\ \/ Cardinality(S) = n
                                         \/ S = free /\ Cardinality(S) < n}

\* X: the pool looks at the machines in _hotplug_handles for what is free.
TakePortsX(b) ==
    LET used == UNION {held[o] : o \in handles}
    IN \E P \in Draw(Guests, Published \ used) :
         \E V \in IF Cardinality(P) = Guests THEN Draw(1, Novnc \ used) ELSE {{}} :
           /\ held' = [held EXCEPT ![b] = P \cup V]
           /\ taken' = taken \cup P \cup V
           /\ Goto(b, IF V = {} THEN "failed" ELSE "copying")

\* The ports are taken one after the other; the exception of an empty pool leaves
\* those taken before it with nobody.
TakePorts(b) ==
    \E P \in Draw(Guests, Published \ taken) :
      \E V \in IF Cardinality(P) = Guests THEN Draw(1, Novnc \ taken) ELSE {{}} :
        /\ held' = [held EXCEPT ![b] = P \cup V]
        /\ taken' = taken \cup P \cup V
        /\ Goto(b, IF V = {} THEN "failed" ELSE "copying")

\* The lock is granted.  pull_template suspends only if the template is missing.
Acquire(b) ==
    /\ LoopFree /\ LockFree /\ pc[b] = "queued"
    /\ \/ template /\ TakePorts(b)
       \/ ~template /\ Goto(b, "pulling") /\ UNCHANGED <<held, taken>>
    /\ UNCHANGED <<shape, found, disk, handles, closing, hostVars, restarts, rmFailed, cacheVars>>

Pulled(b) ==
    /\ LoopFree /\ pc[b] = "pulling"
    /\ template' = TRUE
    /\ TakePorts(b)
    /\ UNCHANGED <<shape, found, disk, handles, closing, slots, box, bootsh, restarts,
                   rmFailed, cacheVars>>

PullFails(b) ==
    /\ LoopFree /\ pc[b] = "pulling"
    /\ Goto(b, "refused")
    /\ UNCHANGED <<shape, found, held, disk, ownVars, hostVars, restarts, rmFailed, cacheVars>>

\* What a copy of the entry of shape k can get: what is there and, while a boot
\* writes the entry, also nothing or what will be there.
Copies(k) ==
    LET Entry(state) == [of |-> "entry", state |-> state, maker |-> maker[k]]
        late == {Entry(disk[w].state) : w \in {o \in Boot : pc[o] = "writing" /\ shape[o] = k}}
    IN IF late # {} THEN late \cup {Entry(file[k]), NoDisk}
       ELSE IF file[k] = "absent" THEN {NoDisk} ELSE {Entry(file[k])}

\* _prepare_vm_from_source and _prepare_vm, in a thread: the directory is there
\* from the start, whether the copy succeeds or raises.
CopyEnds(b, d) ==
    /\ pc[b] = "copying"
    /\ Goto(b, IF d = NoDisk THEN "failed" ELSE "starting")
    /\ disk' = [disk EXCEPT ![b] = d]
    /\ slots' = slots \cup {b}
    /\ found' = [found EXCEPT ![b] = "none"]
    /\ UNCHANGED <<shape, held, ownVars, box, template, bootsh, restarts, rmFailed, cacheVars>>

CopyEntry(b) == found[b] = "hit" /\ \E d \in Copies(shape[b]) : CopyEnds(b, d)

CopyTemplate(b) ==
    found[b] = "miss" /\ CopyEnds(b, [of |-> "template", state |-> "unfit", maker |-> NoBuild])

CopyFails(b) == CopyEnds(b, NoDisk)

\* _start_vm_container: boot.sh is extracted unless a file of that name exists, and
\* the container starts.  It cannot while a container that an earlier process left runs
\* on one of its ports (StartFails), and can once that one has ended.
Start(b) ==
    /\ LoopFree /\ pc[b] = "starting"
    /\ Goto(b, "waiting")
    /\ bootsh' = IF bootsh = "absent" THEN "patched" ELSE bootsh
    /\ box' = [box EXCEPT ![b] = "there"]
    /\ UNCHANGED <<shape, found, held, disk, ownVars, slots, template, restarts, rmFailed, cacheVars>>

\* The extraction raises, before or after docker cp; or docker run does, with or without
\* a container; or the write of its log, and the container runs.  Ports, directory,
\* boot.sh and container stay as they are.
StartFails(b) ==
    /\ LoopFree /\ pc[b] = "starting"
    /\ Goto(b, "failed")
    /\ \/ bootsh = "absent" /\ bootsh' \in {"absent", "raw", "patched"} /\ UNCHANGED box
       \/ /\ bootsh' = IF bootsh = "absent" THEN "patched" ELSE bootsh
          /\ box' \in {box, [box EXCEPT ![b] = "there"]}
    /\ UNCHANGED <<shape, found, held, disk, ownVars, slots, template, restarts, rmFailed, cacheVars>>

\* "docker rm -f" with check=False: its failure goes unnoticed.
RemoveBox(b) ==
    \/ box' = [box EXCEPT ![b] = "none"] /\ rmFailed' = rmFailed \ {b}
    \/ /\ Cardinality(rmFailed \cup {b}) <= MaxRmFails
       /\ rmFailed' = rmFailed \cup {b} /\ UNCHANGED box

\* wait_ready sees the guest answer.  With the patched boot.sh QEMU only comes up if
\* it can resume from a cached disk; the raw one ignores LOADVM_SNAPSHOT.
Ready(b) ==
    /\ LoopFree /\ pc[b] = "waiting"
    /\ disk[b].of = "entry" /\ bootsh = "patched" => disk[b].state = "whole"
    /\ \/ disk[b].of = "entry" /\ Goto(b, "served") /\ handles' = handles \cup {b}
       \/ disk[b].of = "template" /\ Goto(b, "saving") /\ UNCHANGED handles
    /\ UNCHANGED <<shape, found, held, disk, taken, closing, hostVars, restarts, rmFailed, cacheVars>>

\* X: the ports are not given back.
NotReadyPortsX(b) ==
    /\ LoopFree /\ pc[b] = "waiting"
    /\ Goto(b, "refused")
    /\ RemoveBox(b)
    /\ UNCHANGED <<shape, found, held, disk, ownVars, slots, template, bootsh, restarts,
                   cacheVars>>

\* X: the exception of wait_ready is not raised again.
NotReadyRaiseX(b) ==
    /\ LoopFree /\ pc[b] = "waiting"
    /\ Goto(b, "served")
    /\ handles' = handles \cup {b}
    /\ RemoveBox(b)
    /\ UNCHANGED <<shape, found, held, disk, taken, closing, slots, template, bootsh,
                   restarts, cacheVars>>

\* X: the container stays.
NotReadyBoxX(b) ==
    /\ LoopFree /\ pc[b] = "waiting"
    /\ Goto(b, "refused")
    /\ taken' = taken \ held[b]
    /\ UNCHANGED <<shape, found, held, disk, handles, closing, slots, box, template, bootsh,
                   restarts, rmFailed, cacheVars>>

\* X: wait_ready polls without a deadline.
NotReadyNeverX(b) == FALSE

\* The container exits or the deadline passes: container and ports go, the directory stays.
NotReady(b) ==
    /\ LoopFree /\ pc[b] = "waiting"
    /\ Goto(b, "refused")
    /\ RemoveBox(b)
    /\ taken' = taken \ held[b]
    /\ held' = [held EXCEPT ![b] = {}]
    /\ UNCHANGED <<shape, found, disk, handles, closing, slots, template, bootsh,
                   restarts, cacheVars>>

\* save_snapshot returns: QEMU saved, or nothing came back that holds an error (no
\* answer at all is no error).  The write of the entry begins at once.
Saved(b) ==
    /\ LoopFree /\ pc[b] = "saving"
    /\ Goto(b, "writing")
    /\ \/ /\ bootsh = "patched"
          /\ disk' = [disk EXCEPT ![b].state = "whole", ![b].maker = build]
          /\ WriteBegins(shape[b], TRUE)
       \/ UNCHANGED disk /\ WriteBegins(shape[b], FALSE)
    /\ UNCHANGED <<shape, found, held, ownVars, hostVars, restarts, rmFailed>>

\* savevm reports an error, or takes longer than its timeout: the machine is handed
\* out without an entry.
SaveFails(b) ==
    /\ LoopFree /\ pc[b] = "saving"
    /\ Goto(b, "served")
    /\ handles' = handles \cup {b}
    /\ UNCHANGED <<shape, found, held, disk, taken, closing, hostVars, restarts, rmFailed, cacheVars>>

\* The loop comes out of write(), whose errors stay inside, and hands the machine out.
Written(b) ==
    /\ pc[b] = "writing"
    /\ Goto(b, "served")
    /\ handles' = handles \cup {b}
    /\ WriteEnds(shape[b], disk[b].state) \/ WriteFails(shape[b], disk[b].state)
    /\ UNCHANGED <<shape, found, held, disk, taken, closing, hostVars, restarts, rmFailed>>

----------------------------------------------------------------------------
(* destroy_vm, which its caller may call again, and restarts *)

\* The pop decides which call tears the machine down; the others return.
Destroy(b) ==
    /\ LoopFree /\ pc[b] = "served" /\ b \in handles
    /\ handles' = handles \ {b}
    /\ closing' = [closing EXCEPT ![b] = @ + 1]
    /\ UNCHANGED <<bootVars, taken, hostVars, restarts, rmFailed, cacheVars>>

\* X: a call goes on although the handle was gone.
TeardownX(b) ==
    /\ LoopFree /\ LockFree /\ pc[b] = "served"
    /\ RemoveBox(b)
    /\ slots' = slots \ {b}
    /\ taken' = taken \ held[b]
    /\ disk' = [disk EXCEPT ![b] = NoDisk]
    /\ closing' = [closing EXCEPT ![b] = @ - 1]
    /\ UNCHANGED <<pc, shape, found, held, handles, template, bootsh, restarts, cacheVars>>

Teardown(b) ==
    /\ LoopFree /\ LockFree /\ closing[b] > 0
    /\ RemoveBox(b)
    /\ slots' = slots \ {b}
    /\ taken' = taken \ held[b]
    /\ disk' = [disk EXCEPT ![b] = NoDisk]
    /\ closing' = [closing EXCEPT ![b] = @ - 1]
    /\ UNCHANGED <<pc, shape, found, held, handles, template, bootsh, restarts, cacheVars>>

\* The process ends, at any point, and starts again: its memory is gone,
\* cleanup_orphaned_state removes containers (those that docker lets it remove) and
\* directories.  A worker also sweeps the cache and fetches the template.
Restart ==
    /\ restarts < MaxRestarts
    /\ restarts' = restarts + 1
    /\ pc' = [b \in Boot |-> IF pc[b] = "new" THEN "new" ELSE "lost"]
    /\ taken' = {} /\ handles' = {} /\ slots' = {}
    /\ closing' = [b \in Boot |-> 0]
    /\ found' = [b \in Boot |-> "none"]
    /\ disk' = [b \in Boot |-> NoDisk]
    /\ held' = [b \in Boot |-> {}]
    /\ \E F \in SUBSET {b \in Boot : box[b] = "there"} :
         /\ Cardinality(F) <= MaxRmFails
         /\ rmFailed' = F
         /\ box' = [b \in Boot |-> IF b \in F THEN box[b] ELSE "none"]
    /\ \E worker \in BOOLEAN :
         /\ template' = (template \/ worker)
         /\ \/ /\ \A b \in Boot : pc[b] # "writing"
               /\ CacheRestart({}, [file |-> "absent", garbled |-> FALSE], worker)
            \/ \E b \in Boot : /\ pc[b] = "writing"
                              /\ \E left \in Leftovers(disk[b].state) :
                                   CacheRestart({shape[b]}, left, worker)
    /\ \/ UNCHANGED bootsh
       \/ /\ bootsh = "absent" /\ \E b \in Boot : pc[b] = "starting"
          /\ bootsh' \in {"raw", "patched"}
    /\ UNCHANGED shape

BootStep(b) ==
    \/ Acquire(b) \/ Pulled(b) \/ PullFails(b) \/ CopyEntry(b) \/ CopyTemplate(b)
    \/ CopyFails(b) \/ Start(b) \/ StartFails(b) \/ Ready(b) \/ NotReady(b)
    \/ Saved(b) \/ SaveFails(b) \/ Written(b)

Next == \/ \E b \in Boot : Call(b) \/ BootStep(b) \/ Destroy(b) \/ Teardown(b)
        \/ Restart

(***************************************************************************)
(* The loop runs what is ready, asyncio.Lock is granted in the order of    *)
(* arrival, commands, downloads and copies end or raise, and wait_ready    *)
(* and savevm have deadlines.  Nobody must call, destroy or restart.       *)
(***************************************************************************)
Spec == /\ Init /\ [][Next]_vars
        /\ \A b \in Boot : WF_vars(BootStep(b) \/ Teardown(b))

----------------------------------------------------------------------------
(* Properties *)

\* The calls that keep their ports from the pools: on the way, handed out, being
\* torn down, or failed before wait_ready, whose ports nobody releases.
Owners == {b \in Boot : \/ pc[b] \in {"copying", "starting", "waiting", "saving", "writing",
                                      "failed"}
                        \/ b \in handles \/ closing[b] > 0}

\* No two calls own one host port (PortPool.allocate, the release of NotReady and of
\* destroy_vm): a release too many would hand a port of one machine to another.
PortsExclusive == \A b, o \in Owners : b # o => held[b] \cap held[o] = {}

\* A port is out of its pool exactly as long as a call owns it: no path that gives
\* ports back forgets one, and what a failed start keeps is all that is stranded.
PortsAccounted == taken = UNION {held[b] : b \in Owners}

\* What a machine in _hotplug_handles was given is still there: its container, its directory
\* and all its ports, whatever was torn down meanwhile (QEMU may have ended unnoticed).
HandleIsBacked ==
    \A b \in handles : /\ pc[b] = "served" /\ closing[b] = 0
                       /\ box[b] = "there" /\ b \in slots
                       /\ held[b] \subseteq taken /\ Cardinality(held[b]) = Guests + 1

\* No container outlives the call, handle or teardown that answers for it, except one
\* docker would not remove, or one whose start raised: that may even run, with nobody
\* to destroy it, but its ports stay out of the pools.
ContainersAreOwned ==
    \A b \in Boot : box[b] = "there" =>
        \/ pc[b] \in {"waiting", "saving", "writing"} \/ b \in handles \/ closing[b] > 0
        \/ b \in rmFailed \/ (pc[b] = "failed" /\ held[b] \subseteq taken)

\* The fingerprint check: a disk that comes from the cache is a whole snapshot of the
\* QEMU build that runs, through upgrades and restarts in either mode.  It says nothing
\* of a shape one of whose writes failed, was cut short, replaced an entry, or saved
\* nothing (doubt).
HitIsSound ==
    \A b \in Boot : disk[b].of = "entry" /\ shape[b] \notin doubt =>
        disk[b].state = "whole" /\ disk[b].maker = build

\* The fingerprint check, in both places: a shape that the worker reports to the master
\* as cached (list_entries, which reads sidecars only) boots from the cache, too, with
\* the same exceptions.
ListedIsServed == \A k \in Listed \ doubt : Hit(k)

\* A write that fails leaves no entry for the next boot of its shape, which is a cold
\* one again (docs/architecture/runtime-model.md, cache invalidation).
FailedWriteIsCold ==
    [][\A b \in Boot : Written(b) /\ WriteFails(shape[b], disk[b].state) => ~Hit(shape[b])']_vars

\* What the schedulers rely on (MachineContract).
Contract == INSTANCE MachineContract WITH
    vm   <- [b \in Boot |-> CASE pc[b] = "new" -> "none"
                             [] pc[b] \in InFlight -> "booting"
                             [] b \in handles -> "serving"
                             [] closing[b] > 0 -> "closing"
                             [] OTHER -> "gone"],
    addr <- [b \in Boot |-> IF b \in handles \/ closing[b] > 0 THEN held[b] ELSE {}]

\* A request ends, a machine handed out keeps its ports to itself until its teardown
\* has ended, and a teardown asked for ends, whatever else boots or fails.
ImplementsContract == Contract!Spec
=============================================================================
