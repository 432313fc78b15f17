---------------------------- MODULE SnapshotCache ----------------------------
(***************************************************************************)
(* The snapshot cache of a worker (runtimes/snapshot_cache.py): a          *)
(* directory with one qcow2 per shape, the disk of a booted machine with   *)
(* its savevm state in it, and beside it a JSON sidecar that names the     *)
(* QEMU build that saved it.  There is no index in memory: every operation *)
(* reads the directory, and no write is made under a temporary name.       *)
(*                                                                         *)
(* write() runs on the event loop without a suspension, so nothing of the  *)
(* loop comes between its steps; a thread that copies an entry does, and   *)
(* so does the end of the process.                                         *)
(***************************************************************************)
CONSTANTS Shape,  \* cache keys (image, version, vcpus, memory, disk)
          Build,  \* QEMU fingerprints (compute_qemu_fingerprint)
          First,  \* the build the process first starts with
          NoBuild \* the build of what no QEMU saved

ASSUME BuildAssumption ==
    First \in Build /\ NoBuild \notin Build /\ {"none", "garbled"} \cap Build = {}

VARIABLES
    build,  \* qemu_fingerprint of this process
    file,   \* file[k]: "absent", a "whole" snapshot, or an "unfit" qcow2: cut
            \*   short, or without the snapshot that -loadvm asks for
    maker,  \* maker[k]: the build that really saved file[k]
    side,   \* side[k]: no sidecar, one that does not parse, or the build it names
    doubt   \* history: the shapes with a write that failed, was cut by the end of
            \*   the process, replaced an entry, or followed a save that did nothing

cacheVars == <<build, file, maker, side, doubt>>

FileState == {"absent", "unfit", "whole"}
SideState == {"none", "garbled"} \cup Build

CacheTypeOK ==
    /\ build \in Build
    /\ file \in [Shape -> FileState]
    /\ maker \in [Shape -> Build \cup {NoBuild}]
    /\ side \in [Shape -> SideState]
    /\ doubt \subseteq Shape

CacheInit ==
    /\ build = First
    /\ file = [k \in Shape |-> "absent"]
    /\ maker = [k \in Shape |-> NoBuild]
    /\ side = [k \in Shape |-> "none"]
    /\ doubt = {}

\* X: the builds are not compared.
MismatchX(k) == FALSE

\* A sidecar that names another build condemns the entry; one that is missing or
\* does not parse says nothing.
Mismatch(k) == side[k] \in Build \ {build}

Hit(k) == file[k] # "absent" /\ ~Mismatch(k)

\* Removal of an entry and its sidecar, for every shape in S.
Evict(S) ==
    /\ file' = [k \in Shape |-> IF k \in S THEN "absent" ELSE file[k]]
    /\ maker' = [k \in Shape |-> IF k \in S THEN NoBuild ELSE maker[k]]
    /\ side' = [k \in Shape |-> IF k \in S THEN "none" ELSE side[k]]

\* lookup: the caller goes by Hit(k); an entry of another build is removed.  A
\* sidecar without its qcow2 is left where it is.
Lookup(k) ==
    /\ Evict(IF file[k] # "absent" /\ Mismatch(k) THEN {k} ELSE {})
    /\ UNCHANGED <<build, doubt>>

\* write: the old qcow2 is unlinked and the copy of the new one begins.
WriteBegins(k, sound) ==
    /\ file' = [file EXCEPT ![k] = "unfit"]
    /\ maker' = [maker EXCEPT ![k] = build]
    /\ doubt' = IF sound /\ file[k] = "absent" THEN doubt ELSE doubt \cup {k}
    /\ UNCHANGED <<build, side>>

\* The copy is complete and the sidecar names this build.
WriteEnds(k, content) ==
    /\ file' = [file EXCEPT ![k] = content]
    /\ side' = [side EXCEPT ![k] = build]
    /\ UNCHANGED <<build, maker, doubt>>

\* The copy fails and leaves nothing or a part, or the sidecar does and leaves the
\* whole copy beside the old sidecar or one that does not parse.  write() logs it
\* and returns None; what is in the directory stays.
WriteFails(k, content) ==
    /\ \E rest \in {"absent", "unfit", content} :
         /\ file' = [file EXCEPT ![k] = rest]
         /\ maker' = [maker EXCEPT ![k] = IF rest = "absent" THEN NoBuild ELSE @]
         /\ side' \in IF rest = content THEN {side, [side EXCEPT ![k] = "garbled"]} ELSE {side}
    /\ doubt' = doubt \cup {k}
    /\ UNCHANGED build

\* What the end of the process leaves of a write: a part of the copy, or all of it
\* beside the old sidecar or a new one cut short.
Leftovers(content) ==
    {[file |-> f, garbled |-> FALSE] : f \in {"absent", "unfit"}}
    \cup {[file |-> content, garbled |-> g] : g \in BOOLEAN}

\* The process starts again, maybe on another build, after it ended in the middle of
\* the write of the shapes W (one, or none).  sweep_on_startup goes through the
\* sidecars; only a cluster worker calls it.
CacheRestart(W, left, sweeps) ==
    \E b \in Build :
      LET garbled == IF left.garbled THEN W ELSE {}
          swept == {k \in Shape \ garbled : sweeps /\ side[k] \in Build \ {b}}
      IN /\ build' = b
         /\ file'  = [k \in Shape |-> IF k \in swept THEN "absent"
                                      ELSE IF k \in W THEN left.file ELSE file[k]]
         /\ maker' = [k \in Shape |-> IF k \in swept \/ (k \in W /\ left.file = "absent")
                                      THEN NoBuild ELSE maker[k]]
         /\ side'  = [k \in Shape |-> IF k \in swept THEN "none"
                                      ELSE IF k \in garbled THEN "garbled" ELSE side[k]]
         /\ doubt' = doubt \cup W

\* X: the builds are not compared.
ListedX == {k \in Shape : side[k] # "none"}

\* What list_entries reports to the master: it reads sidecars, not qcow2 files.
Listed == {k \in Shape : side[k] = build}
=============================================================================
