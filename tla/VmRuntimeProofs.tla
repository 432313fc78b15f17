--------------------------- MODULE VmRuntimeProofs ---------------------------
(***************************************************************************)
(* What TLAPS proves about VmRuntime, for every number of calls, shapes,   *)
(* builds, ports and restarts.  VmInv, about the calls and their ports,    *)
(* and CacheInv, about the entries of the cache, are the two inductive     *)
(* invariants; the properties of the run vm_runtime follow from them, and  *)
(* so does that every step is one of MachineContract, or none.             *)
(***************************************************************************)
EXTENDS VmRuntime, FiniteSetTheorems, TLAPS

\* What can be said of one call, whatever the others do.
CallOK(b) ==
    /\ closing[b] \in {0, 1}
    /\ pc[b] \in {"new", "queued", "pulling", "copying", "starting"} => box[b] = "none"
    /\ pc[b] \in {"starting", "waiting", "saving", "writing"} => b \in slots
    /\ pc[b] \in {"waiting", "saving", "writing"} => box[b] = "there"
    /\ pc[b] \in {"copying", "starting", "waiting", "saving", "writing"} =>
         Cardinality(held[b]) = Guests + 1
    /\ b \in handles =>
         /\ pc[b] = "served" /\ closing[b] = 0 /\ box[b] = "there" /\ b \in slots
         /\ Cardinality(held[b]) = Guests + 1
    /\ closing[b] > 0 => pc[b] = "served" /\ b \notin handles

\* Only one call writes, an entry that is unfit until it has, and a disk that was
\* copied has something in it.
DiskOK(b) ==
    /\ pc[b] \in {"starting", "waiting", "saving", "writing"} => disk[b].state \in {"unfit", "whole"}
    /\ pc[b] = "writing" =>
         /\ file[shape[b]] = "unfit"
         /\ \A o \in Boot : pc[o] = "writing" => o = b

TypeInv == TypeOK /\ \A b \in Boot : DiskOK(b)

\* A port is out of its pool if a call owns it, and one call owns it.
PoolsOK ==
    /\ \A p \in Port : p \in taken <=> \E b \in Owners : p \in held[b]
    /\ \A b, o \in Owners : b # o => held[b] \cap held[o] = {}

VmInv == TypeInv /\ (\A b \in Boot : CallOK(b)) /\ PoolsOK /\ ContainersAreOwned
----------------------------------------------------------------------------
(* Ports *)

\* n draws from a finite pool give n ports, or all that were free and too few.
LEMMA DrawSome ==
  ASSUME NEW Pool, IsFiniteSet(Pool), NEW n \in Nat, NEW S \in Draw(n, Pool \ taken)
  PROVE  /\ S \subseteq Pool \ taken /\ IsFiniteSet(S)
         /\ Cardinality(S) \in Nat /\ Cardinality(S) <= n
<1>1. S \in SUBSET Pool /\ S \subseteq Pool \ taken
  BY DEF Draw
<1>2. IsFiniteSet(S) /\ Cardinality(S) \in Nat
  BY <1>1, FS_Subset, FS_CardinalityType
<1> QED
  BY <1>1, <1>2 DEF Draw

\* A call that gets all its ports holds one more than the image has guests ports for;
\* any other has failed.
LEMMA TakePortsEffect ==
  ASSUME TypeOK, NEW b \in Boot, TakePorts(b)
  PROVE  \E S \in SUBSET (Port \ taken) :
           /\ held' = [held EXCEPT ![b] = S]
           /\ taken' = taken \cup S
           /\ \/ Goto(b, "copying") /\ Cardinality(S) = Guests + 1
              \/ Goto(b, "failed")
<1>1. PICK P \in Draw(Guests, Published \ taken) :
        \E V \in IF Cardinality(P) = Guests THEN Draw(1, Novnc \ taken) ELSE {{}} :
          /\ held' = [held EXCEPT ![b] = P \cup V]
          /\ taken' = taken \cup P \cup V
          /\ Goto(b, IF V = {} THEN "failed" ELSE "copying")
  BY DEF TakePorts
<1>2. PICK V \in IF Cardinality(P) = Guests THEN Draw(1, Novnc \ taken) ELSE {{}} :
          /\ held' = [held EXCEPT ![b] = P \cup V]
          /\ taken' = taken \cup P \cup V
          /\ Goto(b, IF V = {} THEN "failed" ELSE "copying")
  BY <1>1
<1>3. P \subseteq Published \ taken /\ IsFiniteSet(P)
  BY DrawSome, PortAssumption
<1>4. V \subseteq Novnc \ taken
  <2>1. CASE Cardinality(P) = Guests
    BY <2>1, <1>2, DrawSome, PortAssumption
  <2>2. CASE Cardinality(P) # Guests
    BY <2>2, <1>2
  <2> QED
    BY <2>1, <2>2
<1>5. V # {} => Cardinality(P \cup V) = Guests + 1
  <2> SUFFICES ASSUME V # {} PROVE Cardinality(P \cup V) = Guests + 1
    OBVIOUS
  <2>1. Cardinality(P) = Guests /\ V \in Draw(1, Novnc \ taken)
    BY <1>2
  <2>2. IsFiniteSet(V) /\ Cardinality(V) \in Nat /\ Cardinality(V) <= 1
    BY <2>1, DrawSome, PortAssumption
  <2>3. Cardinality(V) = 1
    BY <2>2, FS_EmptySet
  <2>4. P \cap V = {}
    BY <1>3, <1>4, PortAssumption
  <2>5. Cardinality(P \cup V) = Cardinality(P) + Cardinality(V) - Cardinality(P \cap V)
    BY <1>3, <2>2, FS_Union
  <2> QED
    BY <2>1, <2>3, <2>4, <2>5, FS_EmptySet, PortAssumption
<1>6. P \cup V \in SUBSET (Port \ taken)
  BY <1>3, <1>4 DEF Port
<1>7. taken' = taken \cup (P \cup V)
  BY <1>2
<1>8. CASE V = {}
  BY <1>2, <1>6, <1>7, <1>8
<1>9. CASE V # {}
  BY <1>2, <1>5, <1>6, <1>7, <1>9
<1> QED
  BY <1>8, <1>9
----------------------------------------------------------------------------
(* Every variable keeps its type. *)

\* No operation of the cache breaks the types of its directory.
LEMMA CacheTypes ==
  ASSUME CacheTypeOK, NEW k \in Shape, NEW content \in FileState
  PROVE  /\ Lookup(k) => CacheTypeOK'
         /\ \A sound : WriteBegins(k, sound) => CacheTypeOK'
         /\ WriteEnds(k, content) => CacheTypeOK'
         /\ WriteFails(k, content) => CacheTypeOK'
<1>1. Lookup(k) => CacheTypeOK'
  BY DEF CacheTypeOK, Lookup, Evict, FileState, SideState
<1>2. ASSUME NEW sound, WriteBegins(k, sound) PROVE CacheTypeOK'
  BY <1>2 DEF CacheTypeOK, WriteBegins, FileState, SideState
<1>3. WriteEnds(k, content) => CacheTypeOK'
  BY DEF CacheTypeOK, WriteEnds, FileState, SideState
<1>4. ASSUME WriteFails(k, content) PROVE CacheTypeOK'
  BY <1>4 DEF CacheTypeOK, WriteFails, FileState, SideState
<1> QED
  BY <1>1, <1>2, <1>3, <1>4

\* A restart leaves files and sidecars of the right kinds, too.
LEMMA CacheRestartTypes ==
  ASSUME CacheTypeOK, NEW W \in SUBSET Shape, NEW left \in [file : FileState, garbled : BOOLEAN],
         NEW sweeps \in BOOLEAN, CacheRestart(W, left, sweeps)
  PROVE  CacheTypeOK'
  BY DEF CacheTypeOK, CacheRestart, FileState, SideState

\* What is left of a write is a file of some kind, and a sidecar that parses or not.
LEMMA LeftoversType ==
  ASSUME NEW content \in FileState
  PROVE  Leftovers(content) \subseteq [file : FileState, garbled : BOOLEAN]
<1>1. ASSUME NEW f \in FileState, NEW g \in BOOLEAN
      PROVE  [file |-> f, garbled |-> g] \in [file : FileState, garbled : BOOLEAN]
  OBVIOUS
<1>2. {"absent", "unfit"} \subseteq FileState
  BY DEF FileState
<1> QED
  BY <1>1, <1>2 DEF Leftovers

\* The pool of ports and the lock leave every variable its type.
LEMMA TakePortsTypes ==
  ASSUME TypeOK, NEW b \in Boot, TakePorts(b)
  PROVE  /\ pc' \in [Boot -> Pc] /\ held' \in [Boot -> SUBSET Port] /\ taken' \subseteq Port
  BY TakePortsEffect DEF TypeOK, Goto, Pc

\* docker rm leaves a container or takes it away.
LEMMA RemoveBoxTypes ==
  ASSUME TypeOK, NEW b \in Boot, RemoveBox(b)
  PROVE  /\ box' \in [Boot -> {"none", "there"}] /\ rmFailed' \subseteq Boot
         /\ \A o \in Boot : o # b => box'[o] = box[o]
         /\ box'[b] = "there" => b \in rmFailed'
         /\ rmFailed \ {b} \subseteq rmFailed'
  BY DEF TypeOK, RemoveBox

\* The process starts with empty tables.
LEMMA TypeInit == Init => TypeOK
  BY PortAssumption, BuildAssumption DEF Init, TypeOK, CacheInit, CacheTypeOK, FileState, SideState, Disk, NoDisk, Pc

\* What a copy of an entry can get is a disk, with something in it if there is one.
LEMMA CopiesType ==
  ASSUME TypeInv, NEW b \in Boot, NEW d \in Copies(shape[b])
  PROVE  d \in Disk /\ (d # NoDisk => d.state \in {"unfit", "whole"})
<1> DEFINE k == shape[b]
           Entry(state) == [of |-> "entry", state |-> state, maker |-> maker[k]]
           writers == {o \in Boot : pc[o] = "writing" /\ shape[o] = k}
<1>1. maker[k] \in Build \cup {NoBuild} /\ file[k] \in FileState
  BY DEF TypeInv, TypeOK, CacheTypeOK
<1>2. \A w \in writers : disk[w].state \in {"unfit", "whole"} /\ file[k] = "unfit"
  BY DEF TypeInv, DiskOK
<1>3. \A s \in {"unfit", "whole"} : Entry(s) \in Disk /\ Entry(s).state = s
  BY <1>1 DEF Disk
<1>4. NoDisk \in Disk
  BY DEF NoDisk, Disk
<1>5. \/ d = NoDisk
      \/ \E w \in writers : d = Entry(disk[w].state)
      \/ d = Entry(file[k]) /\ (writers # {} \/ file[k] # "absent")
  BY DEF Copies
<1> QED
  BY <1>1, <1>2, <1>3, <1>4, <1>5 DEF FileState

\* savevm makes the disk whole, or does nothing to it.
LEMMA SavedDisk ==
  ASSUME TypeOK, NEW b \in Boot, Saved(b)
  PROVE  /\ disk' \in [Boot -> Disk]
         /\ \A o \in Boot : o # b => disk'[o] = disk[o]
         /\ disk'[b].of = disk[b].of
         /\ disk'[b].state \in {disk[b].state, "whole"}
         /\ \/ WriteBegins(shape[b], TRUE) /\ disk'[b].state = "whole"
            \/ WriteBegins(shape[b], FALSE)
<1>1. disk[b] \in Disk /\ disk \in [Boot -> Disk] /\ build \in Build
  BY DEF TypeOK, CacheTypeOK
<1>2. CASE UNCHANGED disk /\ WriteBegins(shape[b], FALSE)
  BY <1>1, <1>2
<1>3. CASE /\ disk' = [disk EXCEPT ![b].state = "whole", ![b].maker = build]
           /\ WriteBegins(shape[b], TRUE)
  <2>1. [disk[b] EXCEPT !.state = "whole", !.maker = build] \in Disk
    BY <1>1 DEF Disk
  <2>2. disk' = [disk EXCEPT ![b] = [disk[b] EXCEPT !.state = "whole", !.maker = build]]
    BY <1>1, <1>3 DEF Disk
  <2> QED
    BY <1>1, <1>3, <2>1, <2>2 DEF Disk
<1> QED
  BY <1>2, <1>3 DEF Saved

\* No step of a call, of a teardown or of a restart breaks a type.
LEMMA TypeStep == TypeInv /\ [Next]_vars => TypeOK'
<1> SUFFICES ASSUME TypeOK, \A b \in Boot : DiskOK(b), [Next]_vars PROVE TypeOK'
  BY DEF TypeInv
<1>1. ASSUME NEW b \in Boot, Call(b) PROVE TypeOK'
  BY <1>1, CacheTypes DEF Call, Goto, TypeOK, Pc, ownVars, hostVars, FileState
<1>2. ASSUME NEW b \in Boot, Acquire(b) PROVE TypeOK'
  BY <1>2, TakePortsTypes DEF Acquire, Goto, TypeOK, Pc, hostVars, cacheVars, CacheTypeOK
<1>3. ASSUME NEW b \in Boot, Pulled(b) PROVE TypeOK'
  BY <1>3, TakePortsTypes DEF Pulled, TypeOK, cacheVars, CacheTypeOK
<1>4. ASSUME NEW b \in Boot, PullFails(b) PROVE TypeOK'
  BY <1>4 DEF PullFails, Goto, TypeOK, Pc, ownVars, hostVars, cacheVars, CacheTypeOK
<1>5. ASSUME NEW b \in Boot, NEW d \in Disk, CopyEnds(b, d) PROVE TypeOK'
  BY <1>5 DEF CopyEnds, Goto, TypeOK, Pc, ownVars, cacheVars, CacheTypeOK
<1>6. ASSUME NEW b \in Boot PROVE Copies(shape[b]) \subseteq Disk
  BY CopiesType DEF TypeInv
<1>7. ASSUME NEW b \in Boot, CopyEntry(b) \/ CopyTemplate(b) \/ CopyFails(b) PROVE TypeOK'
  <2>1. [of |-> "template", state |-> "unfit", maker |-> NoBuild] \in Disk /\ NoDisk \in Disk
    BY DEF Disk, NoDisk
  <2> QED
    BY <1>5, <1>6, <1>7, <2>1 DEF CopyEntry, CopyTemplate, CopyFails
<1>8. ASSUME NEW b \in Boot, Start(b) PROVE TypeOK'
  BY <1>8 DEF Start, Goto, TypeOK, Pc, ownVars, cacheVars, CacheTypeOK
<1>9. ASSUME NEW b \in Boot, StartFails(b) PROVE TypeOK'
  BY <1>9 DEF StartFails, Goto, TypeOK, Pc, ownVars, cacheVars, CacheTypeOK
<1>10. ASSUME NEW b \in Boot, Ready(b) PROVE TypeOK'
  BY <1>10 DEF Ready, Goto, TypeOK, Pc, hostVars, cacheVars, CacheTypeOK
<1>11. ASSUME NEW b \in Boot, NotReady(b) PROVE TypeOK'
  BY <1>11, RemoveBoxTypes DEF NotReady, Goto, TypeOK, Pc, cacheVars, CacheTypeOK
<1>12. ASSUME NEW b \in Boot, Saved(b) PROVE TypeOK'
  <2>1. CacheTypeOK' /\ build \in Build /\ shape[b] \in Shape
    BY <1>12, CacheTypes DEF Saved, TypeOK, FileState, CacheTypeOK
  <2>2. disk' \in [Boot -> Disk]
    BY <1>12, SavedDisk DEF Saved, TypeOK
  <2> QED
    BY <1>12, <2>1, <2>2 DEF Saved, Goto, TypeOK, Pc, ownVars, hostVars
<1>13. ASSUME NEW b \in Boot, SaveFails(b) PROVE TypeOK'
  BY <1>13 DEF SaveFails, Goto, TypeOK, Pc, hostVars, cacheVars, CacheTypeOK
<1>14. ASSUME NEW b \in Boot, Written(b) PROVE TypeOK'
  <2>1. shape[b] \in Shape /\ disk[b].state \in FileState
    BY <1>14 DEF TypeOK, DiskOK, Written, FileState
  <2>2. CacheTypeOK'
    BY <1>14, <2>1, CacheTypes DEF TypeOK, Written
  <2> QED
    BY <1>14, <2>2 DEF Written, Goto, TypeOK, Pc, hostVars
<1>15. ASSUME NEW b \in Boot, Destroy(b) PROVE TypeOK'
  BY <1>15 DEF Destroy, TypeOK, bootVars, hostVars, cacheVars, CacheTypeOK
<1>16. ASSUME NEW b \in Boot, Teardown(b) PROVE TypeOK'
  <2>1. NoDisk \in Disk /\ closing[b] - 1 \in Nat
    BY <1>16 DEF NoDisk, Disk, TypeOK, Teardown
  <2> QED
    BY <1>16, <2>1, RemoveBoxTypes DEF Teardown, TypeOK, cacheVars, CacheTypeOK
<1>17. ASSUME Restart PROVE TypeOK'
  <2>1. CacheTypeOK'
    <3>1. PICK worker \in BOOLEAN :
            \/ CacheRestart({}, [file |-> "absent", garbled |-> FALSE], worker)
            \/ \E b \in Boot : /\ pc[b] = "writing"
                              /\ \E left \in Leftovers(disk[b].state) :
                                   CacheRestart({shape[b]}, left, worker)
      BY <1>17 DEF Restart
    <3>2. [file |-> "absent", garbled |-> FALSE] \in [file : FileState, garbled : BOOLEAN]
      BY DEF FileState
    <3>3. CASE CacheRestart({}, [file |-> "absent", garbled |-> FALSE], worker)
      <4>1. CacheTypeOK /\ {} \in SUBSET Shape
        BY DEF TypeOK
      <4> DEFINE left == [file |-> "absent", garbled |-> FALSE]
      <4> HIDE DEF left
      <4> QED
        BY <3>2, <3>3, <4>1, CacheRestartTypes DEF left
    <3>4. ASSUME NEW b \in Boot, pc[b] = "writing", NEW left \in Leftovers(disk[b].state),
                 CacheRestart({shape[b]}, left, worker)
          PROVE  CacheTypeOK'
      <4>1. disk[b].state \in FileState /\ {shape[b]} \in SUBSET Shape
        BY <3>4 DEF DiskOK, FileState, TypeOK
      <4>2. left \in [file : FileState, garbled : BOOLEAN]
        BY <4>1, <3>4, LeftoversType
      <4> QED
        BY <3>4, <4>1, <4>2, CacheRestartTypes DEF TypeOK
    <3> QED
      BY <3>1, <3>3, <3>4
  <2>2. NoDisk \in Disk /\ restarts' \in 0..MaxRestarts
    BY <1>17, PortAssumption DEF NoDisk, Disk, Restart, TypeOK
  <2>3. box' \in [Boot -> {"none", "there"}] /\ held' \in [Boot -> SUBSET Port]
        /\ rmFailed' \subseteq Boot
    BY <1>17 DEF Restart, TypeOK
  <2>4. template' \in BOOLEAN /\ bootsh' \in {"absent", "raw", "patched"}
    BY <1>17 DEF Restart, TypeOK
  <2> QED
    BY <1>17, <2>1, <2>2, <2>3, <2>4 DEF Restart, TypeOK, Pc
<1>18. CASE UNCHANGED vars
  BY <1>18 DEF vars, TypeOK, CacheTypeOK
<1> QED
  BY <1>1, <1>2, <1>3, <1>4, <1>7, <1>8, <1>9, <1>10, <1>11, <1>12, <1>13, <1>14, <1>15,
     <1>16, <1>17, <1>18 DEF Next, BootStep

\* At most one boot writes, into an entry that is unfit meanwhile.
LEMMA DiskInit == Init => \A b \in Boot : DiskOK(b)
  BY DEF Init, DiskOK

LEMMA DiskStep ==
  TypeInv /\ (\A b \in Boot : CallOK(b)) /\ [Next]_vars => \A b \in Boot : DiskOK(b)'
<1> SUFFICES ASSUME TypeOK, \A b \in Boot : DiskOK(b) /\ CallOK(b), [Next]_vars, NEW o \in Boot
             PROVE  DiskOK(o)'
  BY DEF TypeInv
<1>1. ASSUME NEW b \in Boot, Call(b) PROVE DiskOK(o)'
  BY <1>1 DEF Call, Goto, DiskOK, LoopFree, TypeOK
<1>2. ASSUME NEW b \in Boot, Acquire(b) \/ Pulled(b) PROVE DiskOK(o)'
  <2>1. /\ pc[b] \in {"queued", "pulling"} /\ pc' \in [Boot -> Pc]
        /\ pc'[b] \in {"pulling", "copying", "failed"}
        /\ \A c \in Boot : c # b => pc'[c] = pc[c]
    BY <1>2, TakePortsEffect DEF Acquire, Pulled, Goto, TypeOK, Pc
  <2>2. UNCHANGED <<disk, shape, file>>
    BY <1>2 DEF Acquire, Pulled, cacheVars
  <2> QED
    BY <2>1, <2>2 DEF DiskOK
<1>3. ASSUME NEW b \in Boot, PullFails(b) PROVE DiskOK(o)'
  BY <1>3 DEF PullFails, Goto, DiskOK, cacheVars, TypeOK
<1>4. ASSUME NEW b \in Boot, NEW d \in Disk, d # NoDisk => d.state \in {"unfit", "whole"},
             CopyEnds(b, d)
      PROVE  DiskOK(o)'
  BY <1>4 DEF CopyEnds, Goto, DiskOK, cacheVars, TypeOK
<1>5. ASSUME NEW b \in Boot, CopyEntry(b) \/ CopyTemplate(b) \/ CopyFails(b) PROVE DiskOK(o)'
  <2>1. NoDisk \in Disk
    BY DEF NoDisk, Disk
  <2>2. [of |-> "template", state |-> "unfit", maker |-> NoBuild] \in Disk
    BY DEF Disk
  <2>3. \A d \in Copies(shape[b]) : d \in Disk /\ (d # NoDisk => d.state \in {"unfit", "whole"})
    BY CopiesType DEF TypeInv
  <2> QED
    BY <1>4, <1>5, <2>1, <2>2, <2>3 DEF CopyEntry, CopyTemplate, CopyFails
<1>6. ASSUME NEW b \in Boot, Start(b) \/ StartFails(b) PROVE DiskOK(o)'
  BY <1>6 DEF Start, StartFails, Goto, DiskOK, cacheVars, TypeOK
<1>7. ASSUME NEW b \in Boot, Ready(b) \/ NotReady(b) \/ SaveFails(b) PROVE DiskOK(o)'
  BY <1>7 DEF Ready, NotReady, SaveFails, Goto, DiskOK, cacheVars, TypeOK
<1>8. ASSUME NEW b \in Boot, Saved(b) PROVE DiskOK(o)'
  <2>1. /\ \A c \in Boot : pc[c] # "writing" /\ (c # b => disk'[c] = disk[c])
        /\ disk'[b].state \in {disk[b].state, "whole"}
        /\ pc[b] = "saving" /\ pc' = [pc EXCEPT ![b] = "writing"] /\ shape' = shape
    BY <1>8, SavedDisk DEF Saved, Goto, LoopFree
  <2>2. file'[shape[b]] = "unfit"
    BY <1>8, SavedDisk DEF WriteBegins, TypeOK, CacheTypeOK
  <2> QED
    BY <2>1, <2>2 DEF DiskOK, TypeOK
<1>9. ASSUME NEW b \in Boot, Written(b) PROVE DiskOK(o)'
  BY <1>9 DEF Written, Goto, DiskOK, TypeOK
<1>10. ASSUME NEW b \in Boot, Destroy(b) PROVE DiskOK(o)'
  BY <1>10 DEF Destroy, DiskOK, bootVars, cacheVars, TypeOK
<1>11. ASSUME NEW b \in Boot, Teardown(b) PROVE DiskOK(o)'
  BY <1>11 DEF Teardown, DiskOK, CallOK, cacheVars, TypeOK
<1>12. ASSUME Restart PROVE DiskOK(o)'
  BY <1>12 DEF Restart, DiskOK, TypeOK
<1>13. CASE UNCHANGED vars
  BY <1>13 DEF vars, DiskOK
<1> QED
  BY <1>1, <1>2, <1>3, <1>5, <1>6, <1>7, <1>8, <1>9, <1>10, <1>11, <1>12, <1>13
     DEF Next, BootStep
----------------------------------------------------------------------------
(* Calls *)

\* What a call has survives what the others do, and changes as its own steps say.
LEMMA CallInit == Init => \A b \in Boot : CallOK(b)
  BY DEF Init, CallOK

LEMMA CallStep ==
  TypeInv /\ (\A b \in Boot : CallOK(b)) /\ [Next]_vars => \A b \in Boot : CallOK(b)'
<1> SUFFICES ASSUME TypeOK, \A b \in Boot : DiskOK(b) /\ CallOK(b), [Next]_vars, NEW o \in Boot
             PROVE  CallOK(o)'
  BY DEF TypeInv
<1>1. ASSUME NEW b \in Boot, Call(b) PROVE CallOK(o)'
  BY <1>1 DEF Call, Goto, CallOK, ownVars, hostVars, TypeOK
<1>2. ASSUME NEW b \in Boot, pc[b] \in {"queued", "pulling"}, TakePorts(b),
             UNCHANGED <<handles, closing, slots, box>>
      PROVE  CallOK(o)'
  <2>1. PICK S \in SUBSET (Port \ taken) :
           /\ held' = [held EXCEPT ![b] = S]
           /\ \/ Goto(b, "copying") /\ Cardinality(S) = Guests + 1
              \/ Goto(b, "failed")
    BY <1>2, TakePortsEffect
  <2>2. CASE Goto(b, "copying") /\ Cardinality(S) = Guests + 1
    BY <1>2, <2>1, <2>2 DEF Goto, CallOK, TypeOK
  <2>3. CASE Goto(b, "failed")
    BY <1>2, <2>1, <2>3 DEF Goto, CallOK, TypeOK
  <2> QED
    BY <2>1, <2>2, <2>3
<1>3. ASSUME NEW b \in Boot, Acquire(b) PROVE CallOK(o)'
  <2>1. CASE TakePorts(b)
    BY <1>2, <1>3, <2>1 DEF Acquire, hostVars
  <2>2. CASE Goto(b, "pulling") /\ UNCHANGED <<held, taken>>
    BY <1>3, <2>2 DEF Acquire, hostVars, Goto, CallOK, TypeOK
  <2> QED
    BY <1>3, <2>1, <2>2 DEF Acquire
<1>4. ASSUME NEW b \in Boot, Pulled(b) PROVE CallOK(o)'
  BY <1>2, <1>4 DEF Pulled
<1>5. ASSUME NEW b \in Boot, PullFails(b) PROVE CallOK(o)'
  BY <1>5 DEF PullFails, Goto, CallOK, ownVars, hostVars, TypeOK
<1>6. ASSUME NEW b \in Boot, NEW d, CopyEnds(b, d) PROVE CallOK(o)'
  BY <1>6 DEF CopyEnds, Goto, CallOK, ownVars, TypeOK
<1>7. ASSUME NEW b \in Boot, CopyEntry(b) \/ CopyTemplate(b) \/ CopyFails(b) PROVE CallOK(o)'
  BY <1>6, <1>7 DEF CopyEntry, CopyTemplate, CopyFails
<1>8. ASSUME NEW b \in Boot, Start(b) PROVE CallOK(o)'
  BY <1>8 DEF Start, Goto, CallOK, ownVars, TypeOK
<1>9. ASSUME NEW b \in Boot, StartFails(b) PROVE CallOK(o)'
  BY <1>9 DEF StartFails, Goto, CallOK, ownVars, TypeOK
<1>10. ASSUME NEW b \in Boot, Ready(b) PROVE CallOK(o)'
  BY <1>10 DEF Ready, Goto, CallOK, hostVars, TypeOK
<1>11. ASSUME NEW b \in Boot, NotReady(b) PROVE CallOK(o)'
  BY <1>11, RemoveBoxTypes DEF NotReady, Goto, CallOK, TypeOK
<1>12. ASSUME NEW b \in Boot, Saved(b) PROVE CallOK(o)'
  BY <1>12 DEF Saved, Goto, CallOK, ownVars, hostVars, TypeOK
<1>13. ASSUME NEW b \in Boot, SaveFails(b) \/ Written(b) PROVE CallOK(o)'
  BY <1>13 DEF SaveFails, Written, Goto, CallOK, hostVars, TypeOK
<1>14. ASSUME NEW b \in Boot, Destroy(b) PROVE CallOK(o)'
  BY <1>14 DEF Destroy, CallOK, bootVars, hostVars, TypeOK
<1>15. ASSUME NEW b \in Boot, Teardown(b) PROVE CallOK(o)'
  BY <1>15, RemoveBoxTypes DEF Teardown, CallOK, TypeOK
<1>16. ASSUME Restart PROVE CallOK(o)'
  BY <1>16 DEF Restart, CallOK, TypeOK
<1>17. CASE UNCHANGED vars
  BY <1>17 DEF vars, CallOK
<1> QED
  BY <1>1, <1>3, <1>4, <1>5, <1>7, <1>8, <1>9, <1>10, <1>11, <1>12, <1>13, <1>14, <1>15,
     <1>16, <1>17 DEF Next, BootStep

\* The types and what is said of single calls make an invariant of their own.
LEMMA CallInvStep ==
  TypeInv /\ (\A b \in Boot : CallOK(b)) /\ [Next]_vars
    => TypeInv' /\ (\A b \in Boot : CallOK(b))'
<1> SUFFICES ASSUME TypeInv, \A b \in Boot : CallOK(b), [Next]_vars
             PROVE  TypeInv' /\ (\A b \in Boot : CallOK(b))'
  OBVIOUS
<1>1. TypeOK'
  BY TypeStep
<1>2. \A b \in Boot : DiskOK(b)'
  BY DiskStep
<1>3. \A b \in Boot : CallOK(b)'
  BY CallStep
<1> QED
  BY <1>1, <1>2, <1>3 DEF TypeInv
----------------------------------------------------------------------------
(* The pools *)

\* Nothing was taken, nothing given back, and the same calls own ports.
LEMMA PoolsKept ==
  ASSUME PoolsOK, UNCHANGED <<held, taken>>, Owners' = Owners
  PROVE  PoolsOK'
  BY DEF PoolsOK

\* Call b becomes an owner of ports that were free.
LEMMA PoolsAdd ==
  ASSUME TypeOK, PoolsOK, NEW b \in Boot, b \notin Owners, NEW S \in SUBSET (Port \ taken),
         held' = [held EXCEPT ![b] = S], taken' = taken \cup S, Owners' = Owners \cup {b}
  PROVE  PoolsOK'
<1>1. held'[b] = S /\ \A o \in Owners : held'[o] = held[o]
  BY DEF TypeOK, Owners
<1>2. \A o \in Owners : held[o] \subseteq taken
  BY DEF PoolsOK, TypeOK, Owners
<1>3. \A p \in Port : p \in taken' <=> \E o \in Owners' : p \in held'[o]
  BY <1>1 DEF PoolsOK
<1>4. \A c, o \in Owners' : c # o => held'[c] \cap held'[o] = {}
  BY <1>1, <1>2 DEF PoolsOK
<1> QED
  BY <1>3, <1>4 DEF PoolsOK, Port

\* The owner b gives back what it has.
LEMMA PoolsDrop ==
  ASSUME TypeOK, PoolsOK, NEW b \in Owners, taken' = taken \ held[b],
         \A o \in Boot : o # b => held'[o] = held[o], Owners' = Owners \ {b}
  PROVE  PoolsOK'
<1>1. \A o \in Owners' : o \in Owners /\ o # b /\ held'[o] = held[o]
  BY DEF Owners
<1>2. \A p \in Port : p \in taken' <=> \E o \in Owners' : p \in held'[o]
  BY <1>1 DEF PoolsOK
<1>3. \A c, o \in Owners' : c # o => held'[c] \cap held'[o] = {}
  BY <1>1 DEF PoolsOK
<1> QED
  BY <1>2, <1>3 DEF PoolsOK, Port

LEMMA PoolsStep ==
  TypeInv /\ (\A b \in Boot : CallOK(b)) /\ PoolsOK /\ [Next]_vars => PoolsOK'
<1> SUFFICES ASSUME TypeOK, \A b \in Boot : CallOK(b), PoolsOK, [Next]_vars PROVE PoolsOK'
  BY DEF TypeInv
<1>1. ASSUME NEW b \in Boot, Call(b) \/ PullFails(b) PROVE PoolsOK'
  <2>1. Owners' = Owners /\ UNCHANGED <<held, taken>>
    BY <1>1 DEF Call, PullFails, Goto, Owners, ownVars, TypeOK
  <2> QED
    BY <2>1, PoolsKept
<1>2. ASSUME NEW b \in Boot, pc[b] \in {"queued", "pulling"}, TakePorts(b),
             UNCHANGED <<handles, closing>>
      PROVE  PoolsOK'
  <2>1. PICK S \in SUBSET (Port \ taken) :
           /\ held' = [held EXCEPT ![b] = S]
           /\ taken' = taken \cup S
           /\ Goto(b, "copying") \/ Goto(b, "failed")
    BY <1>2, TakePortsEffect
  <2>2. b \notin Owners
    BY <1>2 DEF Owners, CallOK
  <2>3. Owners' = Owners \cup {b}
    BY <1>2, <2>1 DEF Owners, Goto, TypeOK
  <2> QED
    BY <2>1, <2>2, <2>3, PoolsAdd
<1>3. ASSUME NEW b \in Boot, Acquire(b) PROVE PoolsOK'
  <2>1. CASE TakePorts(b)
    BY <1>2, <1>3, <2>1 DEF Acquire
  <2>2. CASE Goto(b, "pulling") /\ UNCHANGED <<held, taken>>
    <3>1. Owners' = Owners
      BY <1>3, <2>2 DEF Acquire, Goto, Owners, TypeOK
    <3> QED
      BY <2>2, <3>1, PoolsKept
  <2> QED
    BY <1>3, <2>1, <2>2 DEF Acquire
<1>4. ASSUME NEW b \in Boot, Pulled(b) PROVE PoolsOK'
  BY <1>2, <1>4 DEF Pulled
<1>5. ASSUME NEW b \in Boot, CopyEntry(b) \/ CopyTemplate(b) \/ CopyFails(b) PROVE PoolsOK'
  <2>1. PICK d : CopyEnds(b, d)
    BY <1>5 DEF CopyEntry, CopyTemplate, CopyFails
  <2>2. Owners' = Owners /\ UNCHANGED <<held, taken>>
    BY <2>1 DEF CopyEnds, Goto, Owners, ownVars, TypeOK
  <2> QED
    BY <2>2, PoolsKept
<1>6. ASSUME NEW b \in Boot, Start(b) \/ StartFails(b) PROVE PoolsOK'
  <2>1. Owners' = Owners /\ UNCHANGED <<held, taken>>
    BY <1>6 DEF Start, StartFails, Goto, Owners, ownVars, TypeOK
  <2> QED
    BY <2>1, PoolsKept
<1>7. ASSUME NEW b \in Boot, Ready(b) \/ SaveFails(b) \/ Written(b) PROVE PoolsOK'
  <2>1. Owners' = Owners /\ UNCHANGED <<held, taken>>
    BY <1>7 DEF Ready, SaveFails, Written, Goto, Owners, TypeOK
  <2> QED
    BY <2>1, PoolsKept
<1>8. ASSUME NEW b \in Boot, Saved(b) PROVE PoolsOK'
  <2>1. Owners' = Owners /\ UNCHANGED <<held, taken>>
    BY <1>8 DEF Saved, Goto, Owners, ownVars, TypeOK
  <2> QED
    BY <2>1, PoolsKept
<1>9. ASSUME NEW b \in Boot, NotReady(b) PROVE PoolsOK'
  <2>1. /\ b \in Owners /\ taken' = taken \ held[b]
        /\ \A o \in Boot : o # b => held'[o] = held[o]
    BY <1>9 DEF NotReady, Owners, TypeOK
  <2>2. Owners' = Owners \ {b}
    BY <1>9 DEF NotReady, Goto, Owners, CallOK, TypeOK
  <2> QED
    BY <2>1, <2>2, PoolsDrop
<1>10. ASSUME NEW b \in Boot, Destroy(b) PROVE PoolsOK'
  <2>1. Owners' = Owners /\ UNCHANGED <<held, taken>>
    BY <1>10 DEF Destroy, Owners, bootVars, TypeOK
  <2> QED
    BY <2>1, PoolsKept
<1>11. ASSUME NEW b \in Boot, Teardown(b) PROVE PoolsOK'
  <2>1. b \in Owners /\ taken' = taken \ held[b] /\ held' = held
    BY <1>11 DEF Teardown, Owners
  <2>2. Owners' = Owners \ {b}
    BY <1>11 DEF Teardown, Owners, CallOK, TypeOK
  <2> QED
    BY <2>1, <2>2, PoolsDrop
<1>12. ASSUME Restart PROVE PoolsOK'
  <2>1. Owners' = {} /\ taken' = {}
    BY <1>12 DEF Restart, Owners
  <2> QED
    BY <2>1 DEF PoolsOK
<1>13. CASE UNCHANGED vars
  <2>1. Owners' = Owners /\ UNCHANGED <<held, taken>>
    BY <1>13 DEF vars, Owners
  <2> QED
    BY <2>1, PoolsKept
<1> QED
  BY <1>1, <1>3, <1>4, <1>5, <1>6, <1>7, <1>8, <1>9, <1>10, <1>11, <1>12, <1>13
     DEF Next, BootStep
----------------------------------------------------------------------------
(* Containers *)

\* Who answers for a container: a call, handle or teardown, a failure of docker to remove
\* it, or a call that failed, whose ports PoolsOK keeps out of the pools.
BoxOK(b) == box[b] = "there" =>
    \/ pc[b] \in {"waiting", "saving", "writing", "failed"}
    \/ b \in handles \/ closing[b] > 0 \/ b \in rmFailed

LEMMA BoxStep ==
  TypeInv /\ (\A b \in Boot : CallOK(b)) /\ (\A b \in Boot : BoxOK(b)) /\ [Next]_vars
    => \A b \in Boot : BoxOK(b)'
<1> SUFFICES ASSUME TypeOK, \A b \in Boot : CallOK(b) /\ BoxOK(b), [Next]_vars, NEW o \in Boot
             PROVE  BoxOK(o)'
  BY DEF TypeInv
<1>1. ASSUME NEW b \in Boot, Call(b) \/ PullFails(b) PROVE BoxOK(o)'
  BY <1>1 DEF Call, PullFails, Goto, BoxOK, ownVars, hostVars, TypeOK
<1>2. ASSUME NEW b \in Boot, Acquire(b) \/ Pulled(b) PROVE BoxOK(o)'
  <2>1. /\ pc[b] \in {"queued", "pulling"}
        /\ \A c \in Boot : c # b => pc'[c] = pc[c]
        /\ UNCHANGED <<box, handles, closing, rmFailed>>
    BY <1>2, TakePortsEffect DEF Acquire, Pulled, Goto, hostVars, TypeOK
  <2> QED
    BY <2>1 DEF BoxOK, CallOK
<1>3. ASSUME NEW b \in Boot, CopyEntry(b) \/ CopyTemplate(b) \/ CopyFails(b) PROVE BoxOK(o)'
  <2>1. PICK d : CopyEnds(b, d)
    BY <1>3 DEF CopyEntry, CopyTemplate, CopyFails
  <2> QED
    BY <2>1 DEF CopyEnds, Goto, BoxOK, CallOK, ownVars, TypeOK
<1>4. ASSUME NEW b \in Boot, Start(b) \/ StartFails(b) PROVE BoxOK(o)'
  BY <1>4 DEF Start, StartFails, Goto, BoxOK, CallOK, ownVars, TypeOK
<1>5. ASSUME NEW b \in Boot, Ready(b) \/ SaveFails(b) \/ Written(b) PROVE BoxOK(o)'
  BY <1>5 DEF Ready, SaveFails, Written, Goto, BoxOK, hostVars, TypeOK
<1>6. ASSUME NEW b \in Boot, Saved(b) PROVE BoxOK(o)'
  BY <1>6 DEF Saved, Goto, BoxOK, ownVars, hostVars, TypeOK
<1>7. ASSUME NEW b \in Boot, NotReady(b) PROVE BoxOK(o)'
  <2>1. /\ \A c \in Boot : c # b => box'[c] = box[c] /\ pc'[c] = pc[c]
        /\ box'[b] = "there" => b \in rmFailed'
        /\ rmFailed \ {b} \subseteq rmFailed' /\ UNCHANGED <<handles, closing>>
    BY <1>7, RemoveBoxTypes DEF NotReady, Goto, TypeOK
  <2> QED
    BY <2>1 DEF BoxOK
<1>8. ASSUME NEW b \in Boot, Destroy(b) PROVE BoxOK(o)'
  BY <1>8 DEF Destroy, BoxOK, CallOK, bootVars, hostVars, TypeOK
<1>9. ASSUME NEW b \in Boot, Teardown(b) PROVE BoxOK(o)'
  <2>1. /\ \A c \in Boot : c # b => box'[c] = box[c] /\ closing'[c] = closing[c]
        /\ box'[b] = "there" => b \in rmFailed'
        /\ rmFailed \ {b} \subseteq rmFailed' /\ UNCHANGED <<handles, pc>>
    BY <1>9, RemoveBoxTypes DEF Teardown, TypeOK
  <2> QED
    BY <2>1 DEF BoxOK
<1>10. ASSUME Restart PROVE BoxOK(o)'
  BY <1>10 DEF Restart, BoxOK
<1>11. CASE UNCHANGED vars
  BY <1>11 DEF vars, BoxOK
<1> QED
  BY <1>1, <1>2, <1>3, <1>4, <1>5, <1>6, <1>7, <1>8, <1>9, <1>10, <1>11 DEF Next, BootStep
----------------------------------------------------------------------------
(* The theorems about calls *)

LEMMA VmInvInit == Init => VmInv
<1> SUFFICES ASSUME Init PROVE VmInv
  OBVIOUS
<1>1. TypeInv
  BY TypeInit, DiskInit DEF TypeInv
<1>2. PoolsOK
  BY DEF Init, PoolsOK, Owners
<1>3. ContainersAreOwned
  BY DEF Init, ContainersAreOwned
<1> QED
  BY <1>1, <1>2, <1>3, CallInit DEF VmInv

LEMMA VmInvStep == VmInv /\ [Next]_vars => VmInv'
<1> SUFFICES ASSUME VmInv, [Next]_vars PROVE VmInv'
  OBVIOUS
<1>1. \A b \in Boot : BoxOK(b)'
  <2>1. \A b \in Boot : BoxOK(b)
    BY DEF VmInv, ContainersAreOwned, BoxOK
  <2> QED
    BY <2>1, BoxStep DEF VmInv
<1>2. TypeInv' /\ (\A b \in Boot : CallOK(b)') /\ PoolsOK'
  BY CallInvStep, PoolsStep DEF VmInv
<1>3. ASSUME NEW b \in Boot, pc'[b] = "failed" PROVE held'[b] \subseteq taken'
  BY <1>2, <1>3 DEF TypeInv, TypeOK, PoolsOK, Owners
<1>4. ContainersAreOwned'
  BY <1>1, <1>3 DEF ContainersAreOwned, BoxOK
<1> QED
  BY <1>2, <1>4 DEF VmInv

LEMMA VmInvariant == Spec => []VmInv
<1>1. Init => VmInv
  BY VmInvInit
<1>2. VmInv /\ [Next]_vars => VmInv'
  BY VmInvStep
<1> QED
  BY <1>1, <1>2, PTL DEF Spec

\* Every variable of the runtime and of the cache keeps its type.
THEOREM TypeCorrect == Spec => []TypeOK
<1>1. VmInv => TypeOK
  BY DEF VmInv, TypeInv
<1> QED
  BY <1>1, VmInvariant, PTL

\* No two calls of provision_vm own a host port at once.
THEOREM OnePortOneCall == Spec => []PortsExclusive
<1>1. VmInv => PortsExclusive
  BY DEF VmInv, PoolsOK, PortsExclusive
<1> QED
  BY <1>1, VmInvariant, PTL

\* The pools lack exactly the ports that a call, a handle, a teardown or a failed start
\* answers for.
THEOREM NoPortForgotten == Spec => []PortsAccounted
<1>1. ASSUME VmInv PROVE PortsAccounted
  <2>1. taken \subseteq Port /\ \A b \in Owners : held[b] \subseteq Port
    BY <1>1 DEF VmInv, TypeInv, TypeOK, Owners
  <2> QED
    BY <1>1, <2>1 DEF VmInv, PoolsOK, PortsAccounted
<1> QED
  BY <1>1, VmInvariant, PTL

\* A machine in _hotplug_handles has its container, its directory and all its ports.
THEOREM HandlesAreMachines == Spec => []HandleIsBacked
<1>1. ASSUME VmInv PROVE HandleIsBacked
  <2> SUFFICES ASSUME NEW b \in handles
               PROVE  /\ pc[b] = "served" /\ closing[b] = 0
                      /\ box[b] = "there" /\ b \in slots
                      /\ held[b] \subseteq taken /\ Cardinality(held[b]) = Guests + 1
    BY DEF HandleIsBacked
  <2>1. b \in Boot /\ CallOK(b) /\ b \in Owners
    BY <1>1 DEF VmInv, TypeInv, TypeOK, Owners
  <2>2. held[b] \subseteq taken
    BY <1>1, <2>1 DEF VmInv, TypeInv, TypeOK, PoolsOK
  <2> QED
    BY <2>1, <2>2 DEF CallOK
<1> QED
  BY <1>1, VmInvariant, PTL

\* A container without a call, a handle or a teardown is one docker did not remove, or
\* one whose start raised, with its ports out of the pools.
THEOREM NoContainerForgotten == Spec => []ContainersAreOwned
<1>1. VmInv => ContainersAreOwned
  BY DEF VmInv
<1> QED
  BY <1>1, VmInvariant, PTL
----------------------------------------------------------------------------
(* The cache *)

\* An entry nobody has cast doubt on: nothing, or a whole snapshot whose sidecar names
\* its maker, or in the hands of a boot of this build that has a whole snapshot.
EntryOK(k) == k \notin doubt =>
    /\ (\A b \in Boot : pc[b] = "writing" => shape[b] # k) =>
         \/ file[k] = "absent" /\ side[k] = "none"
         \/ file[k] = "whole" /\ side[k] = maker[k] /\ maker[k] \in Build
    /\ \A b \in Boot : pc[b] = "writing" /\ shape[b] = k =>
         maker[k] = build /\ side[k] = "none" /\ disk[b].state = "whole"

\* A hit stays one until the copy that goes by it, and the copy is whole.
HitOK(b) == shape[b] \notin doubt =>
    /\ disk[b].of = "entry" => disk[b].state = "whole" /\ disk[b].maker = build
    /\ found[b] = "hit" => file[shape[b]] = "whole" /\ side[shape[b]] = build

CacheInv == (\A k \in Shape : EntryOK(k)) /\ (\A b \in Boot : HitOK(b))

LEMMA CacheInvInit == Init => CacheInv
  BY DEF Init, CacheInit, CacheInv, EntryOK, HitOK, NoDisk

\* What neither writes nor looks up leaves the entries and the hits alone.
LEMMA CacheKept ==
  ASSUME CacheInv, UNCHANGED <<cacheVars, shape>>,
         \A b \in Boot : /\ pc'[b] = "writing" <=> pc[b] = "writing"
                         /\ pc[b] = "writing" => disk'[b] = disk[b]
                         /\ found'[b] \in {found[b], "none"}
                         /\ \/ disk'[b] \in {disk[b], NoDisk}
                            \/ disk'[b].of = "template"
                            \/ shape[b] \in doubt
                            \/ disk'[b].state = "whole" /\ disk'[b].maker = build
  PROVE  CacheInv'
<1>1. UNCHANGED <<build, file, maker, side, doubt, shape>>
  BY DEF cacheVars
<1>2. \A k \in Shape : EntryOK(k)'
  BY <1>1 DEF CacheInv, EntryOK
<1>3. \A b \in Boot : HitOK(b)'
  BY <1>1 DEF CacheInv, HitOK, NoDisk
<1> QED
  BY <1>2, <1>3 DEF CacheInv

\* What a copy by a hit gets, if nobody has cast doubt on the entry.
LEMMA CopySound ==
  ASSUME TypeInv, CacheInv, NEW b \in Boot, found[b] = "hit", shape[b] \notin doubt,
         NEW d \in Copies(shape[b])
  PROVE  d.state = "whole" /\ d.maker = build
<1> DEFINE k == shape[b]
<1>1. k \in Shape /\ file[k] = "whole" /\ side[k] = build /\ build \in Build
  BY DEF CacheInv, HitOK, TypeInv, TypeOK, CacheTypeOK
<1>2. \A w \in Boot : pc[w] = "writing" => shape[w] # k
  BY <1>1 DEF TypeInv, DiskOK
<1>3. maker[k] = build
  BY <1>1, <1>2 DEF CacheInv, EntryOK
<1>4. d = [of |-> "entry", state |-> file[k], maker |-> maker[k]]
  BY <1>1, <1>2 DEF Copies
<1> QED
  BY <1>1, <1>3, <1>4

LEMMA LookupStep ==
  ASSUME TypeInv, CacheInv, NEW b \in Boot, Call(b)
  PROVE  CacheInv'
<1> DEFINE k == shape[b]
<1>1. /\ k \in Shape /\ build \in Build /\ side[k] \in SideState
      /\ UNCHANGED <<shape, build, doubt, disk>>
      /\ \A c \in Boot : pc[c] # "writing" /\ pc'[c] # "writing"
      /\ found' = [found EXCEPT ![b] = IF Hit(k) THEN "hit" ELSE "miss"]
  BY DEF Call, Goto, LoopFree, Lookup, TypeInv, TypeOK, CacheTypeOK
<1>2. CASE file[k] # "absent" /\ Mismatch(k)
  <2>1. /\ file' = [j \in Shape |-> IF j = k THEN "absent" ELSE file[j]]
        /\ maker' = [j \in Shape |-> IF j = k THEN NoBuild ELSE maker[j]]
        /\ side' = [j \in Shape |-> IF j = k THEN "none" ELSE side[j]]
    BY <1>2 DEF Call, Lookup, Evict
  <2>2. \A j \in Shape : EntryOK(j)'
    BY <1>1, <2>1 DEF CacheInv, EntryOK
  <2>3. \A c \in Boot : found[c] = "hit" /\ shape[c] \notin doubt => shape[c] # k
    BY <1>1, <1>2 DEF CacheInv, HitOK, Mismatch
  <2>4. ~Hit(k)
    BY <1>2 DEF Hit
  <2>5. \A c \in Boot : HitOK(c)'
    BY <1>1, <2>1, <2>3, <2>4 DEF CacheInv, HitOK, TypeInv, TypeOK
  <2> QED
    BY <2>2, <2>5 DEF CacheInv
<1>3. CASE ~(file[k] # "absent" /\ Mismatch(k))
  <2>1. UNCHANGED <<file, maker, side>>
    BY <1>3 DEF Call, Lookup, Evict, TypeInv, TypeOK, CacheTypeOK
  <2>2. \A j \in Shape : EntryOK(j)'
    BY <1>1, <2>1 DEF CacheInv, EntryOK
  <2>3. Hit(k) /\ k \notin doubt => file[k] = "whole" /\ side[k] = build
    BY <1>1, BuildAssumption DEF CacheInv, EntryOK, Hit, Mismatch
  <2>4. \A c \in Boot : HitOK(c)'
    BY <1>1, <2>1, <2>3 DEF CacheInv, HitOK, TypeInv, TypeOK
  <2> QED
    BY <2>2, <2>4 DEF CacheInv
<1> QED
  BY <1>2, <1>3

LEMMA SavedStep ==
  ASSUME TypeInv, CacheInv, NEW b \in Boot, Saved(b)
  PROVE  CacheInv'
<1> DEFINE k == shape[b]
<1>1. /\ k \in Shape /\ UNCHANGED <<shape, found, build, side>>
      /\ \A c \in Boot : pc[c] # "writing"
      /\ pc' = [pc EXCEPT ![b] = "writing"]
  BY DEF Saved, Goto, LoopFree, TypeInv, TypeOK, WriteBegins
<1>2. /\ file' = [file EXCEPT ![k] = "unfit"] /\ maker' = [maker EXCEPT ![k] = build]
      /\ doubt \subseteq doubt' /\ \A j \in Shape : j # k => (j \in doubt' <=> j \in doubt)
  BY DEF Saved, WriteBegins
<1>3. k \notin doubt' =>
        /\ k \notin doubt /\ file[k] = "absent"
        /\ disk'[b] = [disk[b] EXCEPT !.state = "whole", !.maker = build]
  BY DEF Saved, WriteBegins, TypeInv, TypeOK, Disk
<1>4. \A c \in Boot : c # b => disk'[c] = disk[c]
  BY SavedDisk DEF TypeInv
<1>5. disk[b] \in Disk /\ file \in [Shape -> FileState] /\ maker \in [Shape -> Build \cup {NoBuild}]
      /\ pc \in [Boot -> Pc]
  BY DEF TypeInv, TypeOK, CacheTypeOK
<1>6. k \notin doubt' => disk'[b].state = "whole" /\ disk'[b].maker = build
  BY <1>3, <1>5 DEF Disk
<1>7. \A j \in Shape : EntryOK(j)'
  <2> SUFFICES ASSUME NEW j \in Shape PROVE EntryOK(j)'
    OBVIOUS
  <2>1. CASE j = k
    <3>1. k \notin doubt' => side[k] = "none"
      BY <1>1, <1>3 DEF CacheInv, EntryOK
    <3> QED
      BY <1>1, <1>2, <1>5, <1>6, <2>1, <3>1 DEF EntryOK
  <2>2. CASE j # k
    BY <1>1, <1>2, <1>5, <2>2 DEF CacheInv, EntryOK
  <2> QED
    BY <2>1, <2>2
<1>8. \A c \in Boot : HitOK(c)'
  <2> SUFFICES ASSUME NEW c \in Boot, shape[c] \notin doubt' PROVE HitOK(c)'
    BY <1>1 DEF HitOK
  <2>1. shape[c] \notin doubt
    BY <1>2
  <2>2. disk'[c].of = "entry" => disk'[c].state = "whole" /\ disk'[c].maker = build
    BY <1>4, <1>6, <2>1 DEF CacheInv, HitOK
  <2>3. found[c] = "hit" => shape[c] # k
    BY <1>3, <2>1 DEF CacheInv, HitOK
  <2> QED
    BY <1>1, <1>2, <1>5, <2>1, <2>2, <2>3 DEF CacheInv, HitOK, TypeInv, TypeOK
<1> QED
  BY <1>7, <1>8 DEF CacheInv

LEMMA WrittenStep ==
  ASSUME TypeInv, CacheInv, NEW b \in Boot, Written(b)
  PROVE  CacheInv'
<1> DEFINE k == shape[b]
<1>1. /\ k \in Shape /\ UNCHANGED <<shape, found, build, disk>>
      /\ \A c \in Boot : pc'[c] # "writing" /\ (pc[c] = "writing" => c = b)
      /\ pc[b] = "writing" /\ file[k] = "unfit"
  BY DEF Written, Goto, WriteEnds, WriteFails, TypeInv, TypeOK, DiskOK
<1>2. /\ file \in [Shape -> FileState] /\ maker \in [Shape -> Build \cup {NoBuild}]
      /\ side \in [Shape -> SideState] /\ build \in Build
  BY DEF TypeInv, TypeOK, CacheTypeOK
<1>3. /\ doubt \subseteq doubt'
      /\ \A j \in Shape : j # k => file'[j] = file[j] /\ maker'[j] = maker[j] /\ side'[j] = side[j]
                                  /\ (j \in doubt' <=> j \in doubt)
  BY <1>1, <1>2 DEF Written, WriteEnds, WriteFails
<1>4. k \notin doubt' => file'[k] = "whole" /\ side'[k] = build /\ maker'[k] = build
  <2> SUFFICES ASSUME k \notin doubt'
               PROVE  file'[k] = "whole" /\ side'[k] = build /\ maker'[k] = build
    OBVIOUS
  <2>1. WriteEnds(k, disk[b].state)
    BY DEF Written, WriteFails
  <2>2. maker[k] = build /\ disk[b].state = "whole"
    BY <1>1, <1>3 DEF CacheInv, EntryOK
  <2> QED
    BY <1>1, <1>2, <2>1, <2>2 DEF WriteEnds
<1>5. \A j \in Shape : EntryOK(j)'
  BY <1>1, <1>2, <1>3, <1>4 DEF CacheInv, EntryOK
<1>6. \A c \in Boot : HitOK(c)'
  BY <1>1, <1>3, <1>4 DEF CacheInv, HitOK, TypeInv, TypeOK
<1> QED
  BY <1>5, <1>6 DEF CacheInv

LEMMA RestartStep ==
  ASSUME TypeInv, CacheInv, Restart
  PROVE  CacheInv'
<1>1. /\ \A c \in Boot : pc'[c] # "writing" /\ found'[c] = "none" /\ disk'[c] = NoDisk
      /\ shape' = shape
  BY DEF Restart
<1>2. \A c \in Boot : HitOK(c)'
  BY <1>1 DEF HitOK, NoDisk
<1>3. \E worker \in BOOLEAN, W \in SUBSET Shape :
        /\ \E left : CacheRestart(W, left, worker)
        /\ \A c \in Boot : pc[c] = "writing" => shape[c] \in W
  <2>1. PICK worker \in BOOLEAN :
          \/ /\ \A b \in Boot : pc[b] # "writing"
             /\ CacheRestart({}, [file |-> "absent", garbled |-> FALSE], worker)
          \/ \E b \in Boot : /\ pc[b] = "writing"
                            /\ \E left \in Leftovers(disk[b].state) :
                                 CacheRestart({shape[b]}, left, worker)
    BY DEF Restart
  <2>2. CASE /\ \A b \in Boot : pc[b] # "writing"
             /\ CacheRestart({}, [file |-> "absent", garbled |-> FALSE], worker)
    <3>1. {} \in SUBSET Shape
      OBVIOUS
    <3> QED
      BY <2>2, <3>1
  <2>3. ASSUME NEW b \in Boot, pc[b] = "writing", NEW left, CacheRestart({shape[b]}, left, worker)
        PROVE  \E W \in SUBSET Shape : /\ \E l : CacheRestart(W, l, worker)
                                      /\ \A c \in Boot : pc[c] = "writing" => shape[c] \in W
    <3>1. {shape[b]} \in SUBSET Shape /\ \A c \in Boot : pc[c] = "writing" => c = b
      BY <2>3 DEF TypeInv, TypeOK, DiskOK
    <3> QED
      BY <2>3, <3>1
  <2> QED
    BY <2>1, <2>2, <2>3
<1>4. PICK worker \in BOOLEAN, W \in SUBSET Shape :
        /\ \E left : CacheRestart(W, left, worker)
        /\ \A c \in Boot : pc[c] = "writing" => shape[c] \in W
  BY <1>3
<1>5. ASSUME NEW k \in Shape PROVE EntryOK(k)'
  <2> SUFFICES ASSUME k \notin doubt'
               PROVE  \/ file'[k] = "absent" /\ side'[k] = "none"
                      \/ file'[k] = "whole" /\ side'[k] = maker'[k] /\ maker'[k] \in Build
    BY <1>1 DEF EntryOK
  <2>1. k \notin W /\ k \notin doubt
    BY <1>4 DEF CacheRestart
  <2>2. \/ file[k] = "absent" /\ side[k] = "none"
        \/ file[k] = "whole" /\ side[k] = maker[k] /\ maker[k] \in Build
    BY <1>4, <2>1 DEF CacheInv, EntryOK
  <2>3. \/ file'[k] = file[k] /\ maker'[k] = maker[k] /\ side'[k] = side[k]
        \/ file'[k] = "absent" /\ side'[k] = "none"
    BY <1>4, <2>1 DEF CacheRestart
  <2> QED
    BY <2>2, <2>3
<1> QED
  BY <1>2, <1>5 DEF CacheInv

LEMMA CacheStep == TypeInv /\ (\A b \in Boot : CallOK(b)) /\ CacheInv /\ [Next]_vars => CacheInv'
<1> SUFFICES ASSUME TypeInv, \A b \in Boot : CallOK(b), CacheInv, [Next]_vars PROVE CacheInv'
  OBVIOUS
<1> USE DEF TypeInv, TypeOK
<1>1. ASSUME NEW b \in Boot, Acquire(b) \/ Pulled(b) PROVE CacheInv'
  <2>1. /\ pc[b] \in {"queued", "pulling"} /\ pc'[b] \in {"pulling", "copying", "failed"}
        /\ \A c \in Boot : c # b => pc'[c] = pc[c]
        /\ UNCHANGED <<cacheVars, shape, disk, found>>
    BY <1>1, TakePortsEffect DEF Acquire, Pulled, Goto, Pc
  <2> QED
    BY <2>1, CacheKept
<1>2. ASSUME NEW b \in Boot, PullFails(b) PROVE CacheInv'
  BY <1>2, CacheKept DEF PullFails, Goto, ownVars, hostVars
<1>3. ASSUME NEW b \in Boot, NEW d, CopyEnds(b, d),
             \/ d = NoDisk \/ d.of = "template" \/ shape[b] \in doubt
             \/ d.state = "whole" /\ d.maker = build
      PROVE  CacheInv'
  BY <1>3, CacheKept DEF CopyEnds, Goto
<1>4. ASSUME NEW b \in Boot, CopyEntry(b) \/ CopyTemplate(b) \/ CopyFails(b) PROVE CacheInv'
  <2>1. CASE CopyEntry(b)
    BY <1>3, <2>1, CopySound DEF CopyEntry
  <2>2. CASE CopyTemplate(b)
    BY <1>3, <2>2 DEF CopyTemplate
  <2>3. CASE CopyFails(b)
    BY <1>3, <2>3 DEF CopyFails
  <2> QED
    BY <1>4, <2>1, <2>2, <2>3
<1>5. ASSUME NEW b \in Boot, Start(b) \/ StartFails(b) PROVE CacheInv'
  BY <1>5, CacheKept DEF Start, StartFails, Goto, ownVars
<1>6. ASSUME NEW b \in Boot, Ready(b) \/ NotReady(b) \/ SaveFails(b) PROVE CacheInv'
  BY <1>6, CacheKept DEF Ready, NotReady, SaveFails, Goto, hostVars
<1>7. ASSUME NEW b \in Boot, Destroy(b) PROVE CacheInv'
  BY <1>7, CacheKept DEF Destroy, bootVars, hostVars
<1>8. ASSUME NEW b \in Boot, Teardown(b) PROVE CacheInv'
  <2>1. pc[b] = "served"
    BY <1>8 DEF Teardown, CallOK
  <2> QED
    BY <1>8, <2>1, CacheKept DEF Teardown
<1>9. CASE UNCHANGED vars
  BY <1>9, CacheKept DEF vars, cacheVars
<1> QED
  BY <1>1, <1>2, <1>4, <1>5, <1>6, <1>7, <1>8, <1>9, LookupStep, SavedStep, WrittenStep, RestartStep
     DEF Next, BootStep

LEMMA CacheInvariant == Spec => [](TypeInv /\ CacheInv)
<1> DEFINE Inv == TypeInv /\ (\A b \in Boot : CallOK(b)) /\ CacheInv
<1>1. Init => Inv
  BY TypeInit, DiskInit, CallInit, CacheInvInit DEF TypeInv
<1>2. Inv /\ [Next]_vars => Inv'
  BY CallInvStep, CacheStep
<1>3. Inv => TypeInv /\ CacheInv
  OBVIOUS
<1> QED
  BY <1>1, <1>2, <1>3, PTL DEF Spec

\* A disk that was copied from the cache is a whole snapshot of the QEMU build that
\* runs, unless a write of its shape went wrong or replaced an entry.
THEOREM CacheServesWholeSnapshots == Spec => []HitIsSound
<1>1. CacheInv => HitIsSound
  BY DEF CacheInv, HitOK, HitIsSound
<1> QED
  BY <1>1, CacheInvariant, PTL

\* A shape that list_entries reports to the master boots from the cache, with the same
\* exceptions.
THEOREM ReportedShapesHit == Spec => []ListedIsServed
<1>1. ASSUME TypeInv, CacheInv PROVE ListedIsServed
  <2> SUFFICES ASSUME NEW k \in Listed \ doubt PROVE Hit(k)
    BY DEF ListedIsServed
  <2>1. k \in Shape /\ side[k] = build /\ build \in Build /\ build # "none"
    BY <1>1, BuildAssumption DEF Listed, TypeInv, TypeOK, CacheTypeOK
  <2>2. file[k] = "whole"
    BY <1>1, <2>1 DEF CacheInv, EntryOK
  <2> QED
    BY <2>1, <2>2 DEF Hit, Mismatch
<1> QED
  BY <1>1, CacheInvariant, PTL
----------------------------------------------------------------------------
(* The runtime keeps its contract: every step is a step of MachineContract, or none. *)

VmOf(b) == CASE pc[b] = "new" -> "none"
             [] pc[b] \in InFlight -> "booting"
             [] b \in handles -> "serving"
             [] closing[b] > 0 -> "closing"
             [] OTHER -> "gone"
AddrOf(b) == IF b \in handles \/ closing[b] > 0 THEN held[b] ELSE {}

vmBar == [b \in Boot |-> VmOf(b)]
addrBar == [b \in Boot |-> AddrOf(b)]

\* What a caller sees of a call, by where the call is.
LEMMA Seen ==
  ASSUME VmInv, NEW b \in Boot
  PROVE  /\ pc[b] = "new" => VmOf(b) = "none" /\ AddrOf(b) = {}
         /\ pc[b] \in InFlight => VmOf(b) = "booting" /\ AddrOf(b) = {}
         /\ b \in handles => VmOf(b) = "serving" /\ AddrOf(b) = held[b]
         /\ closing[b] > 0 => VmOf(b) = "closing" /\ AddrOf(b) = held[b]
         /\ pc[b] \in {"served", "refused", "failed", "lost"} /\ b \notin handles /\ closing[b] = 0
              => VmOf(b) = "gone" /\ AddrOf(b) = {}
<1>1. CallOK(b) /\ closing[b] \in Nat
  BY DEF VmInv, TypeInv, TypeOK
<1>2. pc[b] = "new" \/ pc[b] \in InFlight => b \notin handles /\ closing[b] = 0
  BY <1>1 DEF CallOK, InFlight
<1> QED
  BY <1>1, <1>2 DEF CallOK, VmOf, AddrOf, InFlight

\* Only what is seen of call b changes.
LEMMA OthersSeen ==
  ASSUME NEW b \in Boot,
         \A o \in Boot : o # b => /\ pc'[o] = pc[o] /\ closing'[o] = closing[o]
                                 /\ held'[o] = held[o] /\ (o \in handles' <=> o \in handles)
  PROVE  /\ vmBar' = [vmBar EXCEPT ![b] = VmOf(b)']
         /\ addrBar' = [addrBar EXCEPT ![b] = AddrOf(b)']
<1>1. \A o \in Boot : o # b => VmOf(o)' = VmOf(o) /\ AddrOf(o)' = AddrOf(o)
  BY DEF VmOf, AddrOf
<1> QED
  BY <1>1 DEF vmBar, addrBar

\* A call that is on its way goes on, is refused, or is served with its own ports.
LEMMA FlightSeen ==
  ASSUME VmInv, VmInv', NEW b \in Boot, pc[b] \in InFlight,
         \A o \in Boot : o # b => /\ pc'[o] = pc[o] /\ closing'[o] = closing[o]
                                 /\ held'[o] = held[o] /\ (o \in handles' <=> o \in handles),
         \/ pc'[b] \in InFlight
         \/ pc'[b] \in {"refused", "failed"}
         \/ b \in handles'
  PROVE  \/ UNCHANGED <<vmBar, addrBar>>
         \/ /\ vmBar[b] = "booting" /\ vmBar' = [vmBar EXCEPT ![b] = "gone"]
            /\ UNCHANGED addrBar
         \/ /\ vmBar[b] = "booting" /\ vmBar' = [vmBar EXCEPT ![b] = "serving"]
            /\ \E P \in SUBSET Port : /\ \A o \in Boot : P \cap addrBar[o] = {}
                                     /\ addrBar' = [addrBar EXCEPT ![b] = P]
<1>1. VmOf(b) = "booting" /\ AddrOf(b) = {} /\ vmBar[b] = "booting" /\ addrBar[b] = {}
  BY Seen DEF vmBar, addrBar
<1>2. /\ vmBar' = [vmBar EXCEPT ![b] = VmOf(b)']
      /\ addrBar' = [addrBar EXCEPT ![b] = AddrOf(b)']
  BY OthersSeen
<1>3. vmBar = [vmBar EXCEPT ![b] = "booting"] /\ addrBar = [addrBar EXCEPT ![b] = {}]
  BY <1>1 DEF vmBar, addrBar
<1>4. CASE pc'[b] \in InFlight
  <2>1. VmOf(b)' = "booting" /\ AddrOf(b)' = {}
    BY <1>4 DEF VmOf, AddrOf, VmInv, CallOK, TypeInv, TypeOK, InFlight
  <2> QED
    BY <1>2, <1>3, <2>1
<1>5. CASE pc'[b] \in {"refused", "failed"}
  <2>1. VmOf(b)' = "gone" /\ AddrOf(b)' = {}
    BY <1>5 DEF VmOf, AddrOf, VmInv, CallOK, TypeInv, TypeOK, InFlight
  <2> QED
    BY <1>1, <1>2, <1>3, <2>1
<1>6. CASE b \in handles'
  <2>1. VmOf(b)' = "serving" /\ AddrOf(b)' = held'[b]
    BY <1>6 DEF VmOf, AddrOf, VmInv, CallOK, TypeInv, TypeOK, InFlight
  <2>2. held'[b] \in SUBSET Port
    BY DEF VmInv, TypeInv, TypeOK
  <2>3. ASSUME NEW o \in Boot PROVE held'[b] \cap addrBar[o] = {}
    <3>1. CASE o = b
      BY <1>1, <3>1
    <3>2. CASE o # b /\ (o \in handles \/ closing[o] > 0)
      <4>1. b \in Owners' /\ o \in Owners'
        BY <1>6, <3>2 DEF Owners
      <4> QED
        BY <3>2, <4>1 DEF VmInv, PoolsOK, addrBar, AddrOf
    <3>3. CASE ~(o \in handles \/ closing[o] > 0)
      BY <3>3 DEF addrBar, AddrOf
    <3> QED
      BY <3>1, <3>2, <3>3
  <2> QED
    BY <1>1, <1>2, <2>1, <2>2, <2>3
<1> QED
  BY <1>4, <1>5, <1>6

\* Every step of the runtime, as its callers see it.
ContractStep ==
    \/ UNCHANGED <<vmBar, addrBar>>
    \/ \E b \in Boot :
         \/ /\ vmBar[b] = "none" /\ vmBar' = [vmBar EXCEPT ![b] = "booting"]
            /\ UNCHANGED addrBar
         \/ /\ vmBar[b] = "booting" /\ vmBar' = [vmBar EXCEPT ![b] = "serving"]
            /\ \E P \in SUBSET Port : /\ \A o \in Boot : P \cap addrBar[o] = {}
                                     /\ addrBar' = [addrBar EXCEPT ![b] = P]
         \/ /\ vmBar[b] = "booting" /\ vmBar' = [vmBar EXCEPT ![b] = "gone"]
            /\ UNCHANGED addrBar
         \/ /\ vmBar[b] = "serving" /\ vmBar' = [vmBar EXCEPT ![b] = "closing"]
            /\ UNCHANGED addrBar
         \/ /\ vmBar[b] = "closing" /\ vmBar' = [vmBar EXCEPT ![b] = "gone"]
            /\ addrBar' = [addrBar EXCEPT ![b] = {}]
    \/ /\ vmBar' = [b \in Boot |-> IF vmBar[b] = "none" THEN "none" ELSE "gone"]
       /\ addrBar' = [b \in Boot |-> {}]

LEMMA StepSeen == VmInv /\ [Next]_vars => ContractStep
<1> SUFFICES ASSUME VmInv, [Next]_vars PROVE ContractStep
  OBVIOUS
<1>1. VmInv' /\ TypeOK /\ \A b \in Boot : CallOK(b) /\ CallOK(b)'
  BY VmInvStep DEF VmInv, TypeInv
<1>2. ASSUME NEW b \in Boot, Call(b) PROVE ContractStep
  <2>1. /\ pc[b] = "new" /\ pc' = [pc EXCEPT ![b] = "queued"]
        /\ UNCHANGED <<handles, closing, held>>
    BY <1>2 DEF Call, Goto, ownVars
  <2>2. VmOf(b) = "none" /\ AddrOf(b) = {}
    BY <2>1, Seen
  <2>3. VmOf(b)' = "booting" /\ AddrOf(b)' = {}
    BY <1>1, <2>1 DEF VmOf, AddrOf, CallOK, TypeOK, InFlight
  <2>4. /\ vmBar' = [vmBar EXCEPT ![b] = VmOf(b)']
        /\ addrBar' = [addrBar EXCEPT ![b] = AddrOf(b)']
    BY <1>1, <2>1, OthersSeen DEF TypeOK
  <2>5. vmBar[b] = "none" /\ addrBar = [addrBar EXCEPT ![b] = {}]
    BY <2>2 DEF vmBar, addrBar
  <2> QED
    BY <2>3, <2>4, <2>5 DEF ContractStep
<1>3. ASSUME NEW b \in Boot, pc[b] \in InFlight,
             \A o \in Boot : o # b => /\ pc'[o] = pc[o] /\ closing'[o] = closing[o]
                                     /\ held'[o] = held[o] /\ (o \in handles' <=> o \in handles),
             pc'[b] \in InFlight \/ pc'[b] \in {"refused", "failed"} \/ b \in handles'
      PROVE  ContractStep
  BY <1>1, <1>3, FlightSeen DEF ContractStep
<1>4. ASSUME NEW b \in Boot, Acquire(b) \/ Pulled(b) PROVE ContractStep
  <2>1. /\ pc[b] \in InFlight /\ UNCHANGED <<handles, closing>>
        /\ pc'[b] \in InFlight \cup {"refused", "failed"}
        /\ \A o \in Boot : o # b => pc'[o] = pc[o] /\ held'[o] = held[o]
    BY <1>1, <1>4, TakePortsEffect DEF Acquire, Pulled, Goto, TypeOK, InFlight
  <2> QED
    BY <1>3, <2>1
<1>5. ASSUME NEW b \in Boot, PullFails(b) \/ Start(b) \/ StartFails(b) \/ Saved(b) PROVE ContractStep
  BY <1>1, <1>3, <1>5 DEF PullFails, Start, StartFails, Saved, Goto, ownVars, TypeOK, InFlight
<1>6. ASSUME NEW b \in Boot, CopyEntry(b) \/ CopyTemplate(b) \/ CopyFails(b) PROVE ContractStep
  <2>1. PICK d : CopyEnds(b, d)
    BY <1>6 DEF CopyEntry, CopyTemplate, CopyFails
  <2> QED
    BY <1>1, <1>3, <2>1 DEF CopyEnds, Goto, ownVars, TypeOK, InFlight
<1>7. ASSUME NEW b \in Boot, Ready(b) \/ SaveFails(b) \/ Written(b) PROVE ContractStep
  BY <1>1, <1>3, <1>7 DEF Ready, SaveFails, Written, Goto, TypeOK, InFlight
<1>8. ASSUME NEW b \in Boot, NotReady(b) PROVE ContractStep
  BY <1>1, <1>3, <1>8 DEF NotReady, Goto, TypeOK, InFlight
<1>9. ASSUME NEW b \in Boot, Destroy(b) PROVE ContractStep
  <2>1. /\ b \in handles /\ handles' = handles \ {b} /\ closing[b] = 0
        /\ closing' = [closing EXCEPT ![b] = @ + 1] /\ UNCHANGED <<pc, held>>
    BY <1>1, <1>9 DEF Destroy, bootVars, CallOK
  <2>2. VmOf(b) = "serving" /\ AddrOf(b) = held[b]
    BY <2>1, Seen
  <2>3. VmOf(b)' = "closing" /\ AddrOf(b)' = held[b]
    BY <1>1, <2>1 DEF VmOf, AddrOf, CallOK, TypeOK, InFlight
  <2>4. /\ vmBar' = [vmBar EXCEPT ![b] = VmOf(b)']
        /\ addrBar' = [addrBar EXCEPT ![b] = AddrOf(b)']
    BY <1>1, <2>1, OthersSeen DEF TypeOK
  <2>5. vmBar[b] = "serving" /\ addrBar = [addrBar EXCEPT ![b] = held[b]]
    BY <2>2 DEF vmBar, addrBar
  <2> QED
    BY <2>3, <2>4, <2>5 DEF ContractStep
<1>10. ASSUME NEW b \in Boot, Teardown(b) PROVE ContractStep
  <2>1. /\ closing[b] = 1 /\ pc[b] = "served" /\ b \notin handles
        /\ closing' = [closing EXCEPT ![b] = @ - 1] /\ UNCHANGED <<pc, held, handles>>
    BY <1>1, <1>10 DEF Teardown, CallOK
  <2>2. VmOf(b) = "closing"
    BY <2>1, Seen
  <2>3. VmOf(b)' = "gone" /\ AddrOf(b)' = {}
    BY <1>1, <2>1 DEF VmOf, AddrOf, CallOK, TypeOK, InFlight
  <2>4. /\ vmBar' = [vmBar EXCEPT ![b] = VmOf(b)']
        /\ addrBar' = [addrBar EXCEPT ![b] = AddrOf(b)']
    BY <1>1, <2>1, OthersSeen DEF TypeOK
  <2>5. vmBar[b] = "closing"
    BY <2>2 DEF vmBar
  <2> QED
    BY <2>3, <2>4, <2>5 DEF ContractStep
<1>11. ASSUME Restart PROVE ContractStep
  <2>1. \A b \in Boot : /\ pc'[b] = IF pc[b] = "new" THEN "new" ELSE "lost"
                        /\ b \notin handles' /\ closing'[b] = 0
    BY <1>11 DEF Restart
  <2>2. \A b \in Boot : VmOf(b)' = (IF pc[b] = "new" THEN "none" ELSE "gone") /\ AddrOf(b)' = {}
    BY <2>1 DEF VmOf, AddrOf, InFlight
  <2>3. \A b \in Boot : VmOf(b) = "none" <=> pc[b] = "new"
    <3> SUFFICES ASSUME NEW b \in Boot PROVE VmOf(b) = "none" <=> pc[b] = "new"
      OBVIOUS
    <3>1. pc[b] \in Pc /\ CallOK(b) /\ closing[b] \in Nat
      BY <1>1 DEF TypeOK
    <3> QED
      BY <3>1, Seen DEF Pc, InFlight
  <2> QED
    BY <2>2, <2>3 DEF ContractStep, vmBar, addrBar
<1>12. CASE UNCHANGED vars
  BY <1>12 DEF vars, ContractStep, vmBar, addrBar, VmOf, AddrOf
<1> QED
  BY <1>2, <1>4, <1>5, <1>6, <1>7, <1>8, <1>9, <1>10, <1>11, <1>12 DEF Next, BootStep

\* The safety part of ImplementsContract: a request is served, refused or forgotten, and
\* a machine keeps its ports to itself until its teardown has ended.
THEOREM KeepsContract == Spec => Contract!Init /\ [][Contract!Next]_(Contract!vars)
<1>1. ASSUME Init PROVE Contract!Init
  <2>1. \A b \in Boot : VmOf(b) = "none" /\ AddrOf(b) = {}
    BY <1>1, VmInvInit, Seen DEF Init
  <2>2. vmBar = [b \in Boot |-> "none"] /\ addrBar = [b \in Boot |-> {}]
    BY <2>1 DEF vmBar, addrBar
  <2> QED
    BY <2>2 DEF vmBar, addrBar, VmOf, AddrOf, Contract!Init
<1>2. VmInv /\ [Next]_vars => [Contract!Next]_(Contract!vars)
  <2> SUFFICES ASSUME ContractStep PROVE [Contract!Next]_(Contract!vars)
    BY StepSeen
  <2> QED
    BY DEF ContractStep, vmBar, addrBar, VmOf, AddrOf, Contract!Next, Contract!Ask, Contract!Serve,
           Contract!Refuse, Contract!Close, Contract!Closed, Contract!Forget, Contract!vars
<1> QED
  BY <1>1, <1>2, VmInvariant, PTL DEF Spec
=============================================================================
