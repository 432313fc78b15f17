--------------------------- MODULE ClusterProofs ---------------------------
(***************************************************************************)
(* What TLAPS proves about Cluster, for every number of tasks, batches,    *)
(* workers, leases, connections and faults.  Bookkeeping is the inductive  *)
(* invariant all of it rests on: types, sessions, leases that were drawn,  *)
(* the only assignment of each lease, and notices that tell the truth.     *)
(***************************************************************************)
EXTENDS Cluster, SequenceTheorems, TLAPS

Owner == [task : Task, worker : Worker]

\* The types the proofs need.  The order of the coroutines is not one of them.
TypeInv ==
    /\ tstate \in [Task -> {"absent", "queued", "starting", "ready", "completed", "failed"}]
    /\ tlease \in [Task -> Lease \cup {None}]
    /\ bstate \in [Batch -> {"absent", "queued", "running", "completed", "failed"}]
    /\ owner \in [Lease -> Owner \cup {None}]
    /\ bound \in SUBSET Lease
    /\ load \in [Worker -> SUBSET Task]
    /\ call \in [Lease -> {"none", "waiting", "bound", "refused", "broken", "over"}]
    /\ sess \in [Worker -> [conn : Conn \cup {None}, online : BOOLEAN]]
    /\ releasing \in SUBSET Lease
    /\ link \in [Conn -> {"free", "up", "cut"}]
    /\ toMaster \in [Conn -> Seq(MasterFrame)]
    /\ toWorker \in [Conn -> Seq(WorkerFrame)]
    /\ job \in [Lease -> JobState]
    /\ jobTask \in [Lease -> Task \cup {None}]
    /\ via \in [Lease -> Conn \cup {None}]
    /\ verdict \in [Lease -> {"completed", "failed", "abandoned", None}]
    /\ outcome \in [Lease -> {"completed", "failed", None}]
    /\ told \in SUBSET Lease

\* A worker that is online was reached through a connection of its own.
SessInv == \A w \in Worker : sess[w].online => sess[w].conn \in Conn /\ sess[w].conn[1] = w

\* Whatever names a lease names one that was drawn.
DrawnInv ==
    /\ \A l \in Lease : call[l] # "none" => owner[l] \in Owner
    /\ \A l \in bound \cup releasing : call[l] # "none"
    /\ \A l \in Lease : job[l] # "none" =>
         /\ call[l] # "none"
         /\ via[l] \in Conn /\ owner[l] = [task |-> jobTask[l], worker |-> At(l)]

\* An assignment that is under way is the only one of its lease, and no job yet.
AssignInv ==
    /\ \A c \in Conn : \A i \in 1..Len(toWorker[c]) :
         LET f == toWorker[c][i] IN
         f.kind = "assign" =>
           /\ call[f.lease] # "none" /\ job[f.lease] = "none"
           /\ owner[f.lease] = [task |-> f.task, worker |-> c[1]]
    /\ \A c, d \in Conn : \A i \in 1..Len(toWorker[c]), j \in 1..Len(toWorker[d]) :
         /\ toWorker[c][i].kind = "assign" /\ toWorker[d][j].kind = "assign"
         /\ toWorker[c][i].lease = toWorker[d][j].lease
         => c = d /\ i = j

\* The lease has ended on its worker as completed, for good.
Done(l, status) ==
    /\ job[l] \in {"ended", "gone"} /\ outcome[l] = status
    /\ status = "completed" => verdict[l] = "completed"

\* A notice of an end tells what happened.
NoticeOK(c, i) ==
    LET f == toMaster[c][i] IN
    f.kind = "completed" =>
      /\ owner[f.lease] = [task |-> f.task, worker |-> c[1]]
      /\ Done(f.lease, f.status)
NoticeInv == \A c \in Conn : \A i \in 1..Len(toMaster[c]) : NoticeOK(c, i)

EarnInv ==
    \A t \in Task : tstate[t] = "completed" =>
      \E l \in Lease : jobTask[l] = t /\ Done(l, "completed")

----------------------------------------------------------------------------
(* Sequences and frames *)

LEMMA HeadTail ==
  ASSUME NEW S, NEW s \in Seq(S), s # <<>>
  PROVE  /\ Len(s) \in Nat \ {0} /\ Head(s) = s[1] /\ Head(s) \in S
         /\ Tail(s) \in Seq(S) /\ Len(Tail(s)) = Len(s) - 1
         /\ \A i \in 1..Len(s) - 1 : Tail(s)[i] = s[i + 1] /\ i + 1 \in 1..Len(s)
<1>1. Len(s) \in Nat /\ Len(s) # 0
  BY LenProperties, EmptySeq
<1>2. 1 \in 1..Len(s)
  BY <1>1
<1>3. Head(s) = s[1] /\ Head(s) \in S
  BY <1>2, HeadTailProperties, ElementOfSeq
<1> QED
  BY <1>1, <1>3, HeadTailProperties

LEMMA Appended ==
  ASSUME NEW S, NEW s \in Seq(S), NEW x \in S
  PROVE  /\ Append(s, x) \in Seq(S) /\ Len(s) \in Nat /\ Len(Append(s, x)) = Len(s) + 1
         /\ \A i \in 1..Len(s) : Append(s, x)[i] = s[i]
         /\ Append(s, x)[Len(s) + 1] = x
BY AppendProperties, LenProperties

LEMMA Prefix ==
  ASSUME NEW S, NEW s \in Seq(S), NEW k \in 0..Len(s)
  PROVE  /\ SubSeq(s, 1, k) \in Seq(S) /\ Len(SubSeq(s, 1, k)) = k
         /\ \A i \in 1..k : SubSeq(s, 1, k)[i] = s[i] /\ i \in 1..Len(s)
<1>1. Len(s) \in Nat /\ k \in Nat /\ k <= Len(s)
  BY LenProperties
<1>2. \A i \in 1..k : s[i] \in S /\ i \in 1..Len(s)
  BY <1>1, ElementOfSeq
<1>3. 1 \in Int /\ k \in Int
  BY <1>1
<1>4. /\ SubSeq(s, 1, k) \in Seq(S) /\ Len(SubSeq(s, 1, k)) = (IF 1 <= k THEN k - 1 + 1 ELSE 0)
      /\ \A i \in 1..(k - 1 + 1) : SubSeq(s, 1, k)[i] = s[1 + i - 1]
  BY <1>2, <1>3, SubSeqProperties
<1> QED
  BY <1>1, <1>2, <1>4

LEMMA MasterFrames ==
  ASSUME NEW f \in MasterFrame
  PROVE  /\ f.kind = "bound" => f.lease \in Lease /\ f.ok \in BOOLEAN
         /\ f.kind = "completed" => f.lease \in Lease /\ f.task \in Task /\ f.status \in Terminal
BY DEF MasterFrame

LEMMA WorkerFrames ==
  ASSUME NEW f \in WorkerFrame
  PROVE  f.lease \in Lease /\ (f.kind = "assign" => f.task \in Task)
BY DEF WorkerFrame

LEMMA MadeFrames ==
  /\ [kind |-> "register"] \in MasterFrame
  /\ \A l \in Lease, ok \in BOOLEAN : [kind |-> "bound", lease |-> l, ok |-> ok] \in MasterFrame
  /\ \A l \in Lease, t \in Task, v \in Terminal :
       [kind |-> "completed", lease |-> l, task |-> t, status |-> v] \in MasterFrame
  /\ \A l \in Lease : [kind |-> "release", lease |-> l] \in WorkerFrame
  /\ \A l \in Lease, t \in Task : [kind |-> "assign", lease |-> l, task |-> t] \in WorkerFrame
BY DEF MasterFrame, WorkerFrame
----------------------------------------------------------------------------
(* Types *)

LEMMA TypeInit == ASSUME Init PROVE TypeInv
<1>1. \A S : <<>> \in Seq(S)
  OBVIOUS
<1> QED
  BY <1>1 DEF Init, MasterInit, WorkerInit, WireInit, TypeInv, JobState

LEMMA BatchTypes ==
  ASSUME NEW s, RefreshBatches(s)
  PROVE  bstate' \in [Batch -> {"absent", "queued", "running", "completed", "failed"}]
BY DEF RefreshBatches, Aggregate

\* The wire and the sessions after a send of the master.
LEMMA SendTypes ==
  ASSUME TypeInv, NEW w \in Worker, NEW f \in WorkerFrame, Send(w, f)
  PROVE  /\ toWorker' \in [Conn -> Seq(WorkerFrame)]
         /\ sess' \in [Worker -> [conn : Conn \cup {None}, online : BOOLEAN]]
<1> DEFINE c == sess[w].conn
<1>1. toWorker' = [toWorker EXCEPT ![c] = IF link[c] = "up" THEN Append(@, f) ELSE @]
  BY DEF Send
<1>2. toWorker' \in [Conn -> Seq(WorkerFrame)]
  <2>1. \A d \in Conn : Append(toWorker[d], f) \in Seq(WorkerFrame)
    BY AppendProperties DEF TypeInv
  <2>2. toWorker \in [Conn -> Seq(WorkerFrame)]
    BY DEF TypeInv
  <2> HIDE DEF c
  <2> QED
    BY <1>1, <2>1, <2>2
<1>3. sess' = sess \/ sess' = [sess EXCEPT ![w].online = FALSE]
  BY DEF Send
<1>4. sess' \in [Worker -> [conn : Conn \cup {None}, online : BOOLEAN]]
  <2>1. sess \in [Worker -> [conn : Conn \cup {None}, online : BOOLEAN]]
    BY DEF TypeInv
  <2> QED
    BY <1>3, <2>1
<1> QED
  BY <1>2, <1>4

LEMMA BreakTypes ==
  ASSUME TypeInv, NEW c \in Conn, Break(c)
  PROVE  /\ link' \in [Conn -> {"free", "up", "cut"}]
         /\ toMaster' \in [Conn -> Seq(MasterFrame)]
         /\ toWorker' \in [Conn -> Seq(WorkerFrame)]
<1>1. PICK kept \in 0..Len(toMaster[c]) :
        toMaster' = [toMaster EXCEPT ![c] = SubSeq(@, 1, kept)]
  BY DEF Break
<1>2. SubSeq(toMaster[c], 1, kept) \in Seq(MasterFrame)
  BY Prefix DEF TypeInv
<1>3. <<>> \in Seq(WorkerFrame)
  OBVIOUS
<1> QED
  BY <1>1, <1>2, <1>3 DEF TypeInv, Break

LEMMA ConsumeTypes ==
  ASSUME TypeInv, NEW c \in Conn, toMaster[c] # <<>>, Consume(c)
  PROVE  toMaster' \in [Conn -> Seq(MasterFrame)] /\ UNCHANGED <<link, toWorker>>
<1>1. Tail(toMaster[c]) \in Seq(MasterFrame)
  BY HeadTail DEF TypeInv
<1> QED
  BY <1>1 DEF TypeInv, Consume

LEMMA RevertTypes ==
  ASSUME TypeInv, NEW l \in Lease, Revert(l)
  PROVE  /\ tstate' \in [Task -> {"absent", "queued", "starting", "ready", "completed", "failed"}]
         /\ tlease' \in [Task -> Lease \cup {None}]
         /\ bstate' \in [Batch -> {"absent", "queued", "running", "completed", "failed"}]
         /\ bound' \in SUBSET Lease
         /\ load' \in [Worker -> SUBSET Task]
         /\ call' \in [Lease -> {"none", "waiting", "bound", "refused", "broken", "over"}]
<1>1. RefreshBatches(tstate')
  BY DEF Revert
<1> QED
  BY <1>1, BatchTypes DEF Revert, TypeInv

LEMMA MasterTypes == ASSUME TypeInv, DrawnInv, MasterStep PROVE TypeInv'
<1> USE DEF TypeInv
<1>1. UNCHANGED worker /\ UNCHANGED told
  BY DEF MasterStep
<1>2. ASSUME NEW b \in Batch, Submit(b) PROVE TypeInv'
  <2>1. /\ tstate' \in [Task -> {"absent", "queued", "starting", "ready", "completed", "failed"}]
        /\ bstate' \in [Batch -> {"absent", "queued", "running", "completed", "failed"}]
    <3>1. PICK n \in 0..Len(Request[b]) :
            LET stored == SubSeq(Request[b], 1, n) IN
            /\ tstate' = [t \in Task |-> IF t \notin {stored[i] : i \in 1..n} THEN tstate[t]
                                         ELSE IF Admissible(t) THEN "queued" ELSE "failed"]
            /\ \/ bstate' = [c \in Batch |->
                    IF bstate[c] = "absent" /\ c # b THEN "absent"
                    ELSE Aggregate({tstate'[t] : t \in Members(c)})]
               \/ UNCHANGED bstate
      BY <1>2 DEF Submit
    <3>2. \A S : Aggregate(S) \in {"queued", "running", "completed", "failed"}
      BY DEF Aggregate
    <3>3. tstate' \in [Task -> {"absent", "queued", "starting", "ready", "completed", "failed"}]
      BY <3>1
    <3>4. bstate' \in [Batch -> {"absent", "queued", "running", "completed", "failed"}]
      <4> DEFINE new == [c \in Batch |-> IF bstate[c] = "absent" /\ c # b THEN "absent"
                                       ELSE Aggregate({tstate'[t] : t \in Members(c)})]
      <4>1. \A c \in Batch : Aggregate({tstate'[t] : t \in Members(c)}) \in
                             {"queued", "running", "completed", "failed"}
        BY <3>2
      <4>2. new \in [Batch -> {"absent", "queued", "running", "completed", "failed"}]
        BY <4>1
      <4>3. bstate' = new \/ bstate' = bstate
        BY <3>1
      <4> QED
        BY <4>2, <4>3
    <3> QED
      BY <3>3, <3>4
  <2> QED
    BY <1>1, <1>2, <2>1 DEF Submit, worker, wire, ledger
<1>3. ASSUME NEW b \in Batch, Cancel(b) PROVE TypeInv'
  <2>1. bstate' \in [Batch -> {"absent", "queued", "running", "completed", "failed"}]
    BY <1>3, BatchTypes DEF Cancel
  <2> QED
    BY <1>1, <1>3, <2>1 DEF Cancel, worker, wire, ledger
<1>4. ASSUME NEW l \in Lease, SendRelease(l), owner[l].worker \in Worker PROVE TypeInv'
  <2>1. \/ Send(owner[l].worker, [kind |-> "release", lease |-> l])
        \/ UNCHANGED <<toWorker, sess>>
    BY <1>4 DEF SendRelease
  <2>2. /\ toWorker' \in [Conn -> Seq(WorkerFrame)]
        /\ sess' \in [Worker -> [conn : Conn \cup {None}, online : BOOLEAN]]
    BY <1>4, <2>1, SendTypes, MadeFrames
  <2> QED
    BY <1>1, <1>4, <2>2 DEF SendRelease, worker, ledger, tasks
<1>5. CASE PlaceNone
  BY <1>1, <1>5 DEF PlaceNone, worker, wire, ledger, tasks
<1>6. ASSUME NEW t \in Task, NEW w \in Worker, NEW l \in Lease, PlaceOn(t, w, l) PROVE TypeInv'
  <2>1. /\ toWorker' \in [Conn -> Seq(WorkerFrame)]
        /\ sess' \in [Worker -> [conn : Conn \cup {None}, online : BOOLEAN]]
    BY <1>6, SendTypes, MadeFrames DEF PlaceOn
  <2>2. owner' \in [Lease -> Owner \cup {None}]
    BY <1>6 DEF PlaceOn, Owner
  <2>3. call' \in [Lease -> {"none", "waiting", "bound", "refused", "broken", "over"}]
    BY <1>6 DEF PlaceOn
  <2>4. /\ tstate' \in [Task -> {"absent", "queued", "starting", "ready", "completed", "failed"}]
        /\ tlease' \in [Task -> Lease \cup {None}] /\ bound' \in SUBSET Lease
        /\ load' \in [Worker -> SUBSET Task]
    BY <1>6 DEF PlaceOn
  <2> QED
    BY <1>1, <1>6, <2>1, <2>2, <2>3, <2>4 DEF PlaceOn, worker
<1>7. ASSUME NEW l \in Lease, GiveBack(l) \/ Timeout(l) PROVE TypeInv'
  <2>1. Revert(l) /\ UNCHANGED <<owner, sess, releasing, wire>>
    BY <1>7 DEF GiveBack, Timeout
  <2> QED
    BY <1>1, <2>1, RevertTypes DEF worker, wire
<1>8. ASSUME NEW c \in Conn, HandleRegister(c) PROVE TypeInv'
  BY <1>1, <1>8, ConsumeTypes DEF HandleRegister, Frame, worker, wire, ledger, tasks
<1>9. ASSUME NEW c \in Conn, HandleBound(c) PROVE TypeInv'
  BY <1>1, <1>9, ConsumeTypes DEF HandleBound, Frame, worker, wire, ledger, tasks
<1>10. ASSUME NEW c \in Conn, HandleCompleted(c) PROVE TypeInv'
  <2> DEFINE f == Head(toMaster[c])
  <2>1. toMaster[c] # <<>> /\ f.kind = "completed" /\ Consume(c)
    BY <1>10 DEF HandleCompleted, Frame
  <2>2. f.task \in Task /\ f.status \in Terminal
    <3>1. f \in MasterFrame
      BY <2>1, HeadTail
    <3> QED
      BY <2>1, <3>1, MasterFrames
  <2>3. bstate' \in [Batch -> {"absent", "queued", "running", "completed", "failed"}]
    BY <1>10, BatchTypes DEF HandleCompleted
  <2>4. /\ tstate' = [tstate EXCEPT ![f.task] = f.status]
        /\ bound' = bound \ {f.lease}
        /\ load' = [load EXCEPT ![c[1]] = @ \ {f.task}]
        /\ UNCHANGED <<tlease, owner, call, sess, releasing>>
    BY <1>10 DEF HandleCompleted
  <2>5. tstate' \in [Task -> {"absent", "queued", "starting", "ready", "completed", "failed"}]
    BY <2>2, <2>4 DEF Terminal
  <2> QED
    BY <1>1, <2>1, <2>3, <2>4, <2>5, ConsumeTypes DEF worker
<1>11. ASSUME NEW c \in Conn, EndUnregistered(c) PROVE TypeInv'
  BY <1>1, <1>11 DEF EndUnregistered, worker, master, ledger, tasks
<1>12. ASSUME NEW c \in Conn, Disconnected(c) PROVE TypeInv'
  <2>1. bstate' \in [Batch -> {"absent", "queued", "running", "completed", "failed"}]
    BY <1>12, BatchTypes DEF Disconnected
  <2>2. tstate' \in [Task -> {"absent", "queued", "starting", "ready", "completed", "failed"}]
    BY <1>12 DEF Disconnected
  <2>3. tlease' \in [Task -> Lease \cup {None}]
    BY <1>12 DEF Disconnected
  <2>4. call' \in [Lease -> {"none", "waiting", "bound", "refused", "broken", "over"}]
    BY <1>12 DEF Disconnected
  <2>5. /\ bound' \in SUBSET Lease /\ load' \in [Worker -> SUBSET Task]
        /\ link' \in [Conn -> {"free", "up", "cut"}]
        /\ sess' \in [Worker -> [conn : Conn \cup {None}, online : BOOLEAN]]
        /\ UNCHANGED <<owner, releasing, toMaster, toWorker>>
    BY <1>12 DEF Disconnected
  <2> QED
    BY <1>1, <2>1, <2>2, <2>3, <2>4, <2>5 DEF worker
<1>13. ASSUME NEW l \in Lease, SendRelease(l), DrawnInv PROVE owner[l].worker \in Worker
  BY <1>13 DEF SendRelease, DrawnInv, Owner
<1> QED
  BY <1>2, <1>3, <1>4, <1>5, <1>6, <1>7, <1>8, <1>9, <1>10, <1>11, <1>12, <1>13 DEF MasterStep, Scheduled

LEMMA GrantTypes == ASSUME TypeInv, GrantStep PROVE TypeInv'
<1>1. PICK l \in Lease : Grant(l) /\ told' \in {told, told \cup {l}}
  BY DEF GrantStep
<1>2. bstate' \in [Batch -> {"absent", "queued", "running", "completed", "failed"}]
  BY <1>1, BatchTypes DEF Grant
<1>3. /\ tstate' \in [Task -> {"absent", "queued", "starting", "ready", "completed", "failed"}]
      /\ call' \in [Lease -> {"none", "waiting", "bound", "refused", "broken", "over"}]
      /\ told' \in SUBSET Lease
  BY <1>1 DEF TypeInv, Grant
<1>4. UNCHANGED <<tlease, owner, bound, load, sess, releasing, wire, worker>>
  BY <1>1 DEF GrantStep, Grant, ledger
<1> QED
  BY <1>2, <1>3, <1>4 DEF TypeInv, worker, wire

\* A frame for the master: it is on the wire, or the connection broke.
LEMMA ToMasterTypes ==
  ASSUME TypeInv, NEW c, NEW f \in MasterFrame, ToMaster(c, f)
  PROVE  toMaster' \in [Conn -> Seq(MasterFrame)]
<1>1. toMaster \in [Conn -> Seq(MasterFrame)]
  BY DEF TypeInv
<1>2. \A d \in Conn : Append(toMaster[d], f) \in Seq(MasterFrame)
  BY <1>1, AppendProperties
<1> QED
  BY <1>1, <1>2 DEF ToMaster

LEMMA WorkerTypes == ASSUME TypeInv, DrawnInv, WorkerStep PROVE TypeInv'
<1> USE DEF TypeInv
<1>1. UNCHANGED <<master, faults, told>>
  BY DEF WorkerStep
<1>2. ASSUME NEW w \in Worker, Dial(w) PROVE TypeInv'
  <2>1. <<[kind |-> "register"]>> \in Seq(MasterFrame)
    BY MadeFrames
  <2> QED
    BY <1>1, <1>2, <2>1 DEF Dial, master, tasks, ledger, worker
<1>3. ASSUME NEW c \in Conn, RecvAssign(c) PROVE TypeInv'
  <2> DEFINE f == Head(toWorker[c])
  <2>1. toWorker[c] # <<>> /\ f.kind = "assign" /\ toWorker' = [toWorker EXCEPT ![c] = Tail(@)]
    BY <1>3 DEF RecvAssign
  <2>2. f.lease \in Lease /\ f.task \in Task /\ Tail(toWorker[c]) \in Seq(WorkerFrame)
    <3>1. f \in WorkerFrame /\ Tail(toWorker[c]) \in Seq(WorkerFrame)
      BY <2>1, HeadTail
    <3> QED
      BY <2>1, <3>1, WorkerFrames
  <2>3. /\ job' = [job EXCEPT ![f.lease] = "booting"]
        /\ jobTask' = [jobTask EXCEPT ![f.lease] = f.task]
        /\ via' = [via EXCEPT ![f.lease] = c]
        /\ UNCHANGED <<verdict, outcome, link, toMaster>>
    BY <1>3 DEF RecvAssign
  <2> HIDE DEF f
  <2>4. job' \in [Lease -> JobState]
    BY <2>3 DEF JobState
  <2>5. jobTask' \in [Lease -> Task \cup {None}] /\ via' \in [Lease -> Conn \cup {None}]
    BY <2>2, <2>3
  <2>6. toWorker' \in [Conn -> Seq(WorkerFrame)]
    BY <2>1, <2>2
  <2> QED
    BY <1>1, <2>3, <2>4, <2>5, <2>6 DEF master, tasks, ledger
<1>4. ASSUME NEW c \in Conn, RecvRelease(c) PROVE TypeInv'
  <2>1. toWorker[c] # <<>> /\ toWorker' = [toWorker EXCEPT ![c] = Tail(@)]
    BY <1>4 DEF RecvRelease
  <2>2. Tail(toWorker[c]) \in Seq(WorkerFrame)
    BY <2>1, HeadTail
  <2>3. toWorker' \in [Conn -> Seq(WorkerFrame)]
    BY <2>1, <2>2
  <2>4. /\ job' \in [Lease -> JobState]
        /\ verdict' \in [Lease -> {"completed", "failed", "abandoned", None}]
    BY <1>4 DEF RecvRelease, JobState
  <2> QED
    BY <1>1, <1>4, <2>3, <2>4 DEF RecvRelease, master, tasks, ledger
<1>5. ASSUME NEW l \in Lease, BootDone(l) \/ BootFailed(l) PROVE TypeInv'
  <2>1. PICK ok \in BOOLEAN : ToMaster(via[l], [kind |-> "bound", lease |-> l, ok |-> ok])
    BY <1>5 DEF BootDone, BootFailed
  <2>2. toMaster' \in [Conn -> Seq(MasterFrame)]
    BY <2>1, ToMasterTypes, MadeFrames
  <2>3. /\ job' \in [Lease -> JobState]
        /\ UNCHANGED <<jobTask, via, verdict, outcome, link, toWorker>>
    BY <1>5 DEF BootDone, BootFailed, JobState
  <2> QED
    BY <1>1, <2>2, <2>3 DEF master, tasks, ledger
<1>6. ASSUME NEW l \in Lease, NEW v \in {"completed", "failed", "abandoned"}, CompleteLease(l, v)
      PROVE  TypeInv'
  <2>1. /\ job' \in [Lease -> JobState]
        /\ verdict' \in [Lease -> {"completed", "failed", "abandoned", None}]
    BY <1>6 DEF CompleteLease, JobState
  <2> QED
    BY <1>1, <1>6, <2>1 DEF CompleteLease, master, tasks, ledger, wire
<1>7. ASSUME NEW l \in Lease, Finalize(l) PROVE TypeInv'
  <2>1. PICK status \in Terminal :
          /\ job' = [job EXCEPT ![l] = "ended"]
          /\ outcome' = [outcome EXCEPT ![l] = status]
          /\ toMaster' = [c \in Conn |->
               IF c \in OpenOf(At(l))
               THEN Append(toMaster[c], [kind |-> "completed", lease |-> l,
                                         task |-> jobTask[l], status |-> outcome'[l]])
               ELSE toMaster[c]]
    BY <1>7 DEF Finalize, Terminal
  <2>2. outcome'[l] = status
    BY <2>1
  <2>3. jobTask[l] \in Task
    <3>1. job[l] # "none"
      BY <1>7 DEF Finalize
    <3>2. call[l] # "none" /\ owner[l].task = jobTask[l]
      BY <3>1 DEF DrawnInv
    <3> QED
      BY <3>2 DEF DrawnInv, Owner
  <2>4. \A c \in Conn : Append(toMaster[c], [kind |-> "completed", lease |-> l, task |-> jobTask[l],
                                             status |-> status]) \in Seq(MasterFrame)
    BY <2>3, MadeFrames, AppendProperties
  <2>5. toMaster' \in [Conn -> Seq(MasterFrame)]
    BY <2>1, <2>2, <2>4
  <2>6. job' \in [Lease -> JobState] /\ outcome' \in [Lease -> {"completed", "failed", None}]
    BY <2>1 DEF JobState, Terminal
  <2> QED
    BY <1>1, <1>7, <2>5, <2>6 DEF Finalize, master, tasks, ledger
<1>8. ClientVerdict \subseteq {"completed", "failed", "abandoned"} /\ told \subseteq Lease
  BY VerdictAssumption
<1> QED
  BY <1>2, <1>3, <1>4, <1>5, <1>6, <1>7, <1>8 DEF WorkerStep

LEMMA FaultTypes == ASSUME TypeInv, FaultStep PROVE TypeInv'
<1> USE DEF TypeInv
<1>1. UNCHANGED <<master, told>>
  BY DEF FaultStep
<1>2. ASSUME NEW c \in Conn, Cut(c) PROVE TypeInv'
  BY <1>1, <1>2, BreakTypes DEF Cut, master, tasks, ledger, worker
<1>3. ASSUME NEW w \in Worker, Restart(w) PROVE TypeInv'
  <2>1. UNCHANGED wire \/ \E c \in Conn : Break(c)
    BY <1>3 DEF Restart, OpenOf
  <2>2. /\ link' \in [Conn -> {"free", "up", "cut"}]
        /\ toMaster' \in [Conn -> Seq(MasterFrame)]
        /\ toWorker' \in [Conn -> Seq(WorkerFrame)]
    BY <2>1, BreakTypes DEF wire
  <2>3. job' \in [Lease -> JobState] /\ UNCHANGED <<jobTask, via, verdict, outcome>>
    BY <1>3 DEF Restart, JobState
  <2> QED
    BY <1>1, <2>2, <2>3 DEF master, tasks, ledger
<1> QED
  BY <1>2, <1>3 DEF FaultStep

LEMMA TypeStep == ASSUME TypeInv, DrawnInv, [Next]_vars PROVE TypeInv'
<1>1. CASE UNCHANGED vars
  BY <1>1 DEF vars, master, tasks, ledger, worker, wire, TypeInv
<1> QED
  BY <1>1, MasterTypes, GrantTypes, WorkerTypes, FaultTypes DEF Next
----------------------------------------------------------------------------
(* What a step can do *)

\* The tables of the dispatcher.
LEMMA MasterMoves ==
  ASSUME [Next]_vars
  PROVE  \/ UNCHANGED <<tstate, tlease, bstate, owner, bound, load, call>>
         \/ \E b \in Batch : Submit(b) \/ Cancel(b)
         \/ \E t \in Task, w \in Worker, l \in Lease : PlaceOn(t, w, l)
         \/ \E l \in Lease : Grant(l)
         \/ \E l \in Lease : /\ Revert(l) /\ UNCHANGED owner
                             /\ call[l] \in {"waiting", "refused", "broken"}
         \/ \E c \in Conn : HandleBound(c) \/ HandleCompleted(c) \/ Disconnected(c)
<1> DEFINE Idle == UNCHANGED <<tstate, tlease, bstate, owner, bound, load, call>>
<1>1. CASE UNCHANGED vars
  BY <1>1 DEF vars, master, tasks, ledger
<1>2. ASSUME NEW l \in Lease, SendRelease(l) PROVE Idle
  BY <1>2 DEF SendRelease, tasks, ledger
<1>3. CASE PlaceNone
  BY <1>3 DEF PlaceNone, tasks, ledger
<1>4. ASSUME NEW l \in Lease, GiveBack(l) \/ Timeout(l)
      PROVE  Revert(l) /\ UNCHANGED owner /\ call[l] \in {"waiting", "refused", "broken"}
  BY <1>4 DEF GiveBack, Timeout
<1>5. ASSUME NEW c \in Conn, HandleRegister(c) \/ EndUnregistered(c) PROVE Idle
  BY <1>5 DEF HandleRegister, EndUnregistered, master, tasks, ledger
<1>6. CASE WorkerStep \/ FaultStep
  BY <1>6 DEF WorkerStep, FaultStep, master, tasks, ledger
<1>7. CASE GrantStep
  BY <1>7 DEF GrantStep
<1>8. CASE MasterStep
  BY <1>2, <1>3, <1>4, <1>5, <1>8 DEF MasterStep, Scheduled
<1> QED
  BY <1>1, <1>6, <1>7, <1>8 DEF Next

\* A lease that was drawn stays so, for the task and the worker it was drawn for.
LEMMA DrawnStays ==
  ASSUME TypeInv, [Next]_vars, NEW l \in Lease, call[l] # "none"
  PROVE  call'[l] # "none" /\ owner'[l] = owner[l]
<1>1. call \in [Lease -> {"none", "waiting", "bound", "refused", "broken", "over"}]
  BY DEF TypeInv
<1>2. owner \in [Lease -> Owner \cup {None}]
  BY DEF TypeInv
<1>3. ASSUME NEW b \in Batch, Submit(b) \/ Cancel(b) PROVE UNCHANGED <<owner, call>>
  BY <1>3 DEF Submit, Cancel
<1>4. ASSUME NEW t \in Task, NEW w \in Worker, NEW k \in Lease, PlaceOn(t, w, k)
      PROVE  call'[l] # "none" /\ owner'[l] = owner[l]
  <2>1. k # l
    BY <1>4 DEF PlaceOn, Drawn
  <2>2. call'[l] = call[l] /\ owner'[l] = owner[l]
    BY <1>1, <1>2, <1>4, <2>1 DEF PlaceOn
  <2> QED
    BY <2>2
<1>5. ASSUME NEW k \in Lease, Grant(k) \/ (Revert(k) /\ UNCHANGED owner)
      PROVE  call'[l] # "none" /\ owner'[l] = owner[l]
  BY <1>1, <1>5 DEF Grant, Revert
<1>6. ASSUME NEW c \in Conn, HandleBound(c) \/ HandleCompleted(c) \/ Disconnected(c)
      PROVE  call'[l] # "none" /\ owner'[l] = owner[l]
  BY <1>1, <1>6 DEF HandleBound, HandleCompleted, Disconnected
<1> QED
  BY MasterMoves, <1>3, <1>4, <1>5, <1>6

\* The jobs of the workers.
LEMMA JobMoves ==
  ASSUME TypeInv, [Next]_vars
  PROVE  \/ UNCHANGED worker
         \/ \E c \in Conn : RecvAssign(c)
         \/ \E l \in Lease :
              /\ job[l] \in {"booting", "held"}
              /\ \E s \in {"held", "gone", "closing"} : job' = [job EXCEPT ![l] = s]
              /\ \/ UNCHANGED verdict
                 \/ \E v : verdict' = [verdict EXCEPT ![l] = v]
              /\ UNCHANGED <<jobTask, via, outcome>>
         \/ \E l \in Lease : Finalize(l)
         \/ \E w \in Worker : Restart(w)
<1> DEFINE Moved(l) ==
             /\ job[l] \in {"booting", "held"}
             /\ \E s \in {"held", "gone", "closing"} : job' = [job EXCEPT ![l] = s]
             /\ \/ UNCHANGED verdict
                \/ \E v : verdict' = [verdict EXCEPT ![l] = v]
             /\ UNCHANGED <<jobTask, via, outcome>>
<1>1. CASE UNCHANGED vars \/ MasterStep \/ GrantStep
  BY <1>1 DEF vars, MasterStep, GrantStep
<1>2. ASSUME NEW w \in Worker, Dial(w) PROVE UNCHANGED worker
  BY <1>2 DEF Dial
<1>3. ASSUME NEW c \in Conn, Cut(c) PROVE UNCHANGED worker
  BY <1>3 DEF Cut
<1>4. ASSUME NEW c \in Conn, RecvRelease(c) PROVE UNCHANGED worker \/ \E l \in Lease : Moved(l)
  <2> DEFINE l == Head(toWorker[c]).lease
  <2>1. l \in Lease
    <3>1. toWorker[c] # <<>> /\ toWorker[c] \in Seq(WorkerFrame)
      BY <1>4 DEF RecvRelease, TypeInv
    <3> QED
      BY <3>1, HeadTail, WorkerFrames
  <2>2. \/ UNCHANGED <<job, verdict>>
        \/ /\ job[l] = "held" /\ job' = [job EXCEPT ![l] = "closing"]
           /\ verdict' = [verdict EXCEPT ![l] = "abandoned"]
    BY <1>4 DEF RecvRelease
  <2>3. UNCHANGED <<jobTask, via, outcome, left>>
    BY <1>4 DEF RecvRelease
  <2> QED
    BY <2>1, <2>2, <2>3 DEF worker
<1>5. ASSUME NEW l \in Lease, BootDone(l) \/ BootFailed(l) PROVE Moved(l)
  BY <1>5 DEF BootDone, BootFailed
<1>6. ASSUME NEW l \in Lease, NEW v, CompleteLease(l, v) PROVE Moved(l)
  BY <1>6 DEF CompleteLease
<1>7. told \subseteq Lease
  BY DEF TypeInv
<1> QED
  BY <1>1, <1>2, <1>3, <1>4, <1>5, <1>6, <1>7 DEF Next, WorkerStep, FaultStep

\* A job stays one of the same task on the same connection, and its end is for good.
LEMMA JobStays ==
  ASSUME TypeInv, AssignInv, [Next]_vars, NEW l \in Lease, job[l] # "none"
  PROVE  /\ job'[l] # "none" /\ jobTask'[l] = jobTask[l] /\ via'[l] = via[l]
         /\ job[l] \in {"ended", "gone"} =>
              /\ job'[l] \in {"ended", "gone"}
              /\ verdict'[l] = verdict[l] /\ outcome'[l] = outcome[l]
<1>1. /\ job \in [Lease -> JobState] /\ jobTask \in [Lease -> Task \cup {None}]
      /\ via \in [Lease -> Conn \cup {None}]
      /\ verdict \in [Lease -> {"completed", "failed", "abandoned", None}]
      /\ outcome \in [Lease -> {"completed", "failed", None}]
  BY DEF TypeInv
<1>2. CASE UNCHANGED worker
  BY <1>2 DEF worker
<1>3. ASSUME NEW c \in Conn, RecvAssign(c), job[Head(toWorker[c]).lease] = "none"
      PROVE  UNCHANGED <<verdict, outcome>> /\ job'[l] = job[l] /\ jobTask'[l] = jobTask[l] /\ via'[l] = via[l]
  BY <1>1, <1>3 DEF RecvAssign
<1>4. ASSUME NEW c \in Conn, RecvAssign(c) PROVE job[Head(toWorker[c]).lease] = "none"
  <2>1. toWorker[c] # <<>> /\ Head(toWorker[c]).kind = "assign" /\ toWorker[c] \in Seq(WorkerFrame)
    BY <1>4 DEF RecvAssign, TypeInv
  <2>2. Head(toWorker[c]) = toWorker[c][1] /\ 1 \in 1..Len(toWorker[c])
    BY <2>1, HeadTail
  <2> QED
    BY <2>1, <2>2 DEF AssignInv
<1>5. ASSUME NEW k \in Lease, job[k] \in {"booting", "held"},
             NEW s \in {"held", "gone", "closing"}, job' = [job EXCEPT ![k] = s],
             UNCHANGED verdict \/ \E v : verdict' = [verdict EXCEPT ![k] = v],
             UNCHANGED <<jobTask, via, outcome>>
      PROVE  /\ job'[l] # "none" /\ jobTask'[l] = jobTask[l] /\ via'[l] = via[l]
             /\ job[l] \in {"ended", "gone"} =>
                  /\ job'[l] \in {"ended", "gone"}
                  /\ verdict'[l] = verdict[l] /\ outcome'[l] = outcome[l]
  BY <1>1, <1>5
<1>6. ASSUME NEW k \in Lease, Finalize(k)
      PROVE  /\ job'[l] # "none" /\ jobTask'[l] = jobTask[l] /\ via'[l] = via[l]
             /\ job[l] \in {"ended", "gone"} =>
                  /\ job'[l] \in {"ended", "gone"}
                  /\ verdict'[l] = verdict[l] /\ outcome'[l] = outcome[l]
  BY <1>1, <1>6 DEF Finalize
<1>7. ASSUME NEW w \in Worker, Restart(w)
      PROVE  /\ job'[l] # "none" /\ jobTask'[l] = jobTask[l] /\ via'[l] = via[l]
             /\ job[l] \in {"ended", "gone"} =>
                  /\ job'[l] \in {"ended", "gone"}
                  /\ verdict'[l] = verdict[l] /\ outcome'[l] = outcome[l]
  BY <1>1, <1>7 DEF Restart
<1> QED
  BY JobMoves, <1>2, <1>3, <1>4, <1>5, <1>6, <1>7
----------------------------------------------------------------------------
(* Sessions and leases *)

LEMMA SendSess ==
  ASSUME TypeInv, SessInv, NEW w \in Worker, NEW f, Send(w, f)
  PROVE  SessInv'
<1>1. sess' = sess \/ sess' = [sess EXCEPT ![w].online = FALSE]
  BY DEF Send
<1>2. sess \in [Worker -> [conn : Conn \cup {None}, online : BOOLEAN]]
  BY DEF TypeInv
<1> QED
  BY <1>1, <1>2 DEF SessInv

LEMMA SessStep == ASSUME TypeInv, SessInv, DrawnInv, [Next]_vars PROVE SessInv'
<1>1. sess \in [Worker -> [conn : Conn \cup {None}, online : BOOLEAN]]
  BY DEF TypeInv
<1>2. CASE UNCHANGED sess
  BY <1>2 DEF SessInv
<1>3. ASSUME NEW l \in Lease, SendRelease(l) PROVE SessInv'
  <2>1. owner[l].worker \in Worker
    BY <1>3 DEF SendRelease, DrawnInv, Owner
  <2> QED
    BY <1>2, <1>3, <2>1, SendSess DEF SendRelease
<1>4. ASSUME NEW t \in Task, NEW w \in Worker, NEW l \in Lease, PlaceOn(t, w, l) PROVE SessInv'
  BY <1>4, SendSess DEF PlaceOn
<1>5. ASSUME NEW c \in Conn, HandleRegister(c) PROVE SessInv'
  BY <1>1, <1>5 DEF HandleRegister, SessInv, Conn
<1>6. ASSUME NEW c \in Conn, Disconnected(c) PROVE SessInv'
  <2>1. sess' = [sess EXCEPT ![c[1]].online = FALSE]
    BY <1>6 DEF Disconnected
  <2> QED
    BY <1>1, <2>1 DEF SessInv
<1>7. CASE MasterStep
  <2>1. ASSUME NEW b \in Batch, Submit(b) \/ Cancel(b) PROVE UNCHANGED sess
    BY <2>1 DEF Submit, Cancel
  <2>2. ASSUME NEW l \in Lease, GiveBack(l) \/ Timeout(l) \/ PlaceNone PROVE UNCHANGED sess
    BY <2>2 DEF GiveBack, Timeout, PlaceNone
  <2>3. ASSUME NEW c \in Conn, HandleBound(c) \/ HandleCompleted(c) \/ EndUnregistered(c)
        PROVE  UNCHANGED sess
    BY <2>3 DEF HandleBound, HandleCompleted, EndUnregistered, master
  <2>4. PlaceNone => UNCHANGED sess
    BY DEF PlaceNone
  <2> QED
    BY <1>2, <1>3, <1>4, <1>5, <1>6, <1>7, <2>1, <2>2, <2>3, <2>4 DEF MasterStep, Scheduled
<1>8. CASE GrantStep
  BY <1>2, <1>8 DEF GrantStep, Grant
<1>9. CASE WorkerStep \/ FaultStep \/ UNCHANGED vars
  BY <1>2, <1>9 DEF WorkerStep, FaultStep, vars, master
<1> QED
  BY <1>7, <1>8, <1>9 DEF Next

\* A lease is drawn by the placement of a task only.
LEMMA NewLease ==
  ASSUME TypeInv, [Next]_vars, NEW l \in Lease, call[l] = "none", call'[l] # "none"
  PROVE  \E t \in Task, w \in Worker : PlaceOn(t, w, l)
<1>1. call \in [Lease -> {"none", "waiting", "bound", "refused", "broken", "over"}]
  BY DEF TypeInv
<1>2. ASSUME NEW b \in Batch, Submit(b) \/ Cancel(b) PROVE FALSE
  BY <1>2 DEF Submit, Cancel
<1>3. ASSUME NEW t \in Task, NEW w \in Worker, NEW k \in Lease, PlaceOn(t, w, k) PROVE k = l
  BY <1>1, <1>3 DEF PlaceOn
<1>4. ASSUME NEW k \in Lease, Grant(k) PROVE FALSE
  BY <1>1, <1>4 DEF Grant
<1>5. ASSUME NEW k \in Lease, Revert(k), call[k] \in {"waiting", "refused", "broken"} PROVE FALSE
  BY <1>1, <1>5 DEF Revert
<1>6. ASSUME NEW c \in Conn, HandleBound(c) \/ HandleCompleted(c) \/ Disconnected(c) PROVE FALSE
  BY <1>1, <1>6 DEF HandleBound, HandleCompleted, Disconnected
<1> QED
  BY MasterMoves, <1>2, <1>3, <1>4, <1>5, <1>6

\* A job begins when its assignment is read.
LEMMA NewJob ==
  ASSUME TypeInv, [Next]_vars, NEW l \in Lease, job[l] = "none", job'[l] # "none"
  PROVE  \E c \in Conn : RecvAssign(c) /\ Head(toWorker[c]).lease = l
<1>1. job \in [Lease -> JobState]
  BY DEF TypeInv
<1>2. ~UNCHANGED worker
  BY DEF worker
<1>3. ASSUME NEW c \in Conn, RecvAssign(c) PROVE Head(toWorker[c]).lease = l
  BY <1>1, <1>3 DEF RecvAssign
<1>4. ASSUME NEW k \in Lease, job[k] \in {"booting", "held"},
             NEW s \in {"held", "gone", "closing"}, job' = [job EXCEPT ![k] = s]
      PROVE  FALSE
  BY <1>1, <1>4
<1>5. ASSUME NEW k \in Lease, Finalize(k) PROVE FALSE
  BY <1>1, <1>5 DEF Finalize
<1>6. ASSUME NEW w \in Worker, Restart(w) PROVE FALSE
  BY <1>1, <1>6 DEF Restart
<1> QED
  BY JobMoves, <1>2, <1>3, <1>4, <1>5, <1>6

LEMMA DrawnStep == ASSUME TypeInv, DrawnInv, AssignInv, [Next]_vars PROVE DrawnInv'
<1>1. ASSUME NEW l \in Lease, call'[l] # "none" PROVE owner'[l] \in Owner
  <2>1. CASE call[l] # "none"
    BY <2>1, DrawnStays DEF DrawnInv
  <2>2. CASE call[l] = "none"
    <3>1. PICK t \in Task, w \in Worker : PlaceOn(t, w, l)
      BY <1>1, <2>2, NewLease
    <3>2. owner' = [owner EXCEPT ![l] = [task |-> t, worker |-> w]] /\ owner \in [Lease -> Owner \cup {None}]
      BY <3>1 DEF PlaceOn, TypeInv
    <3> QED
      BY <3>2 DEF Owner
  <2> QED
    BY <2>1, <2>2
<1>2. ASSUME NEW l \in bound' \cup releasing' PROVE l \in Lease /\ call'[l] # "none"
  <2>1. bound \subseteq Lease /\ releasing \subseteq Lease
    BY DEF TypeInv
  <2>2. CASE l \in bound \cup releasing
    BY <2>1, <2>2, DrawnStays DEF DrawnInv
  <2>3. ASSUME NEW t \in Task, NEW w \in Worker, NEW k \in Lease, PlaceOn(t, w, k) PROVE l \in Lease /\ call'[l] # "none"
    <3>1. l \in bound \cup releasing \cup {k}
      BY <1>2, <2>3 DEF PlaceOn
    <3>2. call'[k] # "none"
      BY <2>3 DEF PlaceOn, TypeInv
    <3> QED
      BY <2>2, <3>1, <3>2
  <2>4. \/ \E t \in Task, w \in Worker, k \in Lease : PlaceOn(t, w, k)
        \/ bound' \cup releasing' \subseteq bound \cup releasing
    <3>1. releasing' \subseteq releasing \cup bound
      <4>1. ASSUME NEW k \in Lease, SendRelease(k) \/ GiveBack(k) \/ Timeout(k) PROVE releasing' \subseteq releasing
        BY <4>1 DEF SendRelease, GiveBack, Timeout
      <4>2. ASSUME NEW b \in Batch, Submit(b) \/ Cancel(b) PROVE releasing' \subseteq releasing \cup bound
        BY <4>2 DEF Submit, Cancel
      <4>3. ASSUME NEW t \in Task, NEW w \in Worker, NEW k \in Lease, PlaceOn(t, w, k) PROVE releasing' = releasing
        BY <4>3 DEF PlaceOn
      <4>4. ASSUME NEW c \in Conn, \/ HandleRegister(c) \/ HandleBound(c) \/ HandleCompleted(c)
                                   \/ EndUnregistered(c) \/ Disconnected(c)
            PROVE  releasing' = releasing
        BY <4>4 DEF HandleRegister, HandleBound, HandleCompleted, EndUnregistered, Disconnected, master
      <4>5. CASE PlaceNone \/ GrantStep \/ WorkerStep \/ FaultStep \/ UNCHANGED vars
        BY <4>5 DEF PlaceNone, GrantStep, Grant, WorkerStep, FaultStep, vars, master
      <4> QED
        BY <4>1, <4>2, <4>3, <4>4, <4>5 DEF Next, MasterStep, Scheduled
    <3>2. bound' \subseteq bound \/ \E t \in Task, w \in Worker, k \in Lease : PlaceOn(t, w, k)
      BY MasterMoves DEF Submit, Cancel, Grant, Revert, HandleBound, HandleCompleted, Disconnected, ledger
    <3> QED
      BY <3>1, <3>2
  <2> QED
    BY <1>2, <2>2, <2>3, <2>4
<1>3. ASSUME NEW l \in Lease, job'[l] # "none"
      PROVE  /\ call'[l] # "none"
             /\ via'[l] \in Conn /\ owner'[l] = [task |-> jobTask'[l], worker |-> via'[l][1]]
  <2>1. CASE job[l] # "none"
    BY <2>1, DrawnStays, JobStays DEF DrawnInv, At
  <2>2. CASE job[l] = "none"
    <3>1. PICK c \in Conn : RecvAssign(c) /\ Head(toWorker[c]).lease = l
      BY <1>3, <2>2, NewJob
    <3>2. /\ toWorker[c] # <<>> /\ toWorker[c] \in Seq(WorkerFrame)
          /\ Head(toWorker[c]).kind = "assign"
          /\ jobTask' = [jobTask EXCEPT ![l] = Head(toWorker[c]).task]
          /\ via' = [via EXCEPT ![l] = c]
      BY <3>1 DEF RecvAssign, TypeInv
    <3>3. Head(toWorker[c]) = toWorker[c][1] /\ 1 \in 1..Len(toWorker[c])
      BY <3>2, HeadTail
    <3>4. call[l] # "none" /\ owner[l] = [task |-> Head(toWorker[c]).task, worker |-> c[1]]
      BY <3>1, <3>2, <3>3 DEF AssignInv
    <3>5. jobTask'[l] = Head(toWorker[c]).task /\ via'[l] = c
      BY <3>2 DEF TypeInv
    <3> QED
      BY <3>4, <3>5, DrawnStays
  <2> QED
    BY <2>1, <2>2
<1> QED
  BY <1>1, <1>2, <1>3 DEF DrawnInv, At
----------------------------------------------------------------------------
(* Assignments under way *)

\* Every assignment on the wire was there before, o[c] places further on.
Shift(o) ==
    \A c \in Conn : \A i \in 1..Len(toWorker'[c]) :
      toWorker'[c][i].kind = "assign" =>
        i + o[c] \in 1..Len(toWorker[c]) /\ toWorker'[c][i] = toWorker[c][i + o[c]]

LEMMA NoShift ==
  ASSUME TypeInv, UNCHANGED toWorker
  PROVE  Shift([c \in Conn |-> 0])
<1>1. \A c \in Conn : Len(toWorker[c]) \in Nat
  BY LenProperties DEF TypeInv
<1> QED
  BY <1>1 DEF Shift

LEMMA TailShift ==
  ASSUME TypeInv, NEW d \in Conn, toWorker[d] # <<>>, toWorker' = [toWorker EXCEPT ![d] = Tail(@)]
  PROVE  Shift([c \in Conn |-> IF c = d THEN 1 ELSE 0])
<1>1. toWorker \in [Conn -> Seq(WorkerFrame)]
  BY DEF TypeInv
<1>2. /\ Len(toWorker[d]) \in Nat /\ Len(Tail(toWorker[d])) = Len(toWorker[d]) - 1
      /\ \A i \in 1..Len(toWorker[d]) - 1 :
           Tail(toWorker[d])[i] = toWorker[d][i + 1] /\ i + 1 \in 1..Len(toWorker[d])
  BY <1>1, HeadTail
<1>3. \A c \in Conn : toWorker'[c] = IF c = d THEN Tail(toWorker[d]) ELSE toWorker[c]
  BY <1>1
<1>4. \A c \in Conn : Len(toWorker[c]) \in Nat
  BY <1>1, LenProperties
<1>5. ASSUME NEW c \in Conn, NEW i \in 1..Len(toWorker'[c])
      PROVE  LET k == IF c = d THEN 1 ELSE 0 IN
             i + k \in 1..Len(toWorker[c]) /\ toWorker'[c][i] = toWorker[c][i + k]
  <2>1. CASE c = d
    <3>1. toWorker'[c] = Tail(toWorker[d]) /\ i \in 1..Len(toWorker[d]) - 1
      BY <1>2, <1>3, <2>1
    <3> QED
      BY <1>2, <2>1, <3>1
  <2>2. CASE c # d
    BY <1>3, <1>4, <2>2
  <2> QED
    BY <2>1, <2>2
<1> QED
  BY <1>5 DEF Shift

LEMMA SendShift ==
  ASSUME TypeInv, NEW w \in Worker, NEW l \in Lease, Send(w, [kind |-> "release", lease |-> l])
  PROVE  Shift([c \in Conn |-> 0])
<1> DEFINE d == sess[w].conn
           f == [kind |-> "release", lease |-> l]
<1>1. toWorker \in [Conn -> Seq(WorkerFrame)] /\ f \in WorkerFrame /\ f.kind # "assign"
  BY MadeFrames DEF TypeInv
<1>2. toWorker' = [toWorker EXCEPT ![d] = IF link[d] = "up" THEN Append(@, f) ELSE @]
  BY DEF Send
<1>3. ASSUME NEW c \in Conn
      PROVE  /\ Len(Append(toWorker[c], f)) = Len(toWorker[c]) + 1 /\ Len(toWorker[c]) \in Nat
             /\ \A i \in 1..Len(toWorker[c]) : Append(toWorker[c], f)[i] = toWorker[c][i]
             /\ Append(toWorker[c], f)[Len(toWorker[c]) + 1] = f
  BY <1>1, Appended
<1> HIDE DEF d, f
<1>4. \A c \in Conn : toWorker'[c] \in {toWorker[c], Append(toWorker[c], f)}
  BY <1>1, <1>2
<1>5. ASSUME NEW c \in Conn, NEW i \in 1..Len(toWorker'[c]), toWorker'[c][i].kind = "assign"
      PROVE  i + 0 \in 1..Len(toWorker[c]) /\ toWorker'[c][i] = toWorker[c][i + 0]
  <2>1. CASE toWorker'[c] = toWorker[c]
    BY <1>3, <1>5, <2>1
  <2>2. CASE toWorker'[c] = Append(toWorker[c], f)
    <3>1. i \in 1..Len(toWorker[c]) + 1
      BY <1>3, <1>5, <2>2
    <3>2. i # Len(toWorker[c]) + 1
      BY <1>1, <1>3, <1>5, <2>2
    <3>3. i \in 1..Len(toWorker[c])
      BY <1>3, <3>1, <3>2
    <3> QED
      BY <1>3, <2>2, <3>3
  <2> QED
    BY <1>4, <2>1, <2>2
<1> QED
  BY <1>5 DEF Shift

LEMMA BreakShift ==
  ASSUME TypeInv, NEW d \in Conn, Break(d)
  PROVE  Shift([c \in Conn |-> 0])
<1>1. toWorker \in [Conn -> Seq(WorkerFrame)] /\ toWorker' = [toWorker EXCEPT ![d] = <<>>]
  BY DEF TypeInv, Break
<1>2. Len(<<>>) = 0
  BY EmptySeq
<1>3. \A c \in Conn : Len(toWorker[c]) \in Nat
  BY <1>1, LenProperties
<1> QED
  BY <1>1, <1>2, <1>3 DEF Shift

LEMMA WireShifts ==
  ASSUME TypeInv, DrawnInv, [Next]_vars
  PROVE  \/ \E o \in [Conn -> 0..1] : Shift(o)
         \/ \E t \in Task, w \in Worker, l \in Lease : PlaceOn(t, w, l)
<1> DEFINE S == \E o \in [Conn -> 0..1] : Shift(o)
<1>1. [c \in Conn |-> 0] \in [Conn -> 0..1]
  OBVIOUS
<1>2. \A d \in Conn : [c \in Conn |-> IF c = d THEN 1 ELSE 0] \in [Conn -> 0..1]
  OBVIOUS
<1>3. ASSUME UNCHANGED toWorker PROVE S
  BY <1>1, <1>3, NoShift
<1>4. ASSUME NEW l \in Lease, SendRelease(l) PROVE S
  <2>1. owner[l].worker \in Worker
    BY <1>4 DEF SendRelease, DrawnInv, Owner
  <2>2. CASE Send(owner[l].worker, [kind |-> "release", lease |-> l])
    <3>1. Shift([c \in Conn |-> 0])
      BY <2>1, <2>2, SendShift
    <3> QED
      BY <1>1, <3>1
  <2>3. \/ Send(owner[l].worker, [kind |-> "release", lease |-> l])
        \/ UNCHANGED toWorker
    BY <1>4 DEF SendRelease
  <2> HIDE DEF S
  <2> QED
    BY <1>3, <2>2, <2>3
<1>5. ASSUME NEW c \in Conn, RecvAssign(c) \/ RecvRelease(c) PROVE S
  <2>1. toWorker[c] # <<>> /\ toWorker' = [toWorker EXCEPT ![c] = Tail(@)]
    BY <1>5 DEF RecvAssign, RecvRelease
  <2> QED
    BY <1>2, <2>1, TailShift
<1>6. ASSUME NEW c \in Conn, Cut(c) PROVE S
  BY <1>1, <1>6, BreakShift DEF Cut
<1>7. ASSUME NEW w \in Worker, Restart(w) PROVE S
  <2>1. UNCHANGED wire \/ \E c \in Conn : Break(c)
    BY <1>7 DEF Restart, OpenOf
  <2>2. ASSUME NEW c \in Conn, Break(c) PROVE S
    <3>1. Shift([d \in Conn |-> 0])
      BY <2>2, BreakShift
    <3> QED
      BY <1>1, <3>1
  <2> HIDE DEF S
  <2> QED
    BY <1>3, <2>1, <2>2 DEF wire
<1>8. CASE WorkerStep
  <2>1. ASSUME NEW l \in Lease, BootDone(l) \/ BootFailed(l) \/ Finalize(l) PROVE UNCHANGED toWorker
    BY <2>1 DEF BootDone, BootFailed, Finalize
  <2>2. ASSUME NEW l, NEW v, CompleteLease(l, v) PROVE UNCHANGED toWorker
    BY <2>2 DEF CompleteLease, wire
  <2>3. ASSUME NEW w \in Worker, Dial(w) PROVE UNCHANGED toWorker
    BY <2>3 DEF Dial
  <2> QED
    BY <1>3, <1>5, <1>8, <2>1, <2>2, <2>3 DEF WorkerStep
<1>9. CASE MasterStep
  <2>1. ASSUME NEW b \in Batch, Submit(b) \/ Cancel(b) PROVE UNCHANGED toWorker
    BY <2>1 DEF Submit, Cancel, wire
  <2>2. ASSUME NEW l \in Lease, GiveBack(l) \/ Timeout(l) PROVE UNCHANGED toWorker
    BY <2>2 DEF GiveBack, Timeout, wire
  <2>3. ASSUME NEW c \in Conn, \/ HandleRegister(c) \/ HandleBound(c) \/ HandleCompleted(c)
                               \/ EndUnregistered(c) \/ Disconnected(c)
        PROVE  UNCHANGED toWorker
    BY <2>3 DEF HandleRegister, HandleBound, HandleCompleted, Consume, EndUnregistered, Disconnected
  <2>4. PlaceNone => UNCHANGED toWorker
    BY DEF PlaceNone, wire
  <2> QED
    BY <1>3, <1>4, <1>9, <2>1, <2>2, <2>3, <2>4 DEF MasterStep, Scheduled
<1>10. CASE GrantStep
  BY <1>3, <1>10 DEF GrantStep, Grant, wire
<1>11. CASE UNCHANGED vars
  BY <1>3, <1>11 DEF vars, wire
<1> QED
  BY <1>6, <1>7, <1>8, <1>9, <1>10, <1>11 DEF Next, FaultStep

\* What AssignInv says of one frame, and of two.
AssignOK(c, i) ==
    LET f == toWorker[c][i] IN
    f.kind = "assign" =>
      /\ call[f.lease] # "none" /\ job[f.lease] = "none"
      /\ owner[f.lease] = [task |-> f.task, worker |-> c[1]]
SameAssign(c, i, d, j) ==
    /\ toWorker[c][i].kind = "assign" /\ toWorker[d][j].kind = "assign"
    /\ toWorker[c][i].lease = toWorker[d][j].lease

LEMMA AssignParts ==
  AssignInv <=> /\ \A c \in Conn : \A i \in 1..Len(toWorker[c]) : AssignOK(c, i)
                /\ \A c, d \in Conn : \A i \in 1..Len(toWorker[c]), j \in 1..Len(toWorker[d]) :
                     SameAssign(c, i, d, j) => c = d /\ i = j
BY DEF AssignInv, AssignOK, SameAssign

LEMMA ShiftedAssigns ==
  ASSUME TypeInv, AssignInv, [Next]_vars, NEW o \in [Conn -> 0..1], Shift(o),
         \A c \in Conn : \A i \in 1..Len(toWorker'[c]) :
           toWorker'[c][i].kind = "assign" => job'[toWorker'[c][i].lease] = "none"
  PROVE  AssignInv'
<1>1. toWorker \in [Conn -> Seq(WorkerFrame)]
  BY DEF TypeInv
<1>2. ASSUME NEW c \in Conn, NEW i \in 1..Len(toWorker'[c])
      PROVE  AssignOK(c, i)'
  <2> SUFFICES ASSUME toWorker'[c][i].kind = "assign" PROVE AssignOK(c, i)'
    BY DEF AssignOK
  <2>1. i + o[c] \in 1..Len(toWorker[c]) /\ toWorker'[c][i] = toWorker[c][i + o[c]]
    BY DEF Shift
  <2>2. toWorker'[c][i].lease \in Lease
    BY <1>1, <2>1, ElementOfSeq, WorkerFrames
  <2>3. AssignOK(c, i + o[c])
    BY <2>1, AssignParts
  <2> DEFINE f == toWorker'[c][i]
  <2>4. call[f.lease] # "none" /\ owner[f.lease] = [task |-> f.task, worker |-> c[1]]
    BY <2>1, <2>3 DEF AssignOK
  <2>5. call'[f.lease] # "none" /\ owner'[f.lease] = owner[f.lease]
    BY <2>2, <2>4, DrawnStays
  <2> QED
    BY <2>4, <2>5 DEF AssignOK
<1>3. ASSUME NEW c \in Conn, NEW d \in Conn,
             NEW i \in 1..Len(toWorker'[c]), NEW j \in 1..Len(toWorker'[d]),
             SameAssign(c, i, d, j)'
      PROVE  c = d /\ i = j
  <2>1. /\ toWorker'[c][i].kind = "assign" /\ toWorker'[d][j].kind = "assign"
        /\ toWorker'[c][i].lease = toWorker'[d][j].lease
    BY <1>3 DEF SameAssign
  <2>2. /\ i + o[c] \in 1..Len(toWorker[c]) /\ toWorker'[c][i] = toWorker[c][i + o[c]]
        /\ j + o[d] \in 1..Len(toWorker[d]) /\ toWorker'[d][j] = toWorker[d][j + o[d]]
    BY <2>1 DEF Shift
  <2>3. SameAssign(c, i + o[c], d, j + o[d])
    BY <2>1, <2>2 DEF SameAssign
  <2>4. c = d /\ i + o[c] = j + o[d]
    BY <2>2, <2>3, AssignParts
  <2>5. i \in Int /\ j \in Int /\ o[c] \in Int
    OBVIOUS
  <2> QED
    BY <2>4, <2>5
<1> QED
  BY <1>2, <1>3, AssignParts DEF AssignInv, AssignOK, SameAssign

LEMMA AssignStep == ASSUME TypeInv, SessInv, DrawnInv, AssignInv, [Next]_vars PROVE AssignInv'
<1>1. toWorker \in [Conn -> Seq(WorkerFrame)] /\ job \in [Lease -> JobState]
  BY DEF TypeInv
<1>2. ASSUME NEW t \in Task, NEW w \in Worker, NEW l \in Lease, PlaceOn(t, w, l) PROVE AssignInv'
  <2> DEFINE d == sess[w].conn
             new == [kind |-> "assign", lease |-> l, task |-> t]
  <2>1. d \in Conn /\ d[1] = w
    BY <1>2 DEF PlaceOn, Candidates, Online, SessInv
  <2>2. /\ toWorker' = [toWorker EXCEPT ![d] = IF link[d] = "up" THEN Append(@, new) ELSE @]
        /\ call[l] = "none" /\ call'[l] # "none"
        /\ owner' = [owner EXCEPT ![l] = [task |-> t, worker |-> w]]
    BY <1>2 DEF PlaceOn, Send, Drawn, TypeInv
  <2>3. new \in WorkerFrame
    BY MadeFrames
  <2>4. /\ Len(toWorker[d]) \in Nat /\ Len(Append(toWorker[d], new)) = Len(toWorker[d]) + 1
        /\ \A i \in 1..Len(toWorker[d]) : Append(toWorker[d], new)[i] = toWorker[d][i]
        /\ Append(toWorker[d], new)[Len(toWorker[d]) + 1] = new
    BY <1>1, <2>1, <2>3, Appended
  <2>5. new.kind = "assign" /\ new.lease = l /\ new.task = t
    OBVIOUS
  <2>6. UNCHANGED job
    <3>1. ~UNCHANGED master
      BY <2>2 DEF master
    <3> QED
      BY <3>1 DEF Next, MasterStep, GrantStep, WorkerStep, FaultStep, worker, vars
  <2>7. job[l] = "none"
    BY <2>2 DEF DrawnInv
  <2>8. owner'[l] = [task |-> t, worker |-> w]
    BY <2>2 DEF TypeInv
  <2> HIDE DEF d, new
  <2>9. ASSUME NEW c \in Conn, NEW i \in 1..Len(toWorker'[c]), toWorker'[c][i].kind = "assign"
        PROVE  \/ /\ i \in 1..Len(toWorker[c]) /\ toWorker'[c][i] = toWorker[c][i]
                  /\ toWorker[c][i].lease # l
               \/ c = d /\ i = Len(toWorker[d]) + 1 /\ toWorker'[c][i] = new
    <3>1. ASSUME i \in 1..Len(toWorker[c]), toWorker'[c][i] = toWorker[c][i]
          PROVE  toWorker[c][i].lease # l
      BY <2>2, <2>9, <3>1, AssignParts DEF AssignOK
    <3>2. CASE toWorker'[c] = toWorker[c]
      BY <2>9, <3>1, <3>2
    <3>3. CASE c = d /\ toWorker'[c] = Append(toWorker[d], new)
      BY <2>4, <2>9, <3>1, <3>3
    <3> QED
      BY <1>1, <2>1, <2>2, <3>2, <3>3
  <2>10. ASSUME NEW c \in Conn, NEW i \in 1..Len(toWorker'[c]) PROVE AssignOK(c, i)'
    <3> SUFFICES ASSUME toWorker'[c][i].kind = "assign" PROVE AssignOK(c, i)'
      BY DEF AssignOK
    <3>1. CASE i \in 1..Len(toWorker[c]) /\ toWorker'[c][i] = toWorker[c][i]
      <4>1. AssignOK(c, i) /\ toWorker[c][i].lease \in Lease
        BY <1>1, <3>1, AssignParts, ElementOfSeq, WorkerFrames
      <4> QED
        BY <2>6, <3>1, <4>1, DrawnStays DEF AssignOK
    <3>2. CASE c = d /\ toWorker'[c][i] = new
      BY <2>1, <2>2, <2>5, <2>6, <2>7, <2>8, <3>2 DEF AssignOK
    <3> QED
      BY <2>9, <3>1, <3>2
  <2>11. ASSUME NEW c \in Conn, NEW e \in Conn,
                NEW i \in 1..Len(toWorker'[c]), NEW j \in 1..Len(toWorker'[e]),
                SameAssign(c, i, e, j)'
         PROVE  c = e /\ i = j
    <3>1. /\ toWorker'[c][i].kind = "assign" /\ toWorker'[e][j].kind = "assign"
          /\ toWorker'[c][i].lease = toWorker'[e][j].lease
      BY <2>11 DEF SameAssign
    <3>2. CASE toWorker'[c][i].lease = l
      BY <2>9, <3>1, <3>2
    <3>3. CASE toWorker'[c][i].lease # l
      <4>1. /\ i \in 1..Len(toWorker[c]) /\ toWorker'[c][i] = toWorker[c][i]
            /\ j \in 1..Len(toWorker[e]) /\ toWorker'[e][j] = toWorker[e][j]
        BY <2>5, <2>9, <3>1, <3>3
      <4>2. SameAssign(c, i, e, j)
        BY <3>1, <4>1 DEF SameAssign
      <4> QED
        BY <4>1, <4>2, AssignParts
    <3> QED
      BY <3>2, <3>3
  <2> QED
    BY <2>10, <2>11 DEF AssignInv, AssignOK, SameAssign
<1>3. ASSUME NEW d \in Conn, RecvAssign(d) PROVE AssignInv'
  <2> DEFINE o == [c \in Conn |-> IF c = d THEN 1 ELSE 0]
             l == Head(toWorker[d]).lease
  <2>1. /\ toWorker[d] # <<>> /\ toWorker' = [toWorker EXCEPT ![d] = Tail(@)]
        /\ Head(toWorker[d]).kind = "assign" /\ job' = [job EXCEPT ![l] = "booting"]
    BY <1>3 DEF RecvAssign
  <2>2. Shift(o) /\ o \in [Conn -> 0..1]
    <3>1. Shift(o)
      BY <2>1, TailShift
    <3>2. o \in [Conn -> 0..1]
      OBVIOUS
    <3> QED
      BY <3>1, <3>2
  <2>3. Head(toWorker[d]) = toWorker[d][1] /\ 1 \in 1..Len(toWorker[d])
    BY <1>1, <2>1, HeadTail
  <2>4. ASSUME NEW c \in Conn, NEW i \in 1..Len(toWorker'[c]), toWorker'[c][i].kind = "assign"
        PROVE  job'[toWorker'[c][i].lease] = "none"
    <3>1. i + o[c] \in 1..Len(toWorker[c]) /\ toWorker'[c][i] = toWorker[c][i + o[c]]
      BY <2>2, <2>4 DEF Shift
    <3>2. toWorker[c][i + o[c]].lease # l
      <4> SUFFICES ASSUME toWorker[c][i + o[c]].lease = l PROVE FALSE
        OBVIOUS
      <4>1. SameAssign(c, i + o[c], d, 1)
        BY <2>1, <2>3, <2>4, <3>1 DEF SameAssign
      <4>2. c = d /\ i + o[c] = 1
        BY <2>3, <3>1, <4>1, AssignParts
      <4>3. o[c] = 1
        BY <4>2
      <4> QED
        BY <4>2, <4>3
    <3>3. job[toWorker[c][i + o[c]].lease] = "none" /\ toWorker[c][i + o[c]].lease \in Lease
      BY <1>1, <2>4, <3>1, AssignParts, ElementOfSeq, WorkerFrames DEF AssignOK
    <3> QED
      BY <1>1, <2>1, <3>1, <3>2, <3>3
  <2> QED
    BY <2>2, <2>4, ShiftedAssigns
<1>4. CASE \A d \in Conn : ~RecvAssign(d)
  <2>1. CASE \E t \in Task, w \in Worker, l \in Lease : PlaceOn(t, w, l)
    BY <1>2, <2>1
  <2>2. ASSUME NEW o \in [Conn -> 0..1], Shift(o) PROVE AssignInv'
    <3>1. ASSUME NEW c \in Conn, NEW i \in 1..Len(toWorker'[c]), toWorker'[c][i].kind = "assign"
          PROVE  job'[toWorker'[c][i].lease] = "none"
      <4>1. i + o[c] \in 1..Len(toWorker[c]) /\ toWorker'[c][i] = toWorker[c][i + o[c]]
        BY <2>2, <3>1 DEF Shift
      <4>2. toWorker'[c][i].lease \in Lease /\ job[toWorker'[c][i].lease] = "none"
        <5>1. AssignOK(c, i + o[c])
          BY <4>1, AssignParts
        <5>2. toWorker[c][i + o[c]] \in WorkerFrame
          BY <1>1, <4>1, ElementOfSeq
        <5> QED
          BY <3>1, <4>1, <5>1, <5>2, WorkerFrames DEF AssignOK
      <4> QED
        BY <1>4, <4>2, NewJob
    <3> QED
      BY <2>2, <3>1, ShiftedAssigns
  <2> QED
    BY <2>1, <2>2, WireShifts
<1> QED
  BY <1>3, <1>4
----------------------------------------------------------------------------
(* Notices of an end *)

\* A notice on the wire was there before, or a teardown that ends in this step sends it.
Old(c, i) == \E j \in 1..Len(toMaster[c]) : toMaster'[c][i] = toMaster[c][j]
Sent(c, i) ==
    \E l \in Lease :
      /\ Finalize(l) /\ c[1] = At(l)
      /\ toMaster'[c][i] = [kind |-> "completed", lease |-> l, task |-> jobTask[l],
                            status |-> outcome'[l]]
Traced == \A c \in Conn : \A i \in 1..Len(toMaster'[c]) :
            toMaster'[c][i].kind = "completed" => Old(c, i) \/ Sent(c, i)

LEMMA ConsumeTraced == ASSUME TypeInv, NEW d \in Conn, toMaster[d] # <<>>, Consume(d) PROVE Traced
<1>1. toMaster \in [Conn -> Seq(MasterFrame)] /\ toMaster' = [toMaster EXCEPT ![d] = Tail(@)]
  BY DEF TypeInv, Consume
<1>2. /\ Len(Tail(toMaster[d])) = Len(toMaster[d]) - 1
      /\ \A i \in 1..Len(toMaster[d]) - 1 :
           Tail(toMaster[d])[i] = toMaster[d][i + 1] /\ i + 1 \in 1..Len(toMaster[d])
  BY <1>1, HeadTail
<1>3. \A c \in Conn : toMaster'[c] = IF c = d THEN Tail(toMaster[d]) ELSE toMaster[c]
  BY <1>1
<1> QED
  BY <1>2, <1>3 DEF Traced, Old

LEMMA BreakTraced == ASSUME TypeInv, NEW d \in Conn, Break(d) PROVE Traced
<1>1. toMaster \in [Conn -> Seq(MasterFrame)]
  BY DEF TypeInv
<1>2. PICK kept \in 0..Len(toMaster[d]) :
        toMaster' = [toMaster EXCEPT ![d] = SubSeq(@, 1, kept)]
  BY DEF Break
<1>3. /\ Len(SubSeq(toMaster[d], 1, kept)) = kept
      /\ \A i \in 1..kept : SubSeq(toMaster[d], 1, kept)[i] = toMaster[d][i] /\ i \in 1..Len(toMaster[d])
  BY <1>1, Prefix
<1>4. \A c \in Conn : toMaster'[c] = IF c = d THEN SubSeq(toMaster[d], 1, kept) ELSE toMaster[c]
  BY <1>1, <1>2
<1> QED
  BY <1>3, <1>4 DEF Traced, Old

\* A frame of any other kind.
LEMMA ToMasterTraced ==
  ASSUME TypeInv, NEW d, NEW f \in MasterFrame, f.kind # "completed", ToMaster(d, f)
  PROVE  Traced
<1>1. toMaster \in [Conn -> Seq(MasterFrame)]
  BY DEF TypeInv
<1>2. ASSUME NEW c \in Conn
      PROVE  toMaster'[c] \in {toMaster[c], Append(toMaster[c], f)}
  BY <1>1 DEF ToMaster
<1>3. ASSUME NEW c \in Conn, NEW i \in 1..Len(toMaster'[c]), toMaster'[c][i].kind = "completed"
      PROVE  Old(c, i)
  <2>1. CASE toMaster'[c] = toMaster[c]
    BY <1>3, <2>1 DEF Old
  <2>2. CASE toMaster'[c] = Append(toMaster[c], f)
    <3>1. /\ Len(Append(toMaster[c], f)) = Len(toMaster[c]) + 1 /\ Len(toMaster[c]) \in Nat
          /\ \A k \in 1..Len(toMaster[c]) : Append(toMaster[c], f)[k] = toMaster[c][k]
          /\ Append(toMaster[c], f)[Len(toMaster[c]) + 1] = f
      BY <1>1, Appended
    <3>2. i \in 1..Len(toMaster[c]) + 1 /\ i # Len(toMaster[c]) + 1
      BY <1>3, <2>2, <3>1
    <3>3. i \in 1..Len(toMaster[c])
      BY <3>1, <3>2
    <3> QED
      BY <2>2, <3>1, <3>3 DEF Old
  <2> QED
    BY <1>2, <2>1, <2>2
<1> QED
  BY <1>3 DEF Traced

LEMMA FinalizeTraced == ASSUME TypeInv, DrawnInv, NEW l \in Lease, Finalize(l) PROVE Traced
<1> DEFINE f == [kind |-> "completed", lease |-> l, task |-> jobTask[l], status |-> outcome'[l]]
<1>1. toMaster \in [Conn -> Seq(MasterFrame)]
  BY DEF TypeInv
<1>2. \A c \in Conn : toMaster'[c] = IF c \in OpenOf(At(l)) THEN Append(toMaster[c], f) ELSE toMaster[c]
  BY DEF Finalize
<1>3. f \in MasterFrame
  <2>1. jobTask[l] \in Task
    <3>1. job[l] # "none"
      BY DEF Finalize
    <3>2. owner[l] \in Owner /\ owner[l] = [task |-> jobTask[l], worker |-> At(l)]
      BY <3>1 DEF DrawnInv
    <3> QED
      BY <3>2 DEF Owner
  <2>2. outcome'[l] \in Terminal
    BY DEF Finalize, Terminal, TypeInv
  <2> QED
    BY <2>1, <2>2, MadeFrames
<1>4. ASSUME NEW c \in Conn, NEW i \in 1..Len(toMaster'[c])
      PROVE  Old(c, i) \/ Sent(c, i)
  <2>1. CASE toMaster'[c] = toMaster[c]
    BY <1>4, <2>1 DEF Old
  <2>2. CASE c \in OpenOf(At(l)) /\ toMaster'[c] = Append(toMaster[c], f)
    <3>1. /\ Len(Append(toMaster[c], f)) = Len(toMaster[c]) + 1 /\ Len(toMaster[c]) \in Nat
          /\ \A k \in 1..Len(toMaster[c]) : Append(toMaster[c], f)[k] = toMaster[c][k]
          /\ Append(toMaster[c], f)[Len(toMaster[c]) + 1] = f
      BY <1>1, <1>3, Appended
    <3>2. CASE i = Len(toMaster[c]) + 1
      BY <2>2, <3>1, <3>2 DEF Sent, OpenOf
    <3>3. CASE i # Len(toMaster[c]) + 1
      <4>1. i \in 1..Len(toMaster[c])
        BY <2>2, <3>1, <3>3
      <4> QED
        BY <2>2, <3>1, <4>1 DEF Old
    <3> QED
      BY <3>2, <3>3
  <2> QED
    BY <1>2, <2>1, <2>2
<1> QED
  BY <1>4 DEF Traced

LEMMA NoticesTraced == ASSUME TypeInv, DrawnInv, [Next]_vars PROVE Traced
<1>1. CASE UNCHANGED toMaster
  BY <1>1 DEF Traced, Old
<1>2. ASSUME NEW c \in Conn, HandleRegister(c) \/ HandleBound(c) \/ HandleCompleted(c) PROVE Traced
  BY <1>2, ConsumeTraced DEF HandleRegister, HandleBound, HandleCompleted, Frame
<1>3. ASSUME NEW w \in Worker, Dial(w) PROVE Traced
  <2>1. PICK d \in Conn : toMaster' = [toMaster EXCEPT ![d] = <<[kind |-> "register"]>>]
    BY <1>3 DEF Dial
  <2>2. \A c \in Conn : toMaster'[c] = IF c = d THEN <<[kind |-> "register"]>> ELSE toMaster[c]
    BY <2>1 DEF TypeInv
  <2>3. \A i \in 1..Len(<<[kind |-> "register"]>>) :
          <<[kind |-> "register"]>>[i].kind # "completed"
    OBVIOUS
  <2> QED
    BY <2>2, <2>3 DEF Traced, Old
<1>4. ASSUME NEW l \in Lease, BootDone(l) \/ BootFailed(l) PROVE Traced
  <2>1. PICK ok \in BOOLEAN : ToMaster(via[l], [kind |-> "bound", lease |-> l, ok |-> ok])
    BY <1>4 DEF BootDone, BootFailed
  <2> QED
    BY <2>1, ToMasterTraced, MadeFrames
<1>5. ASSUME NEW c \in Conn, Cut(c) PROVE Traced
  BY <1>5, BreakTraced DEF Cut
<1>6. ASSUME NEW w \in Worker, Restart(w) PROVE Traced
  <2>1. UNCHANGED wire \/ \E c \in Conn : Break(c)
    BY <1>6 DEF Restart, OpenOf
  <2> QED
    BY <1>1, <2>1, BreakTraced DEF wire
<1>7. CASE WorkerStep
  <2>1. ASSUME NEW c \in Conn, RecvAssign(c) \/ RecvRelease(c) PROVE UNCHANGED toMaster
    BY <2>1 DEF RecvAssign, RecvRelease
  <2>2. ASSUME NEW l, NEW v, CompleteLease(l, v) PROVE UNCHANGED toMaster
    BY <2>2 DEF CompleteLease, wire
  <2> QED
    BY <1>1, <1>3, <1>4, <1>7, <2>1, <2>2, FinalizeTraced DEF WorkerStep
<1>8. CASE MasterStep
  <2>1. ASSUME NEW b \in Batch, Submit(b) \/ Cancel(b) PROVE UNCHANGED toMaster
    BY <2>1 DEF Submit, Cancel, wire
  <2>2. ASSUME NEW l \in Lease, SendRelease(l) \/ GiveBack(l) \/ Timeout(l) PROVE UNCHANGED toMaster
    BY <2>2 DEF SendRelease, GiveBack, Timeout, wire
  <2>3. ASSUME NEW c \in Conn, EndUnregistered(c) \/ Disconnected(c) PROVE UNCHANGED toMaster
    BY <2>3 DEF EndUnregistered, Disconnected
  <2>4. ASSUME NEW t, NEW w, NEW l, PlaceOn(t, w, l) PROVE UNCHANGED toMaster
    BY <2>4 DEF PlaceOn
  <2>5. PlaceNone => UNCHANGED toMaster
    BY DEF PlaceNone, wire
  <2> QED
    BY <1>1, <1>2, <1>8, <2>1, <2>2, <2>3, <2>4, <2>5 DEF MasterStep, Scheduled
<1>9. CASE GrantStep
  BY <1>1, <1>9 DEF GrantStep, Grant, wire
<1>10. CASE UNCHANGED vars
  BY <1>1, <1>10 DEF vars, wire
<1> QED
  BY <1>5, <1>6, <1>7, <1>8, <1>9, <1>10 DEF Next, FaultStep

\* What has ended stays as it ended.
LEMMA DoneStays ==
  ASSUME TypeInv, AssignInv, [Next]_vars, NEW l \in Lease, NEW status, Done(l, status)
  PROVE  Done(l, status)' /\ jobTask'[l] = jobTask[l]
<1>1. job[l] # "none" /\ job[l] \in {"ended", "gone"}
  BY DEF Done
<1> QED
  BY <1>1, JobStays DEF Done

LEMMA NoticeStep == ASSUME TypeInv, DrawnInv, AssignInv, NoticeInv, [Next]_vars PROVE NoticeInv'
<1> SUFFICES ASSUME NEW c \in Conn, NEW i \in 1..Len(toMaster'[c]),
                    toMaster'[c][i].kind = "completed"
             PROVE  NoticeOK(c, i)'
  BY DEF NoticeInv, NoticeOK
<1>1. CASE Old(c, i)
  <2>1. PICK j \in 1..Len(toMaster[c]) : toMaster'[c][i] = toMaster[c][j]
    BY <1>1 DEF Old
  <2> DEFINE f == toMaster[c][j]
  <2>2. f \in MasterFrame
    BY ElementOfSeq DEF TypeInv
  <2>3. f.lease \in Lease /\ f.kind = "completed"
    BY <2>1, <2>2, MasterFrames
  <2>4. owner[f.lease] = [task |-> f.task, worker |-> c[1]] /\ Done(f.lease, f.status)
    BY <2>3 DEF NoticeInv, NoticeOK
  <2> HIDE DEF f
  <2>5. job[f.lease] # "none" /\ job[f.lease] \in {"ended", "gone"}
    BY <2>4 DEF Done
  <2>6. call[f.lease] # "none"
    BY <2>3, <2>5 DEF DrawnInv
  <2>7. owner'[f.lease] = owner[f.lease]
    BY <2>3, <2>6, DrawnStays
  <2>8. /\ job'[f.lease] \in {"ended", "gone"} /\ outcome'[f.lease] = f.status
        /\ f.status = "completed" => verdict'[f.lease] = "completed"
    BY <2>3, <2>4, <2>5, JobStays DEF Done
  <2> QED
    BY <2>1, <2>4, <2>7, <2>8 DEF f, NoticeOK, Done
<1>2. CASE Sent(c, i)
  <2>1. PICK l \in Lease :
          /\ Finalize(l) /\ c[1] = At(l)
          /\ toMaster'[c][i] = [kind |-> "completed", lease |-> l, task |-> jobTask[l],
                                status |-> outcome'[l]]
    BY <1>2 DEF Sent
  <2>2. /\ toMaster'[c][i].lease = l /\ toMaster'[c][i].task = jobTask[l]
        /\ toMaster'[c][i].status = outcome'[l]
    BY <2>1
  <2>3. job[l] # "none" /\ job'[l] = "ended"
    BY <2>1 DEF Finalize, TypeInv
  <2>4. call[l] # "none" /\ owner[l] = [task |-> jobTask[l], worker |-> c[1]]
    BY <2>1, <2>3 DEF DrawnInv
  <2>5. owner'[l] = owner[l]
    BY <2>4, DrawnStays
  <2>6. outcome'[l] = "completed" => verdict'[l] = "completed"
    BY <2>1 DEF Finalize, TypeInv
  <2> QED
    BY <2>2, <2>3, <2>4, <2>5, <2>6 DEF NoticeOK, Done
<1> QED
  BY <1>1, <1>2, NoticesTraced DEF Traced

LEMMA InitInv == ASSUME Init PROVE SessInv /\ DrawnInv /\ AssignInv /\ NoticeInv
<1>1. Len(<<>>) = 0
  BY EmptySeq
<1>2. /\ \A w \in Worker : ~sess[w].online
      /\ \A l \in Lease : call[l] = "none" /\ job[l] = "none"
      /\ bound = {} /\ releasing = {}
      /\ \A c \in Conn : toMaster[c] = <<>> /\ toWorker[c] = <<>>
  BY DEF Init, MasterInit, WorkerInit, WireInit
<1> QED
  BY <1>1, <1>2 DEF SessInv, DrawnInv, AssignInv, NoticeInv, NoticeOK

\* Who is connected, whose lease it is, and what is under way.
Bookkeeping == TypeInv /\ SessInv /\ DrawnInv /\ AssignInv /\ NoticeInv

LEMMA BookkeepingStep == ASSUME Bookkeeping, [Next]_vars PROVE Bookkeeping'
BY TypeStep, SessStep, DrawnStep, AssignStep, NoticeStep DEF Bookkeeping

LEMMA BookkeepingInvariant == Spec => []Bookkeeping
<1>1. Init => Bookkeeping
  BY TypeInit, InitInv DEF Bookkeeping
<1> QED
  BY <1>1, BookkeepingStep, PTL DEF Spec
----------------------------------------------------------------------------
(* The ledger *)

LEMMA LedgerStep == ASSUME Bookkeeping, LedgerIsBacked, [Next]_vars PROVE LedgerIsBacked'
<1>1. /\ TypeInv /\ DrawnInv /\ NoticeInv
      /\ owner \in [Lease -> Owner \cup {None}] /\ bound \subseteq Lease /\ load \in [Worker -> SUBSET Task]
  BY DEF Bookkeeping, TypeInv
<1>2. \A l \in bound : owner'[l] = owner[l] /\ owner[l] \in Owner
  BY <1>1, DrawnStays DEF DrawnInv
<1>3. CASE UNCHANGED <<bound, load>>
  BY <1>1, <1>2, <1>3 DEF LedgerIsBacked
<1>4. ASSUME NEW t \in Task, NEW w \in Worker, NEW l \in Lease, PlaceOn(t, w, l)
      PROVE  LedgerIsBacked'
  <2>1. /\ bound' = bound \cup {l} /\ load' = [load EXCEPT ![w] = @ \cup {t}]
        /\ owner'[l] = [task |-> t, worker |-> w]
    BY <1>1, <1>4 DEF PlaceOn
  <2>2. ASSUME NEW v \in Worker, NEW u \in load'[v]
        PROVE  \E k \in bound' : owner'[k] = [task |-> u, worker |-> v]
    <3>1. u \in load[v] \/ (u = t /\ v = w)
      BY <1>1, <2>1
    <3> QED
      BY <1>2, <2>1, <3>1 DEF LedgerIsBacked
  <2> QED
    BY <2>2 DEF LedgerIsBacked
\* One entry and its lease go together.
<1>5. ASSUME NEW l \in Lease, NEW t, NEW w, l \in bound => owner[l] = [task |-> t, worker |-> w],
             bound' = bound \ {l}, load' = [load EXCEPT ![w] = @ \ {t}]
      PROVE  LedgerIsBacked'
  <2>1. ASSUME NEW v \in Worker, NEW u \in load'[v]
        PROVE  \E k \in bound' : owner'[k] = [task |-> u, worker |-> v]
    <3>1. u \in load[v] /\ (v # w \/ u # t)
      BY <1>1, <1>5
    <3>2. PICK k \in bound : owner[k] = [task |-> u, worker |-> v]
      BY <3>1 DEF LedgerIsBacked
    <3>3. k # l
      <4> SUFFICES ASSUME k = l PROVE FALSE
        OBVIOUS
      <4>1. [task |-> u, worker |-> v] = [task |-> t, worker |-> w]
        BY <1>5, <3>2
      <4>2. u = t /\ v = w
        BY <4>1
      <4> QED
        BY <3>1, <4>2
    <3> QED
      BY <1>2, <1>5, <3>2, <3>3
  <2> QED
    BY <2>1 DEF LedgerIsBacked
<1>6. ASSUME NEW l \in Lease, Revert(l) PROVE LedgerIsBacked'
  <2>1. l \in bound => owner[l] = [task |-> owner[l].task, worker |-> owner[l].worker]
    BY <1>2 DEF Owner
  <2> QED
    BY <1>5, <1>6, <2>1 DEF Revert
<1>7. ASSUME NEW c \in Conn, HandleCompleted(c) PROVE LedgerIsBacked'
  <2> DEFINE f == Head(toMaster[c])
  <2>1. /\ toMaster[c] # <<>> /\ f.kind = "completed" /\ toMaster[c] \in Seq(MasterFrame)
        /\ bound' = bound \ {f.lease} /\ load' = [load EXCEPT ![c[1]] = @ \ {f.task}]
    BY <1>1, <1>7 DEF HandleCompleted, Frame, TypeInv
  <2>2. f = toMaster[c][1] /\ 1 \in 1..Len(toMaster[c]) /\ f \in MasterFrame
    BY <2>1, HeadTail
  <2>3. f.lease \in Lease /\ owner[f.lease] = [task |-> f.task, worker |-> c[1]]
    BY <1>1, <2>1, <2>2, MasterFrames DEF NoticeInv, NoticeOK
  <2> HIDE DEF f
  <2> QED
    BY <1>5, <2>1, <2>3
<1>8. ASSUME NEW c \in Conn, Disconnected(c) PROVE LedgerIsBacked'
  <2>1. /\ bound' = {l \in bound : owner[l].worker # c[1]} /\ load' = [load EXCEPT ![c[1]] = {}]
    BY <1>8 DEF Disconnected
  <2>2. ASSUME NEW v \in Worker, NEW u \in load'[v]
        PROVE  \E k \in bound' : owner'[k] = [task |-> u, worker |-> v]
    <3>1. v # c[1] /\ u \in load[v]
      BY <1>1, <2>1
    <3>2. PICK k \in bound : owner[k] = [task |-> u, worker |-> v]
      BY <3>1 DEF LedgerIsBacked
    <3> QED
      BY <1>2, <2>1, <3>1, <3>2
  <2> QED
    BY <2>2 DEF LedgerIsBacked
<1>9. ASSUME NEW b \in Batch, Submit(b) \/ Cancel(b) PROVE UNCHANGED <<bound, load>>
  BY <1>9 DEF Submit, Cancel, ledger
<1>10. ASSUME NEW l \in Lease, Grant(l) PROVE UNCHANGED <<bound, load>>
  BY <1>10 DEF Grant, ledger
<1>11. ASSUME NEW c \in Conn, HandleBound(c) PROVE UNCHANGED <<bound, load>>
  BY <1>11 DEF HandleBound, ledger
<1> QED
  BY MasterMoves, <1>3, <1>4, <1>6, <1>7, <1>8, <1>9, <1>10, <1>11

\* Whatever frames are lost, late or overtaken by a restart, no capacity is held back for good:
\* an entry of the ledger always has a lease in the lease table, which takes it along.
THEOREM LedgerStaysBacked == Spec => []LedgerIsBacked
<1>1. Init => LedgerIsBacked
  BY DEF Init, MasterInit, LedgerIsBacked
<1> QED
  BY <1>1, LedgerStep, BookkeepingInvariant, PTL DEF Spec
----------------------------------------------------------------------------
(* Tasks that are being placed *)

AtWork(t) ==
    /\ tlease[t] # None /\ owner[tlease[t]].task = t
    /\ call[tlease[t]] \in {"waiting", "bound", "refused", "broken"}

StartingHasAttempt == \A t \in Task : tstate[t] = "starting" => AtWork(t)

LEMMA StartingStep == ASSUME TypeInv, StartingHasAttempt, [Next]_vars PROVE StartingHasAttempt'
<1>1. /\ tstate \in [Task -> {"absent", "queued", "starting", "ready", "completed", "failed"}]
      /\ tlease \in [Task -> Lease \cup {None}]
      /\ call \in [Lease -> {"none", "waiting", "bound", "refused", "broken", "over"}]
      /\ owner \in [Lease -> Owner \cup {None}]
  BY DEF TypeInv
<1> SUFFICES ASSUME NEW t \in Task, tstate'[t] = "starting" PROVE AtWork(t)'
  BY DEF StartingHasAttempt, AtWork
<1> DEFINE l == tlease[t]
<1>2. ASSUME tstate[t] = "starting"
      PROVE  l \in Lease /\ AtWork(t) /\ owner'[l] = owner[l]
  BY <1>1, <1>2, DrawnStays DEF StartingHasAttempt, AtWork
<1>3. ASSUME tstate[t] = "starting", tlease'[t] = l,
             call'[l] \in {"waiting", "bound", "refused", "broken"}
      PROVE  AtWork(t)'
  BY <1>2, <1>3 DEF AtWork
<1>4. CASE UNCHANGED <<tstate, tlease, owner, call>>
  BY <1>2, <1>4 DEF AtWork
<1>5. ASSUME NEW b \in Batch, Submit(b) PROVE AtWork(t)'
  <2>1. PICK n \in 0..Len(Request[b]) :
          LET stored == SubSeq(Request[b], 1, n) IN
          tstate' = [u \in Task |-> IF u \notin {stored[i] : i \in 1..n} THEN tstate[u]
                                    ELSE IF Admissible(u) THEN "queued" ELSE "failed"]
    BY <1>5 DEF Submit
  <2>2. tstate[t] = "starting"
    BY <2>1
  <2> QED
    BY <1>2, <1>3, <1>5, <2>2 DEF Submit, AtWork
<1>6. ASSUME NEW b \in Batch, Cancel(b) PROVE AtWork(t)'
  <2>1. tstate[t] = "starting"
    BY <1>6 DEF Cancel
  <2> QED
    BY <1>2, <1>3, <1>6, <2>1 DEF Cancel, AtWork
<1>7. ASSUME NEW u \in Task, NEW w \in Worker, NEW k \in Lease, PlaceOn(u, w, k) PROVE AtWork(t)'
  <2>1. /\ tstate' = [tstate EXCEPT ![u] = "starting"] /\ tlease' = [tlease EXCEPT ![u] = k]
        /\ owner' = [owner EXCEPT ![k] = [task |-> u, worker |-> w]]
        /\ call[k] = "none" /\ call'[k] \in {"waiting", "broken"}
        /\ \A j \in Lease : j # k => call'[j] = call[j]
    BY <1>1, <1>7 DEF PlaceOn, Drawn
  <2>2. CASE t = u
    <3>1. k # None
      BY ClusterAssumption
    <3> QED
      BY <1>1, <2>1, <2>2, <3>1 DEF AtWork
  <2>3. CASE t # u
    <3>1. tstate[t] = "starting" /\ tlease'[t] = l
      BY <1>1, <2>1, <2>3
    <3>2. l # k
      BY <1>2, <2>1, <3>1 DEF AtWork
    <3> QED
      BY <1>2, <1>3, <2>1, <3>1, <3>2 DEF AtWork
  <2> QED
    BY <2>2, <2>3
<1>8. ASSUME NEW k \in Lease, Grant(k) \/ Revert(k) PROVE AtWork(t)'
  <2> DEFINE u == owner[k].task
  <2>1. /\ \E s \in {"ready", "queued"} : tstate' = [tstate EXCEPT ![u] = s]
        /\ tlease' = tlease \/ tlease' = [tlease EXCEPT ![u] = None]
        /\ call' = [call EXCEPT ![k] = "over"]
    BY <1>8 DEF Grant, Revert
  <2> HIDE DEF u
  <2>2. t # u
    BY <1>1, <2>1
  <2>3. tstate[t] = "starting" /\ tlease'[t] = l
    BY <1>1, <2>1, <2>2
  <2>4. l # k
    BY <1>2, <2>2, <2>3 DEF AtWork, u
  <2>5. call'[l] = call[l]
    BY <1>1, <1>2, <2>1, <2>3, <2>4
  <2> QED
    BY <1>2, <1>3, <2>3, <2>5 DEF AtWork
<1>9. ASSUME NEW c \in Conn, HandleBound(c) PROVE AtWork(t)'
  <2>1. UNCHANGED <<tstate, tlease>>
    BY <1>9 DEF HandleBound, tasks
  <2>2. \A j \in Lease : call'[j] = call[j] \/ call'[j] \in {"bound", "refused"}
    BY <1>1, <1>9 DEF HandleBound
  <2> QED
    BY <1>2, <1>3, <2>1, <2>2 DEF AtWork
<1>10. ASSUME NEW c \in Conn, HandleCompleted(c) PROVE AtWork(t)'
  <2>1. /\ tstate' = [tstate EXCEPT ![Head(toMaster[c]).task] = Head(toMaster[c]).status]
        /\ UNCHANGED <<tlease, call>>
    BY <1>10 DEF HandleCompleted
  <2>2. Head(toMaster[c]).status # "starting"
    <3>1. toMaster[c] # <<>> /\ Head(toMaster[c]).kind = "completed" /\ toMaster[c] \in Seq(MasterFrame)
      BY <1>10 DEF HandleCompleted, Frame, TypeInv
    <3>2. Head(toMaster[c]).status \in Terminal
      BY <3>1, HeadTail, MasterFrames
    <3> QED
      BY <3>2 DEF Terminal
  <2>3. tstate[t] = "starting"
    BY <1>1, <2>1, <2>2
  <2> QED
    BY <1>2, <1>3, <2>1, <2>3 DEF AtWork
<1>11. ASSUME NEW c \in Conn, Disconnected(c) PROVE AtWork(t)'
  <2> DEFINE hit == {u \in Task : LossesOf(u, c[1]) > 0}
  <2>1. /\ tstate' = [u \in Task |-> IF u \notin hit THEN tstate[u]
                                     ELSE IF retry'[u] > 2 THEN "failed" ELSE "queued"]
        /\ tlease' = [u \in Task |-> IF u \in hit /\ retry[u] < 2 THEN None ELSE tlease[u]]
        /\ \A j \in Lease : call'[j] = call[j] \/ call'[j] = "broken"
    BY <1>1, <1>11 DEF Disconnected
  <2> HIDE DEF hit
  <2>2. t \notin hit /\ tstate[t] = "starting" /\ tlease'[t] = l
    BY <2>1
  <2> QED
    BY <1>2, <1>3, <2>1, <2>2 DEF AtWork
<1> QED
  BY MasterMoves, <1>4, <1>5, <1>6, <1>7, <1>8, <1>9, <1>10, <1>11

LEMMA StartingInvariant == Spec => []StartingHasAttempt
<1>1. Init => StartingHasAttempt
  BY DEF Init, MasterInit, StartingHasAttempt
<1>2. Bookkeeping => TypeInv
  BY DEF Bookkeeping
<1> QED
  BY <1>1, <1>2, StartingStep, BookkeepingInvariant, PTL DEF Spec
----------------------------------------------------------------------------
(* Completion *)

LEMMA EarnStep == ASSUME Bookkeeping, EarnInv, [Next]_vars PROVE EarnInv'
<1>1. /\ TypeInv /\ DrawnInv /\ AssignInv /\ NoticeInv
      /\ tstate \in [Task -> {"absent", "queued", "starting", "ready", "completed", "failed"}]
  BY DEF Bookkeeping, TypeInv
<1>2. ASSUME NEW t \in Task, NEW l \in Lease, jobTask[l] = t, Done(l, "completed")
      PROVE  \E k \in Lease : jobTask'[k] = t /\ Done(k, "completed")'
  BY <1>1, <1>2, DoneStays
<1>3. ASSUME NEW t \in Task, tstate[t] = "completed"
      PROVE  \E k \in Lease : jobTask'[k] = t /\ Done(k, "completed")'
  BY <1>2, <1>3 DEF EarnInv
<1>4. CASE \A t \in Task : tstate'[t] = "completed" => tstate[t] = "completed"
  BY <1>3, <1>4 DEF EarnInv
<1>5. ASSUME NEW c \in Conn, HandleCompleted(c) PROVE EarnInv'
  <2> DEFINE f == Head(toMaster[c])
  <2>1. /\ toMaster[c] # <<>> /\ f.kind = "completed" /\ toMaster[c] \in Seq(MasterFrame)
        /\ tstate' = [tstate EXCEPT ![f.task] = f.status]
    BY <1>1, <1>5 DEF HandleCompleted, Frame, TypeInv
  <2>2. f = toMaster[c][1] /\ 1 \in 1..Len(toMaster[c]) /\ f \in MasterFrame
    BY <2>1, HeadTail
  <2>3. /\ f.lease \in Lease /\ f.task \in Task
        /\ owner[f.lease] = [task |-> f.task, worker |-> c[1]] /\ Done(f.lease, f.status)
    BY <1>1, <2>1, <2>2, MasterFrames DEF NoticeInv, NoticeOK
  <2>4. jobTask[f.lease] = f.task
    <3>1. job[f.lease] # "none"
      BY <2>3 DEF Done
    <3>2. owner[f.lease] = [task |-> jobTask[f.lease], worker |-> At(f.lease)]
      BY <1>1, <2>3, <3>1 DEF DrawnInv
    <3> QED
      BY <2>3, <3>2
  <2> HIDE DEF f
  <2>5. ASSUME NEW t \in Task, tstate'[t] = "completed"
        PROVE  \E k \in Lease : jobTask'[k] = t /\ Done(k, "completed")'
    <3>1. CASE t = f.task
      <4>1. f.status = "completed"
        BY <1>1, <2>1, <2>5, <3>1
      <4>2. Done(f.lease, "completed")
        BY <2>3, <4>1
      <4> QED
        BY <1>2, <2>3, <2>4, <3>1, <4>2
    <3>2. CASE t # f.task
      BY <1>1, <1>3, <2>1, <2>5, <3>2
    <3> QED
      BY <3>1, <3>2
  <2> QED
    BY <2>5 DEF EarnInv
<1>6. ASSUME NEW b \in Batch, Submit(b) PROVE EarnInv'
  <2>1. PICK n \in 0..Len(Request[b]) :
          LET stored == SubSeq(Request[b], 1, n) IN
          tstate' = [u \in Task |-> IF u \notin {stored[i] : i \in 1..n} THEN tstate[u]
                                    ELSE IF Admissible(u) THEN "queued" ELSE "failed"]
    BY <1>6 DEF Submit
  <2> QED
    BY <1>4, <2>1
<1>7. ASSUME NEW b \in Batch, Cancel(b) PROVE EarnInv'
  BY <1>4, <1>7 DEF Cancel
<1>8. ASSUME NEW t \in Task, NEW w \in Worker, NEW l \in Lease, PlaceOn(t, w, l) PROVE EarnInv'
  BY <1>1, <1>4, <1>8 DEF PlaceOn
<1>9. ASSUME NEW l \in Lease, Grant(l) \/ Revert(l) PROVE EarnInv'
  BY <1>1, <1>4, <1>9 DEF Grant, Revert
<1>10. ASSUME NEW c \in Conn, HandleBound(c) PROVE EarnInv'
  BY <1>4, <1>10 DEF HandleBound, tasks
<1>11. ASSUME NEW c \in Conn, Disconnected(c) PROVE EarnInv'
  BY <1>4, <1>11 DEF Disconnected
<1> QED
  BY MasterMoves, <1>4, <1>5, <1>6, <1>7, <1>8, <1>9, <1>10, <1>11

\* A task is COMPLETED on the master only if a client completed one of its leases and the
\* teardown on the worker of that lease returned without an error, whatever the connections
\* did in between.
THEOREM CompletionStaysEarned == Spec => []CompletedIsEarned
<1>1. Init => EarnInv
  BY DEF Init, MasterInit, EarnInv
<1>2. EarnInv => CompletedIsEarned
  BY DEF EarnInv, Done, CompletedIsEarned
<1> QED
  BY <1>1, <1>2, EarnStep, BookkeepingInvariant, PTL DEF Spec
----------------------------------------------------------------------------
(* Batches *)

Verdict(b) == LET S == {tstate[t] : t \in Members(b)} IN
              /\ bstate[b] \in Terminal <=> S \subseteq Terminal
              /\ bstate[b] = "completed" <=> S = {"completed"}
              /\ bstate[b] = "queued" => S \subseteq {"queued", "starting"}
              /\ bstate[b] = "running" => S # {"queued"}

\* The tasks of a batch are in the table.
Present(b) == \A t \in Members(b) : tstate[t] # "absent"
BatchInv == \A b \in Batch : bstate[b] # "absent" => Verdict(b) /\ Present(b)

LEMMA MembersExist == \A b \in Batch : Members(b) # {} /\ Members(b) \subseteq Task
<1> SUFFICES ASSUME NEW b \in Batch PROVE Members(b) # {} /\ Members(b) \subseteq Task
  OBVIOUS
<1>1. Request[b] \in Seq(Task) /\ Request[b] # <<>>
  BY ClusterAssumption
<1>2. 1 \in 1..Len(Request[b])
  BY <1>1, HeadTail
<1>3. \A i \in 1..Len(Request[b]) : Request[b][i] \in Task
  BY <1>1, ElementOfSeq
<1> QED
  BY <1>2, <1>3 DEF Members

LEMMA AggregateIsTruthful ==
  ASSUME NEW S, S # {}
  PROVE  /\ Aggregate(S) \in Terminal <=> S \subseteq Terminal
         /\ Aggregate(S) = "completed" <=> S = {"completed"}
         /\ Aggregate(S) = "queued" => S = {"queued"}
         /\ Aggregate(S) = "running" => S # {"queued"}
         /\ Aggregate(S) # "absent"
<1>1. CASE S \subseteq {"completed"}
  <2>1. Aggregate(S) = "completed" /\ S = {"completed"}
    BY <1>1 DEF Aggregate
  <2> QED
    BY <2>1 DEF Terminal
<1>2. CASE ~(S \subseteq {"completed"}) /\ S \subseteq Terminal
  <2>1. "failed" \in S
    BY <1>2 DEF Terminal
  <2>2. Aggregate(S) = "failed"
    BY <1>2, <2>1 DEF Aggregate
  <2> QED
    BY <1>2, <2>1, <2>2 DEF Terminal
<1>3. CASE ~(S \subseteq {"completed"}) /\ ~(S \subseteq Terminal)
  <2>1. /\ Aggregate(S) \in {"queued", "running"}
        /\ Aggregate(S) = "queued" <=> S = {"queued"}
    BY <1>3 DEF Aggregate, Terminal
  <2> QED
    BY <1>3, <2>1 DEF Terminal
<1> QED
  BY <1>1, <1>2, <1>3

\* What a POST does to the tasks and the batches.
LEMMA SubmitMoves ==
  ASSUME TypeInv, NEW a \in Batch, Submit(a)
  PROVE  \E S \in SUBSET Task :
           /\ \A t \in S : tstate[t] = "absent" /\ tstate'[t] \in {"queued", "failed"}
           /\ \A t \in Task \ S : tstate'[t] = tstate[t]
           /\ \/ UNCHANGED bstate
              \/ /\ S = Members(a)
                 /\ \A c \in Batch :
                      bstate'[c] = IF bstate[c] = "absent" /\ c # a THEN "absent"
                                   ELSE Aggregate({tstate'[t] : t \in Members(c)})
<1>1. PICK n \in 0..Len(Request[a]) :
        LET stored == SubSeq(Request[a], 1, n) IN
        /\ \A i \in 1..n : ~Refused(a, i)
        /\ tstate' = [u \in Task |-> IF u \notin {stored[i] : i \in 1..n} THEN tstate[u]
                                     ELSE IF Admissible(u) THEN "queued" ELSE "failed"]
        /\ IF n = Len(Request[a])
           THEN bstate' = [c \in Batch |->
                  IF bstate[c] = "absent" /\ c # a THEN "absent"
                  ELSE Aggregate({tstate'[t] : t \in Members(c)})]
           ELSE UNCHANGED bstate
  BY DEF Submit
<1> DEFINE stored == SubSeq(Request[a], 1, n)
           S == {stored[i] : i \in 1..n}
<1>2. Request[a] \in Seq(Task)
  BY ClusterAssumption
<1>3. \A i \in 1..n : stored[i] = Request[a][i] /\ i \in 1..Len(Request[a]) /\ Request[a][i] \in Task
  BY <1>2, Prefix, ElementOfSeq
<1> HIDE DEF stored
<1>4. /\ tstate' = [u \in Task |-> IF u \notin S THEN tstate[u]
                                   ELSE IF Admissible(u) THEN "queued" ELSE "failed"]
      /\ \A i \in 1..n : ~Refused(a, i)
  BY <1>1 DEF stored
<1>5. S \in SUBSET Task /\ \A t \in S : tstate[t] = "absent"
  BY <1>3, <1>4 DEF Refused
<1>6. n = Len(Request[a]) => S = Members(a)
  BY <1>3 DEF Members
<1> HIDE DEF S
<1>7. (\A t \in S : tstate'[t] \in {"queued", "failed"}) /\ \A t \in Task \ S : tstate'[t] = tstate[t]
  BY <1>4, <1>5
<1>8. \/ UNCHANGED bstate
      \/ /\ n = Len(Request[a])
         /\ \A c \in Batch : bstate'[c] = IF bstate[c] = "absent" /\ c # a THEN "absent"
                                          ELSE Aggregate({tstate'[t] : t \in Members(c)})
  BY <1>1
<1> QED
  BY <1>5, <1>6, <1>7, <1>8

LEMMA BatchStep == ASSUME TypeInv, BatchInv, [Next]_vars PROVE BatchInv'
<1>1. /\ tstate \in [Task -> {"absent", "queued", "starting", "ready", "completed", "failed"}]
      /\ bstate \in [Batch -> {"absent", "queued", "running", "completed", "failed"}]
  BY DEF TypeInv
<1> SUFFICES ASSUME NEW b \in Batch, bstate'[b] # "absent" PROVE Verdict(b)' /\ Present(b)'
  BY DEF BatchInv
<1> DEFINE Goal == Verdict(b)' /\ Present(b)'
<1>2. {tstate'[t] : t \in Members(b)} # {}
  BY MembersExist
<1>3. ASSUME bstate'[b] = Aggregate({tstate'[t] : t \in Members(b)}) PROVE Verdict(b)'
  BY <1>2, <1>3, AggregateIsTruthful DEF Verdict
<1>4. ASSUME RefreshBatches(tstate') PROVE Verdict(b)'
  <2>1. bstate'[b] = Aggregate({tstate'[t] : t \in Members(b)})
    BY <1>4 DEF RefreshBatches
  <2> QED
    BY <1>3, <2>1
<1>5. ASSUME UNCHANGED bstate,
             \A t \in Members(b) : \/ tstate'[t] = tstate[t]
                                   \/ tstate[t] = "queued" /\ tstate'[t] = "starting"
      PROVE  Verdict(b)'
  <2> DEFINE S == {tstate[t] : t \in Members(b)}
             T == {tstate'[t] : t \in Members(b)}
  <2>1. /\ bstate[b] \in Terminal <=> S \subseteq Terminal
        /\ bstate[b] = "completed" <=> S = {"completed"}
        /\ bstate[b] = "queued" => S \subseteq {"queued", "starting"}
        /\ bstate[b] = "running" => S # {"queued"}
    BY <1>5 DEF BatchInv, Verdict
  <2>2. S \subseteq Terminal <=> T \subseteq Terminal
    BY <1>5 DEF Terminal
  <2>3. S = {"completed"} <=> T = {"completed"}
    BY <1>5, MembersExist
  <2>4. S \subseteq {"queued", "starting"} => T \subseteq {"queued", "starting"}
    BY <1>5
  <2>5. S # {"queued"} => T # {"queued"}
    BY <1>5, MembersExist
  <2> QED
    BY <1>5, <2>1, <2>2, <2>3, <2>4, <2>5 DEF Verdict
<1>6. \A u \in Members(b) : u \in Task
  BY MembersExist
<1>7. ASSUME bstate[b] # "absent", \A t \in Task : tstate'[t] = "absent" => tstate[t] = "absent"
      PROVE  Present(b)'
  BY <1>6, <1>7 DEF BatchInv, Present
<1>8. ASSUME RefreshBatches(tstate'), \A t \in Task : tstate'[t] = "absent" => tstate[t] = "absent"
      PROVE  Goal
  <2>1. bstate[b] # "absent"
    BY <1>8 DEF RefreshBatches
  <2> QED
    BY <1>4, <1>7, <1>8, <2>1
<1>9. CASE UNCHANGED <<tstate, bstate>>
  BY <1>5, <1>7, <1>9
<1>10. ASSUME NEW a \in Batch, Submit(a) PROVE Goal
  <2>1. PICK S \in SUBSET Task :
           /\ \A t \in S : tstate[t] = "absent" /\ tstate'[t] \in {"queued", "failed"}
           /\ \A t \in Task \ S : tstate'[t] = tstate[t]
           /\ \/ UNCHANGED bstate
              \/ /\ S = Members(a)
                 /\ \A c \in Batch :
                      bstate'[c] = IF bstate[c] = "absent" /\ c # a THEN "absent"
                                   ELSE Aggregate({tstate'[t] : t \in Members(c)})
    BY <1>10, SubmitMoves
  <2>2. \A t \in Task : tstate'[t] = "absent" => tstate[t] = "absent"
    BY <2>1
  <2>3. CASE UNCHANGED bstate
    <3>1. \A t \in Members(b) : t \notin S
      BY <2>1, <2>3 DEF BatchInv, Present
    <3>2. Verdict(b)'
      BY <1>5, <1>6, <2>1, <2>3, <3>1
    <3> QED
      BY <1>7, <2>2, <2>3, <3>2
  <2>4. CASE S = Members(a) /\ bstate'[b] = Aggregate({tstate'[t] : t \in Members(b)})
             /\ (bstate[b] # "absent" \/ b = a)
    <3>1. Verdict(b)'
      BY <1>3, <2>4
    <3>2. CASE bstate[b] # "absent"
      BY <1>7, <2>2, <3>1, <3>2
    <3>3. CASE b = a
      BY <2>1, <2>4, <3>1, <3>3 DEF Present
    <3> QED
      BY <2>4, <3>2, <3>3
  <2> QED
    BY <2>1, <2>3, <2>4
<1>11. ASSUME NEW t \in Task, NEW w \in Worker, NEW l \in Lease, PlaceOn(t, w, l) PROVE Goal
  <2>1. UNCHANGED bstate /\ tstate[t] = "queued" /\ tstate' = [tstate EXCEPT ![t] = "starting"]
    BY <1>11 DEF PlaceOn
  <2>2. \A u \in Task : tstate'[u] = IF u = t THEN "starting" ELSE tstate[u]
    BY <1>1, <2>1
  <2>3. Verdict(b)'
    BY <1>5, <1>6, <2>1, <2>2 DEF Terminal
  <2> QED
    BY <1>7, <2>1, <2>2, <2>3
<1>12. ASSUME NEW c \in Conn, HandleBound(c) PROVE Goal
  BY <1>9, <1>12 DEF HandleBound, tasks
<1>13. ASSUME NEW a \in Batch, Cancel(a) PROVE Goal
  BY <1>1, <1>8, <1>13 DEF Cancel
<1>14. ASSUME NEW l \in Lease, Grant(l) \/ Revert(l) PROVE Goal
  <2>1. /\ RefreshBatches(tstate')
        /\ \E s \in {"ready", "queued"} : tstate' = [tstate EXCEPT ![owner[l].task] = s]
    BY <1>14 DEF Grant, Revert
  <2>2. \A t \in Task : tstate'[t] = "absent" => tstate[t] = "absent"
    BY <1>1, <2>1
  <2> QED
    BY <1>8, <2>1, <2>2
<1>15. ASSUME NEW c \in Conn, HandleCompleted(c) PROVE Goal
  <2>1. /\ RefreshBatches(tstate')
        /\ tstate' = [tstate EXCEPT ![Head(toMaster[c]).task] = Head(toMaster[c]).status]
        /\ toMaster[c] # <<>> /\ Head(toMaster[c]).kind = "completed" /\ toMaster[c] \in Seq(MasterFrame)
    BY <1>15 DEF HandleCompleted, Frame, TypeInv
  <2>2. Head(toMaster[c]).status # "absent"
    <3>1. Head(toMaster[c]).status \in Terminal
      BY <2>1, HeadTail, MasterFrames
    <3> QED
      BY <3>1 DEF Terminal
  <2>3. \A t \in Task : tstate'[t] = "absent" => tstate[t] = "absent"
    BY <1>1, <2>1, <2>2
  <2> QED
    BY <1>8, <2>1, <2>3
<1>16. ASSUME NEW c \in Conn, Disconnected(c) PROVE Goal
  <2>1. RefreshBatches(tstate') /\ \A t \in Task : tstate'[t] = "absent" => tstate[t] = "absent"
    BY <1>16 DEF Disconnected
  <2> QED
    BY <1>8, <2>1
<1> QED
  BY MasterMoves, <1>9, <1>10, <1>11, <1>12, <1>13, <1>14, <1>15, <1>16

\* The state of a batch is terminal exactly when all its tasks are, COMPLETED exactly when
\* they all are, and QUEUED only while none of them has gone further than STARTING: placing
\* a task, which recomputes nothing, makes it no staler than that.
THEOREM BatchVerdictStaysTruthful == Spec => []BatchVerdictTruthful
<1>1. Init => BatchInv
  BY DEF Init, MasterInit, BatchInv
<1>2. Bookkeeping => TypeInv
  BY DEF Bookkeeping
<1>3. BatchInv => BatchVerdictTruthful
  BY DEF BatchInv, Verdict, BatchVerdictTruthful
<1> QED
  BY <1>1, <1>2, <1>3, BatchStep, BookkeepingInvariant, PTL DEF Spec
=============================================================================
