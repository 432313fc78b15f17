----------------------------- MODULE CalmProofs -----------------------------
(***************************************************************************)
(* What TLAPS proves about Cluster when no boot outlasts the master's      *)
(* patience, for every number of tasks, batches, workers and leases,       *)
(* whichever machines fail to boot or stay behind, and whatever is         *)
(* cancelled or expires.                                                   *)
(*                                                                         *)
(* As long as no connection broke and no worker restarted, SteadyCore adds *)
(* to Bookkeeping what master and worker know of each other: LeaseOK where *)
(* the worker is with a lease at each point of its attempt, ReplyOK and    *)
(* OrderOK that the frames under way are true.  It is all the ledger needs.*)
(* As long as it is Calm as well, that is, no lease was given back before  *)
(* its client was told of it, CalmCore adds what a READY task has: one     *)
(* lemma per action each that they are kept.  The last part shows that     *)
(* every calm step is, for every task at once, a step of TaskLifecycle.    *)
(***************************************************************************)
EXTENDS ClusterProofs

\* No boot outlasts the master's patience.
Awaited == "slow" \notin Fault

\* The lease of an attempt that is under way is its task's, and in the ledger.
Entered(l) == l \in bound /\ owner[l].task \in load[owner[l].worker]

\* The leases a task can still rely on.
Alive(l) == call[l] \in {"waiting", "bound", "refused"} \/ (call[l] = "over" /\ job[l] # "gone")

\* What is true of a lease that was drawn, at each point of its attempt and after it.
LeaseOK(l) ==
    LET t == owner[l].task IN
    /\ call[l] # "broken"
    /\ call[l] = "bound"   => job[l] \in {"held", "closing", "ended"}
    /\ call[l] = "refused" => job[l] = "gone"
    /\ call[l] = "over"    => job[l] \in {"held", "closing", "ended", "gone"}
    /\ Alive(l) =>
         /\ tlease[t] = l /\ tstate[t] \notin {"absent", "queued"}
         /\ job[l] \in {"none", "booting", "held", "closing"} => Entered(l)
    /\ job[l] \in {"none", "booting", "held"} => verdict[l] = None
    /\ job[l] \in {"closing", "ended"} => verdict[l] # None
    /\ job[l] = "ended" => /\ outcome[l] \in Terminal
                           /\ outcome[l] = "completed" => verdict[l] = "completed"

\* The frames under way to the master and to the workers.
InM == {f \in MasterFrame : \E c \in Conn : \E i \in 1..Len(toMaster[c]) : toMaster[c][i] = f}
InW == {f \in WorkerFrame : \E c \in Conn : \E i \in 1..Len(toWorker[c]) : toWorker[c][i] = f}

\* What they say is true.
ReplyOK(f) ==
    /\ f.kind = "bound" =>
         /\ call[f.lease] # "none"
         /\ call[f.lease] = "waiting" =>
              job[f.lease] \in IF f.ok THEN {"held", "closing", "ended"} ELSE {"gone"}
    /\ f.kind = "completed" => job[f.lease] = "ended"
OrderOK(f) == f.kind = "assign" => call[f.lease] = "waiting"

Connected ==
    /\ \A c \in Conn : link[c] # "cut" /\ (link[c] = "free" => toMaster[c] = <<>>)
    /\ \A w \in Worker : sess[w].online => link[sess[w].conn] = "up"

SteadyCore ==
    /\ assigned \in [Task -> Lease \cup {None}]
    /\ \A l \in Lease : LeaseOK(l)
    /\ \A f \in InM : ReplyOK(f)
    /\ \A f \in InW : OrderOK(f)
    /\ \A l \in told : call[l] = "over" /\ job[l] # "gone"
    /\ \A l \in left : l \in Lease /\ job[l] \in {"ended", "gone"}
    /\ Connected

Steady == Bookkeeping /\ SteadyCore

\* The inductive invariant as long as connections and workers stand.
SteadyInv == Bookkeeping /\ faults \in Nat /\ (faults = 0 => SteadyCore)
----------------------------------------------------------------------------
(* Frames under way *)

LEMMA FramesOf ==
  ASSUME NEW S, NEW s \in Seq(S)
  PROVE  /\ s # <<>> => \A i \in 1..Len(Tail(s)) : \E j \in 1..Len(s) : Tail(s)[i] = s[j]
         /\ \A x \in S : \A i \in 1..Len(Append(s, x)) :
              Append(s, x)[i] = x \/ \E j \in 1..Len(s) : Append(s, x)[i] = s[j]
<1>1. ASSUME s # <<>> PROVE \A i \in 1..Len(Tail(s)) : \E j \in 1..Len(s) : Tail(s)[i] = s[j]
  BY <1>1, HeadTail
<1>2. ASSUME NEW x \in S, NEW i \in 1..Len(Append(s, x))
      PROVE  Append(s, x)[i] = x \/ \E j \in 1..Len(s) : Append(s, x)[i] = s[j]
  <2>1. /\ Len(s) \in Nat /\ Len(Append(s, x)) = Len(s) + 1
        /\ \A j \in 1..Len(s) : Append(s, x)[j] = s[j]
        /\ Append(s, x)[Len(s) + 1] = x
    BY Appended
  <2>2. i \in 1..Len(s) \/ i = Len(s) + 1
    BY <1>2, <2>1
  <2> QED
    BY <2>1, <2>2
<1> QED
  BY <1>1, <1>2

\* The frame a handler or a worker reads.
LEMMA ReadM ==
  ASSUME TypeInv, NEW c \in Conn, toMaster[c] # <<>>
  PROVE  Head(toMaster[c]) \in InM /\ Head(toMaster[c]) = toMaster[c][1] /\ 1 \in 1..Len(toMaster[c])
<1>1. toMaster[c] \in Seq(MasterFrame)
  BY DEF TypeInv
<1>2. 1 \in 1..Len(toMaster[c]) /\ Head(toMaster[c]) = toMaster[c][1] /\ Head(toMaster[c]) \in MasterFrame
  BY <1>1, HeadTail
<1> QED
  BY <1>2 DEF InM

LEMMA ReadW ==
  ASSUME TypeInv, NEW c \in Conn, toWorker[c] # <<>>
  PROVE  Head(toWorker[c]) \in InW /\ Head(toWorker[c]) = toWorker[c][1] /\ 1 \in 1..Len(toWorker[c])
<1>1. toWorker[c] \in Seq(WorkerFrame)
  BY DEF TypeInv
<1>2. 1 \in 1..Len(toWorker[c]) /\ Head(toWorker[c]) = toWorker[c][1] /\ Head(toWorker[c]) \in WorkerFrame
  BY <1>1, HeadTail
<1> QED
  BY <1>2 DEF InW

LEMMA ConsumeM ==
  ASSUME TypeInv, NEW c \in Conn, toMaster[c] # <<>>, Consume(c)
  PROVE  InM' \subseteq InM /\ InW' = InW
<1>1. toMaster \in [Conn -> Seq(MasterFrame)] /\ toMaster' = [toMaster EXCEPT ![c] = Tail(@)]
  BY DEF TypeInv, Consume
<1>2. \A i \in 1..Len(Tail(toMaster[c])) : \E j \in 1..Len(toMaster[c]) : Tail(toMaster[c])[i] = toMaster[c][j]
  BY <1>1, FramesOf
<1>3. \A d \in Conn : toMaster'[d] = IF d = c THEN Tail(toMaster[c]) ELSE toMaster[d]
  BY <1>1
<1>4. InM' \subseteq InM
  BY <1>2, <1>3 DEF InM
<1> QED
  BY <1>4 DEF Consume, InW

LEMMA ConsumeW ==
  ASSUME TypeInv, NEW c \in Conn, toWorker[c] # <<>>, toWorker' = [toWorker EXCEPT ![c] = Tail(@)]
  PROVE  InW' \subseteq InW
<1>1. toWorker \in [Conn -> Seq(WorkerFrame)]
  BY DEF TypeInv
<1>2. \A i \in 1..Len(Tail(toWorker[c])) : \E j \in 1..Len(toWorker[c]) : Tail(toWorker[c])[i] = toWorker[c][j]
  BY <1>1, FramesOf
<1>3. \A d \in Conn : toWorker'[d] = IF d = c THEN Tail(toWorker[c]) ELSE toWorker[d]
  BY <1>1
<1> QED
  BY <1>2, <1>3 DEF InW

\* A frame is sent to the master on some connections.
LEMMA SendM ==
  ASSUME TypeInv, NEW f \in MasterFrame,
         \A c \in Conn : toMaster'[c] \in {toMaster[c], Append(toMaster[c], f)}
  PROVE  InM' \subseteq InM \cup {f}
<1>1. \A c \in Conn : \A i \in 1..Len(Append(toMaster[c], f)) :
        Append(toMaster[c], f)[i] = f \/ \E j \in 1..Len(toMaster[c]) : Append(toMaster[c], f)[i] = toMaster[c][j]
  BY FramesOf DEF TypeInv
<1>2. ASSUME NEW g \in InM' PROVE g \in InM \cup {f}
  <2>1. PICK c \in Conn : \E i \in 1..Len(toMaster'[c]) : toMaster'[c][i] = g
    BY <1>2 DEF InM
  <2>2. CASE toMaster'[c] = toMaster[c]
    BY <1>2, <2>1, <2>2 DEF InM
  <2>3. CASE toMaster'[c] = Append(toMaster[c], f)
    BY <1>1, <1>2, <2>1, <2>3 DEF InM
  <2> QED
    BY <2>2, <2>3
<1> QED
  BY <1>2

LEMMA SendW ==
  ASSUME TypeInv, NEW f \in WorkerFrame,
         \A c \in Conn : toWorker'[c] \in {toWorker[c], Append(toWorker[c], f)}
  PROVE  InW' \subseteq InW \cup {f}
<1>1. \A c \in Conn : \A i \in 1..Len(Append(toWorker[c], f)) :
        Append(toWorker[c], f)[i] = f \/ \E j \in 1..Len(toWorker[c]) : Append(toWorker[c], f)[i] = toWorker[c][j]
  BY FramesOf DEF TypeInv
<1>2. ASSUME NEW g \in InW' PROVE g \in InW \cup {f}
  <2>1. PICK c \in Conn : \E i \in 1..Len(toWorker'[c]) : toWorker'[c][i] = g
    BY <1>2 DEF InW
  <2>2. CASE toWorker'[c] = toWorker[c]
    BY <1>2, <2>1, <2>2 DEF InW
  <2>3. CASE toWorker'[c] = Append(toWorker[c], f)
    BY <1>1, <1>2, <2>1, <2>3 DEF InW
  <2> QED
    BY <2>2, <2>3
<1> QED
  BY <1>2
----------------------------------------------------------------------------
(* What a step leaves alone *)

\* What the proofs of the steps use of the invariant.
LEMMA Facts ==
  ASSUME Steady
  PROVE  /\ TypeInv /\ SessInv /\ DrawnInv /\ AssignInv /\ NoticeInv
         /\ tstate \in [Task -> {"absent", "queued", "starting", "ready", "completed", "failed"}]
         /\ tlease \in [Task -> Lease \cup {None}] /\ assigned \in [Task -> Lease \cup {None}]
         /\ call \in [Lease -> {"none", "waiting", "bound", "refused", "broken", "over"}]
         /\ owner \in [Lease -> Owner \cup {None}] /\ bound \subseteq Lease
         /\ load \in [Worker -> SUBSET Task] /\ job \in [Lease -> JobState]
         /\ told \subseteq Lease
         /\ \A l \in Lease : LeaseOK(l) /\ (call[l] # "none" => owner[l] \in Owner)
         /\ \A f \in InM : f \in MasterFrame /\ ReplyOK(f)
         /\ \A f \in InW : f \in WorkerFrame /\ OrderOK(f)
BY DEF Steady, SteadyCore, Bookkeeping, TypeInv, DrawnInv, InM, InW

\* A task has at most one lease it can rely on.
LEMMA Alone ==
  ASSUME Steady, NEW k \in Lease, NEW l \in Lease, Alive(k), Alive(l), owner[k].task = owner[l].task
  PROVE  k = l
BY DEF Steady, SteadyCore, LeaseOK

LEMMA LeaseKept ==
  ASSUME Steady, NEW k \in Lease,
         call'[k] = call[k], job'[k] = job[k], verdict'[k] = verdict[k], outcome'[k] = outcome[k],
         call[k] # "none" => owner'[k] = owner[k],
         Alive(k) => /\ tstate'[owner[k].task] \notin {"absent", "queued"}
                     /\ tlease'[owner[k].task] = tlease[owner[k].task]
                     /\ Entered(k) => k \in bound' /\ owner[k].task \in load'[owner[k].worker]
  PROVE  LeaseOK(k)'
<1>1. LeaseOK(k)
  BY DEF Steady, SteadyCore
<1>2. CASE call[k] = "none"
  BY <1>1, <1>2 DEF LeaseOK, Alive
<1>3. CASE call[k] # "none"
  <2>1. owner'[k] = owner[k] /\ (Alive(k)' <=> Alive(k))
    BY <1>3 DEF Alive
  <2>2. Alive(k) => (Entered(k) => Entered(k)')
    BY <2>1 DEF Entered
  <2> QED
    BY <1>1, <2>1, <2>2 DEF LeaseOK
<1> QED
  BY <1>2, <1>3

\* An assignment under way is no job yet.
LEMMA OrderedIsNew ==
  ASSUME Steady, NEW f \in InW, f.kind = "assign"
  PROVE  job[f.lease] = "none" /\ f.lease \in Lease /\ call[f.lease] = "waiting"
<1>1. f \in WorkerFrame /\ AssignInv /\ call[f.lease] = "waiting"
  BY Facts DEF OrderOK
<1>2. PICK c \in Conn : \E i \in 1..Len(toWorker[c]) : toWorker[c][i] = f
  BY DEF InW
<1> QED
  BY <1>1, <1>2, WorkerFrames DEF AssignInv
----------------------------------------------------------------------------
(* The master, as long as connections and workers stand *)

\* A step that moves tasks a lease cannot be alive for, and nothing else.
LEMMA TasksSteady ==
  ASSUME Steady, UNCHANGED <<tlease, assigned, owner, bound, load, call, sess, link, toMaster,
                             job, verdict, outcome, left, told>>,
         NEW S \in SUBSET Task, \A t \in S : tstate[t] \in {"absent", "queued"},
         \A t \in Task \ S : tstate'[t] = tstate[t],
         \A f \in InW' : f \in InW \/ f.kind # "assign"
  PROVE  SteadyCore'
<1>1. ASSUME NEW l \in Lease PROVE LeaseOK(l)'
  <2>1. Alive(l) => owner[l].task \in Task \ S
    <3>1. Alive(l) => /\ owner[l].task \in Task
                      /\ tstate[owner[l].task] \notin {"absent", "queued"}
      BY Facts DEF Alive, LeaseOK, Owner
    <3> QED
      BY <3>1
  <2>2. Alive(l) => tstate'[owner[l].task] \notin {"absent", "queued"}
    BY <2>1, Facts DEF LeaseOK
  <2>3. Entered(l) => l \in bound' /\ owner[l].task \in load'[owner[l].worker]
    BY DEF Entered
  <2> QED
    BY <2>2, <2>3, LeaseKept
<1>2. InM' = InM
  BY DEF InM
<1>3. (\A f \in InM' : ReplyOK(f)') /\ \A f \in InW' : OrderOK(f)'
  BY <1>2, Facts DEF ReplyOK, OrderOK
<1> QED
  BY <1>1, <1>3 DEF Steady, SteadyCore, Connected

LEMMA SubmitSteady ==
  ASSUME Steady, NEW b \in Batch, Submit(b), UNCHANGED <<worker, faults, told>>
  PROVE  SteadyCore'
<1>1. PICK S \in SUBSET Task :
        /\ \A t \in S : tstate[t] = "absent" /\ tstate'[t] \in {"queued", "failed"}
        /\ \A t \in Task \ S : tstate'[t] = tstate[t]
  BY SubmitMoves, Facts
<1>2. UNCHANGED <<tlease, assigned, owner, bound, load, call, sess, link, toMaster, toWorker,
                  job, verdict, outcome, left, told>>
  BY DEF Submit, ledger, wire, worker
<1>3. InW' = InW
  BY <1>2 DEF InW
<1> QED
  BY <1>1, <1>2, <1>3, TasksSteady

LEMMA CancelSteady ==
  ASSUME Steady, NEW b \in Batch, Cancel(b), UNCHANGED <<worker, faults, told>>
  PROVE  SteadyCore'
<1> DEFINE S == {t \in Task : tstate[t] = "queued"}
<1>1. tstate' = [t \in Task |-> IF t \in Members(b) /\ tstate[t] = "queued" THEN "failed" ELSE tstate[t]]
  BY DEF Cancel
<1>2. UNCHANGED <<tlease, assigned, owner, bound, load, call, sess, link, toMaster, toWorker,
                  job, verdict, outcome, left, told>>
  BY DEF Cancel, ledger, wire, worker
<1>3. InW' = InW
  BY <1>2 DEF InW
<1>4. \A t \in Task \ S : tstate'[t] = tstate[t]
  BY <1>1
<1>5. S \in SUBSET Task /\ \A t \in S : tstate[t] \in {"absent", "queued"}
  OBVIOUS
<1> QED
  BY <1>2, <1>3, <1>4, <1>5, TasksSteady

\* The connection of a worker that is online is open, so nothing sent to it is lost.
LEMMA Sends ==
  ASSUME Steady, NEW w \in Worker, sess[w].online, NEW f \in WorkerFrame, Send(w, f)
  PROVE  /\ sess' = sess /\ sess[w].conn \in Conn
         /\ toWorker' = [toWorker EXCEPT ![sess[w].conn] = Append(@, f)]
         /\ InW' \subseteq InW \cup {f}
<1>1. sess[w].conn \in Conn /\ link[sess[w].conn] = "up"
  BY Facts DEF SessInv, Steady, SteadyCore, Connected
<1>2. sess' = sess /\ toWorker' = [toWorker EXCEPT ![sess[w].conn] = Append(@, f)]
  BY <1>1 DEF Send
<1>3. \A c \in Conn : toWorker'[c] \in {toWorker[c], Append(toWorker[c], f)}
  BY <1>1, <1>2, Facts DEF TypeInv
<1> QED
  BY <1>1, <1>2, <1>3, SendW, Facts

LEMMA ReleaseSteady ==
  ASSUME Steady, NEW l \in Lease, SendRelease(l), UNCHANGED <<worker, faults, told>>
  PROVE  SteadyCore'
<1> DEFINE f == [kind |-> "release", lease |-> l]
<1>1. owner[l].worker \in Worker /\ f \in WorkerFrame
  BY MadeFrames, Facts DEF SendRelease, DrawnInv, Owner
<1>2. sess' = sess /\ InW' \subseteq InW \cup {f}
  <2>1. CASE sess[owner[l].worker].online
    BY <1>1, <2>1, Sends DEF SendRelease
  <2>2. CASE ~sess[owner[l].worker].online
    BY <2>2 DEF SendRelease, InW
  <2> QED
    BY <2>1, <2>2
<1>3. UNCHANGED <<tstate, tlease, assigned, owner, bound, load, call, link, toMaster,
                  job, verdict, outcome, left, told>>
  BY DEF SendRelease, tasks, ledger, worker
<1>4. \A g \in InW' : g \in InW \/ g.kind # "assign"
  BY <1>2
<1> HIDE DEF f
<1>5. {} \in SUBSET Task /\ \A t \in {} : tstate[t] \in {"absent", "queued"}
  OBVIOUS
<1>6. \A t \in Task \ {} : tstate'[t] = tstate[t]
  BY <1>3
<1> QED
  BY <1>2, <1>3, <1>4, <1>5, <1>6, TasksSteady

LEMMA PlaceSteady ==
  ASSUME Steady, NEW u \in Task, NEW w \in Worker, NEW l \in Lease, PlaceOn(u, w, l),
         UNCHANGED <<worker, faults, told>>
  PROVE  SteadyCore'
<1>0. PICK new : new = [kind |-> "assign", lease |-> l, task |-> u]
  OBVIOUS
<1>1. new \in WorkerFrame /\ new.kind = "assign" /\ new.lease = l
  BY <1>0, MadeFrames
<1>2. sess' = sess /\ InW' \subseteq InW \cup {new}
  BY <1>0, <1>1, Sends DEF PlaceOn, Candidates, Online
<1>3. /\ tstate[u] = "queued" /\ call[l] = "none"
      /\ tstate' = [tstate EXCEPT ![u] = "starting"] /\ tlease' = [tlease EXCEPT ![u] = l]
      /\ owner' = [owner EXCEPT ![l] = [task |-> u, worker |-> w]]
      /\ bound' = bound \cup {l} /\ load' = [load EXCEPT ![w] = @ \cup {u}]
      /\ call' = [call EXCEPT ![l] = "waiting"]
  BY <1>2 DEF PlaceOn, Drawn
<1>4. UNCHANGED <<assigned, link, toMaster, job, verdict, outcome, left, told>>
  BY DEF PlaceOn, worker
<1>5. job[l] = "none"
  BY <1>3, Facts DEF DrawnInv
<1>6. ASSUME NEW k \in Lease PROVE LeaseOK(k)'
  <2>1. CASE k = l
    <3>1. /\ owner'[l] = [task |-> u, worker |-> w] /\ call'[l] = "waiting" /\ tstate'[u] = "starting"
          /\ tlease'[u] = l /\ l \in bound' /\ u \in load'[w] /\ job'[l] = "none" /\ verdict'[l] = verdict[l]
      BY <1>3, <1>4, <1>5, Facts
    <3>2. verdict[l] = None
      BY <1>5, Facts DEF LeaseOK
    <3> QED
      BY <2>1, <3>1, <3>2 DEF LeaseOK, Entered
  <2>2. CASE k # l
    <3>1. Alive(k) => /\ owner[k].task # u /\ owner[k] \in Owner
                      /\ tstate[owner[k].task] \notin {"absent", "queued"}
      BY <1>3, Facts DEF Alive, LeaseOK
    <3>2. call'[k] = call[k] /\ owner'[k] = owner[k]
      BY <1>3, <2>2, Facts
    <3>3. Entered(k) => k \in bound' /\ (owner[k] \in Owner => owner[k].task \in load'[owner[k].worker])
      BY <1>3, Facts DEF Entered, Owner
    <3>4. Alive(k) => /\ tstate'[owner[k].task] = tstate[owner[k].task]
                      /\ tlease'[owner[k].task] = tlease[owner[k].task]
      BY <1>3, <3>1, Facts DEF Owner
    <3> QED
      BY <1>4, <3>1, <3>2, <3>3, <3>4, LeaseKept
  <2> QED
    BY <2>1, <2>2
<1>7. \A f \in InM' : ReplyOK(f)'
  <2>1. InM' = InM
    BY <1>4 DEF InM
  <2>2. ASSUME NEW f \in InM PROVE ReplyOK(f)'
    <3>1. f.kind = "bound" => f.lease \in Lease /\ f.lease # l
      BY <1>3, MasterFrames, Facts DEF ReplyOK
    <3> QED
      BY <1>3, <1>4, <3>1, Facts DEF ReplyOK
  <2> QED
    BY <2>1, <2>2
<1>8. ASSUME NEW f \in InW' PROVE OrderOK(f)'
  <2>1. CASE f = new
    BY <1>1, <1>3, <2>1, Facts DEF OrderOK
  <2>2. CASE f \in InW
    <3>1. f.lease \in Lease
      BY <2>2, Facts, WorkerFrames
    <3> QED
      BY <1>3, <2>2, <3>1, Facts DEF OrderOK
  <2> QED
    BY <1>2, <2>1, <2>2
<1>9. \A k \in told' : call'[k] = "over" /\ job'[k] # "gone"
  BY <1>3, <1>4, Facts DEF Steady, SteadyCore
<1>10. Connected'
  BY <1>2, <1>4 DEF Steady, SteadyCore, Connected
<1> QED
  BY <1>4, <1>6, <1>7, <1>8, <1>9, <1>10 DEF Steady, SteadyCore

LEMMA GiveBackSteady ==
  ASSUME Steady, NEW l \in Lease, GiveBack(l), UNCHANGED <<worker, faults, told>>
  PROVE  SteadyCore'
<1> DEFINE u == owner[l].task
           w == owner[l].worker
<1>1. call[l] = "refused" /\ job[l] = "gone" /\ tlease[u] = l /\ u \in Task /\ w \in Worker
  BY Facts DEF GiveBack, LeaseOK, Owner, Alive
<1>2. /\ tstate' = [tstate EXCEPT ![u] = "queued"] /\ tlease' = [tlease EXCEPT ![u] = None]
      /\ assigned' = [assigned EXCEPT ![u] = None]
      /\ bound' = bound \ {l} /\ load' = [load EXCEPT ![w] = @ \ {u}]
      /\ call' = [call EXCEPT ![l] = "over"]
  BY DEF GiveBack, Revert
<1>3. UNCHANGED <<owner, sess, link, toMaster, toWorker, job, verdict, outcome, left, told>>
  BY DEF GiveBack, wire, worker
<1> HIDE DEF u, w
<1>4. ASSUME NEW k \in Lease PROVE LeaseOK(k)'
  <2>1. CASE k = l
    <3>1. call'[l] = "over" /\ job'[l] = "gone"
      BY <1>1, <1>2, <1>3, Facts
    <3> QED
      BY <2>1, <3>1 DEF LeaseOK, Alive
  <2>2. CASE k # l
    <3>1. Alive(k) => owner[k].task # u /\ owner[k] \in Owner /\ tstate[owner[k].task] \notin {"absent", "queued"}
      BY <1>1, <2>2, Facts DEF Alive, LeaseOK
    <3>2. call'[k] = call[k]
      BY <1>2, <2>2, Facts
    <3>3. Alive(k) /\ Entered(k) => k \in bound' /\ owner[k].task \in load'[owner[k].worker]
      BY <1>2, <2>2, <3>1, Facts DEF Entered, Owner
    <3>4. Alive(k) => /\ tstate'[owner[k].task] = tstate[owner[k].task]
                      /\ tlease'[owner[k].task] = tlease[owner[k].task]
      BY <1>2, <3>1, Facts DEF Owner
    <3> QED
      BY <1>3, <3>1, <3>2, <3>3, <3>4, LeaseKept
  <2> QED
    BY <2>1, <2>2
<1>6. InM' = InM /\ InW' = InW
  BY <1>3 DEF InM, InW
<1>7. ASSUME NEW f \in InM PROVE ReplyOK(f)'
  <2>1. f.kind = "bound" => f.lease \in Lease
    BY MasterFrames, Facts
  <2> QED
    BY <1>1, <1>2, <1>3, <2>1, Facts DEF ReplyOK
<1>8. ASSUME NEW f \in InW PROVE OrderOK(f)'
  <2>1. f.lease \in Lease /\ (f.kind = "assign" => f.lease # l)
    BY <1>1, Facts, WorkerFrames DEF OrderOK
  <2> QED
    BY <1>2, <2>1, Facts DEF OrderOK
<1>9. \A k \in told' : call'[k] = "over" /\ job'[k] # "gone"
  BY <1>1, <1>2, <1>3, Facts DEF Steady, SteadyCore
<1>10. Connected' /\ assigned' \in [Task -> Lease \cup {None}]
  BY <1>2, <1>3, Facts DEF Steady, SteadyCore, Connected
<1> QED
  BY <1>3, <1>4, <1>6, <1>7, <1>8, <1>9, <1>10 DEF Steady, SteadyCore

LEMMA GrantSteady ==
  ASSUME Steady, NEW l \in Lease, Grant(l), told' \in {told, told \cup {l}}, UNCHANGED <<worker, faults>>
  PROVE  SteadyCore'
<1> DEFINE u == owner[l].task
<1>1. call[l] = "bound" /\ job[l] \in {"held", "closing", "ended"} /\ tlease[u] = l /\ u \in Task
  BY Facts DEF Grant, LeaseOK, Owner, Alive
<1>2. /\ tstate' = [tstate EXCEPT ![u] = "ready"] /\ assigned' = [assigned EXCEPT ![u] = l]
      /\ call' = [call EXCEPT ![l] = "over"]
  BY DEF Grant
<1>3. UNCHANGED <<tlease, owner, bound, load, sess, link, toMaster, toWorker, job, verdict, outcome, left>>
  BY DEF Grant, ledger, wire, worker
<1>4. u = owner[l].task
  OBVIOUS
<1> HIDE DEF u
<1>5. ASSUME NEW k \in Lease PROVE LeaseOK(k)'
  <2>1. CASE k = l
    <3>1. /\ call'[l] = "over" /\ tstate'[u] = "ready" /\ tlease'[u] = l /\ owner'[l].task = u
          /\ (Entered(l) => Entered(l)')
      BY <1>1, <1>2, <1>3, <1>4, Facts DEF Entered
    <3>2. LeaseOK(l) /\ Alive(l)
      BY <1>1, Facts DEF Alive
    <3> QED
      BY <1>1, <1>3, <2>1, <3>1, <3>2 DEF LeaseOK
  <2>2. CASE k # l
    <3>1. Alive(k) => /\ owner[k].task # u /\ owner[k].task \in Task
                      /\ tstate[owner[k].task] \notin {"absent", "queued"}
      BY <1>1, <2>2, Facts DEF Alive, LeaseOK, Owner
    <3>2. call'[k] = call[k]
      BY <1>2, <2>2, Facts
    <3>3. Alive(k) => tstate'[owner[k].task] = tstate[owner[k].task]
      BY <1>2, <3>1, Facts
    <3> QED
      BY <1>2, <1>3, <3>1, <3>2, <3>3, LeaseKept DEF Entered
  <2> QED
    BY <2>1, <2>2
<1>7. InM' = InM /\ InW' = InW
  BY <1>3 DEF InM, InW
<1>8. ASSUME NEW f \in InM PROVE ReplyOK(f)'
  <2>1. f.kind = "bound" => f.lease \in Lease
    BY MasterFrames, Facts
  <2> QED
    BY <1>1, <1>2, <1>3, <2>1, Facts DEF ReplyOK
<1>9. ASSUME NEW f \in InW PROVE OrderOK(f)'
  <2>1. f.lease \in Lease /\ (f.kind = "assign" => f.lease # l)
    BY <1>1, Facts, WorkerFrames DEF OrderOK
  <2> QED
    BY <1>2, <2>1, Facts DEF OrderOK
<1>10. \A k \in told' : call'[k] = "over" /\ job'[k] # "gone"
  BY <1>1, <1>2, <1>3, Facts DEF Steady, SteadyCore
<1>11. Connected' /\ assigned' \in [Task -> Lease \cup {None}]
  BY <1>2, <1>3, Facts DEF Steady, SteadyCore, Connected
<1> QED
  BY <1>3, <1>5, <1>7, <1>8, <1>9, <1>10, <1>11 DEF Steady, SteadyCore

LEMMA RegisterSteady ==
  ASSUME Steady, NEW c \in Conn, HandleRegister(c), UNCHANGED <<worker, faults, told>>
  PROVE  SteadyCore'
<1>1. toMaster[c] # <<>> /\ Consume(c) /\ c[1] \in Worker
  BY DEF HandleRegister, Frame, Conn
<1>2. link[c] = "up"
  BY <1>1, Facts DEF Steady, SteadyCore, Connected, TypeInv
<1>3. UNCHANGED <<tstate, tlease, assigned, owner, bound, load, call, link, toWorker,
                  job, verdict, outcome, left, told>>
  BY <1>1 DEF HandleRegister, Consume, ledger, tasks, worker
<1>4. sess' = [sess EXCEPT ![c[1]] = [conn |-> c, online |-> TRUE]]
  BY DEF HandleRegister
<1>5. ASSUME NEW k \in Lease PROVE LeaseOK(k)'
  BY <1>3, LeaseKept, Facts DEF Entered, LeaseOK
<1>7. InM' \subseteq InM /\ InW' = InW
  BY <1>1, ConsumeM, Facts
<1>8. (\A f \in InM' : ReplyOK(f)') /\ (\A f \in InW' : OrderOK(f)')
  BY <1>3, <1>7, Facts DEF ReplyOK, OrderOK
<1>9. Connected'
  <2>1. \A w \in Worker : sess'[w].online => link[sess'[w].conn] = "up"
    BY <1>2, <1>4, Facts DEF Steady, SteadyCore, Connected, TypeInv
  <2>2. \A d \in Conn : link[d] = "free" => toMaster'[d] = <<>>
    BY <1>1, <1>2, Facts DEF Steady, SteadyCore, Connected, TypeInv, Consume
  <2> QED
    BY <1>3, <2>1, <2>2 DEF Steady, SteadyCore, Connected
<1> QED
  BY <1>3, <1>5, <1>8, <1>9 DEF Steady, SteadyCore

\* What HandleBound does to the attempts.
LEMMA BoundMoves ==
  ASSUME Steady, NEW c \in Conn, HandleBound(c)
  PROVE  \A k \in Lease : \/ call'[k] = call[k]
                          \/ /\ call[k] = "waiting" /\ call'[k] = "bound"
                             /\ job[k] \in {"held", "closing", "ended"}
                          \/ call[k] = "waiting" /\ call'[k] = "refused" /\ job[k] = "gone"
<1> DEFINE f == Head(toMaster[c])
           l == f.lease
<1>1. toMaster[c] # <<>> /\ f.kind = "bound"
  BY DEF HandleBound, Frame
<1>2. f \in InM /\ ReplyOK(f) /\ l \in Lease /\ f.ok \in BOOLEAN
  BY <1>1, ReadM, MasterFrames, Facts
<1>3. \/ call' = call
      \/ /\ call[l] = "waiting" /\ job[l] \in IF f.ok THEN {"held", "closing", "ended"} ELSE {"gone"}
         /\ call' = [call EXCEPT ![l] = IF f.ok THEN "bound" ELSE "refused"]
  BY <1>1, <1>2 DEF HandleBound, ReplyOK
<1> HIDE DEF l, f
<1> QED
  BY <1>2, <1>3, Facts

LEMMA BoundSteady ==
  ASSUME Steady, NEW c \in Conn, HandleBound(c), UNCHANGED <<worker, faults, told>>
  PROVE  SteadyCore'
<1>1. toMaster[c] # <<>> /\ Consume(c)
  BY DEF HandleBound, Frame
<1>3. UNCHANGED <<tstate, tlease, assigned, owner, bound, load, sess, link, toWorker,
                  job, verdict, outcome, left, told>>
  BY <1>1 DEF HandleBound, Consume, ledger, tasks, worker
<1>4. \A k \in Lease : \/ call'[k] = call[k]
                       \/ /\ call[k] = "waiting" /\ call'[k] = "bound"
                          /\ job[k] \in {"held", "closing", "ended"}
                       \/ call[k] = "waiting" /\ call'[k] = "refused" /\ job[k] = "gone"
  BY BoundMoves
<1>5. ASSUME NEW k \in Lease PROVE LeaseOK(k)'
  <2>1. CASE call'[k] = call[k]
    BY <1>3, <2>1, LeaseKept, Facts DEF Entered, LeaseOK
  <2>2. CASE call'[k] # call[k]
    <3>1. LeaseOK(k) /\ Alive(k) /\ (Entered(k) => Entered(k)')
      BY <1>3, <1>4, <2>2, Facts DEF Entered, Alive
    <3> QED
      BY <1>3, <1>4, <2>2, <3>1 DEF LeaseOK
  <2> QED
    BY <2>1, <2>2
<1>8. InM' \subseteq InM /\ InW' = InW
  BY <1>1, ConsumeM, Facts
<1>9. ASSUME NEW g \in InM' PROVE ReplyOK(g)'
  <2>1. ReplyOK(g) /\ (g.kind = "bound" => g.lease \in Lease)
    BY <1>8, MasterFrames, Facts
  <2> QED
    BY <1>3, <1>4, <2>1 DEF ReplyOK
<1>10. ASSUME NEW g \in InW', g.kind = "assign" PROVE call'[g.lease] = "waiting"
  BY <1>4, <1>8, <1>10, OrderedIsNew
<1>11. \A k \in told' : call'[k] = "over" /\ job'[k] # "gone"
  BY <1>3, <1>4, Facts DEF Steady, SteadyCore
<1>12. Connected'
  BY <1>1, <1>3, Facts DEF Steady, SteadyCore, Connected, TypeInv, Consume
<1> QED
  BY <1>3, <1>5, <1>9, <1>10, <1>11, <1>12 DEF Steady, SteadyCore, OrderOK

\* What a notice is about: the lease its task relies on.
LEMMA NoticeOfMine ==
  ASSUME Steady, NEW c \in Conn, Frame(c, "completed")
  PROVE  LET f == Head(toMaster[c])
             l == f.lease
             u == f.task
         IN  /\ toMaster[c] # <<>> /\ l \in Lease /\ u \in Task /\ owner[l] = [task |-> u, worker |-> c[1]]
             /\ Alive(l) /\ job[l] = "ended" /\ outcome[l] = f.status /\ f.status \in Terminal
             /\ tlease[u] = l
<1> DEFINE f == Head(toMaster[c])
           l == f.lease
           u == f.task
<1>1. toMaster[c] # <<>> /\ f.kind = "completed"
  BY DEF Frame
<1>2. f \in InM /\ ReplyOK(f) /\ l \in Lease /\ u \in Task /\ f.status \in Terminal
  BY <1>1, ReadM, MasterFrames, Facts
<1>3. owner[l] = [task |-> u, worker |-> c[1]] /\ Done(l, f.status)
  <2>1. f = toMaster[c][1] /\ 1 \in 1..Len(toMaster[c])
    BY <1>1, ReadM, Facts
  <2> QED
    BY <1>1, <2>1, Facts DEF NoticeInv, NoticeOK
<1> HIDE DEF f, l, u
<1>4. job[l] = "ended" /\ outcome[l] = f.status
  BY <1>1, <1>2, <1>3 DEF ReplyOK, Done, l
<1>5. Alive(l)
  BY <1>2, <1>4, Facts DEF LeaseOK, DrawnInv, Alive
<1>6. tlease[u] = l
  BY <1>2, <1>3, <1>5, Facts DEF LeaseOK
<1> QED
  BY <1>1, <1>2, <1>3, <1>4, <1>5, <1>6 DEF f, l, u

LEMMA CompletedSteady ==
  ASSUME Steady, NEW c \in Conn, HandleCompleted(c), UNCHANGED <<worker, faults, told>>
  PROVE  SteadyCore'
<1> DEFINE f == Head(toMaster[c])
           l == f.lease
           u == f.task
<1>1. /\ Consume(c) /\ tstate' = [tstate EXCEPT ![u] = f.status] /\ bound' = bound \ {l}
      /\ load' = [load EXCEPT ![c[1]] = @ \ {u}]
  BY DEF HandleCompleted
<1>2. /\ toMaster[c] # <<>> /\ l \in Lease /\ u \in Task /\ owner[l] = [task |-> u, worker |-> c[1]]
      /\ Alive(l) /\ job[l] = "ended" /\ f.status \in Terminal
  BY NoticeOfMine DEF HandleCompleted
<1>3. UNCHANGED <<tlease, assigned, owner, call, sess, link, toWorker, job, verdict, outcome, left, told>>
  BY <1>1 DEF HandleCompleted, Consume, worker
<1> HIDE DEF f, l, u
<1>4. ASSUME NEW k \in Lease PROVE LeaseOK(k)'
  <2>1. CASE k = l
    <3>1. tstate'[u] \in Terminal /\ owner[l].task = u
      BY <1>1, <1>2, Facts
    <3> QED
      BY <1>2, <1>3, <2>1, <3>1, Facts DEF LeaseOK, Alive, Terminal
  <2>2. CASE k # l
    <3>1. Alive(k) => /\ owner[k].task # u /\ owner[k] \in Owner
                      /\ tstate[owner[k].task] \notin {"absent", "queued"}
      BY <1>2, <2>2, Alone, Facts DEF Alive, LeaseOK
    <3>2. Entered(k) /\ Alive(k) => k \in bound' /\ owner[k].task \in load'[owner[k].worker]
      BY <1>1, <2>2, <3>1, Facts DEF Entered, Owner
    <3>3. Alive(k) => tstate'[owner[k].task] = tstate[owner[k].task]
      BY <1>1, <3>1, Facts DEF Owner
    <3> QED
      BY <1>3, <3>1, <3>2, <3>3, LeaseKept
  <2> QED
    BY <2>1, <2>2
<1>6. InM' \subseteq InM /\ InW' = InW
  BY <1>1, <1>2, ConsumeM, Facts
<1>7. (\A g \in InM' : ReplyOK(g)') /\ (\A g \in InW' : OrderOK(g)')
  BY <1>3, <1>6, Facts DEF ReplyOK, OrderOK
<1>8. Connected'
  BY <1>1, <1>2, <1>3, Facts DEF Steady, SteadyCore, Connected, TypeInv, Consume
<1> QED
  BY <1>3, <1>4, <1>7, <1>8 DEF Steady, SteadyCore
----------------------------------------------------------------------------
(* The workers, as long as connections and workers stand *)

\* A step that changes at most one job.
LEMMA WorkerSteady ==
  ASSUME Steady, NEW l \in Lease, UNCHANGED <<master, faults, told>>,
         \A k \in Lease \ {l} :
           job'[k] = job[k] /\ verdict'[k] = verdict[k] /\ outcome'[k] = outcome[k],
         LeaseOK(l)',
         call[l] = "over" /\ job[l] # "gone" => job'[l] # "gone",
         left' \subseteq left \cup {l}, l \in left' => job'[l] \in {"ended", "gone"},
         InW' \subseteq InW, \A f \in InM' : ReplyOK(f)', Connected'
  PROVE  SteadyCore'
<1>1. UNCHANGED <<tstate, tlease, assigned, owner, bound, load, call, sess, told>>
  BY DEF master, tasks, ledger
<1>2. ASSUME NEW k \in Lease PROVE LeaseOK(k)'
  <2>1. CASE k # l
    <3>1. Entered(k) => k \in bound' /\ owner[k].task \in load'[owner[k].worker]
      BY <1>1 DEF Entered
    <3> QED
      BY <1>1, <2>1, <3>1, LeaseKept, Facts DEF LeaseOK
  <2> QED
    BY <2>1
<1>3. \A k \in left' : k \in Lease /\ job'[k] \in {"ended", "gone"}
  <2>1. \A k \in left : k \in Lease /\ job[k] \in {"ended", "gone"}
    BY DEF Steady, SteadyCore
  <2> QED
    BY <2>1
<1>4. \A f \in InW' : OrderOK(f)'
  BY <1>1, Facts DEF OrderOK
<1>5. \A k \in told' : call'[k] = "over" /\ job'[k] # "gone"
  BY <1>1, Facts DEF Steady, SteadyCore
<1> QED
  BY <1>1, <1>2, <1>3, <1>4, <1>5 DEF Steady, SteadyCore

LEMMA DialSteady ==
  ASSUME Steady, NEW w \in Worker, Dial(w), UNCHANGED <<master, faults, told>>
  PROVE  SteadyCore'
<1>0. PICK hello : hello = [kind |-> "register"]
  OBVIOUS
<1>1. PICK c \in Conn : /\ link[c] = "free" /\ link' = [link EXCEPT ![c] = "up"]
                        /\ toMaster' = [toMaster EXCEPT ![c] = <<hello>>]
  BY <1>0 DEF Dial
<1>2. UNCHANGED <<tstate, tlease, assigned, owner, bound, load, call, sess, toWorker,
                  job, verdict, outcome, left, told>>
  BY DEF Dial, master, worker, tasks, ledger
<1>3. ASSUME NEW k \in Lease PROVE LeaseOK(k)'
  BY <1>2, LeaseKept, Facts DEF Entered, LeaseOK
<1>5. InW' = InW /\ InM' \subseteq InM \cup {hello}
  <2>1. hello \in MasterFrame
    BY <1>0, MadeFrames
  <2>2. toMaster[c] = <<>> /\ Append(<<>>, hello) = <<hello>>
    <3>1. toMaster[c] = <<>>
      BY <1>1 DEF Steady, SteadyCore, Connected
    <3>2. Append(<<>>, hello) = <<hello>>
      OBVIOUS
    <3> QED
      BY <3>1, <3>2
  <2>3. \A d \in Conn : toMaster'[d] \in {toMaster[d], Append(toMaster[d], hello)}
    BY <1>1, <2>2, Facts DEF TypeInv
  <2>4. InM' \subseteq InM \cup {hello}
    BY <2>1, <2>3, SendM, Facts
  <2> QED
    BY <1>2, <2>4 DEF InW
<1>6. ReplyOK(hello)'
  BY <1>0 DEF ReplyOK
<1>7. (\A f \in InM' : ReplyOK(f)') /\ (\A f \in InW' : OrderOK(f)')
  <2>1. \A f \in InM : ReplyOK(f)'
    BY <1>2, Facts DEF ReplyOK
  <2>2. \A f \in InW : OrderOK(f)'
    BY <1>2, Facts DEF OrderOK
  <2> QED
    BY <1>5, <1>6, <2>1, <2>2
<1>8. Connected'
  <2>1. \A d \in Conn : link'[d] # "cut" /\ (link'[d] = "free" => toMaster'[d] = <<>>)
    BY <1>1, Facts DEF Steady, SteadyCore, Connected, TypeInv
  <2>2. ASSUME NEW v \in Worker, sess'[v].online PROVE link'[sess'[v].conn] = "up"
    BY <1>1, <1>2, <2>2, Facts DEF Steady, SteadyCore, Connected, TypeInv, SessInv
  <2> QED
    BY <2>1, <2>2 DEF Connected
<1> QED
  BY <1>2, <1>3, <1>7, <1>8 DEF Steady, SteadyCore

LEMMA AssignSteady ==
  ASSUME Steady, NEW c \in Conn, RecvAssign(c), UNCHANGED <<master, faults, told>>
  PROVE  SteadyCore'
<1>0. PICK l : l = Head(toWorker[c]).lease
  OBVIOUS
<1>1. /\ toWorker[c] # <<>> /\ job' = [job EXCEPT ![l] = "booting"] /\ Head(toWorker[c]).kind = "assign"
      /\ toWorker' = [toWorker EXCEPT ![c] = Tail(@)]
      /\ UNCHANGED <<verdict, outcome, left, link, toMaster>>
  BY <1>0 DEF RecvAssign
<1>2. Head(toWorker[c]) \in InW /\ call[l] = "waiting" /\ job[l] = "none" /\ l \in Lease
  BY <1>0, <1>1, ReadW, OrderedIsNew, Facts
<1>3. UNCHANGED <<tstate, tlease, assigned, owner, bound, load, call, sess>>
  BY DEF master, tasks, ledger
<1>4. LeaseOK(l)'
  <2>1. job'[l] = "booting"
    BY <1>1, <1>2, Facts
  <2>2. LeaseOK(l) /\ (Entered(l) => Entered(l)')
    BY <1>2, <1>3, Facts DEF Entered
  <2> QED
    BY <1>1, <1>2, <1>3, <2>1, <2>2 DEF LeaseOK, Alive
<1>5. ASSUME NEW f \in InM' PROVE ReplyOK(f)'
  <2>1. f \in InM /\ ReplyOK(f) /\ f \in MasterFrame
    BY <1>1, Facts DEF InM
  <2>2. f.kind \in {"bound", "completed"} => f.lease \in Lease
    BY <2>1, MasterFrames
  <2>3. f.kind = "bound" /\ f.lease = l => FALSE
    BY <1>2, <2>1 DEF ReplyOK
  <2>4. f.kind = "completed" /\ f.lease = l => FALSE
    BY <1>2, <2>1 DEF ReplyOK
  <2>5. f.kind \in {"bound", "completed"} => job'[f.lease] = job[f.lease]
    BY <1>1, <2>2, <2>3, <2>4, Facts
  <2> QED
    BY <1>3, <2>1, <2>5 DEF ReplyOK
<1>6. \A k \in Lease \ {l} : job'[k] = job[k] /\ verdict'[k] = verdict[k] /\ outcome'[k] = outcome[k]
  BY <1>1, Facts
<1>7. Connected'
  BY <1>1, <1>3 DEF Steady, SteadyCore, Connected
<1>8. InW' \subseteq InW
  BY <1>1, ConsumeW, Facts
<1>9. l \notin left
  BY <1>2 DEF Steady, SteadyCore
<1> QED
  BY <1>1, <1>2, <1>4, <1>5, <1>6, <1>7, <1>8, <1>9, WorkerSteady

\* What the machine of a lease leaves on its host when the worker is done with it.
LEMMA Leaves == ASSUME NEW l, MayStay(l) PROVE left' \subseteq left \cup {l}
BY DEF MayStay

\* A boot ends, well or not, and the reply is sent.
LEMMA BootSteady ==
  ASSUME Steady, NEW l \in Lease, BootDone(l) \/ BootFailed(l), UNCHANGED <<master, faults, told>>
  PROVE  SteadyCore'
<1>1. PICK ok \in BOOLEAN :
        /\ job' = [job EXCEPT ![l] = IF ok THEN "held" ELSE "gone"]
        /\ ToMaster(via[l], [kind |-> "bound", lease |-> l, ok |-> ok])
        /\ ok => left' = left
        /\ ~ok => MayStay(l)
  <2> DEFINE Ends(ok) == /\ job' = [job EXCEPT ![l] = IF ok THEN "held" ELSE "gone"]
                         /\ ToMaster(via[l], [kind |-> "bound", lease |-> l, ok |-> ok])
                         /\ ok => left' = left
                         /\ ~ok => MayStay(l)
  <2>1. BootDone(l) => Ends(~Known(At(l), jobTask[l]))
    BY DEF BootDone
  <2>2. BootFailed(l) => Ends(FALSE)
    BY DEF BootFailed
  <2>3. (~Known(At(l), jobTask[l])) = TRUE \/ (~Known(At(l), jobTask[l])) = FALSE
    BY DEF Known
  <2> HIDE DEF Ends
  <2>4. Ends(TRUE) \/ Ends(FALSE)
    BY <2>1, <2>2, <2>3
  <2> QED
    BY <2>4 DEF Ends
<1>0. PICK reply : reply = [kind |-> "bound", lease |-> l, ok |-> ok]
  OBVIOUS
<1>2. UNCHANGED <<jobTask, via, verdict, outcome, link, toWorker>> /\ job[l] = "booting"
  BY DEF BootDone, BootFailed
<1>3. UNCHANGED <<tstate, tlease, assigned, owner, bound, load, call, sess>>
  BY DEF master, tasks, ledger
<1>4. call[l] = "waiting" /\ job'[l] = IF ok THEN "held" ELSE "gone"
  BY <1>1, <1>2, Facts DEF LeaseOK, DrawnInv
<1>5. LeaseOK(l)'
  <2>1. LeaseOK(l) /\ (Entered(l) => Entered(l)')
    BY <1>3, Facts DEF Entered
  <2> QED
    BY <1>2, <1>3, <1>4, <2>1 DEF LeaseOK, Alive
<1>6. ReplyOK(reply)'
  <2>1. reply.kind = "bound" /\ reply.lease = l /\ reply.ok = ok
    BY <1>0
  <2> QED
    BY <1>3, <1>4, <2>1 DEF ReplyOK
<1>7. ASSUME NEW f \in InM PROVE ReplyOK(f)'
  <2>1. ReplyOK(f) /\ f \in MasterFrame
    BY Facts
  <2>2. f.kind \in {"bound", "completed"} => f.lease \in Lease /\ f.lease # l
    BY <1>2, <1>4, <2>1, MasterFrames DEF ReplyOK
  <2> QED
    BY <1>1, <1>3, <2>1, <2>2, Facts DEF ReplyOK
<1>8. reply \in MasterFrame /\ InM' \subseteq InM \cup {reply}
  <2>1. reply \in MasterFrame
    BY <1>0, MadeFrames
  <2>2. \A d \in Conn : toMaster'[d] \in {toMaster[d], Append(toMaster[d], reply)}
    BY <1>0, <1>1, Facts DEF ToMaster, TypeInv
  <2> QED
    BY <2>1, <2>2, SendM, Facts
<1>9. \A d \in Conn : link[d] = "free" => toMaster'[d] = <<>>
  BY <1>1, Facts DEF ToMaster, TypeInv, Steady, SteadyCore, Connected
<1>10. Connected'
  BY <1>2, <1>3, <1>9 DEF Steady, SteadyCore, Connected
<1>11. \A k \in Lease \ {l} : job'[k] = job[k] /\ verdict'[k] = verdict[k] /\ outcome'[k] = outcome[k]
  BY <1>1, <1>2, Facts
<1>12. InW' \subseteq InW
  BY <1>2 DEF InW
<1>13. \A f \in InM' : ReplyOK(f)'
  BY <1>6, <1>7, <1>8
<1>14. left' \subseteq left \cup {l} /\ (l \in left' => job'[l] \in {"ended", "gone"})
  <2>1. l \notin left
    BY <1>2 DEF Steady, SteadyCore
  <2> QED
    BY <1>1, <1>4, <2>1, Leaves
<1> QED
  BY <1>4, <1>5, <1>10, <1>11, <1>12, <1>13, <1>14, WorkerSteady

\* A lease is given back: by its client, by the reaper, or because its batch was cancelled.
LEMMA CloseSteady ==
  ASSUME Steady, NEW l \in Lease, NEW v \in {"completed", "failed", "abandoned"},
         job[l] = "held", job' = [job EXCEPT ![l] = "closing"], verdict' = [verdict EXCEPT ![l] = v],
         UNCHANGED <<outcome, left, link, toMaster>>, InW' \subseteq InW, UNCHANGED <<master, faults, told>>
  PROVE  SteadyCore'
<1>2. UNCHANGED <<tstate, tlease, assigned, owner, bound, load, call, sess>>
  BY DEF master, tasks, ledger
<1>3. job'[l] = "closing" /\ verdict'[l] = v /\ v # None
  BY VerdictAssumption, Facts DEF TypeInv
<1>4. LeaseOK(l)'
  <2>1. LeaseOK(l) /\ (Entered(l) => Entered(l)')
    BY <1>2, Facts DEF Entered
  <2> QED
    BY <1>2, <1>3, <2>1 DEF LeaseOK, Alive
<1>5. ASSUME NEW f \in InM' PROVE ReplyOK(f)'
  <2>1. f \in InM /\ ReplyOK(f) /\ f \in MasterFrame
    BY Facts DEF InM
  <2>2. f.kind = "completed" => f.lease \in Lease /\ f.lease # l
    BY <2>1, MasterFrames DEF ReplyOK
  <2>3. f.kind = "bound" => f.lease \in Lease /\ f.ok \in BOOLEAN
    BY <2>1, MasterFrames
  <2> QED
    BY <1>2, <1>3, <2>1, <2>2, <2>3, Facts DEF ReplyOK
<1>6. \A k \in Lease \ {l} : job'[k] = job[k] /\ verdict'[k] = verdict[k] /\ outcome'[k] = outcome[k]
  BY Facts DEF TypeInv
<1>7. Connected'
  BY <1>2 DEF Steady, SteadyCore, Connected
<1>8. l \notin left
  BY DEF Steady, SteadyCore
<1> QED
  BY <1>3, <1>4, <1>5, <1>6, <1>7, <1>8, WorkerSteady

LEMMA CompleteSteady ==
  ASSUME Steady, NEW l \in Lease, NEW v \in {"completed", "failed", "abandoned"}, CompleteLease(l, v),
         UNCHANGED <<master, faults, told>>
  PROVE  SteadyCore'
<1>1. /\ job[l] = "held" /\ job' = [job EXCEPT ![l] = "closing"]
      /\ verdict' = [verdict EXCEPT ![l] = v] /\ UNCHANGED <<outcome, left, link, toMaster, toWorker>>
  BY DEF CompleteLease, wire
<1>2. InW' \subseteq InW
  BY <1>1 DEF InW
<1> QED
  BY <1>1, <1>2, CloseSteady

\* What RecvRelease does.
LEMMA ReleaseMoves ==
  ASSUME Steady, NEW c \in Conn, RecvRelease(c)
  PROVE  /\ InW' \subseteq InW /\ UNCHANGED <<jobTask, outcome, left, link, toMaster>>
         /\ \/ UNCHANGED <<job, verdict>>
            \/ \E l \in Lease : /\ job[l] = "held" /\ job' = [job EXCEPT ![l] = "closing"]
                                /\ verdict' = [verdict EXCEPT ![l] = "abandoned"]
<1>1. toWorker[c] # <<>> /\ toWorker' = [toWorker EXCEPT ![c] = Tail(@)]
  BY DEF RecvRelease
<1>2. Head(toWorker[c]).lease \in Lease
  BY <1>1, ReadW, Facts, WorkerFrames
<1>3. InW' \subseteq InW
  BY <1>1, ConsumeW, Facts
<1> QED
  BY <1>2, <1>3 DEF RecvRelease

LEMMA RecvReleaseSteady ==
  ASSUME Steady, NEW c \in Conn, RecvRelease(c), UNCHANGED <<master, faults, told>>
  PROVE  SteadyCore'
<1>1. InW' \subseteq InW /\ UNCHANGED <<outcome, left, link, toMaster>>
  BY ReleaseMoves
<1>2. CASE UNCHANGED <<job, verdict>>
  <2>1. UNCHANGED <<tstate, tlease, assigned, owner, bound, load, call, sess>>
    BY DEF master, tasks, ledger
  <2>2. ASSUME NEW k \in Lease PROVE LeaseOK(k)'
    BY <1>1, <1>2, <2>1, LeaseKept, Facts DEF Entered, LeaseOK
  <2>3. InM' = InM
    BY <1>1 DEF InM
  <2>4. (\A f \in InM' : ReplyOK(f)') /\ (\A f \in InW' : OrderOK(f)')
    BY <1>1, <1>2, <2>1, <2>3, Facts DEF ReplyOK, OrderOK
  <2> QED
    BY <1>1, <1>2, <2>1, <2>2, <2>4 DEF Steady, SteadyCore, Connected
<1>3. ASSUME NEW l \in Lease, job[l] = "held", job' = [job EXCEPT ![l] = "closing"],
             verdict' = [verdict EXCEPT ![l] = "abandoned"]
      PROVE  SteadyCore'
  BY <1>1, <1>3, CloseSteady
<1> QED
  BY <1>2, <1>3, ReleaseMoves

\* A machine is taken down, or left, and the notice is sent.
LEMMA FinalizeSteady ==
  ASSUME Steady, NEW l \in Lease, Finalize(l), UNCHANGED <<master, faults, told>>
  PROVE  SteadyCore'
<1>0. PICK notice :
        notice = [kind |-> "completed", lease |-> l, task |-> jobTask[l], status |-> outcome'[l]]
  OBVIOUS
<1>1. PICK clean \in BOOLEAN :
        /\ job[l] = "closing" /\ job' = [job EXCEPT ![l] = "ended"]
        /\ outcome' = [outcome EXCEPT ![l] =
                         IF clean /\ verdict[l] = "completed" THEN "completed" ELSE "failed"]
        /\ toMaster' = [c \in Conn |-> IF c \in OpenOf(At(l)) THEN Append(toMaster[c], notice)
                                       ELSE toMaster[c]]
        /\ UNCHANGED <<jobTask, via, verdict, link, toWorker>>
  BY <1>0 DEF Finalize
<1>2. UNCHANGED <<tstate, tlease, assigned, owner, bound, load, call, sess>>
  BY DEF master, tasks, ledger
<1>3. call[l] # "none" /\ job'[l] = "ended" /\ jobTask[l] \in Task
  BY <1>1, Facts DEF DrawnInv, Owner
<1>4. outcome'[l] \in Terminal /\ (outcome'[l] = "completed" => verdict[l] = "completed")
  BY <1>1, Facts DEF TypeInv, Terminal
<1>5. LeaseOK(l)'
  <2>1. LeaseOK(l) /\ verdict'[l] = verdict[l]
    BY <1>1, Facts
  <2> QED
    BY <1>1, <1>2, <1>3, <1>4, <2>1 DEF LeaseOK, Alive
<1>6. notice \in MasterFrame
  BY <1>0, <1>3, <1>4, MadeFrames
<1>7. ReplyOK(notice)'
  BY <1>0, <1>3 DEF ReplyOK
<1>8. InM' \subseteq InM \cup {notice}
  BY <1>1, <1>6, SendM, Facts
<1>9. ASSUME NEW f \in InM PROVE ReplyOK(f)'
  <2>1. ReplyOK(f) /\ f \in MasterFrame
    BY Facts
  <2>2. f.kind \in {"bound", "completed"} => f.lease \in Lease
    BY <2>1, MasterFrames
  <2> QED
    BY <1>1, <1>2, <1>3, <2>1, <2>2, Facts DEF ReplyOK
<1>10. \A k \in Lease \ {l} : job'[k] = job[k] /\ verdict'[k] = verdict[k] /\ outcome'[k] = outcome[k]
  BY <1>1, Facts DEF TypeInv
<1>11. Connected' /\ InW' \subseteq InW
  BY <1>1, <1>2 DEF Steady, SteadyCore, Connected, InW, OpenOf
<1>12. \A f \in InM' : ReplyOK(f)'
  BY <1>7, <1>8, <1>9
<1>13. left' \subseteq left \cup {l}
  BY Leaves DEF Finalize
<1> QED
  BY <1>3, <1>5, <1>10, <1>11, <1>12, <1>13, WorkerSteady
----------------------------------------------------------------------------
(* The invariant of a cluster whose connections and workers stand *)

LEMMA SteadyInit == ASSUME Init PROVE SteadyCore
<1>1. /\ \A l \in Lease : call[l] = "none" /\ job[l] = "none" /\ verdict[l] = None
      /\ \A c \in Conn : link[c] = "free" /\ toMaster[c] = <<>> /\ toWorker[c] = <<>>
      /\ \A w \in Worker : ~sess[w].online
      /\ assigned \in [Task -> Lease \cup {None}] /\ told = {} /\ left = {}
  BY DEF Init, MasterInit, WorkerInit, WireInit
<1>2. InM = {} /\ InW = {}
  BY <1>1 DEF InM, InW
<1>3. \A l \in Lease : LeaseOK(l)
  BY <1>1 DEF LeaseOK, Alive
<1> QED
  BY <1>1, <1>2, <1>3 DEF SteadyCore, Connected

\* What may happen while connections and workers stand and every boot is awaited.
LEMMA SteadyMoves ==
  ASSUME Awaited, Steady, [Next]_vars, ~FaultStep
  PROVE  \/ UNCHANGED vars
         \/ /\ \/ \E b \in Batch : Submit(b) \/ Cancel(b)
               \/ \E l \in Lease : SendRelease(l)
               \/ PlaceNone
               \/ \E t \in Task, w \in Worker, l \in Lease : PlaceOn(t, w, l)
               \/ \E l \in Lease : GiveBack(l)
               \/ \E c \in Conn : HandleRegister(c) \/ HandleBound(c) \/ HandleCompleted(c)
            /\ UNCHANGED <<worker, faults, told>>
         \/ \E l \in Lease : /\ Grant(l) /\ told' = IF verdict[l] = None THEN told \cup {l} ELSE told
                             /\ UNCHANGED <<worker, faults>>
         \/ /\ \/ \E w \in Worker : Dial(w)
               \/ \E c \in Conn : RecvAssign(c) \/ RecvRelease(c)
               \/ \E l \in Lease : BootDone(l) \/ BootFailed(l) \/ Finalize(l)
               \/ \E l \in Lease, v \in {"completed", "failed", "abandoned"} : CompleteLease(l, v)
            /\ UNCHANGED <<master, faults, told>>
<1>1. \A c \in Conn : link[c] # "cut"
  BY DEF Steady, SteadyCore, Connected
<1>2. ASSUME NEW c \in Conn, EndUnregistered(c) \/ Disconnected(c) PROVE FALSE
  BY <1>1, <1>2 DEF EndUnregistered, Disconnected
<1>3. CASE MasterStep
  BY <1>2, <1>3 DEF MasterStep, Scheduled, Awaited
<1>4. CASE GrantStep
  BY <1>4 DEF GrantStep
<1>5. told \subseteq Lease /\ ClientVerdict \subseteq {"completed", "failed", "abandoned"}
  BY Facts, VerdictAssumption
<1>6. CASE WorkerStep
  BY <1>5, <1>6 DEF WorkerStep
<1> QED
  BY <1>3, <1>4, <1>6 DEF Next

LEMMA SteadyStep == ASSUME Awaited, Steady, [Next]_vars, ~FaultStep PROVE SteadyCore'
<1>1. ASSUME UNCHANGED <<tstate, tlease, assigned, owner, bound, load, call, sess, link, toMaster,
                         toWorker, worker, told>>
      PROVE  SteadyCore'
  <2>1. InW' = InW /\ {} \in SUBSET Task /\ \A t \in Task \ {} : tstate'[t] = tstate[t]
    BY <1>1 DEF InW
  <2> QED
    BY <1>1, <2>1, TasksSteady DEF worker
<1>2. CASE UNCHANGED vars
  BY <1>1, <1>2 DEF vars, master, tasks, ledger, wire
<1>3. ASSUME PlaceNone, UNCHANGED <<worker, faults, told>> PROVE SteadyCore'
  BY <1>1, <1>3 DEF PlaceNone, tasks, ledger, wire
<1>4. ASSUME NEW l \in Lease, Grant(l), told' = (IF verdict[l] = None THEN told \cup {l} ELSE told),
             UNCHANGED <<worker, faults>>
      PROVE  SteadyCore'
  BY <1>4, GrantSteady
<1> QED
  BY SteadyMoves, <1>2, <1>3, <1>4, SubmitSteady, CancelSteady, ReleaseSteady, PlaceSteady, GiveBackSteady,
     RegisterSteady, BoundSteady, CompletedSteady, DialSteady, AssignSteady, BootSteady, FinalizeSteady,
     CompleteSteady, RecvReleaseSteady

\* Faults are counted.
LEMMA FaultsCount ==
  ASSUME [Next]_vars, faults \in Nat
  PROVE  faults' \in Nat /\ (faults' = 0 => faults = 0 /\ ~FaultStep)
<1>1. FaultStep => faults' = faults + 1
  BY DEF FaultStep
<1>2. ~FaultStep => faults' = faults
  BY DEF Next, MasterStep, GrantStep, WorkerStep, vars
<1> QED
  BY <1>1, <1>2

LEMMA SteadyKept == ASSUME Awaited, SteadyInv, [Next]_vars PROVE SteadyInv'
<1>1. Bookkeeping' /\ faults' \in Nat /\ (faults' = 0 => faults = 0 /\ ~FaultStep)
  BY BookkeepingStep, FaultsCount DEF SteadyInv
<1>2. ASSUME faults' = 0 PROVE SteadyCore'
  BY <1>1, <1>2, SteadyStep DEF SteadyInv, Steady
<1> QED
  BY <1>1, <1>2 DEF SteadyInv

LEMMA SteadyInvariant == ASSUME Awaited PROVE Spec => []SteadyInv
<1>1. Init => SteadyInv
  BY SteadyInit, TypeInit, InitInv DEF SteadyInv, Bookkeeping, Init
<1> QED
  BY <1>1, SteadyKept, PTL DEF Spec
----------------------------------------------------------------------------
(* Ledger and machines *)

\* As long as no connection broke and no worker restarted, what a worker is at work with
\* is in the ledger of that worker, from the first moment of the boot to the end of the
\* teardown, whatever was cancelled or expired.  Only a machine that was left behind is not.
THEOREM LedgerAlwaysCovers == ASSUME Awaited PROVE Spec => []LedgerCoversMachines
<1>1. ASSUME SteadyInv PROVE LedgerCoversMachines
  <2> SUFFICES ASSUME faults = 0, NEW w \in Worker, NEW l \in Running(w) \ left
               PROVE  jobTask[l] \in load[w]
    BY DEF LedgerCoversMachines
  <2>0. Steady
    BY <1>1 DEF SteadyInv, Steady
  <2>1. l \in Lease /\ job[l] \in {"booting", "held", "closing"} /\ At(l) = w
    BY DEF Running
  <2>2. owner[l] = [task |-> jobTask[l], worker |-> w] /\ call[l] # "none"
    BY <2>0, <2>1, Facts DEF DrawnInv
  <2>3. Entered(l)
    BY <2>0, <2>1, <2>2, Facts DEF LeaseOK, Alive
  <2> QED
    BY <2>2, <2>3 DEF Entered
<1> QED
  BY <1>1, SteadyInvariant, PTL
----------------------------------------------------------------------------
(* What a READY task has, as long as it is calm *)

\* A task that is READY has a lease whose machine was bound and not lost.
Backed(t) ==
    LET l == tlease[t] IN
    /\ l \in Lease /\ call[l] = "over" /\ owner[l].task = t /\ job[l] # "gone"

TaskOK(t) ==
    /\ assigned[t] # None => call[assigned[t]] = "over" /\ owner[assigned[t]].task = t
    /\ tstate[t] = "ready" => Backed(t)
    /\ tstate[t] \in {"absent", "queued", "starting"} => assigned[t] = None

\* Until its attempt is over the task of a lease is STARTING; then its client is told of
\* the lease, which is in the ledger until the notice of its end has arrived.
GrantedOK(l) ==
    LET t == owner[l].task IN
    /\ call[l] \in {"waiting", "bound", "refused"} => tstate[t] = "starting"
    /\ call[l] = "over" /\ job[l] # "gone" =>
         /\ assigned[t] = l
         /\ \/ tstate[t] = "ready" /\ Entered(l)
            \/ tstate[t] = outcome[l] /\ job[l] = "ended"

CalmCore == (\A l \in Lease : GrantedOK(l)) /\ \A t \in Task : TaskOK(t)

Quiet == Steady /\ CalmCore /\ Calm

\* The inductive invariant.
CalmInv == SteadyInv /\ (Calm => CalmCore)

\* A lease that was given back was granted before.
LEMMA GivenBackLate ==
  ASSUME Quiet, NEW l \in Lease
  PROVE  /\ job[l] \in {"closing", "ended"} => call[l] = "over"
         /\ call[l] = "bound" => job[l] = "held" /\ verdict[l] = None
<1>1. job[l] \in {"closing", "ended"} => call[l] = "over"
  <2>1. job[l] \in {"closing", "ended"} => verdict[l] # None
    BY Facts DEF Quiet, LeaseOK
  <2> QED
    BY <2>1 DEF Quiet, Calm, Steady, SteadyCore
<1>2. call[l] = "bound" => job[l] \in {"held", "closing", "ended"}
  BY Facts DEF Quiet, LeaseOK
<1> QED
  BY <1>1, <1>2, Facts DEF Quiet, LeaseOK

LEMMA GrantedKept ==
  ASSUME Quiet, NEW k \in Lease,
         call'[k] = call[k], job'[k] = job[k], outcome'[k] = outcome[k],
         call[k] # "none" => owner'[k] = owner[k],
         Alive(k) => /\ tstate'[owner[k].task] = tstate[owner[k].task]
                     /\ assigned'[owner[k].task] = assigned[owner[k].task]
                     /\ Entered(k) => k \in bound' /\ owner[k].task \in load'[owner[k].worker]
  PROVE  GrantedOK(k)'
<1>1. GrantedOK(k)
  BY DEF Quiet, CalmCore
<1>2. CASE call[k] = "none"
  BY <1>2 DEF GrantedOK
<1>3. CASE call[k] # "none" /\ ~Alive(k)
  BY <1>3 DEF GrantedOK, Alive
<1>4. CASE call[k] # "none" /\ Alive(k)
  <2>1. owner'[k] = owner[k] /\ (Entered(k) => Entered(k)')
    BY <1>4 DEF Entered
  <2> QED
    BY <1>1, <1>4, <2>1 DEF GrantedOK
<1> QED
  BY <1>2, <1>3, <1>4

LEMMA TaskKept ==
  ASSUME Quiet, NEW t \in Task,
         tstate'[t] = tstate[t], tlease'[t] = tlease[t], assigned'[t] = assigned[t],
         \A l \in Lease : call[l] = "over" => call'[l] = "over" /\ owner'[l] = owner[l],
         \A l \in Lease : call[l] = "over" /\ job[l] # "gone" => job'[l] # "gone"
  PROVE  TaskOK(t)'
<1>1. TaskOK(t) /\ assigned[t] \in Lease \cup {None}
  BY Facts DEF Quiet, CalmCore
<1>2. assigned[t] # None =>
        assigned[t] \in Lease /\ call'[assigned[t]] = "over" /\ owner'[assigned[t]].task = t
  BY <1>1 DEF TaskOK
<1>3. Backed(t) => Backed(t)'
  BY DEF Backed
<1> QED
  BY <1>1, <1>2, <1>3 DEF TaskOK
----------------------------------------------------------------------------
(* The master, as long as it is calm *)

\* A step that moves tasks that have no lease, and no lease.
LEMMA TasksCalm ==
  ASSUME Quiet, UNCHANGED <<tlease, assigned, owner, bound, load, call, job, outcome>>,
         NEW S \in SUBSET Task,
         \A t \in S : tstate[t] \in {"absent", "queued"} /\ tstate'[t] \in {"queued", "failed"},
         \A t \in Task \ S : tstate'[t] = tstate[t]
  PROVE  CalmCore'
<1>1. ASSUME NEW l \in Lease PROVE GrantedOK(l)'
  <2>1. Alive(l) => owner[l].task \in Task \ S
    <3>1. Alive(l) => /\ owner[l].task \in Task
                      /\ tstate[owner[l].task] \notin {"absent", "queued"}
      BY Facts DEF Quiet, Alive, LeaseOK, Owner
    <3> QED
      BY <3>1
  <2> QED
    BY <2>1, GrantedKept DEF Entered
<1>2. ASSUME NEW t \in Task PROVE TaskOK(t)'
  <2>1. CASE t \in S
    <3>1. assigned[t] = None
      BY <2>1 DEF Quiet, CalmCore, TaskOK
    <3> QED
      BY <2>1, <3>1 DEF TaskOK
  <2>2. CASE t \notin S
    BY <2>2, TaskKept
  <2> QED
    BY <2>1, <2>2
<1> QED
  BY <1>1, <1>2 DEF CalmCore

LEMMA IdleCalm ==
  ASSUME Quiet, UNCHANGED <<tstate, tlease, assigned, owner, bound, load, call, job, outcome>>
  PROVE  CalmCore'
<1>1. {} \in SUBSET Task /\ \A t \in Task \ {} : tstate'[t] = tstate[t]
  OBVIOUS
<1> QED
  BY <1>1, TasksCalm

LEMMA SubmitCalm ==
  ASSUME Quiet, NEW b \in Batch, Submit(b), UNCHANGED worker
  PROVE  CalmCore'
<1>1. PICK S \in SUBSET Task :
        /\ \A t \in S : tstate[t] = "absent" /\ tstate'[t] \in {"queued", "failed"}
        /\ \A t \in Task \ S : tstate'[t] = tstate[t]
  BY SubmitMoves, Facts DEF Quiet
<1>2. UNCHANGED <<tlease, assigned, owner, bound, load, call, job, outcome>>
  BY DEF Submit, ledger, worker
<1> QED
  BY <1>1, <1>2, TasksCalm

LEMMA CancelCalm ==
  ASSUME Quiet, NEW b \in Batch, Cancel(b), UNCHANGED worker
  PROVE  CalmCore'
<1> DEFINE S == {t \in Task : t \in Members(b) /\ tstate[t] = "queued"}
<1>1. tstate' = [t \in Task |-> IF t \in Members(b) /\ tstate[t] = "queued" THEN "failed" ELSE tstate[t]]
  BY DEF Cancel
<1>2. UNCHANGED <<tlease, assigned, owner, bound, load, call, job, outcome>>
  BY DEF Cancel, ledger, worker
<1>3. \A t \in S : tstate[t] \in {"absent", "queued"} /\ tstate'[t] \in {"queued", "failed"}
  BY <1>1
<1>4. \A t \in Task \ S : tstate'[t] = tstate[t]
  BY <1>1
<1>5. S \in SUBSET Task
  OBVIOUS
<1> HIDE DEF S
<1> QED
  BY <1>2, <1>3, <1>4, <1>5, TasksCalm

LEMMA PlaceCalm ==
  ASSUME Quiet, NEW u \in Task, NEW w \in Worker, NEW l \in Lease, PlaceOn(u, w, l), sess' = sess,
         UNCHANGED worker
  PROVE  CalmCore'
<1>1. /\ tstate[u] = "queued" /\ call[l] = "none"
      /\ tstate' = [tstate EXCEPT ![u] = "starting"] /\ tlease' = [tlease EXCEPT ![u] = l]
      /\ owner' = [owner EXCEPT ![l] = [task |-> u, worker |-> w]]
      /\ bound' = bound \cup {l} /\ load' = [load EXCEPT ![w] = @ \cup {u}]
      /\ call' = [call EXCEPT ![l] = "waiting"]
  BY DEF PlaceOn, Drawn
<1>2. UNCHANGED <<assigned, job, outcome>>
  BY DEF PlaceOn, worker
<1>3. ASSUME NEW k \in Lease PROVE GrantedOK(k)'
  <2>1. CASE k = l
    <3>1. owner'[l] = [task |-> u, worker |-> w] /\ call'[l] = "waiting" /\ tstate'[u] = "starting"
      BY <1>1, Facts DEF Quiet
    <3> QED
      BY <2>1, <3>1 DEF GrantedOK
  <2>2. CASE k # l
    <3>1. Alive(k) => owner[k].task # u /\ owner[k] \in Owner
      BY <1>1, Facts DEF Quiet, Alive, LeaseOK
    <3>2. call'[k] = call[k] /\ owner'[k] = owner[k]
      BY <1>1, <2>2, Facts DEF Quiet
    <3>3. Entered(k) => k \in bound' /\ (owner[k] \in Owner => owner[k].task \in load'[owner[k].worker])
      BY <1>1, Facts DEF Quiet, Entered, Owner
    <3>4. Alive(k) => tstate'[owner[k].task] = tstate[owner[k].task]
      BY <1>1, <3>1, Facts DEF Quiet, Owner
    <3> QED
      BY <1>2, <3>1, <3>2, <3>3, <3>4, GrantedKept
  <2> QED
    BY <2>1, <2>2
<1>4. ASSUME NEW t \in Task PROVE TaskOK(t)'
  <2>1. CASE t = u
    <3>1. assigned[u] = None /\ tstate'[u] = "starting"
      BY <1>1, Facts DEF Quiet, CalmCore, TaskOK
    <3> QED
      BY <1>2, <2>1, <3>1 DEF TaskOK
  <2>2. CASE t # u
    <3>1. /\ \A k \in Lease : call[k] = "over" => call'[k] = "over" /\ owner'[k] = owner[k]
          /\ tstate'[t] = tstate[t] /\ tlease'[t] = tlease[t]
      BY <1>1, <2>2, Facts DEF Quiet
    <3> QED
      BY <1>2, <3>1, TaskKept
  <2> QED
    BY <2>1, <2>2
<1> QED
  BY <1>3, <1>4 DEF CalmCore

LEMMA GiveBackCalm ==
  ASSUME Quiet, NEW l \in Lease, GiveBack(l), UNCHANGED worker
  PROVE  CalmCore'
<1> DEFINE u == owner[l].task
           w == owner[l].worker
<1>1. call[l] = "refused" /\ job[l] = "gone" /\ u \in Task /\ w \in Worker
  BY Facts DEF Quiet, GiveBack, LeaseOK, Owner
<1>2. /\ tstate' = [tstate EXCEPT ![u] = "queued"] /\ tlease' = [tlease EXCEPT ![u] = None]
      /\ assigned' = [assigned EXCEPT ![u] = None]
      /\ bound' = bound \ {l} /\ load' = [load EXCEPT ![w] = @ \ {u}]
      /\ call' = [call EXCEPT ![l] = "over"]
  BY DEF GiveBack, Revert
<1>3. UNCHANGED <<owner, job, outcome>>
  BY DEF GiveBack, worker
<1>4. u = owner[l].task /\ Alive(l)
  BY <1>1 DEF Alive
<1> HIDE DEF u, w
<1>5. ASSUME NEW k \in Lease PROVE GrantedOK(k)'
  <2>1. CASE k = l
    <3>1. call'[l] = "over" /\ job'[l] = "gone"
      BY <1>1, <1>2, <1>3, Facts DEF Quiet
    <3> QED
      BY <2>1, <3>1 DEF GrantedOK
  <2>2. CASE k # l
    <3>1. Alive(k) => owner[k].task # u /\ owner[k] \in Owner
      BY <1>4, <2>2, Alone, Facts DEF Quiet, Alive
    <3>2. call'[k] = call[k]
      BY <1>2, <2>2, Facts DEF Quiet
    <3>3. Alive(k) /\ Entered(k) => k \in bound' /\ owner[k].task \in load'[owner[k].worker]
      BY <1>2, <2>2, <3>1, Facts DEF Quiet, Entered, Owner
    <3>4. Alive(k) => /\ tstate'[owner[k].task] = tstate[owner[k].task]
                      /\ assigned'[owner[k].task] = assigned[owner[k].task]
      BY <1>2, <3>1, Facts DEF Quiet, Owner
    <3> QED
      BY <1>3, <3>1, <3>2, <3>3, <3>4, GrantedKept
  <2> QED
    BY <2>1, <2>2
<1>6. ASSUME NEW t \in Task PROVE TaskOK(t)'
  <2>1. CASE t = u
    BY <1>1, <1>2, <2>1, Facts DEF Quiet, TaskOK
  <2>2. CASE t # u
    <3>1. /\ \A k \in Lease : call[k] = "over" => call'[k] = "over" /\ owner'[k] = owner[k]
          /\ tstate'[t] = tstate[t] /\ tlease'[t] = tlease[t] /\ assigned'[t] = assigned[t]
      BY <1>2, <1>3, <2>2, Facts DEF Quiet
    <3> QED
      BY <1>3, <3>1, TaskKept
  <2> QED
    BY <2>1, <2>2
<1> QED
  BY <1>5, <1>6 DEF CalmCore

LEMMA GrantCalm ==
  ASSUME Quiet, NEW l \in Lease, Grant(l), UNCHANGED worker
  PROVE  CalmCore'
<1> DEFINE u == owner[l].task
<1>1. call[l] = "bound" /\ job[l] = "held" /\ tlease[u] = l /\ Entered(l) /\ u \in Task /\ Alive(l)
  BY Facts, GivenBackLate DEF Quiet, Grant, LeaseOK, Owner, Alive
<1>2. /\ tstate' = [tstate EXCEPT ![u] = "ready"] /\ assigned' = [assigned EXCEPT ![u] = l]
      /\ call' = [call EXCEPT ![l] = "over"]
  BY DEF Grant
<1>3. UNCHANGED <<tlease, owner, bound, load, job, outcome>>
  BY DEF Grant, ledger, worker
<1>4. u = owner[l].task
  OBVIOUS
<1> HIDE DEF u
<1>5. ASSUME NEW k \in Lease PROVE GrantedOK(k)'
  <2>1. CASE k = l
    <3>1. /\ call'[l] = "over" /\ tstate'[u] = "ready" /\ assigned'[u] = l
          /\ Entered(l)' /\ owner'[l].task = u
      BY <1>1, <1>2, <1>3, <1>4, Facts DEF Quiet, Entered
    <3> QED
      BY <2>1, <3>1 DEF GrantedOK
  <2>2. CASE k # l
    <3>1. Alive(k) => owner[k].task # u /\ owner[k].task \in Task
      BY <1>1, <1>4, <2>2, Alone, Facts DEF Quiet, Alive, Owner
    <3>2. call'[k] = call[k]
      BY <1>2, <2>2, Facts DEF Quiet
    <3>3. Alive(k) => /\ tstate'[owner[k].task] = tstate[owner[k].task]
                      /\ assigned'[owner[k].task] = assigned[owner[k].task]
      BY <1>2, <3>1, Facts DEF Quiet
    <3> QED
      BY <1>3, <3>2, <3>3, GrantedKept DEF Entered
  <2> QED
    BY <2>1, <2>2
<1>6. ASSUME NEW t \in Task PROVE TaskOK(t)'
  <2>1. CASE t = u
    BY <1>1, <1>2, <1>3, <1>4, <2>1, Facts DEF Quiet, TaskOK, Backed
  <2>2. CASE t # u
    <3>1. /\ \A k \in Lease : call[k] = "over" => call'[k] = "over" /\ owner'[k] = owner[k]
          /\ tstate'[t] = tstate[t] /\ tlease'[t] = tlease[t] /\ assigned'[t] = assigned[t]
      BY <1>2, <1>3, <2>2, Facts DEF Quiet
    <3> QED
      BY <1>3, <3>1, TaskKept
  <2> QED
    BY <2>1, <2>2
<1> QED
  BY <1>5, <1>6 DEF CalmCore

LEMMA BoundCalm ==
  ASSUME Quiet, NEW c \in Conn, HandleBound(c), UNCHANGED worker
  PROVE  CalmCore'
<1>1. UNCHANGED <<tstate, tlease, assigned, owner, bound, load, job, outcome>>
  BY DEF HandleBound, ledger, tasks, worker
<1>2. \A k \in Lease : \/ call'[k] = call[k]
                       \/ call[k] = "waiting" /\ call'[k] \in {"bound", "refused"}
  BY BoundMoves DEF Quiet
<1>3. ASSUME NEW k \in Lease PROVE GrantedOK(k)'
  <2>1. GrantedOK(k)
    BY DEF Quiet, CalmCore
  <2> QED
    BY <1>1, <1>2, <2>1 DEF GrantedOK, Entered
<1>4. ASSUME NEW t \in Task PROVE TaskOK(t)'
  BY <1>1, <1>2, TaskKept
<1> QED
  BY <1>3, <1>4 DEF CalmCore

\* The task of a notice is READY with that lease, or knows of the end already.
LEMMA NoticeOfReady ==
  ASSUME Quiet, NEW c \in Conn, Frame(c, "completed")
  PROVE  LET f == Head(toMaster[c]) IN
         /\ call[f.lease] = "over" /\ assigned[f.task] = f.lease /\ tstate[f.task] \in {"ready", f.status}
<1> DEFINE f == Head(toMaster[c])
           l == f.lease
           u == f.task
<1>1. /\ l \in Lease /\ owner[l] = [task |-> u, worker |-> c[1]]
      /\ job[l] = "ended" /\ outcome[l] = f.status
  BY NoticeOfMine DEF Quiet
<1> HIDE DEF f, l, u
<1>2. owner[l].task = u
  BY <1>1
<1>3. call[l] = "over" /\ GrantedOK(l)
  BY <1>1, GivenBackLate DEF Quiet, CalmCore
<1> QED
  BY <1>1, <1>2, <1>3 DEF GrantedOK, f, l, u

LEMMA CompletedCalm ==
  ASSUME Quiet, NEW c \in Conn, HandleCompleted(c), UNCHANGED worker
  PROVE  CalmCore'
<1> DEFINE f == Head(toMaster[c])
           l == f.lease
           u == f.task
<1>1. /\ tstate' = [tstate EXCEPT ![u] = f.status] /\ bound' = bound \ {l}
      /\ load' = [load EXCEPT ![c[1]] = @ \ {u}]
  BY DEF HandleCompleted
<1>2. /\ l \in Lease /\ u \in Task /\ owner[l] = [task |-> u, worker |-> c[1]]
      /\ Alive(l) /\ job[l] = "ended" /\ outcome[l] = f.status /\ f.status \in Terminal
  BY NoticeOfMine DEF Quiet, HandleCompleted
<1>3. call[l] = "over" /\ assigned[u] = l
  BY NoticeOfReady DEF HandleCompleted
<1>4. UNCHANGED <<tlease, assigned, owner, call, job, outcome>>
  BY DEF HandleCompleted, worker
<1> HIDE DEF f, l, u
<1>5. ASSUME NEW k \in Lease PROVE GrantedOK(k)'
  <2>1. CASE k = l
    <3>1. tstate'[u] = outcome[l] /\ owner[l].task = u
      BY <1>1, <1>2, Facts DEF Quiet
    <3> QED
      BY <1>2, <1>3, <1>4, <2>1, <3>1 DEF GrantedOK
  <2>2. CASE k # l
    <3>1. Alive(k) => owner[k].task # u /\ owner[k] \in Owner
      BY <1>2, <2>2, Alone, Facts DEF Quiet, Alive
    <3>2. Entered(k) /\ Alive(k) => k \in bound' /\ owner[k].task \in load'[owner[k].worker]
      BY <1>1, <2>2, <3>1, Facts DEF Quiet, Entered, Owner
    <3>3. Alive(k) => tstate'[owner[k].task] = tstate[owner[k].task]
      BY <1>1, <3>1, Facts DEF Quiet, Owner
    <3> QED
      BY <1>4, <3>2, <3>3, GrantedKept
  <2> QED
    BY <2>1, <2>2
<1>6. ASSUME NEW t \in Task PROVE TaskOK(t)'
  <2>1. CASE t = u
    <3>1. tstate'[u] \in Terminal
      BY <1>1, <1>2, Facts DEF Quiet
    <3> QED
      BY <1>2, <1>3, <1>4, <2>1, <3>1 DEF TaskOK, Terminal
  <2>2. CASE t # u
    <3>1. tstate'[t] = tstate[t]
      BY <1>1, <2>2, Facts DEF Quiet
    <3> QED
      BY <1>4, <3>1, TaskKept
  <2> QED
    BY <2>1, <2>2
<1> QED
  BY <1>5, <1>6 DEF CalmCore
----------------------------------------------------------------------------
(* The workers, as long as it is calm *)

\* What a step may do to one job.
JobStep(k) ==
    \/ job'[k] = job[k] /\ verdict'[k] = verdict[k] /\ outcome'[k] = outcome[k]
    \/ /\ job[k] \in {"none", "booting"} /\ job'[k] # "none"
       /\ verdict'[k] = verdict[k] /\ outcome'[k] = outcome[k]
    \/ /\ job[k] = "held" /\ job'[k] = "closing"
       /\ verdict[k] = None /\ verdict'[k] # None /\ outcome'[k] = outcome[k]
    \/ job[k] = "closing" /\ job'[k] = "ended" /\ verdict'[k] = verdict[k]

LEMMA JobSteps ==
  ASSUME Awaited, Steady, [Next]_vars, ~FaultStep
  PROVE  \A k \in Lease : JobStep(k)
<1>0. /\ job \in [Lease -> JobState] /\ verdict \in [Lease -> {"completed", "failed", "abandoned", None}]
      /\ outcome \in [Lease -> {"completed", "failed", None}]
  BY Facts DEF TypeInv
<1>1. ASSUME UNCHANGED worker PROVE \A k \in Lease : JobStep(k)
  BY <1>1 DEF worker, JobStep
<1>2. ASSUME NEW c \in Conn, RecvAssign(c) PROVE \A k \in Lease : JobStep(k)
  <2>1. PICK l : l = Head(toWorker[c]).lease
    OBVIOUS
  <2>2. /\ toWorker[c] # <<>> /\ Head(toWorker[c]).kind = "assign"
        /\ job' = [job EXCEPT ![l] = "booting"] /\ UNCHANGED <<verdict, outcome>>
    BY <1>2, <2>1 DEF RecvAssign
  <2>3. job[l] = "none"
    BY <2>1, <2>2, ReadW, OrderedIsNew, Facts
  <2> QED
    BY <1>0, <2>2, <2>3 DEF JobStep
<1>3. ASSUME NEW l \in Lease, NEW v \in {"completed", "failed", "abandoned"}, job[l] = "held",
             job' = [job EXCEPT ![l] = "closing"], verdict' = [verdict EXCEPT ![l] = v], UNCHANGED outcome
      PROVE  \A k \in Lease : JobStep(k)
  <2>1. verdict[l] = None /\ v # None
    BY <1>3, VerdictAssumption, Facts DEF LeaseOK
  <2> QED
    BY <1>0, <1>3, <2>1 DEF JobStep
<1>4. ASSUME NEW c \in Conn, RecvRelease(c) PROVE \A k \in Lease : JobStep(k)
  <2>1. UNCHANGED outcome /\ (UNCHANGED <<job, verdict>> => \A k \in Lease : JobStep(k))
    BY <1>4, ReleaseMoves DEF JobStep
  <2> QED
    BY <1>3, <1>4, <2>1, ReleaseMoves
<1>5. ASSUME NEW l \in Lease, BootDone(l) \/ BootFailed(l) PROVE \A k \in Lease : JobStep(k)
  <2>1. PICK s \in {"held", "gone"} : job' = [job EXCEPT ![l] = s]
    BY <1>5 DEF BootDone, BootFailed
  <2>2. job[l] = "booting" /\ UNCHANGED <<verdict, outcome>>
    BY <1>5 DEF BootDone, BootFailed
  <2> QED
    BY <1>0, <2>1, <2>2 DEF JobStep
<1>6. ASSUME NEW l \in Lease, Finalize(l) PROVE \A k \in Lease : JobStep(k)
  BY <1>0, <1>6 DEF Finalize, JobStep
<1>7. ASSUME NEW l \in Lease, NEW v \in {"completed", "failed", "abandoned"}, CompleteLease(l, v)
      PROVE  \A k \in Lease : JobStep(k)
  BY <1>3, <1>7 DEF CompleteLease
<1>8. ASSUME NEW w \in Worker, Dial(w) PROVE UNCHANGED worker
  BY <1>8 DEF Dial
<1>9. UNCHANGED vars => UNCHANGED worker
  BY DEF vars
<1> QED
  BY SteadyMoves, <1>1, <1>2, <1>4, <1>5, <1>6, <1>7, <1>8, <1>9

LEMMA JobsCalm ==
  ASSUME Quiet, UNCHANGED master, \A k \in Lease : JobStep(k)
  PROVE  CalmCore'
<1>1. UNCHANGED <<tstate, tlease, assigned, owner, bound, load, call>>
  BY DEF master, tasks, ledger
<1>2. ASSUME NEW k \in Lease, call[k] = "over"
      PROVE  /\ job'[k] # "gone" <=> job[k] # "gone"
             /\ job[k] = "ended" => job'[k] = "ended" /\ outcome'[k] = outcome[k]
  <2>1. job[k] \in {"held", "closing", "ended", "gone"}
    BY <1>2, Facts DEF Quiet, LeaseOK
  <2> QED
    BY <2>1 DEF JobStep
<1>3. ASSUME NEW k \in Lease PROVE GrantedOK(k)'
  <2>1. GrantedOK(k) /\ (Entered(k) => Entered(k)')
    BY <1>1 DEF Quiet, CalmCore, Entered
  <2> QED
    BY <1>1, <1>2, <2>1 DEF GrantedOK
<1>4. ASSUME NEW t \in Task PROVE TaskOK(t)'
  BY <1>1, <1>2, TaskKept
<1> QED
  BY <1>3, <1>4 DEF CalmCore
----------------------------------------------------------------------------
(* The invariant, as long as it is calm *)

\* It was calm before: what was given back stays given back, and a client that was not
\* told of a lease then is never told of it.
LEMMA CalmBefore ==
  ASSUME Awaited, Steady, faults = 0, [Next]_vars, ~FaultStep, Calm'
  PROVE  Calm
<1> SUFFICES ASSUME NEW l \in Lease, verdict[l] # None PROVE l \in told
  BY DEF Calm
<1>1. verdict'[l] # None
  BY JobSteps DEF JobStep
<1>2. l \in told'
  BY <1>1 DEF Calm
<1>3. \/ told' = told
      \/ \E k \in Lease : told' = IF verdict[k] = None THEN told \cup {k} ELSE told
  BY SteadyMoves DEF vars
<1> QED
  BY <1>2, <1>3

LEMMA CalmStep == ASSUME Awaited, Quiet, [Next]_vars, ~FaultStep PROVE CalmCore'
<1>1. ASSUME UNCHANGED <<tstate, tlease, assigned, owner, bound, load, call, worker>> PROVE CalmCore'
  BY <1>1, IdleCalm DEF worker
<1>2. CASE UNCHANGED vars
  BY <1>1, <1>2 DEF vars, master, tasks, ledger
<1>3. ASSUME PlaceNone \/ (\E l \in Lease : SendRelease(l)) \/ (\E c \in Conn : HandleRegister(c)),
             UNCHANGED worker
      PROVE  CalmCore'
  BY <1>1, <1>3 DEF PlaceNone, SendRelease, HandleRegister, tasks, ledger
<1>4. ASSUME NEW t \in Task, NEW w \in Worker, NEW l \in Lease, PlaceOn(t, w, l), UNCHANGED worker
      PROVE  CalmCore'
  <2>1. [kind |-> "assign", lease |-> l, task |-> t] \in WorkerFrame /\ sess[w].online
    BY <1>4, MadeFrames DEF PlaceOn, Candidates, Online
  <2>2. sess' = sess
    BY <1>4, <2>1, Sends DEF PlaceOn, Quiet
  <2> QED
    BY <1>4, <2>2, PlaceCalm
<1>5. ASSUME UNCHANGED master PROVE CalmCore'
  BY <1>5, JobSteps, JobsCalm DEF Quiet
<1>6. ASSUME NEW b \in Batch, Submit(b) \/ Cancel(b), UNCHANGED worker PROVE CalmCore'
  BY <1>6, SubmitCalm, CancelCalm
<1>7. ASSUME NEW l \in Lease, GiveBack(l) \/ Grant(l), UNCHANGED worker PROVE CalmCore'
  BY <1>7, GiveBackCalm, GrantCalm
<1>8. ASSUME NEW c \in Conn, HandleBound(c) \/ HandleCompleted(c), UNCHANGED worker PROVE CalmCore'
  BY <1>8, BoundCalm, CompletedCalm
<1> QED
  BY SteadyMoves, <1>2, <1>3, <1>4, <1>5, <1>6, <1>7, <1>8 DEF Quiet

\* A calm step is one of a calm cluster.
LEMMA QuietBefore ==
  ASSUME Awaited, CalmInv, [Next]_vars, Calm'
  PROVE  Quiet /\ ~FaultStep
<1>1. faults = 0 /\ ~FaultStep
  BY FaultsCount DEF Calm, CalmInv, SteadyInv
<1>2. Steady
  BY <1>1 DEF CalmInv, SteadyInv, Steady
<1> QED
  BY <1>1, <1>2, CalmBefore DEF CalmInv, Quiet

LEMMA CalmInvariant == ASSUME Awaited PROVE Spec => []CalmInv
<1>1. Init => CalmCore
  BY DEF Init, MasterInit, WorkerInit, CalmCore, GrantedOK, TaskOK
<1>2. ASSUME CalmInv, SteadyInv', [Next]_vars PROVE CalmInv'
  <2>1. ASSUME Calm' PROVE CalmCore'
    BY <1>2, <2>1, QuietBefore, CalmStep
  <2> QED
    BY <1>2, <2>1 DEF CalmInv
<1>3. SteadyInv /\ CalmCore => CalmInv
  BY DEF CalmInv
<1> QED
  BY <1>1, <1>2, <1>3, SteadyInvariant, PTL DEF Spec
----------------------------------------------------------------------------
(* Ready tasks *)

\* As long as it is calm the lease of a READY task is the one its client is told of, is in
\* the lease table, and is the lease of a machine that the worker bound for this task.
THEOREM ReadyAlwaysBacked == ASSUME Awaited PROVE Spec => []ReadyIsBacked
<1>1. ASSUME CalmInv PROVE ReadyIsBacked
  <2> SUFFICES ASSUME Calm, NEW t \in Task, tstate[t] = "ready"
               PROVE  /\ assigned[t] = tlease[t] /\ tlease[t] \in bound
                      /\ jobTask[tlease[t]] = t /\ job[tlease[t]] \in {"held", "closing", "ended"}
    BY DEF ReadyIsBacked
  <2>0. Quiet
    BY <1>1 DEF CalmInv, SteadyInv, Calm, Quiet, Steady
  <2>1. PICK l \in Lease : l = tlease[t] /\ call[l] = "over" /\ owner[l].task = t /\ job[l] # "gone"
    BY <2>0 DEF Quiet, CalmCore, TaskOK, Backed
  <2>2. job[l] \in {"held", "closing", "ended"} /\ GrantedOK(l) /\ LeaseOK(l)
    BY <2>0, <2>1, Facts DEF Quiet, LeaseOK, CalmCore
  <2>3. assigned[t] = l /\ Entered(l)
    BY <2>1, <2>2 DEF GrantedOK, LeaseOK, Terminal
  <2>4. jobTask[l] = t
    BY <2>0, <2>1, <2>2, Facts DEF Quiet, DrawnInv
  <2> QED
    BY <2>1, <2>2, <2>3, <2>4 DEF Entered
<1> QED
  BY <1>1, CalmInvariant, PTL
----------------------------------------------------------------------------
(* The life of a task *)

\* The verdict of a task as TaskLifecycle sees it.
Ver(t) == IF assigned[t] = None THEN None ELSE verdict[assigned[t]]

\* A machine of the task is up; one was left behind.
Up(t)    == \E l \in Lease : jobTask[l] = t /\ job[l] \in {"held", "closing"}
Stays(t) == \E l \in left : jobTask[l] = t

SameVer(t)     == Ver(t)' = Ver(t)
SameMachine(t) == MachineOf(t)' = MachineOf(t)

\* MachineOf of the state before a step, and after it.
LEMMA MachineIs ==
  ASSUME NEW t
  PROVE  /\ Up(t) => MachineOf(t) = "up"
         /\ ~Up(t) /\ Stays(t) => MachineOf(t) = "left"
         /\ ~Up(t) /\ ~Stays(t) => MachineOf(t) = "none"
BY DEF MachineOf, Up, Stays

LEMMA MachineNext ==
  ASSUME NEW t
  PROVE  /\ Up(t)' => MachineOf(t)' = "up"
         /\ ~Up(t)' /\ Stays(t)' => MachineOf(t)' = "left"
         /\ ~Up(t)' /\ ~Stays(t)' => MachineOf(t)' = "none"
BY DEF MachineOf, Up, Stays

LEMMA MachineKept ==
  ASSUME NEW t, Up(t)' <=> Up(t), Stays(t)' <=> Stays(t)
  PROVE  SameMachine(t)
BY MachineIs, MachineNext DEF SameMachine

\* What a step may do to one task.
LifeStep(t) ==
    \/ Phase(t)' = Phase(t) /\ SameVer(t) /\ SameMachine(t)
    \/ /\ Phase(t) = "absent" /\ Phase(t)' \in {"waiting", "aborted"}
       /\ SameVer(t) /\ SameMachine(t)
    \/ Phase(t) = "waiting" /\ Phase(t)' = "waiting" /\ SameVer(t)
    \/ Phase(t) = "waiting" /\ Phase(t)' = "held" /\ SameVer(t) /\ MachineOf(t)' = "up"
    \/ Phase(t) = "waiting" /\ Phase(t)' = "aborted" /\ SameVer(t)
    \/ /\ Phase(t) = "held" /\ Phase(t)' = "closing"
       /\ Ver(t) = None /\ Ver(t)' # None /\ SameMachine(t)
    \/ /\ Phase(t) = "closing" /\ Phase(t)' = "done"
       /\ Ver(t) = "completed" /\ SameVer(t) /\ MachineOf(t)' # "up"
    \/ Phase(t) = "closing" /\ Phase(t)' = "aborted" /\ SameVer(t)

LEMMA PhaseOf ==
  ASSUME NEW t \in Task
  PROVE  /\ tstate[t] = "absent" => Phase(t) = "absent"
         /\ tstate[t] \in {"queued", "starting"} => Phase(t) = "waiting"
         /\ tstate[t] = "completed" => Phase(t) = "done"
         /\ tstate[t] = "failed" => Phase(t) = "aborted"
         /\ tstate[t] = "ready" =>
              /\ job[assigned[t]] = "held" => Phase(t) = "held"
              /\ job[assigned[t]] = "closing" => Phase(t) = "closing"
              /\ job[assigned[t]] = "ended" /\ outcome[assigned[t]] = "completed" => Phase(t) = "done"
              /\ job[assigned[t]] = "ended" /\ outcome[assigned[t]] = "failed" => Phase(t) = "aborted"
BY DEF Phase

\* The same of the state after a step.
LEMMA PhaseNext ==
  ASSUME NEW t \in Task
  PROVE  /\ tstate'[t] = "absent" => Phase(t)' = "absent"
         /\ tstate'[t] \in {"queued", "starting"} => Phase(t)' = "waiting"
         /\ tstate'[t] = "completed" => Phase(t)' = "done"
         /\ tstate'[t] = "failed" => Phase(t)' = "aborted"
         /\ tstate'[t] = "ready" =>
              /\ job'[assigned'[t]] = "held" => Phase(t)' = "held"
              /\ job'[assigned'[t]] = "closing" => Phase(t)' = "closing"
              /\ job'[assigned'[t]] = "ended" /\ outcome'[assigned'[t]] = "completed" => Phase(t)' = "done"
              /\ job'[assigned'[t]] = "ended" /\ outcome'[assigned'[t]] = "failed" => Phase(t)' = "aborted"
BY DEF Phase

\* A task that a step does not touch: neither its state, nor its lease, nor that lease's job.
LEMMA Untouched ==
  ASSUME NEW t \in Task,
         tstate'[t] = tstate[t], assigned'[t] = assigned[t],
         assigned[t] # None => /\ job'[assigned[t]] = job[assigned[t]]
                               /\ verdict'[assigned[t]] = verdict[assigned[t]]
                               /\ outcome'[assigned[t]] = outcome[assigned[t]],
         tstate[t] = "ready" => assigned[t] # None
  PROVE  Phase(t)' = Phase(t) /\ SameVer(t)
BY DEF Phase, SameVer, Ver

\* The machine of a READY task.
LEMMA ReadyLease ==
  ASSUME Quiet, NEW t \in Task, tstate[t] = "ready"
  PROVE  \E l \in Lease : /\ assigned[t] = l /\ call[l] = "over" /\ jobTask[l] = t
                          /\ job[l] \in {"held", "closing", "ended"}
<1>1. PICK l \in Lease : l = tlease[t] /\ call[l] = "over" /\ owner[l].task = t /\ job[l] # "gone"
  BY DEF Quiet, CalmCore, TaskOK, Backed
<1>2. job[l] \in {"held", "closing", "ended"} /\ assigned[t] = l
  BY <1>1, Facts DEF Quiet, LeaseOK, CalmCore, GrantedOK
<1>3. jobTask[l] = t
  BY <1>1, <1>2, Facts DEF Quiet, DrawnInv
<1> QED
  BY <1>1, <1>2, <1>3

\* The task of a machine that is in use is READY, with that lease.
LEMMA InUse ==
  ASSUME Quiet, NEW l \in Lease, call[l] = "over", job[l] \in {"held", "closing"}
  PROVE  tstate[jobTask[l]] = "ready" /\ assigned[jobTask[l]] = l
<1>1. owner[l].task = jobTask[l] /\ GrantedOK(l)
  BY Facts DEF Quiet, DrawnInv, CalmCore
<1> QED
  BY <1>1 DEF GrantedOK

\* Steps of the master other than Grant: no job changes.
LEMMA JobsRestLife ==
  ASSUME Quiet, UNCHANGED worker, NEW t \in Task,
         \/ tstate'[t] = tstate[t] /\ assigned'[t] = assigned[t]
         \/ tstate[t] = "absent" /\ tstate'[t] \in {"queued", "failed"} /\ assigned'[t] = assigned[t]
         \/ tstate[t] = "queued" /\ tstate'[t] = "failed" /\ assigned'[t] = assigned[t]
         \/ /\ tstate[t] \in {"queued", "starting"} /\ tstate'[t] \in {"queued", "starting"}
            /\ assigned'[t] \in {None, assigned[t]}
         \/ /\ tstate[t] = "ready" /\ assigned'[t] = assigned[t] /\ tstate'[t] \in Terminal
            /\ job[assigned[t]] = "ended" /\ outcome[assigned[t]] = tstate'[t]
  PROVE  LifeStep(t)
<1>0. UNCHANGED <<job, jobTask, verdict, outcome, left>>
  BY DEF worker
<1>1. SameMachine(t) /\ UNCHANGED <<job, jobTask, verdict, outcome>>
  BY <1>0, MachineKept DEF Up, Stays
<1>2. tstate[t] \in {"absent", "queued", "starting"} => assigned[t] = None
  BY DEF Quiet, CalmCore, TaskOK
<1>3. assigned'[t] = assigned[t]
  BY <1>2
<1>4. SameVer(t)
  BY <1>1, <1>3 DEF SameVer, Ver
<1>5. tstate'[t] = tstate[t] => Phase(t)' = Phase(t)
  BY <1>1, <1>3 DEF Phase
<1> QED
  BY <1>1, <1>3, <1>4, <1>5, PhaseOf, PhaseNext DEF LifeStep, Terminal
LEMMA GrantLife ==
  ASSUME Quiet, NEW l \in Lease, Grant(l), UNCHANGED worker, NEW t \in Task
  PROVE  LifeStep(t)
<1> DEFINE u == owner[l].task
<1>1. /\ tstate' = [tstate EXCEPT ![u] = "ready"] /\ assigned' = [assigned EXCEPT ![u] = l]
      /\ UNCHANGED <<job, jobTask, verdict, outcome>>
  BY DEF Grant, worker
<1>2. u \in Task /\ tstate[u] = "starting" /\ assigned[u] = None /\ jobTask[l] = u
      /\ job[l] = "held" /\ verdict[l] = None
  <2>1. call[l] = "bound" /\ job[l] = "held" /\ verdict[l] = None /\ GrantedOK(l)
    BY GivenBackLate DEF Grant, Quiet, CalmCore
  <2>2. u \in Task /\ jobTask[l] = u
    BY <2>1, Facts DEF Quiet, DrawnInv, Owner
  <2>3. tstate[u] = "starting" /\ TaskOK(u)
    BY <2>1, <2>2 DEF GrantedOK, Quiet, CalmCore
  <2> QED
    BY <2>1, <2>2, <2>3 DEF TaskOK
<1> HIDE DEF u
<1>3. CASE t = u
  <2>1. tstate'[t] = "ready" /\ assigned'[t] = l /\ job'[l] = "held"
    BY <1>1, <1>2, <1>3, Facts DEF Quiet
  <2>2. Phase(t) = "waiting" /\ Phase(t)' = "held"
    BY <1>2, <1>3, <2>1, PhaseOf, PhaseNext
  <2>3. SameVer(t)
    BY <1>1, <1>2, <1>3, <2>1 DEF SameVer, Ver
  <2>4. Up(t)'
    BY <1>1, <1>2, <1>3, <2>1 DEF Up
  <2> QED
    BY <2>2, <2>3, <2>4, MachineNext DEF LifeStep
<1>4. CASE t # u
  <2>1. tstate'[t] = tstate[t] /\ assigned'[t] = assigned[t]
    BY <1>1, <1>4, Facts DEF Quiet
  <2> QED
    BY <2>1, JobsRestLife
<1> QED
  BY <1>3, <1>4

\* A step of a worker changes the job of one lease only, and the life of its task only.
LEMMA OtherLife ==
  ASSUME Quiet, NEW l \in Lease, UNCHANGED master, NEW t \in Task,
         \A k \in Lease \ {l} : /\ job'[k] = job[k] /\ jobTask'[k] = jobTask[k]
                                /\ verdict'[k] = verdict[k] /\ outcome'[k] = outcome[k],
         assigned[t] # l,
         Up(t)' <=> Up(t), Stays(t)' <=> Stays(t)
  PROVE  LifeStep(t)
<1>1. tstate'[t] = tstate[t] /\ assigned'[t] = assigned[t]
  BY DEF master, tasks
<1>2. assigned[t] \in Lease \cup {None}
  BY Facts DEF Quiet
<1>3. tstate[t] = "ready" => assigned[t] \in Lease
  BY ReadyLease
<1>4. None \notin Lease
  BY ClusterAssumption
<1> QED
  BY <1>1, <1>2, <1>3, <1>4, Untouched, MachineKept DEF LifeStep

LEMMA AssignLife ==
  ASSUME Quiet, NEW c \in Conn, RecvAssign(c), UNCHANGED master, NEW t \in Task
  PROVE  LifeStep(t)
<1>1. PICK l : l = Head(toWorker[c]).lease
  OBVIOUS
<1>2. toWorker[c] # <<>> /\ \E u : /\ job' = [job EXCEPT ![l] = "booting"]
                                   /\ jobTask' = [jobTask EXCEPT ![l] = u]
                                   /\ UNCHANGED <<verdict, outcome, left>>
  BY <1>1 DEF RecvAssign
<1>3. call[l] = "waiting" /\ job[l] = "none" /\ l \in Lease /\ l \notin left
  <2>1. Head(toWorker[c]) \in InW /\ Head(toWorker[c]).kind = "assign"
    BY <1>2, ReadW, Facts DEF RecvAssign, Quiet
  <2> QED
    BY <1>1, <2>1, OrderedIsNew DEF Quiet, Steady, SteadyCore
<1>4. assigned[t] # l
  <2>1. l # None /\ TaskOK(t)
    BY <1>3, ClusterAssumption DEF Quiet, CalmCore
  <2> QED
    BY <1>3, <2>1 DEF TaskOK
<1>5. job'[l] = "booting" /\ \A k \in Lease \ {l} : job'[k] = job[k] /\ jobTask'[k] = jobTask[k]
  BY <1>2, <1>3, Facts DEF TypeInv, Quiet
<1>6. Up(t)' <=> Up(t)
  BY <1>3, <1>5 DEF Up
<1>7. Stays(t)' <=> Stays(t)
  BY <1>2, <1>3, <1>5 DEF Stays, Quiet, Steady, SteadyCore
<1> QED
  BY <1>2, <1>3, <1>4, <1>5, <1>6, <1>7, OtherLife

LEMMA JobLife ==
  ASSUME Quiet, NEW l \in Lease, job[l] # "none", UNCHANGED <<master, jobTask>>, NEW t \in Task,
         \A k \in Lease \ {l} : job'[k] = job[k] /\ verdict'[k] = verdict[k] /\ outcome'[k] = outcome[k],
         left' \in {left, left \cup {l}}, jobTask[l] # t
  PROVE  LifeStep(t)
<1>1. assigned[t] # l
  <2>1. l # None /\ TaskOK(t)
    BY ClusterAssumption DEF Quiet, CalmCore
  <2>2. owner[l].task = jobTask[l]
    BY Facts DEF Quiet, DrawnInv
  <2> QED
    BY <2>1, <2>2 DEF TaskOK
<1>2. (Up(t)' <=> Up(t)) /\ (Stays(t)' <=> Stays(t))
  BY DEF Up, Stays
<1> QED
  BY <1>1, <1>2, OtherLife

LEMMA BootLife ==
  ASSUME Quiet, NEW l \in Lease, BootDone(l) \/ BootFailed(l), UNCHANGED master, NEW t \in Task
  PROVE  LifeStep(t)
<1>1. /\ job[l] = "booting" /\ UNCHANGED <<jobTask, verdict, outcome>>
      /\ left' \in {left, left \cup {l}}
      /\ \E s : job' = [job EXCEPT ![l] = s]
  BY DEF BootDone, BootFailed, MayStay
<1>2. CASE jobTask[l] = t
  <2>1. tstate[t] = "starting" /\ assigned[t] = None
    <3>1. owner[l].task = t /\ call[l] = "waiting" /\ GrantedOK(l) /\ TaskOK(t)
      BY <1>1, <1>2, Facts DEF Quiet, LeaseOK, DrawnInv, CalmCore
    <3> QED
      BY <3>1 DEF GrantedOK, TaskOK
  <2>2. UNCHANGED <<tstate, assigned>>
    BY DEF master, tasks
  <2>3. Phase(t) = "waiting" /\ Phase(t)' = "waiting" /\ SameVer(t)
    BY <2>1, <2>2, PhaseOf, PhaseNext DEF SameVer, Ver
  <2> QED
    BY <2>3 DEF LifeStep
<1>3. CASE jobTask[l] # t
  BY <1>1, <1>3, JobLife, Facts DEF Quiet
<1> QED
  BY <1>2, <1>3

\* A lease is given back, and it was told: by its client, the reaper or a cancelled batch.
LEMMA CloseLife ==
  ASSUME Quiet, NEW l \in Lease, NEW v \in {"completed", "failed", "abandoned"}, NEW t \in Task,
         job[l] = "held", job' = [job EXCEPT ![l] = "closing"], verdict' = [verdict EXCEPT ![l] = v],
         UNCHANGED <<master, jobTask, outcome, left, told>>, Calm'
  PROVE  LifeStep(t)
<1>1. job'[l] = "closing" /\ verdict'[l] = v /\ v # None /\ l # None
  BY VerdictAssumption, ClusterAssumption, Facts DEF Quiet, TypeInv
<1>2. call[l] = "over"
  <2>1. l \in told
    BY <1>1 DEF Calm
  <2> QED
    BY <2>1 DEF Quiet, Steady, SteadyCore
<1>3. CASE jobTask[l] = t
  <2>1. tstate[t] = "ready" /\ assigned[t] = l /\ verdict[l] = None
    BY <1>2, <1>3, InUse, Facts DEF Quiet, LeaseOK
  <2>2. tstate'[t] = "ready" /\ assigned'[t] = l
    BY <2>1 DEF master, tasks
  <2>3. Phase(t) = "held" /\ Phase(t)' = "closing"
    BY <1>1, <2>1, <2>2, PhaseOf, PhaseNext
  <2>4. Ver(t) = None /\ Ver(t)' # None
    BY <1>1, <2>1, <2>2 DEF Ver
  <2>5. Up(t) /\ Up(t)'
    BY <1>1, <1>3 DEF Up
  <2> QED
    BY <2>3, <2>4, <2>5, MachineIs, MachineNext DEF LifeStep, SameMachine
<1>4. CASE jobTask[l] # t
  <2>1. \A k \in Lease \ {l} : job'[k] = job[k] /\ verdict'[k] = verdict[k] /\ outcome'[k] = outcome[k]
    BY Facts DEF Quiet, TypeInv
  <2> QED
    BY <1>4, <2>1, JobLife
<1> QED
  BY <1>3, <1>4

LEMMA FinalizeLife ==
  ASSUME Quiet, NEW l \in Lease, Finalize(l), UNCHANGED master, NEW t \in Task
  PROVE  LifeStep(t)
<1>1. PICK clean \in BOOLEAN :
        /\ job[l] = "closing" /\ job' = [job EXCEPT ![l] = "ended"]
        /\ outcome' = [outcome EXCEPT ![l] =
                         IF clean /\ verdict[l] = "completed" THEN "completed" ELSE "failed"]
        /\ UNCHANGED <<jobTask, verdict>> /\ left' \in {left, left \cup {l}}
  BY DEF Finalize, MayStay
<1>2. call[l] = "over"
  BY <1>1, GivenBackLate
<1>3. CASE jobTask[l] = t
  <2>1. tstate[t] = "ready" /\ assigned[t] = l
    BY <1>1, <1>2, <1>3, InUse
  <2>2. tstate'[t] = "ready" /\ assigned'[t] = l /\ l # None
    BY <2>1, ClusterAssumption DEF master, tasks
  <2>3. /\ job'[l] = "ended"
        /\ \/ outcome'[l] = "completed" /\ verdict[l] = "completed"
           \/ outcome'[l] = "failed"
    BY <1>1, Facts DEF Quiet, TypeInv
  <2>4. Phase(t) = "closing"
    BY <1>1, <2>1, PhaseOf
  <2>5. SameVer(t) /\ Ver(t) = verdict[l]
    BY <1>1, <2>1, <2>2 DEF SameVer, Ver
  <2>6. ~Up(t)'
    <3> SUFFICES ASSUME NEW k \in Lease, jobTask[k] = t, job'[k] \in {"held", "closing"} PROVE FALSE
      BY <1>1 DEF Up
    <3>1. k # l /\ job[k] \in {"held", "closing"}
      BY <1>1, <2>3, Facts DEF Quiet
    <3>2. owner[k].task = t /\ owner[l].task = t /\ call[k] # "none" /\ LeaseOK(k)
      BY <1>1, <1>3, <3>1, Facts DEF Quiet, DrawnInv
    <3>3. Alive(k) /\ Alive(l)
      BY <1>1, <1>2, <3>1, <3>2, Facts DEF Quiet, Alive, LeaseOK
    <3> QED
      BY <3>1, <3>2, <3>3, Alone DEF Quiet
  <2>7. \/ Phase(t)' = "done" /\ verdict[l] = "completed"
        \/ Phase(t)' = "aborted"
    BY <2>2, <2>3, PhaseNext
  <2> QED
    BY <2>4, <2>5, <2>6, <2>7, MachineIs, MachineNext DEF LifeStep
<1>4. CASE jobTask[l] # t
  <2>1. \A k \in Lease \ {l} : job'[k] = job[k] /\ verdict'[k] = verdict[k] /\ outcome'[k] = outcome[k]
    BY <1>1, Facts DEF Quiet, TypeInv
  <2> QED
    BY <1>1, <1>4, <2>1, JobLife
<1> QED
  BY <1>3, <1>4

\* Every calm step of the cluster is a step in the life of every task.
LEMMA StepIsLife ==
  ASSUME Awaited, Quiet, [Next]_vars, ~FaultStep, Calm', NEW t \in Task
  PROVE  LifeStep(t)
<1>1. ASSUME UNCHANGED <<tstate, assigned, worker>> PROVE LifeStep(t)
  BY <1>1, JobsRestLife
<1>2. CASE UNCHANGED vars
  BY <1>1, <1>2 DEF vars, master, tasks
<1>3. ASSUME NEW b \in Batch, Submit(b), UNCHANGED worker PROVE LifeStep(t)
  <2>1. PICK S \in SUBSET Task :
          /\ \A u \in S : tstate[u] = "absent" /\ tstate'[u] \in {"queued", "failed"}
          /\ \A u \in Task \ S : tstate'[u] = tstate[u]
    BY <1>3, SubmitMoves, Facts DEF Quiet
  <2> QED
    BY <1>3, <2>1, JobsRestLife DEF Submit
<1>4. ASSUME NEW b \in Batch, Cancel(b), UNCHANGED worker PROVE LifeStep(t)
  <2>1. /\ assigned'[t] = assigned[t]
        /\ \/ tstate'[t] = tstate[t]
           \/ tstate[t] = "queued" /\ tstate'[t] = "failed"
    BY <1>4 DEF Cancel
  <2> QED
    BY <1>4, <2>1, JobsRestLife
<1>5. ASSUME NEW u \in Task, NEW w \in Worker, NEW l \in Lease, PlaceOn(u, w, l), UNCHANGED worker
      PROVE  LifeStep(t)
  <2>1. \/ tstate'[t] = tstate[t]
        \/ tstate[t] = "queued" /\ tstate'[t] = "starting"
    BY <1>5, Facts DEF PlaceOn, Quiet
  <2> QED
    BY <1>5, <2>1, JobsRestLife DEF PlaceOn
<1>6. ASSUME NEW l \in Lease, GiveBack(l), UNCHANGED worker PROVE LifeStep(t)
  <2>1. call[l] = "refused" /\ GrantedOK(l)
    BY <1>6, Facts DEF Quiet, GiveBack, LeaseOK, CalmCore
  <2>2. tstate[owner[l].task] = "starting"
    BY <2>1 DEF GrantedOK
  <2>3. /\ tstate' = [tstate EXCEPT ![owner[l].task] = "queued"]
        /\ assigned' = [assigned EXCEPT ![owner[l].task] = None]
    BY <1>6 DEF GiveBack, Revert
  <2>4. \/ tstate'[t] = tstate[t] /\ assigned'[t] = assigned[t]
        \/ tstate[t] = "starting" /\ tstate'[t] = "queued" /\ assigned'[t] = None
    BY <2>2, <2>3, Facts DEF Quiet
  <2> QED
    BY <1>6, <2>4, JobsRestLife
<1>7. ASSUME NEW c \in Conn, HandleCompleted(c), UNCHANGED worker PROVE LifeStep(t)
  <2> DEFINE f == Head(toMaster[c])
             l == f.lease
             u == f.task
  <2>1. tstate' = [tstate EXCEPT ![u] = f.status] /\ UNCHANGED assigned
    BY <1>7 DEF HandleCompleted
  <2>2. /\ u \in Task /\ job[l] = "ended" /\ outcome[l] = f.status /\ f.status \in Terminal
    BY <1>7, NoticeOfMine DEF HandleCompleted, Quiet
  <2>3. assigned[u] = l /\ tstate[u] \in {"ready", f.status}
    BY <1>7, NoticeOfReady DEF HandleCompleted
  <2> HIDE DEF f, l, u
  <2>4. \/ tstate'[t] = tstate[t]
        \/ /\ tstate[t] = "ready" /\ tstate'[t] \in Terminal
           /\ job[assigned[t]] = "ended" /\ outcome[assigned[t]] = tstate'[t]
    BY <2>1, <2>2, <2>3, Facts DEF Quiet
  <2> QED
    BY <1>7, <2>1, <2>4, JobsRestLife
<1>8. ASSUME PlaceNone \/ (\E l \in Lease : SendRelease(l))
               \/ (\E c \in Conn : HandleRegister(c) \/ HandleBound(c)),
             UNCHANGED worker
      PROVE  LifeStep(t)
  BY <1>1, <1>8 DEF PlaceNone, SendRelease, HandleRegister, HandleBound, tasks
<1>9. ASSUME UNCHANGED master, (\E w \in Worker : Dial(w)) \/ UNCHANGED worker PROVE LifeStep(t)
  BY <1>1, <1>9 DEF Dial, master, tasks
<1>10. ASSUME NEW c \in Conn, RecvRelease(c), UNCHANGED <<master, told>> PROVE LifeStep(t)
  <2>1. UNCHANGED <<jobTask, outcome, left>>
    BY <1>10, ReleaseMoves DEF Quiet
  <2>2. CASE UNCHANGED <<job, verdict>>
    <3>1. UNCHANGED <<tstate, assigned>>
      BY <1>10 DEF master, tasks
    <3>2. (Up(t)' <=> Up(t)) /\ (Stays(t)' <=> Stays(t))
      BY <2>1, <2>2 DEF Up, Stays
    <3>3. Phase(t)' = Phase(t) /\ SameVer(t)
      BY <2>1, <2>2, <3>1 DEF Phase, SameVer, Ver
    <3> QED
      BY <3>2, <3>3, MachineKept DEF LifeStep
  <2>3. ASSUME NEW l \in Lease, job[l] = "held", job' = [job EXCEPT ![l] = "closing"],
               verdict' = [verdict EXCEPT ![l] = "abandoned"]
        PROVE  LifeStep(t)
    BY <1>10, <2>1, <2>3, CloseLife
  <2> QED
    BY <1>10, <2>2, <2>3, ReleaseMoves DEF Quiet
<1>11. ASSUME NEW l \in Lease, NEW v \in {"completed", "failed", "abandoned"}, CompleteLease(l, v),
              UNCHANGED <<master, told>>
       PROVE  LifeStep(t)
  BY <1>11, CloseLife DEF CompleteLease
<1> QED
  BY SteadyMoves, <1>2, <1>3, <1>4, <1>5, <1>6, <1>7, <1>8, <1>9, <1>10, <1>11,
     GrantLife, AssignLife, BootLife, FinalizeLife DEF Quiet

\* The life of a task as TaskLifecycle writes it.
LEMMA LifeIsStep == ASSUME NEW t \in Task, LifeStep(t) PROVE TL!Step(t)
<1> DEFINE ph == [u \in Task |-> Phase(u)]
           ve == [u \in Task |-> IF assigned[u] = None THEN None ELSE verdict[assigned[u]]]
           ma == [u \in Task |-> MachineOf(u)]
<1>1. /\ ph[t] = Phase(t) /\ ph'[t] = Phase(t)'
      /\ ve[t] = Ver(t) /\ ve'[t] = Ver(t)'
      /\ ma[t] = MachineOf(t) /\ ma'[t] = MachineOf(t)'
  BY DEF Ver
<1> QED
  BY <1>1 DEF LifeStep, SameVer, SameMachine, TL!Step, TL!Accept, TL!Wait, TL!Grant, TL!GiveUp, TL!Return,
      TL!Finish, TL!Abort, TL!Rest, TL!Move, TL!SameVerdict

\* As long as it is calm, master, workers and connections together live up to TaskLifecycle:
\* one machine, one verdict and one end per task, however many machines fail to boot or stay
\* behind, whatever is cancelled before it was placed or after it was granted, and whatever
\* order the frames are handled in.
THEOREM ClusterImplementsLifecycle == ASSUME Awaited PROVE Spec => ImplementsLifecycle
<1>1. ASSUME Init PROVE TL!Init
  <2>1. /\ \A t \in Task : tstate[t] = "absent" /\ assigned[t] = None
        /\ \A l \in Lease : job[l] = "none"
        /\ left = {}
    BY <1>1 DEF Init, MasterInit, WorkerInit
  <2>2. \A t \in Task : Phase(t) = "absent" /\ MachineOf(t) = "none"
    BY <2>1, PhaseOf, MachineIs DEF Up, Stays
  <2> QED
    BY <2>1, <2>2 DEF TL!Init
<1>2. CalmInv /\ [Next]_vars => [Calm' => TL!Next]_(TL!vars)
  <2>1. ASSUME CalmInv, [Next]_vars, Calm' PROVE TL!Next
    BY <2>1, QuietBefore, StepIsLife, LifeIsStep DEF TL!Next
  <2> QED
    BY <2>1
<1> QED
  BY <1>1, <1>2, CalmInvariant, PTL DEF Spec, ImplementsLifecycle
----------------------------------------------------------------------------
(* Ends *)

\* A task that ended keeps the state it ended in, as long as it is calm.
EndsStand ==
    [][Calm' => \A t \in Task : tstate[t] \in Terminal => tstate'[t] = tstate[t]]_vars

\* As long as it is calm the end of a task stands: no reply, no cancellation, no late notice
\* and no attempt that is under way moves a task that is COMPLETED or FAILED.
\* (CompletedIsFinal and RetryBudgetIsFinal say so of every weather, and fail.)
THEOREM EndsStandWhenCalm == ASSUME Awaited PROVE Spec => EndsStand
<1>1. ASSUME Quiet, [Next]_vars, ~FaultStep, NEW t \in Task, tstate[t] \in Terminal
      PROVE  tstate'[t] = tstate[t]
  <2>1. tstate \in [Task -> {"absent", "queued", "starting", "ready", "completed", "failed"}]
    BY <1>1, Facts DEF Quiet
  <2>2. tstate[t] \in {"completed", "failed"}
    BY <1>1 DEF Terminal
  <2>3. ASSUME UNCHANGED tstate PROVE tstate'[t] = tstate[t]
    BY <2>3
  <2>4. CASE UNCHANGED vars \/ UNCHANGED master
    BY <2>3, <2>4 DEF vars, master, tasks
  <2>5. ASSUME NEW b \in Batch, Submit(b) PROVE tstate'[t] = tstate[t]
    <3>1. PICK S \in SUBSET Task :
            /\ \A u \in S : tstate[u] = "absent" /\ tstate'[u] \in {"queued", "failed"}
            /\ \A u \in Task \ S : tstate'[u] = tstate[u]
      BY <1>1, <2>5, SubmitMoves, Facts DEF Quiet
    <3> QED
      BY <2>2, <3>1
  <2>6. ASSUME NEW b \in Batch, Cancel(b) PROVE tstate'[t] = tstate[t]
    BY <2>2, <2>6 DEF Cancel
  <2>7. ASSUME NEW u \in Task, NEW w \in Worker, NEW l \in Lease, PlaceOn(u, w, l)
        PROVE  tstate'[t] = tstate[t]
    BY <2>1, <2>2, <2>7 DEF PlaceOn
  <2>8. ASSUME NEW l \in Lease, GiveBack(l) PROVE tstate'[t] = tstate[t]
    <3>1. call[l] = "refused" /\ tstate' = [tstate EXCEPT ![owner[l].task] = "queued"]
      BY <1>1, <2>8, Facts DEF Quiet, GiveBack, LeaseOK, Revert
    <3>2. tstate[owner[l].task] = "starting"
      BY <1>1, <3>1 DEF Quiet, CalmCore, GrantedOK
    <3> QED
      BY <2>1, <2>2, <3>1, <3>2
  <2>9. ASSUME NEW l \in Lease, Grant(l) PROVE tstate'[t] = tstate[t]
    <3>1. call[l] = "bound" /\ tstate' = [tstate EXCEPT ![owner[l].task] = "ready"]
      BY <2>9 DEF Grant
    <3>2. tstate[owner[l].task] = "starting"
      BY <1>1, <3>1 DEF Quiet, CalmCore, GrantedOK
    <3> QED
      BY <2>1, <2>2, <3>1, <3>2
  <2>10. ASSUME PlaceNone \/ (\E l \in Lease : SendRelease(l))
                  \/ (\E c \in Conn : HandleRegister(c) \/ HandleBound(c))
         PROVE  tstate'[t] = tstate[t]
    BY <2>3, <2>10 DEF PlaceNone, SendRelease, HandleRegister, HandleBound, tasks
  <2>11. ASSUME NEW c \in Conn, HandleCompleted(c) PROVE tstate'[t] = tstate[t]
    <3> DEFINE f == Head(toMaster[c])
    <3>1. tstate' = [tstate EXCEPT ![f.task] = f.status]
      BY <2>11 DEF HandleCompleted
    <3>2. tstate[f.task] \in {"ready", f.status}
      BY <1>1, <2>11, NoticeOfReady DEF HandleCompleted
    <3> HIDE DEF f
    <3> QED
      BY <2>1, <2>2, <3>1, <3>2
  <2> QED
    BY <1>1, SteadyMoves, <2>4, <2>5, <2>6, <2>7, <2>8, <2>9, <2>10, <2>11 DEF Quiet
<1>2. CalmInv /\ [Next]_vars
        => [Calm' => \A t \in Task : tstate[t] \in Terminal => tstate'[t] = tstate[t]]_vars
  BY <1>1, QuietBefore
<1> QED
  BY <1>2, CalmInvariant, PTL DEF Spec, EndsStand
=============================================================================
