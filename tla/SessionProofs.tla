---------------------------- MODULE SessionProofs ----------------------------
(***************************************************************************)
(* What TLAPS proves about Session, for every number of attempts, slots    *)
(* and restarts: each safety property of the run session.  Every part of   *)
(* the invariant is inductive with those before it: SlotInv, about what    *)
(* exists of the slots; AllAsked, which requests can be under way at each  *)
(* place of the client's program, and EarnInv; OrderInv, what a connection *)
(* that keeps the order adds; LeaseInv, that the client's lease is not     *)
(* given again; PastInv and SightInv, about the reference; and WorkInv.    *)
(***************************************************************************)
EXTENDS Session, SequenceTheorems, TLAPS

\* A task has a slot while it has a machine or awaits one; an instance is what the last
\* command makes.  Nothing is there of a slot that was not drawn.
SlotInv ==
    /\ slot # NoSlot <=> st \in Live \cup {"starting", "resetting"}
    /\ slot # NoSlot => slot \in used \ undeleted
    /\ todo # <<>> => st = "starting" /\ todo[Len(todo)] = "vm"
    /\ st = "starting" /\ todo = <<>> => cloud[slot] \in {{}, {"vm"}}
    /\ st \in Live \cup {"resetting"} => cloud[slot] = {"vm"}
    /\ undeleted \subseteq used
    /\ \A s \in undeleted : "vm" \in cloud[s]
    /\ \A s \in Slot : cloud[s] # {} => s \in used /\ s \in {slot} \cup abandoned \cup undeleted

\* Where the client may be while a request of each kind is under way or being handled.
MayAsk(op) ==
    CASE op = "submit"        -> Cl
      [] op = "stage-runtime" -> Cl \ {"submitting", "polling"}
      [] op = "stage-eval"    -> {"unlocking", "judging", "leaving"} \cup Out
      [] op = "complete"      -> {"leaving"} \cup Out

RequestOK(r) ==
    /\ cl \in MayAsk(r.op)
    /\ cl \in Calling /\ r.op = Request[cl] => r.n <= tries

JobOK(j) ==
    /\ j.at = "mount" => ~cloudly /\ j.op = "stage-runtime"
    /\ j.at \in {"reference", "others"} => cloudly /\ j.op = "stage-runtime"
    /\ j.at = "unlock" => cloudly /\ j.op = "stage-eval" /\ unlocked

AllAsked == (\A i \in DOMAIN wire : RequestOK(wire[i])) /\ (\A j \in jobs : RequestOK(j))

\* A verdict is given to a task that is being reset, and a good one is earned.
Left == ~raised /\ cl \in {"leaving"} \cup Out
EarnInv ==
    /\ verdict # "none" <=> st = "resetting"
    /\ "completed" \in {st, verdict} => Left

\* The attempt that the client waits for.
Current(r) == cl \in Calling /\ r.op = Request[cl] /\ r.n = tries

NoRuntimeSent == \A i \in DOMAIN wire : wire[i].op # "stage-runtime"

\* The attempt waited for is the last on the wire; once it was taken up no earlier one is
\* there, and none is left after the call.
OrderInv ==
    /\ cl \notin Calling => tries = 0
    /\ \A i \in DOMAIN wire : Current(wire[i]) => i = Len(wire)
    /\ ~proxied /\ cl = "staging" /\ (\E j \in jobs : Current(j)) => NoRuntimeSent
    /\ ~proxied /\ cl \in {"working", "unlocking", "judging"} => NoRuntimeSent

\* The lease that the client got is not given again, until the server restarts.
Underway == \/ cl \in Inside \cup {"leaving"}
            \/ jobs # {} \/ \E i \in DOMAIN wire : wire[i].op # "submit"
LeaseInv == restarts = 0 /\ Underway => st \in Live \cup {"resetting", "completed", "failed"}

\* A stage-runtime that is left over when stage-eval begins is known from then on.
PastInv ==
    /\ \A j \in jobs : JobOK(j)
    /\ unlocked => cl \in MayAsk("stage-eval")
    /\ unlocked /\ (~NoRuntimeSent \/ \E j \in jobs : j.op = "stage-runtime") => overlap
    /\ cl = "judging" /\ restarts = 0 => unlocked

\* The reference is not shown before stage-eval begins.
SightInv ==
    /\ ~cloudly => "others" \notin seen
    /\ ~cloudly /\ ~unlocked => "reference" \notin seen
    /\ \A j \in jobs : j.at = "others" /\ ~unlocked /\ restarts = 0 => "reference" \notin seen \/ quiet

\* A staged workplace.
Staged == {"input", "output"} \subseteq seen

WorkInv ==
    /\ cloudly /\ st \in Live => Staged /\ (mounted \/ quiet)
    /\ cl \in {"submitting", "polling", "staging"} => work = "none"
    /\ ~proxied /\ ~cloudly /\ restarts = 0 /\ st \in Live /\ cl = "staging" =>
         \A j \in jobs : Current(j) => Staged

----------------------------------------------------------------------------
(* Sequences *)

LEMMA Removed ==
  ASSUME NEW S, NEW s \in Seq(S), NEW i \in DOMAIN s
  PROVE  /\ RemoveAt(s, i) \in Seq(S) /\ Len(RemoveAt(s, i)) = Len(s) - 1
         /\ \A k \in 1..Len(s) - 1 : RemoveAt(s, i)[k] = IF k < i THEN s[k] ELSE s[k + 1]
<1> DEFINE a == SubSeq(s, 1, i - 1)
           b == SubSeq(s, i + 1, Len(s))
<1>1. /\ Len(s) \in Nat /\ DOMAIN s = 1..Len(s) /\ i \in 1..Len(s)
      /\ \A k \in 1..Len(s) : s[k] \in S
  BY LenProperties, ElementOfSeq
<1>2. /\ a \in Seq(S) /\ Len(a) = i - 1 /\ \A k \in 1..i - 1 : a[k] = s[k]
  <2>1. \A k \in 1..(i - 1) : s[k] \in S
    BY <1>1
  <2>2. 1 \in Int /\ i - 1 \in Int
    BY <1>1
  <2> HIDE DEF a
  <2>3. /\ a \in Seq(S) /\ Len(a) = (IF 1 <= i - 1 THEN (i - 1) - 1 + 1 ELSE 0)
        /\ \A k \in 1..((i - 1) - 1 + 1) : a[k] = s[1 + k - 1]
    BY <2>1, <2>2, SubSeqProperties DEF a
  <2> QED
    BY <1>1, <2>3
<1>3. /\ b \in Seq(S) /\ Len(b) = Len(s) - i /\ \A k \in 1..Len(s) - i : b[k] = s[i + k]
  <2>1. \A k \in (i + 1)..Len(s) : s[k] \in S
    BY <1>1
  <2>2. i + 1 \in Int /\ Len(s) \in Int
    BY <1>1
  <2> HIDE DEF b
  <2>3. /\ b \in Seq(S) /\ Len(b) = (IF i + 1 <= Len(s) THEN Len(s) - (i + 1) + 1 ELSE 0)
        /\ \A k \in 1..(Len(s) - (i + 1) + 1) : b[k] = s[(i + 1) + k - 1]
    BY <2>1, <2>2, SubSeqProperties DEF b
  <2>4. /\ (i + 1 <= Len(s) => Len(s) - (i + 1) + 1 = Len(s) - i)
        /\ (~(i + 1 <= Len(s)) => Len(s) - i = 0)
        /\ Len(s) - (i + 1) + 1 = Len(s) - i
        /\ \A k \in 1..Len(s) - i : (i + 1) + k - 1 = i + k
    BY <1>1
  <2> QED
    BY <2>3, <2>4
<1>4. RemoveAt(s, i) = a \o b
  BY DEF RemoveAt
<1> HIDE DEF a, b
<1>5. /\ a \o b \in Seq(S) /\ Len(a \o b) = Len(a) + Len(b)
      /\ \A k \in 1..Len(a) + Len(b) : (a \o b)[k] = IF k <= Len(a) THEN a[k] ELSE b[k - Len(a)]
  BY <1>2, <1>3, ConcatProperties
<1>6. ASSUME NEW k \in 1..Len(s) - 1
      PROVE  (a \o b)[k] = IF k < i THEN s[k] ELSE s[k + 1]
  <2>1. CASE k < i
    BY <1>1, <1>2, <1>3, <1>5, <2>1
  <2>2. CASE ~(k < i)
    <3>1. k - (i - 1) \in 1..Len(s) - i /\ k \in 1..Len(a) + Len(b) /\ ~(k <= Len(a))
      BY <1>1, <1>2, <1>3, <2>2
    <3>2. (a \o b)[k] = b[k - (i - 1)] /\ b[k - (i - 1)] = s[i + (k - (i - 1))]
      BY <1>2, <1>3, <1>5, <3>1
    <3> QED
      BY <1>1, <2>2, <3>2
  <2> QED
    BY <2>1, <2>2
<1> QED
  BY <1>1, <1>2, <1>3, <1>4, <1>5, <1>6

----------------------------------------------------------------------------
(* Types *)

Req == [op : Op, n : 1..Attempts]

\* What the client does with an answer that it hears.
Heard(ok) ==
    /\ cl \in Calling /\ tries' = 0 /\ waiting' = FALSE
    /\ \/ /\ ok /\ raised' = raised
          /\ \/ cl = "submitting" /\ cl' = "polling"
             \/ cl = "staging" /\ cl' = "working"
             \/ cl = "unlocking" /\ cl' = "judging"
             \/ cl = "leaving" /\ cl' = "over"
       \/ ~ok /\ cl \in Inside /\ cl' = "leaving" /\ raised' = TRUE
       \/ ~ok /\ cl \notin Inside /\ cl' = "over" /\ raised' = raised

LEMMA ReturnsMoves == ASSUME TypeOK, cl \in Calling, Returns PROVE Heard(TRUE)
BY DEF TypeOK, Returns, Heard, Calling

LEMMA RaisesMoves == ASSUME TypeOK, cl \in Calling, Raises PROVE Heard(FALSE)
BY DEF TypeOK, Raises, Heard, Calling, Inside

\* An answer is heard by a client that waits for that attempt, or by nobody.
LEMMA AnswerMoves ==
  ASSUME TypeOK, NEW r \in Req, NEW ok \in BOOLEAN, Answer(r, ok)
  PROVE  \/ UNCHANGED clientVars
         \/ Current(r) /\ waiting /\ Heard(ok)
<1>1. CASE cl \in Calling /\ waiting /\ r = [op |-> Request[cl], n |-> tries]
  <2>1. Current(r)
    BY <1>1 DEF Current
  <2>2. Heard(ok)
    BY <1>1, ReturnsMoves, RaisesMoves DEF Answer
  <2> QED
    BY <1>1, <2>1, <2>2
<1>2. CASE ~(cl \in Calling /\ waiting /\ r = [op |-> Request[cl], n |-> tries])
  BY <1>2 DEF Answer
<1> QED
  BY <1>1, <1>2

ClientTypeOK == /\ cl \in Cl /\ tries \in 0..Attempts
                /\ waiting \in BOOLEAN /\ raised \in BOOLEAN

LEMMA HeardTypes == ASSUME TypeOK, NEW ok \in BOOLEAN, Heard(ok) PROVE ClientTypeOK'
<1>1. cl' \in {"polling", "working", "judging", "leaving", "over"} /\ tries' = 0 /\ waiting' = FALSE
  BY DEF Heard
<1>2. raised' = raised \/ raised' = TRUE
  BY DEF Heard
<1>3. 0 \in 0..Attempts
  BY BoundAssumption
<1>4. raised' \in BOOLEAN
  BY <1>2 DEF TypeOK
<1> QED
  BY <1>1, <1>3, <1>4 DEF ClientTypeOK, Cl, Calling, Inside, Out

LEMMA AnswerTypes ==
  ASSUME TypeOK, NEW r \in Req, NEW ok \in BOOLEAN, Answer(r, ok)
  PROVE  ClientTypeOK'
<1>1. CASE UNCHANGED clientVars
  BY <1>1 DEF clientVars, TypeOK, ClientTypeOK
<1> QED
  BY <1>1, AnswerMoves, HeardTypes

\* A client's call has the attempt that it waits for among its requests.
LEMMA Asked ==
  ASSUME TypeOK, cl \in Calling, tries < Attempts
  PROVE  /\ [op |-> Request[cl], n |-> tries + 1] \in Req
         /\ tries + 1 \in 1..Attempts
BY BoundAssumption DEF TypeOK, Calling, Request, Req, Op

\* What the program of the client does of itself, and what becomes of the wire.
ClientMoves ==
    \/ /\ cl \in Calling /\ tries' = tries + 1 /\ tries < Attempts
       /\ waiting' \in BOOLEAN /\ UNCHANGED <<cl, raised>>
       /\ wire' \in {wire, Append(wire, [op |-> Request[cl], n |-> tries + 1])}
    \/ /\ \/ UNCHANGED <<cl, tries, raised>> /\ waiting' = FALSE
          \/ Heard(FALSE)
       /\ wire' \in {wire} \cup {RemoveAt(wire, i) : i \in DOMAIN wire}
    \/ /\ \/ cl = "polling" /\ cl' = "staging" /\ st \in Live /\ UNCHANGED <<tries, raised>>
          \/ cl = "polling" /\ cl' = "over" /\ UNCHANGED <<tries, raised>>
          \/ cl = "working" /\ cl' = "unlocking" /\ UNCHANGED <<tries, raised>>
          \/ cl = "judging" /\ cl' = "leaving" /\ UNCHANGED <<tries, raised>>
          \/ cl \in {"working", "judging"} /\ cl' = "leaving" /\ raised' = TRUE /\ tries' = tries
          \/ cl' = "gone" /\ tries' = 0 /\ raised' = raised
       /\ waiting' \in {waiting, FALSE} /\ (cl' = "gone" => ~waiting')
       /\ UNCHANGED wire

\* The client waits in no place but a call.
WaitsInCall == waiting => cl \in Calling

LEMMA ClientSteps == ASSUME TypeOK, WaitsInCall, Client PROVE ClientMoves
<1> USE DEF TypeOK
<1>1. CASE Send
  BY <1>1 DEF Send, ClientMoves
<1>2. CASE Unsent
  BY <1>2, RaisesMoves DEF Unsent, ClientMoves
<1>3. CASE Break
  <2>1. wire' \in {wire} \cup {RemoveAt(wire, i) : i \in DOMAIN wire}
    BY <1>3 DEF Break
  <2>2. cl \in Calling
    BY <1>3 DEF Break, WaitsInCall
  <2>3. \/ UNCHANGED <<cl, tries, raised>> /\ waiting' = FALSE
        \/ Heard(FALSE)
    BY <1>3, <2>2, RaisesMoves DEF Break
  <2> QED
    BY <2>1, <2>3 DEF ClientMoves
<1>4. CASE Late
  BY <1>4, RaisesMoves DEF Late, ClientMoves, WaitsInCall
<1>5. CASE Poll
  BY <1>5 DEF Poll, ClientMoves
<1>6. CASE GiveUp
  BY <1>6 DEF GiveUp, ClientMoves
<1>7. CASE Proceed
  BY <1>7 DEF Proceed, ClientMoves
<1>8. CASE Crash
  BY <1>8 DEF Crash, ClientMoves
<1> QED
  BY <1>1, <1>2, <1>3, <1>4, <1>5, <1>6, <1>7, <1>8 DEF Client

LEMMA DataTypes ==
  ASSUME DataTypeOK, NEW ok \in BOOLEAN, NEW b \in BOOLEAN, NEW item \in Item,
         Fresh(b) \/ Wipe \/ Link(ok) \/ Mount(ok) \/ Deny(item, ok) \/ Unlock(b, ok)
  PROVE  DataTypeOK'
<1> USE DEF DataTypeOK, Item
<1>1. CASE Fresh(b)
  BY <1>1 DEF Fresh
<1>2. CASE Wipe
  BY <1>2 DEF Wipe
<1>3. CASE Link(ok)
  BY <1>3 DEF Link, Erased
<1>4. CASE Mount(ok)
  BY <1>4 DEF Mount, Erased
<1>5. CASE Deny(item, ok)
  <2>1. seen' \subseteq seen /\ UNCHANGED <<mounted, work>> /\ quiet' \in {quiet, TRUE}
    BY <1>5 DEF Deny
  <2> QED
    BY <2>1
<1>6. CASE Unlock(b, ok)
  <2>1. /\ seen' \subseteq seen \cup {"reference"} /\ UNCHANGED <<mounted, work>>
        /\ quiet' \in {quiet, TRUE}
    BY <1>6 DEF Unlock
  <2> QED
    BY <2>1
<1> QED
  BY <1>1, <1>2, <1>3, <1>4, <1>5, <1>6

Places == {"mount", "reference", "others", "unlock"}
Job == [op : Op, n : 1..Attempts, at : Places]

ServerTypeOK ==
    /\ cloudly \in BOOLEAN /\ proxied \in BOOLEAN
    /\ st \in St /\ verdict \in {"none", "completed", "failed", "abandoned"} /\ batch \in BOOLEAN
    /\ unlocked \in BOOLEAN /\ overlap \in BOOLEAN /\ restarts \in 0..MaxRestarts
    /\ wire \in Seq(Req) /\ jobs \subseteq Job

\* The parts make up TypeOK, in the state after a step.
LEMMA TypeParts ==
  ASSUME DataTypeOK', SlotTypeOK', ClientTypeOK', ServerTypeOK' PROVE TypeOK'
BY DEF TypeOK, ClientTypeOK, ServerTypeOK, Req, Job, Places

LEMMA ServerTyped == ASSUME TypeOK PROVE ServerTypeOK
BY DEF TypeOK, ServerTypeOK, Req, Job, Places

LEMMA SuspendTypes ==
  ASSUME TypeOK, NEW r \in Req, NEW at \in Places, Suspend(r, at)
  PROVE  jobs' \subseteq Job
<1>1. [op |-> r.op, n |-> r.n, at |-> at] \in Job
  BY DEF Req, Job
<1> QED
  BY <1>1 DEF Suspend, TypeOK, Job, Places

LEMMA ClientTypes == ASSUME TypeOK, WaitsInCall, Client PROVE TypeOK'
<1>1. ClientMoves
  BY ClientSteps
<1>2. wire' \in Seq(Req)
  <2>1. wire \in Seq(Req)
    BY DEF TypeOK, Req
  <2>2. CASE wire' = wire
    BY <2>1, <2>2
  <2>3. CASE cl \in Calling /\ tries < Attempts /\ wire' = Append(wire, [op |-> Request[cl], n |-> tries + 1])
    BY <2>1, <2>3, Asked, AppendProperties
  <2>4. CASE \E i \in DOMAIN wire : wire' = RemoveAt(wire, i)
    BY <2>1, <2>4, Removed
  <2> QED
    BY <1>1, <2>2, <2>3, <2>4 DEF ClientMoves
<1>3. ClientTypeOK'
  <2>1. CASE cl \in Calling /\ tries' = tries + 1 /\ tries < Attempts /\ waiting' \in BOOLEAN /\ UNCHANGED <<cl, raised>>
    BY <2>1, BoundAssumption DEF TypeOK, ClientTypeOK
  <2>2. CASE UNCHANGED <<cl, tries, raised>> /\ waiting' = FALSE
    BY <2>2 DEF TypeOK, ClientTypeOK
  <2>3. CASE Heard(FALSE)
    BY <2>3, HeardTypes
  <2>4. CASE /\ cl' \in Cl /\ tries' \in {tries, 0} /\ raised' \in {raised, TRUE}
             /\ waiting' \in {waiting, FALSE}
    <3>1. tries' \in 0..Attempts
      BY <2>4, BoundAssumption DEF TypeOK
    <3>2. raised' \in BOOLEAN /\ waiting' \in BOOLEAN
      BY <2>4 DEF TypeOK
    <3> QED
      BY <2>4, <3>1, <3>2 DEF ClientTypeOK
  <2> QED
    BY <1>1, <2>1, <2>2, <2>3, <2>4 DEF ClientMoves, Cl, Calling, Inside, Out
<1>4. DataTypeOK' /\ SlotTypeOK'
  BY DEF Client, TypeOK, DataTypeOK, SlotTypeOK, slotVars, dataVars
<1>5. UNCHANGED <<cloudly, proxied, jobs, st, verdict, batch, unlocked, overlap, restarts>>
  BY DEF Client, serverVars, pastVars
<1>6. ServerTypeOK'
  BY <1>2, <1>5, ServerTyped DEF ServerTypeOK
<1> QED
  BY <1>3, <1>4, <1>6, TypeParts

LEMMA TakeTypes == ASSUME TypeOK, Take PROVE TypeOK'
<1>1. PICK i \in DOMAIN wire :
        /\ wire' = RemoveAt(wire, i)
        /\ \/ Submit(wire[i]) \/ Complete(wire[i]) \/ StageRefused(wire[i])
           \/ StageRuntime(wire[i]) \/ StageEval(wire[i])
  BY DEF Take
<1>2. wire \in Seq(Req) /\ wire[i] \in Req /\ wire' \in Seq(Req)
  BY <1>1, Removed, LenProperties, ElementOfSeq DEF TypeOK, Req
<1>3. UNCHANGED <<cloudly, proxied, restarts>> /\ SlotTypeOK'
  BY DEF Take, slotVars, SlotTypeOK, TypeOK
<1>4. \/ UNCHANGED clientVars \/ Answer(wire[i], TRUE) \/ Answer(wire[i], FALSE)
  BY <1>1 DEF Submit, Complete, StageRefused, StageRuntime, StageEval, Live
<1>5. ClientTypeOK'
  <2>1. CASE UNCHANGED clientVars
    BY <2>1 DEF clientVars, TypeOK, ClientTypeOK
  <2> QED
    BY <1>2, <1>4, <2>1, AnswerTypes
<1>6. DataTypeOK'
  <2>1. CASE UNCHANGED dataVars
    BY <2>1 DEF dataVars, DataTypeOK, TypeOK
  <2>2. CASE Link(TRUE) \/ Link(FALSE)
    BY <2>2, DataTypes DEF TypeOK, Item
  <2>3. CASE \E ok \in BOOLEAN : Unlock(TRUE, ok)
    BY <2>3, DataTypes DEF TypeOK, Item
  <2> QED
    BY <1>1, <2>1, <2>2, <2>3 DEF Submit, Complete, StageRefused, StageRuntime, StageEval
<1>7. jobs' \subseteq Job
  <2>1. CASE UNCHANGED jobs
    BY <2>1 DEF TypeOK, Job, Places
  <2>2. CASE \E at \in Places : Suspend(wire[i], at)
    BY <1>2, <2>2, SuspendTypes
  <2> QED
    BY <1>1, <2>1, <2>2 DEF Submit, Complete, StageRefused, StageRuntime, StageEval, Places
<1>8. /\ st' \in St /\ verdict' \in {"none", "completed", "failed", "abandoned"}
      /\ batch' \in BOOLEAN /\ unlocked' \in BOOLEAN /\ overlap' \in BOOLEAN
  <2>1. CASE StageEval(wire[i])
    BY <2>1 DEF StageEval, serverVars, TypeOK
  <2> QED
    BY <1>1, <2>1 DEF Submit, Complete, StageRefused, StageRuntime, serverVars, TypeOK, St, Ended, Live
<1>9. ServerTypeOK'
  BY <1>2, <1>3, <1>7, <1>8, ServerTyped DEF ServerTypeOK
<1> QED
  BY <1>3, <1>5, <1>6, <1>9, TypeParts

\* A step of a suspended handler: what it does to the data, and whether it goes on.
JobMove(j, ok) ==
    /\ ok => slot # NoSlot
    /\ \/ /\ jobs' = jobs \ {j} /\ Answer([op |-> j.op, n |-> j.n], ok)
          /\ \/ slot = NoSlot /\ UNCHANGED dataVars
             \/ j.at = "mount" /\ Mount(ok)
             \/ j.at = "reference" /\ ~ok /\ Deny("reference", ok)
             \/ j.at = "others" /\ Deny("others", ok)
             \/ j.at = "unlock" /\ Unlock(FALSE, ok)
       \/ /\ j.at = "reference" /\ ok /\ Deny("reference", ok)
          /\ jobs' = (jobs \ {j}) \cup {[j EXCEPT !.at = "others"]} /\ UNCHANGED clientVars

LEMMA JobSteps ==
  ASSUME JobStep
  PROVE  /\ \E j \in jobs, ok \in BOOLEAN : JobMove(j, ok)
         /\ UNCHANGED <<cloudly, proxied, wire, serverVars, pastVars, slotVars>>
BY DEF JobStep, JobMove

LEMMA JobTypes == ASSUME TypeOK, JobStep PROVE TypeOK'
<1>1. PICK j \in jobs, ok \in BOOLEAN : JobMove(j, ok)
  BY JobSteps
<1>2. j \in Job /\ [op |-> j.op, n |-> j.n] \in Req
  BY DEF TypeOK, Job, Places, Req
<1>3. DataTypeOK'
  <2>1. CASE UNCHANGED dataVars
    BY <2>1 DEF dataVars, DataTypeOK, TypeOK
  <2>2. CASE Mount(ok) \/ Deny("reference", ok) \/ Deny("others", ok) \/ Unlock(FALSE, ok)
    BY <2>2, DataTypes DEF TypeOK, Item
  <2> QED
    BY <1>1, <2>1, <2>2 DEF JobMove
<1>4. ClientTypeOK'
  <2>1. CASE UNCHANGED clientVars
    BY <2>1 DEF clientVars, TypeOK, ClientTypeOK
  <2> QED
    BY <1>1, <1>2, <2>1, AnswerTypes DEF JobMove
<1>5. jobs' \subseteq Job
  <2>1. [j EXCEPT !.at = "others"] \in Job
    BY <1>2 DEF Job, Places
  <2> QED
    BY <1>1, <2>1 DEF JobMove, TypeOK, Job, Places
<1>6. UNCHANGED <<cloudly, proxied, wire, st, verdict, batch, unlocked, overlap, restarts>>
  BY JobSteps DEF serverVars, pastVars
<1>7. SlotTypeOK'
  BY JobSteps DEF TypeOK, SlotTypeOK, slotVars
<1>8. ServerTypeOK'
  BY <1>5, <1>6, ServerTyped DEF ServerTypeOK
<1> QED
  BY <1>3, <1>4, <1>7, <1>8, TypeParts

LEMMA FreshSlot ==
  ASSUME TypeOK, used # Slot
  PROVE  (CHOOSE s \in Slot : s \notin used) \in Slot \ used
<1>1. \E s \in Slot : s \notin used
  BY DEF TypeOK, SlotTypeOK
<1> QED
  BY <1>1

LEMMA SlotOpTypes ==
  ASSUME TypeOK, NEW b \in BOOLEAN, slot \in Slot,
         \/ st = "starting" /\ RunCommand
         \/ \E left \in SUBSET Command : StartRaises(left)
         \/ Delete
         \/ cloud' = [cloud EXCEPT ![slot] = {"vm"}] /\ UNCHANGED <<slot, todo, used, abandoned, undeleted>>
  PROVE  SlotTypeOK'
<1> USE DEF SlotTypeOK, TypeOK
<1>1. CASE RunCommand
  <2>1. Head(todo) \in Command /\ Tail(todo) \in Seq(Command)
    BY <1>1, HeadTailProperties DEF RunCommand
  <2>2. Made(cloud[slot], Head(todo)) \in SUBSET Command
    BY <2>1 DEF Made, Command
  <2> QED
    BY <1>1, <2>1, <2>2 DEF RunCommand
<1>2. CASE \E left \in SUBSET Command : StartRaises(left)
  BY <1>2, EmptySeq DEF StartRaises
<1>3. CASE Delete
  BY <1>3 DEF Delete
<1>4. CASE cloud' = [cloud EXCEPT ![slot] = {"vm"}] /\ UNCHANGED <<slot, todo, used, abandoned, undeleted>>
  BY <1>4 DEF Command
<1> QED
  BY <1>1, <1>2, <1>3, <1>4

\* What the start of a machine leaves when it raises.
LEMMA LeftTypes ==
  ASSUME TypeOK, slot \in Slot, StartFails
  PROVE  \E left \in SUBSET Command :
           /\ StartRaises(left)
           /\ \/ left = cloud[slot]
              \/ todo # <<>> /\ left = Made(cloud[slot], Head(todo))
<1>1. cloud[slot] \in SUBSET Command
  BY DEF TypeOK, SlotTypeOK
<1>2. CASE todo = <<>>
  BY <1>1, <1>2 DEF StartFails
<1>3. CASE todo # <<>>
  <2>1. Head(todo) \in Command
    BY <1>3, HeadTailProperties DEF TypeOK, SlotTypeOK
  <2>2. Made(cloud[slot], Head(todo)) \in SUBSET Command
    BY <1>1, <2>1 DEF Made, Command
  <2> QED
    BY <1>1, <1>3, <2>2 DEF StartFails
<1> QED
  BY <1>2, <1>3

LEMMA PlanTypes ==
  ASSUME NEW b \in BOOLEAN, NEW p \in Plans(b)
  PROVE  /\ p \in Seq(Command) /\ (p # <<>> => p[Len(p)] = "vm")
         /\ p = <<>> <=> ~b
<1>1. CASE b
  <2>1. p \in {<<"vm">>, <<"disk", "vm">>, <<"disk", "disk", "vm">>}
    BY <1>1 DEF Plans
  <2>2. CASE p = <<"vm">>
    BY <1>1, <2>2 DEF Command
  <2>3. CASE p = <<"disk", "vm">>
    BY <1>1, <2>3 DEF Command
  <2>4. CASE p = <<"disk", "disk", "vm">>
    BY <1>1, <2>4 DEF Command
  <2> QED
    BY <2>1, <2>2, <2>3, <2>4
<1>2. CASE ~b
  <2>1. p = <<>>
    BY <1>2 DEF Plans
  <2> QED
    BY <1>2, <2>1, EmptySeq
<1> QED
  BY <1>1, <1>2

\* The parts that no step of the scheduler touches.
LEMMA SchedulerFrame ==
  ASSUME TypeOK, Scheduler
  PROVE  /\ UNCHANGED <<cloudly, proxied, cl, tries, waiting, raised, wire, jobs, unlocked, overlap, restarts>>
         /\ ClientTypeOK'
BY DEF Scheduler, clientVars, pastVars, TypeOK, ClientTypeOK

\* While a machine is asked for, served or torn down, its slot is one.
HasSlot == slot # NoSlot <=> st \in Live \cup {"starting", "resetting"}

LEMMA SchedulerTypes == ASSUME TypeOK, HasSlot, Scheduler PROVE TypeOK'
<1>1. /\ UNCHANGED <<cloudly, proxied, wire, jobs, unlocked, overlap, restarts>>
      /\ ClientTypeOK'
  BY SchedulerFrame
<1>2. /\ st' \in St /\ verdict' \in {"none", "completed", "failed", "abandoned"}
      /\ batch' \in BOOLEAN
  <2>1. CASE Finalize
    BY <2>1 DEF Finalize, St, Ended, TypeOK
  <2>2. CASE ReapBatch
    BY <2>2 DEF ReapBatch, St, Ended, TypeOK
  <2> QED
    BY <2>1, <2>2 DEF Scheduler, Dispatch, RunStart, StartFails, Bind, Reap, serverVars, St, Ended, Live, TypeOK
<1>3. DataTypeOK'
  <2>1. CASE UNCHANGED dataVars
    BY <2>1 DEF dataVars, DataTypeOK, TypeOK
  <2>2. CASE Fresh(cloudly) \/ Wipe
    BY <2>2, DataTypes DEF TypeOK, Item
  <2> QED
    BY <2>1, <2>2 DEF Scheduler, Dispatch, RunStart, StartFails, Bind, Reap, ReapBatch, Finalize
<1>4. SlotTypeOK'
  <2> USE DEF TypeOK
  <2>1. CASE Dispatch
    <3>1. slot' \in Slot /\ used' = used \cup {slot'} /\ UNCHANGED <<cloud, abandoned, undeleted>>
      BY <2>1, FreshSlot DEF Dispatch, Prepare
    <3>2. todo' \in Seq(Command)
      BY <2>1, PlanTypes DEF Dispatch, Prepare
    <3> QED
      BY <3>1, <3>2 DEF SlotTypeOK
  <2>2. CASE Reap \/ ReapBatch
    BY <2>2 DEF Reap, ReapBatch, slotVars, SlotTypeOK
  <2>3. CASE RunStart \/ StartFails \/ Bind \/ Finalize
    <3>1. slot \in Slot
      BY <2>3 DEF RunStart, StartFails, Bind, Finalize, HasSlot, Live, SlotTypeOK
    <3> QED
      BY <2>3, <3>1, SlotOpTypes, LeftTypes DEF RunStart, Bind, Finalize
  <2> QED
    BY <2>1, <2>2, <2>3 DEF Scheduler
<1>5. ServerTypeOK'
  BY <1>1, <1>2, ServerTyped DEF ServerTypeOK
<1> QED
  BY <1>1, <1>3, <1>4, <1>5, TypeParts

\* A command that outlives its process may do its work, and only for the slot in start.
Grown(from, to, s) ==
    \/ to[s] = from[s]
    \/ s = slot /\ todo # <<>> /\ to[s] = Made(from[s], Head(todo))

LEMMA DoneGrows ==
  ASSUME TypeOK, NEW there \in [Slot -> SUBSET Command]
  PROVE  /\ Done(there) \in [Slot -> SUBSET Command]
         /\ \A s \in Slot : Grown(there, Done(there), s)
<1>1. CASE todo = <<>>
  BY <1>1 DEF Done, Grown
<1>2. CASE todo # <<>>
  <2>1. Head(todo) \in Command
    BY <1>2, HeadTailProperties DEF TypeOK, SlotTypeOK
  <2>2. \A s \in Slot : Made(there[s], Head(todo)) \in SUBSET Command
    BY <2>1 DEF Made, Command
  <2> QED
    BY <1>2, <2>2 DEF Done, Grown
<1> QED
  BY <1>1, <1>2

\* What the clean-up at the start leaves of a slot.
LEMMA CleanupEffect ==
  ASSUME TypeOK, Cleanup
  PROVE  /\ cloud' \in [Slot -> SUBSET Command] /\ undeleted' \subseteq Slot
         /\ abandoned' = {s \in abandoned : "vm" \notin cloud[s]}
                            \cup {s \in {slot} : todo # <<>> /\ cloud'[s] # {}}
         /\ slot' = NoSlot /\ todo' = <<>> /\ used' = used
         /\ \E there, left \in [Slot -> SUBSET Command] :
              \A s \in Slot :
                /\ Grown(cloud, there, s) /\ Grown(left, cloud', s)
                /\ left[s] = IF "vm" \in there[s] /\ s \notin undeleted' THEN {} ELSE there[s]
                /\ s \in undeleted' => "vm" \in there[s]
<1>0. cloud \in [Slot -> SUBSET Command]
  BY DEF TypeOK, SlotTypeOK
<1>1. PICK there \in {cloud, Done(cloud)} :
      \E F \in SUBSET {s \in Slot : "vm" \in there[s]} :
        LET left == [s \in Slot |-> IF "vm" \in there[s] /\ s \notin F THEN {} ELSE there[s]]
        IN /\ cloud' \in {left, Done(left)}
           /\ undeleted' = F
  BY DEF Cleanup
<1>2. there \in [Slot -> SUBSET Command] /\ \A s \in Slot : Grown(cloud, there, s)
  BY <1>0, <1>1, DoneGrows DEF Grown
<1> DEFINE left == [s \in Slot |-> IF "vm" \in there[s] /\ s \notin undeleted' THEN {} ELSE there[s]]
<1>3. undeleted' \in SUBSET {s \in Slot : "vm" \in there[s]} /\ cloud' \in {left, Done(left)}
  BY <1>1
<1>4. left \in [Slot -> SUBSET Command]
  BY <1>2
<1>5. \A s \in Slot : left[s] = IF "vm" \in there[s] /\ s \notin undeleted' THEN {} ELSE there[s]
  OBVIOUS
<1> HIDE DEF left
<1>6. cloud' \in [Slot -> SUBSET Command] /\ \A s \in Slot : Grown(left, cloud', s)
  BY <1>3, <1>4, DoneGrows DEF Grown
<1>7. /\ abandoned' = {s \in abandoned : "vm" \notin cloud[s]}
                        \cup {s \in {slot} : todo # <<>> /\ cloud'[s] # {}}
      /\ slot' = NoSlot /\ todo' = <<>> /\ used' = used
  BY DEF Cleanup
<1> QED
  BY <1>2, <1>3, <1>4, <1>5, <1>6, <1>7

LEMMA RestartTypes ==
  ASSUME TypeOK, HasSlot, todo # <<>> => st = "starting", Restart PROVE TypeOK'
<1>1. SlotTypeOK'
  <2>1. cloud' \in [Slot -> SUBSET Command] /\ undeleted' \subseteq Slot
    BY CleanupEffect DEF Restart
  <2>2. abandoned' \subseteq Slot
    BY CleanupEffect DEF Restart, HasSlot, TypeOK, SlotTypeOK
  <2>3. slot' = NoSlot /\ todo' = <<>> /\ used' = used
    BY CleanupEffect DEF Restart
  <2> QED
    BY <2>1, <2>2, <2>3, EmptySeq DEF TypeOK, SlotTypeOK
<1>2. DataTypeOK'
  BY DataTypes DEF Restart, TypeOK, Item
<1>3. ClientTypeOK'
  BY DEF Restart, clientVars, TypeOK, ClientTypeOK
<1>4. /\ restarts' \in 0..MaxRestarts /\ UNCHANGED <<cloudly, proxied>>
      /\ st' = "none" /\ verdict' = "none" /\ batch' = FALSE /\ jobs' = {} /\ wire' = <<>>
      /\ unlocked' = FALSE /\ overlap' = FALSE
  BY BoundAssumption DEF Restart, TypeOK
<1>5. ServerTypeOK'
  BY <1>4, ServerTyped, EmptySeq DEF ServerTypeOK, St, Ended
<1> QED
  BY <1>1, <1>2, <1>3, <1>5, TypeParts

\* TypeOK is inductive with these.
TypeInv == TypeOK /\ WaitsInCall /\ HasSlot /\ (todo # <<>> => st = "starting")

LEMMA TypeInit == ASSUME Init PROVE TypeInv
<1>1. DataTypeOK /\ SlotTypeOK
  BY EmptySeq DEF Init, NoData, DataTypeOK, SlotInit, SlotTypeOK, Command
<1>2. /\ cl \in Cl /\ tries \in 0..Attempts /\ restarts \in 0..MaxRestarts
      /\ st \in St /\ jobs = {} /\ wire = <<>>
  BY BoundAssumption DEF Init, Cl, Calling, St, Ended
<1>3. wire \in Seq([op : Op, n : 1..Attempts])
  BY <1>2, EmptySeq
<1>4. TypeOK
  BY <1>1, <1>2, <1>3 DEF Init, TypeOK
<1> QED
  BY <1>4 DEF Init, SlotInit, TypeInv, WaitsInCall, HasSlot, Live

\* Nothing but the server's steps changes the task, and none but the scheduler its slot.
LEMMA TaskMoves ==
  ASSUME TypeInv, Next
  PROVE  \/ UNCHANGED <<st, verdict, slotVars>>
         \/ UNCHANGED slotVars /\ st = "none" /\ st' = "queued" /\ UNCHANGED verdict
         \/ UNCHANGED slotVars /\ st = "ready" /\ st' = "leased" /\ UNCHANGED verdict
         \/ /\ UNCHANGED slotVars /\ st \in Live /\ st' = "resetting"
            /\ verdict' = "completed" => Take /\ ~raised /\ \E i \in DOMAIN wire : wire[i].op = "complete"
            /\ verdict' \in {"completed", "failed", "abandoned"}
         \/ UNCHANGED <<slotVars, verdict>> /\ st = "queued" /\ st' = "failed"
         \/ Dispatch /\ Scheduler
         \/ RunStart /\ Scheduler
         \/ StartFails /\ Scheduler
         \/ Bind /\ Scheduler
         \/ Finalize /\ Scheduler
         \/ Restart
<1>1. CASE Client
  BY <1>1 DEF Client, serverVars
<1>2. CASE Write
  BY <1>2 DEF Write, serverVars
<1>3. CASE Beat
  BY <1>3 DEF Beat
<1>4. CASE Take
  <2>1. UNCHANGED slotVars
    BY <1>4 DEF Take
  <2>2. PICK i \in DOMAIN wire :
           \/ Submit(wire[i]) \/ Complete(wire[i]) \/ StageRefused(wire[i])
           \/ StageRuntime(wire[i]) \/ StageEval(wire[i])
    BY <1>4 DEF Take
  <2>3. CASE Submit(wire[i])
    BY <2>1, <2>3 DEF Submit
  <2>4. CASE Complete(wire[i])
    BY <1>4, <2>1, <2>4 DEF Complete
  <2>5. CASE StageRefused(wire[i]) \/ StageRuntime(wire[i]) \/ StageEval(wire[i])
    BY <2>1, <2>5 DEF StageRefused, StageRuntime, StageEval, serverVars
  <2> QED
    BY <2>2, <2>3, <2>4, <2>5
<1>5. CASE JobStep
  BY <1>5, JobSteps DEF serverVars
<1>6. CASE Scheduler
  <2>1. CASE Reap
    BY <2>1 DEF Reap
  <2>2. CASE ReapBatch
    <3>1. UNCHANGED slotVars
      BY <2>2 DEF ReapBatch
    <3>2. CASE st = "queued"
      BY <2>2, <3>1, <3>2 DEF ReapBatch, Live
    <3>3. CASE st \in Live
      BY <2>2, <3>1, <3>3 DEF ReapBatch, Live
    <3>4. CASE st # "queued" /\ st \notin Live
      BY <2>2, <3>1, <3>4 DEF ReapBatch
    <3> QED
      BY <3>2, <3>3, <3>4
  <2> QED
    BY <1>6, <2>1, <2>2 DEF Scheduler
<1> QED
  BY <1>1, <1>2, <1>3, <1>4, <1>5, <1>6 DEF Next

LEMMA TypeStep == ASSUME TypeInv, [Next]_vars PROVE TypeInv'
<1> USE DEF TypeInv
<1>1. CASE UNCHANGED vars
  BY <1>1 DEF vars, TypeOK, DataTypeOK, SlotTypeOK, WaitsInCall, HasSlot
<1>2. CASE Next
  <2>1. TypeOK'
    <3>1. CASE Write
      BY <3>1 DEF Write, TypeOK, DataTypeOK, SlotTypeOK, clientVars, serverVars, pastVars, slotVars
    <3>2. CASE Beat
      BY <3>2 DEF Beat, TypeOK, DataTypeOK, SlotTypeOK, clientVars, pastVars, slotVars, dataVars, St, Live
    <3> QED
      BY <1>2, <3>1, <3>2, ClientTypes, TakeTypes, JobTypes, SchedulerTypes, RestartTypes DEF Next
  <2>2. WaitsInCall'
    <3>1. CASE Client
      <4>1. ClientMoves
        BY <3>1, ClientSteps
      <4>2. ~waiting \/ cl \in Calling
        BY DEF WaitsInCall
      <4> QED
        BY <4>1, <4>2 DEF ClientMoves, Heard, WaitsInCall, Calling
    <3>2. CASE UNCHANGED clientVars
      BY <3>2 DEF clientVars, WaitsInCall
    <3>3. CASE \E r \in Req, ok \in BOOLEAN : Answer(r, ok)
      <4>1. UNCHANGED clientVars \/ waiting' = FALSE
        BY <3>3, AnswerMoves DEF Heard
      <4> QED
        BY <4>1, <3>2 DEF WaitsInCall
    <3>4. CASE Take
      <4>1. PICK i \in DOMAIN wire :
               \/ Submit(wire[i]) \/ Complete(wire[i]) \/ StageRefused(wire[i])
               \/ StageRuntime(wire[i]) \/ StageEval(wire[i])
        BY <3>4 DEF Take
      <4>2. wire[i] \in Req
        BY LenProperties, ElementOfSeq DEF TypeOK, Req
      <4>3. \/ UNCHANGED clientVars \/ Answer(wire[i], TRUE) \/ Answer(wire[i], FALSE)
        BY <4>1 DEF Submit, Complete, StageRefused, StageRuntime, StageEval, Live
      <4> QED
        BY <4>2, <4>3, <3>2, <3>3
    <3>5. CASE JobStep
      <4>1. PICK j \in jobs, ok \in BOOLEAN : JobMove(j, ok)
        BY <3>5, JobSteps
      <4>2. [op |-> j.op, n |-> j.n] \in Req
        BY DEF TypeOK, Req
      <4> QED
        BY <4>1, <4>2, <3>2, <3>3 DEF JobMove
    <3> QED
      BY <1>2, <3>1, <3>2, <3>4, <3>5 DEF Next, Write, Beat, Scheduler, Restart
  <2>3. HasSlot' /\ (todo # <<>> => st = "starting")'
    <3>1. CASE UNCHANGED slotVars /\ st' = st
      BY <3>1 DEF slotVars, HasSlot
    <3>2. CASE UNCHANGED slotVars /\ st \in {"none", "queued"} /\ st' \in {"queued", "failed"}
      BY <3>2 DEF slotVars, HasSlot, Live
    <3>3. CASE UNCHANGED slotVars /\ st \in Live /\ st' \in Live \cup {"resetting"}
      BY <3>3 DEF slotVars, HasSlot, Live
    <3>4. CASE Dispatch
      <4>1. slot' \in Slot /\ st' = "starting"
        BY <3>4, FreshSlot DEF Dispatch, Prepare
      <4> QED
        BY <4>1, SlotAssumption DEF HasSlot
    <3>5. CASE RunStart
      BY <3>5 DEF RunStart, RunCommand, serverVars, HasSlot
    <3>6. CASE StartFails
      <4>1. slot' = NoSlot /\ todo' = <<>> /\ st' = "failed"
        BY <3>6 DEF StartFails, StartRaises
      <4> QED
        BY <4>1 DEF HasSlot, Live
    <3>7. CASE Bind
      BY <3>7 DEF Bind, HasSlot, Live, LoopFree
    <3>8. CASE Finalize
      BY <3>8 DEF Finalize, Delete, HasSlot, Live, LoopFree
    <3>9. CASE Restart
      BY <3>9 DEF Restart, Cleanup, HasSlot, Live
    <3> QED
      BY <1>2, TaskMoves, <3>1, <3>2, <3>3, <3>4, <3>5, <3>6, <3>7, <3>8, <3>9 DEF Live
  <2> QED
    BY <2>1, <2>2, <2>3
<1> QED
  BY <1>1, <1>2

LEMMA TypeInvariant == Spec => []TypeInv
  BY TypeInit, TypeStep, PTL DEF Spec

\* Every variable stays within its type.
THEOREM TypeCorrect == Spec => []TypeOK
<1>1. TypeInv => TypeOK
  BY DEF TypeInv
<1> QED
  BY <1>1, TypeInvariant, PTL

----------------------------------------------------------------------------
(* What exists outside the process *)

LEMMA SlotInvInit == ASSUME Init PROVE SlotInv
BY DEF Init, SlotInit, SlotInv, Live

\* Commands leave an instance, or disks and the command for the instance to come.
LEMMA RunStartSlots == ASSUME TypeInv, SlotInv, RunStart PROVE SlotInv'
<1>1. /\ st = "starting" /\ st' = st /\ slot \in Slot /\ todo # <<>> /\ todo \in Seq(Command)
      /\ todo' = Tail(todo) /\ cloud' = [cloud EXCEPT ![slot] = Made(@, Head(todo))]
      /\ UNCHANGED <<slot, used, abandoned, undeleted>> /\ cloud \in [Slot -> SUBSET Command]
  BY DEF RunStart, RunCommand, serverVars, TypeInv, HasSlot, TypeOK, SlotTypeOK
<1>2. todo[Len(todo)] = "vm" /\ slot \in used \ undeleted
  BY <1>1 DEF SlotInv
<1>3. CASE Tail(todo) = <<>>
  <2>1. Len(todo) = 1 /\ Head(todo) = todo[1]
    <3>1. Len(Tail(todo)) = Len(todo) - 1 /\ Len(todo) \in Nat
      BY <1>1, HeadTailProperties, LenProperties
    <3>2. Len(Tail(todo)) = 0
      BY <1>3, EmptySeq
    <3> QED
      BY <1>1, <3>1, <3>2
  <2>2. cloud'[slot] = {"vm"}
    BY <1>1, <1>2, <2>1 DEF Made
  <2> QED
    BY <1>1, <1>2, <1>3, <2>2 DEF SlotInv, Live, TypeInv, TypeOK, SlotTypeOK
<1>4. CASE Tail(todo) # <<>>
  <2>1. Tail(todo)[Len(Tail(todo))] = todo[Len(todo)]
    <3>1. /\ Tail(todo) \in Seq(Command) /\ Len(Tail(todo)) = Len(todo) - 1
          /\ \A k \in 1..Len(Tail(todo)) : Tail(todo)[k] = todo[k + 1]
      BY <1>1, HeadTailProperties
    <3>2. Len(Tail(todo)) \in Nat \ {0} /\ Len(todo) \in Nat
      BY <1>1, <1>4, <3>1, EmptySeq, LenProperties
    <3>3. Len(Tail(todo)) \in 1..Len(Tail(todo)) /\ Len(Tail(todo)) + 1 = Len(todo)
      BY <3>1, <3>2
    <3> QED
      BY <3>1, <3>3
  <2> QED
    BY <1>1, <1>2, <1>4, <2>1 DEF SlotInv, Live, TypeInv, TypeOK, SlotTypeOK
<1> QED
  BY <1>3, <1>4

LEMMA StartFailsSlots == ASSUME TypeInv, SlotInv, StartFails PROVE SlotInv'
<1>1. st = "starting" /\ slot \in Slot /\ slot \in used \ undeleted /\ cloud \in [Slot -> SUBSET Command]
  BY DEF StartFails, TypeInv, HasSlot, TypeOK, SlotTypeOK, SlotInv
<1>2. PICK left \in SUBSET Command : StartRaises(left)
  BY <1>1, LeftTypes DEF TypeInv
<1>3. /\ cloud' = [cloud EXCEPT ![slot] = left] /\ slot' = NoSlot /\ todo' = <<>>
      /\ abandoned \subseteq abandoned' /\ (left # {} => slot \in abandoned')
      /\ UNCHANGED <<used, undeleted>> /\ st' = "failed"
  BY <1>2 DEF StartRaises, StartFails
<1>4. \A s \in Slot : cloud'[s] = IF s = slot THEN left ELSE cloud[s]
  BY <1>1, <1>3
<1>5. undeleted \subseteq Slot
  BY DEF TypeInv, TypeOK, SlotTypeOK
<1> QED
  BY <1>1, <1>3, <1>4, <1>5 DEF SlotInv, Live

LEMMA RestartSlots == ASSUME TypeInv, SlotInv, Restart PROVE SlotInv'
<1>1. TypeOK /\ Cleanup /\ st' = "none"
  BY DEF TypeInv, Restart
<1>2. /\ slot' = NoSlot /\ todo' = <<>> /\ used' = used /\ undeleted' \subseteq Slot
      /\ abandoned' = {s \in abandoned : "vm" \notin cloud[s]}
                            \cup {s \in {slot} : todo # <<>> /\ cloud'[s] # {}}
  BY <1>1, CleanupEffect
<1>3. PICK there, left \in [Slot -> SUBSET Command] :
        \A s \in Slot :
          /\ Grown(cloud, there, s) /\ Grown(left, cloud', s)
          /\ left[s] = IF "vm" \in there[s] /\ s \notin undeleted' THEN {} ELSE there[s]
          /\ s \in undeleted' => "vm" \in there[s]
  BY <1>1, CleanupEffect
<1>4. ASSUME NEW s \in Slot, there[s] # {} \/ cloud'[s] # {} PROVE s \in used
  <2>1. CASE s = slot /\ todo # <<>>
    BY <2>1, SlotAssumption DEF SlotInv
  <2>2. CASE ~(s = slot /\ todo # <<>>)
    <3>1. there[s] = cloud[s] /\ cloud'[s] = left[s] /\ left[s] \in {{}, there[s]}
      BY <1>3, <2>2 DEF Grown
    <3> QED
      BY <1>4, <3>1 DEF SlotInv
  <2> QED
    BY <2>1, <2>2
<1>5. ASSUME NEW s \in Slot, s \in undeleted' PROVE "vm" \in cloud'[s]
  <2>1. "vm" \in left[s]
    BY <1>3, <1>5
  <2> QED
    BY <1>3, <2>1 DEF Grown, Made
<1>6. ASSUME NEW s \in Slot, cloud'[s] # {} PROVE s \in abandoned' \cup undeleted'
  <2>1. CASE s = slot /\ todo # <<>>
    BY <1>2, <1>6, <2>1
  <2>2. CASE ~(s = slot /\ todo # <<>>) /\ s \notin undeleted'
    <3>1. there[s] = cloud[s] /\ cloud'[s] = left[s] /\ cloud[s] # {} /\ "vm" \notin cloud[s]
      BY <1>3, <1>6, <2>2 DEF Grown
    <3>2. s \in {slot} \cup abandoned \cup undeleted
      BY <3>1 DEF SlotInv
    <3>3. s \notin undeleted
      BY <3>1 DEF SlotInv
    <3>4. s # slot
      <4> SUFFICES ASSUME s = slot PROVE FALSE
        OBVIOUS
      <4>1. st \in Live \cup {"starting", "resetting"} /\ todo = <<>>
        BY <2>2, SlotAssumption DEF SlotInv
      <4> QED
        BY <3>1, <4>1 DEF SlotInv
    <3> QED
      BY <1>2, <3>1, <3>2, <3>3, <3>4
  <2> QED
    BY <2>1, <2>2
<1>7. slot' = NoSlot /\ st' \notin Live \cup {"starting", "resetting"}
  BY <1>1, <1>2 DEF Live
<1>8. undeleted' \subseteq used'
  <2>1. \A s \in undeleted' : there[s] # {}
    BY <1>2, <1>3
  <2> QED
    BY <1>2, <1>4, <2>1
<1> QED
  BY <1>2, <1>4, <1>5, <1>6, <1>7, <1>8 DEF SlotInv

LEMMA SlotInvStep == ASSUME TypeInv, SlotInv, [Next]_vars PROVE SlotInv'
<1>1. cloud \in [Slot -> SUBSET Command] /\ undeleted \subseteq Slot /\ slot \in Slot \cup {NoSlot}
  BY DEF TypeInv, TypeOK, SlotTypeOK
<1>2. CASE UNCHANGED <<st, slotVars>>
  BY <1>2 DEF slotVars, SlotInv
<1>3. CASE UNCHANGED slotVars /\ st \in {"none", "queued"} /\ st' \in {"queued", "failed"}
  BY <1>3 DEF slotVars, SlotInv, Live
<1>4. CASE UNCHANGED slotVars /\ st \in Live /\ st' \in Live \cup {"resetting"}
  BY <1>4 DEF slotVars, SlotInv, Live
<1>5. CASE Dispatch
  <2>1. /\ slot = NoSlot /\ slot' \in Slot \ used /\ used' = used \cup {slot'} /\ st' = "starting"
        /\ UNCHANGED <<cloud, abandoned, undeleted>>
    BY <1>5, FreshSlot DEF Dispatch, Prepare, TypeInv
  <2>2. todo' \in Plans(cloudly) /\ cloudly \in BOOLEAN
    BY <1>5 DEF Dispatch, Prepare, TypeInv, TypeOK
  <2>3. todo' # <<>> => todo'[Len(todo')] = "vm"
    BY <2>2, PlanTypes
  <2>4. slot' \notin undeleted /\ cloud'[slot'] = {}
    BY <1>1, <2>1 DEF SlotInv
  <2>5. \A s \in Slot : cloud'[s] # {} => s \in used' /\ s \in abandoned \cup undeleted
    BY <2>1, SlotAssumption DEF SlotInv
  <2> QED
    BY <2>1, <2>3, <2>4, <2>5, SlotAssumption DEF SlotInv, Live
<1>6. CASE Bind
  <2>1. /\ slot \in Slot /\ slot \in used \ undeleted /\ st' = "ready" /\ todo = <<>>
        /\ cloud' = [cloud EXCEPT ![slot] = {"vm"}]
        /\ UNCHANGED <<slot, todo, used, abandoned, undeleted>>
    BY <1>1, <1>6 DEF Bind, LoopFree, SlotInv
  <2>2. \A s \in Slot : cloud'[s] = IF s = slot THEN {"vm"} ELSE cloud[s]
    BY <1>1, <2>1
  <2> QED
    BY <1>1, <2>1, <2>2, SlotAssumption DEF SlotInv, Live
<1>7. CASE Finalize
  <2>1. /\ slot \in Slot /\ slot \in used \ undeleted /\ st' \in {"completed", "failed"}
        /\ cloud[slot] = {"vm"} /\ todo = <<>>
    BY <1>1, <1>7 DEF Finalize, LoopFree, SlotInv
  <2>2. /\ slot' = NoSlot /\ UNCHANGED <<todo, used, abandoned>>
        /\ \/ cloud' = [cloud EXCEPT ![slot] = {}] /\ UNCHANGED undeleted
           \/ undeleted' = undeleted \cup {slot} /\ UNCHANGED cloud
    BY <1>7 DEF Finalize, Delete
  <2>3. CASE cloud' = [cloud EXCEPT ![slot] = {}] /\ UNCHANGED undeleted
    <3>1. \A s \in Slot : cloud'[s] = IF s = slot THEN {} ELSE cloud[s]
      BY <1>1, <2>1, <2>3
    <3> QED
      BY <1>1, <2>1, <2>2, <2>3, <3>1 DEF SlotInv, Live
  <2>4. CASE undeleted' = undeleted \cup {slot} /\ UNCHANGED cloud
    BY <1>1, <2>1, <2>2, <2>4 DEF SlotInv, Live
  <2> QED
    BY <2>2, <2>3, <2>4
<1>8. CASE UNCHANGED vars
  BY <1>2, <1>8 DEF vars, slotVars
<1> QED
  BY TaskMoves, RunStartSlots, StartFailsSlots, RestartSlots, <1>2, <1>3, <1>4, <1>5, <1>6, <1>7, <1>8
     DEF Live

LEMMA SlotInvariant == Spec => []SlotInv
  BY SlotInvInit, SlotInvStep, TypeInvariant, PTL DEF Spec

\* What exists outside the process belongs to the slot of a task, or was left by a start
\* that failed or a deletion that did: no restart and no interrupted command loses track.
THEOREM CloudIsAccounted == Spec => []CloudAccounted
<1>1. SlotInv /\ TypeInv => CloudAccounted
  BY SlotAssumption DEF SlotInv, TypeInv, CloudAccounted
<1> QED
  BY <1>1, SlotInvariant, TypeInvariant, PTL

----------------------------------------------------------------------------
(* The contract of the runtimes *)

VmOf(s) == CASE s \notin used                     -> "none"
             [] s = slot /\ st = "starting"  -> "booting"
             [] s = slot /\ st \in Live      -> "serving"
             [] s = slot /\ st = "resetting" -> "closing"
             [] OTHER                        -> "gone"
AddrOf(s) == IF s = slot /\ st \in Live \cup {"resetting"} THEN {s} ELSE {}
vmBar == [s \in Slot |-> VmOf(s)]
addrBar == [s \in Slot |-> AddrOf(s)]

\* The cases of VmOf for the slot of the task, and for the others.
LEMMA SlotSeen ==
  ASSUME TypeInv, SlotInv, NEW s \in Slot
  PROVE  /\ s # slot => AddrOf(s) = {} /\ VmOf(s) = IF s \in used THEN "gone" ELSE "none"
         /\ s = slot => st \in Live \cup {"starting", "resetting"} /\ s \in used
         /\ s = slot /\ st = "starting" => VmOf(s) = "booting" /\ AddrOf(s) = {}
         /\ s = slot /\ st \in Live => VmOf(s) = "serving" /\ AddrOf(s) = {s}
         /\ s = slot /\ st = "resetting" => VmOf(s) = "closing" /\ AddrOf(s) = {s}
BY SlotAssumption DEF VmOf, AddrOf, SlotInv, Live, TypeInv, HasSlot

LEMMA SlotSeenNext ==
  ASSUME TypeInv', SlotInv', NEW s \in Slot
  PROVE  /\ s # slot' => AddrOf(s)' = {} /\ VmOf(s)' = IF s \in used' THEN "gone" ELSE "none"
         /\ s = slot' => st' \in Live \cup {"starting", "resetting"} /\ s \in used'
         /\ s = slot' /\ st' = "starting" => VmOf(s)' = "booting" /\ AddrOf(s)' = {}
         /\ s = slot' /\ st' \in Live => VmOf(s)' = "serving" /\ AddrOf(s)' = {s}
         /\ s = slot' /\ st' = "resetting" => VmOf(s)' = "closing" /\ AddrOf(s)' = {s}
BY SlotAssumption DEF VmOf, AddrOf, SlotInv, Live, TypeInv, HasSlot

\* A step of the contract, for one slot.
ContractStep ==
    \/ UNCHANGED <<vmBar, addrBar>>
    \/ \E s \in Slot :
         \/ vmBar[s] = "none" /\ vmBar' = [vmBar EXCEPT ![s] = "booting"] /\ UNCHANGED addrBar
         \/ /\ vmBar[s] = "booting" /\ vmBar' = [vmBar EXCEPT ![s] = "serving"]
            /\ addrBar' = [addrBar EXCEPT ![s] = {s}]
            /\ \A o \in Slot : {s} \cap addrBar[o] = {}
         \/ vmBar[s] = "booting" /\ vmBar' = [vmBar EXCEPT ![s] = "gone"] /\ UNCHANGED addrBar
         \/ vmBar[s] = "serving" /\ vmBar' = [vmBar EXCEPT ![s] = "closing"] /\ UNCHANGED addrBar
         \/ /\ vmBar[s] = "closing" /\ vmBar' = [vmBar EXCEPT ![s] = "gone"]
            /\ addrBar' = [addrBar EXCEPT ![s] = {}]
    \/ /\ vmBar' = [s \in Slot |-> IF vmBar[s] = "none" THEN "none" ELSE "gone"]
       /\ addrBar' = [s \in Slot |-> {}]

\* Only the slot in question changes.
LEMMA OneSlot ==
  ASSUME NEW t \in Slot,
         \A s \in Slot : s # t => VmOf(s)' = VmOf(s) /\ AddrOf(s)' = AddrOf(s)
  PROVE  /\ vmBar' = [vmBar EXCEPT ![t] = VmOf(t)']
         /\ addrBar' = [addrBar EXCEPT ![t] = AddrOf(t)']
         /\ AddrOf(t)' = AddrOf(t) => UNCHANGED addrBar
         /\ vmBar[t] = VmOf(t)
         /\ \A o \in Slot : addrBar[o] = AddrOf(o)
BY DEF vmBar, addrBar

LEMMA ContractSteps ==
  ASSUME TypeInv, SlotInv, [Next]_vars PROVE ContractStep
<1>1. TypeInv' /\ SlotInv'
  BY TypeStep, SlotInvStep
<1>2. slot \in Slot \cup {NoSlot} /\ NoSlot \notin Slot
  BY SlotAssumption DEF TypeInv, TypeOK, SlotTypeOK
<1> USE SlotSeen, SlotSeenNext
<1>3. CASE UNCHANGED <<st, slotVars>>
  BY <1>3 DEF slotVars, ContractStep, vmBar, addrBar, VmOf, AddrOf
<1>4. CASE UNCHANGED slotVars /\ st \in {"none", "queued"} /\ st' \in {"queued", "failed"}
  <2>1. \A s \in Slot : VmOf(s)' = VmOf(s) /\ AddrOf(s)' = AddrOf(s)
    BY <1>1, <1>4 DEF slotVars, Live
  <2> QED
    BY <2>1 DEF ContractStep, vmBar, addrBar
<1>5. CASE UNCHANGED slotVars /\ st = "ready" /\ st' = "leased"
  <2>1. \A s \in Slot : VmOf(s)' = VmOf(s) /\ AddrOf(s)' = AddrOf(s)
    BY <1>1, <1>5 DEF slotVars, Live
  <2> QED
    BY <2>1 DEF ContractStep, vmBar, addrBar
<1>6. CASE UNCHANGED slotVars /\ st \in Live /\ st' = "resetting"
  <2>1. slot \in Slot
    BY <1>2, <1>6 DEF TypeInv, HasSlot
  <2>2. PICK t \in Slot : t = slot
    BY <2>1
  <2>3. \A s \in Slot : s # t => VmOf(s)' = VmOf(s) /\ AddrOf(s)' = AddrOf(s)
    BY <1>1, <1>6, <2>2 DEF slotVars
  <2>4. VmOf(t) = "serving" /\ VmOf(t)' = "closing" /\ AddrOf(t)' = AddrOf(t)
    BY <1>1, <1>6, <2>1, <2>2 DEF slotVars, Live
  <2> QED
    BY <2>3, <2>4, OneSlot DEF ContractStep
<1>7. CASE Dispatch
  <2>1. /\ slot = NoSlot /\ slot' \in Slot \ used /\ used' = used \cup {slot'}
        /\ st = "queued" /\ st' = "starting"
    BY <1>7, FreshSlot DEF Dispatch, Prepare, TypeInv
  <2>2. PICK t \in Slot : t = slot'
    BY <2>1
  <2>3. \A s \in Slot : s # t => VmOf(s)' = VmOf(s) /\ AddrOf(s)' = AddrOf(s)
    BY <1>1, <1>2, <2>1, <2>2
  <2>4. VmOf(t) = "none" /\ VmOf(t)' = "booting" /\ AddrOf(t)' = AddrOf(t)
    BY <1>1, <1>2, <2>1, <2>2 DEF Live
  <2> QED
    BY <2>3, <2>4, OneSlot DEF ContractStep
<1>8. CASE RunStart
  <2>1. UNCHANGED <<st, slot, used>>
    BY <1>8 DEF RunStart, RunCommand, serverVars
  <2>2. \A s \in Slot : VmOf(s)' = VmOf(s) /\ AddrOf(s)' = AddrOf(s)
    BY <2>1 DEF VmOf, AddrOf
  <2> QED
    BY <2>2 DEF ContractStep, vmBar, addrBar
<1>9. CASE StartFails
  <2>1. slot \in Slot /\ st = "starting" /\ slot' = NoSlot /\ used' = used /\ st' = "failed"
    BY <1>2, <1>9 DEF TypeInv, HasSlot, StartFails, StartRaises
  <2>2. PICK t \in Slot : t = slot
    BY <2>1
  <2>3. \A s \in Slot : s # t => VmOf(s)' = VmOf(s) /\ AddrOf(s)' = AddrOf(s)
    BY <1>1, <1>2, <2>1, <2>2
  <2>4. VmOf(t) = "booting" /\ VmOf(t)' = "gone" /\ AddrOf(t)' = AddrOf(t)
    BY <1>1, <1>2, <2>1, <2>2 DEF Live
  <2> QED
    BY <2>3, <2>4, OneSlot DEF ContractStep
<1>10. CASE Bind
  <2>1. slot \in Slot /\ st = "starting" /\ UNCHANGED <<slot, used>> /\ st' = "ready"
    BY <1>2, <1>10 DEF TypeInv, HasSlot, Bind
  <2>2. PICK t \in Slot : t = slot
    BY <2>1
  <2>3. \A s \in Slot : s # t => VmOf(s)' = VmOf(s) /\ AddrOf(s)' = AddrOf(s)
    BY <1>1, <1>2, <2>1, <2>2
  <2>4. VmOf(t) = "booting" /\ VmOf(t)' = "serving" /\ AddrOf(t)' = {t}
    BY <1>1, <1>2, <2>1, <2>2 DEF Live
  <2>5. \A o \in Slot : {t} \cap AddrOf(o) = {}
    BY <2>1, <2>2
  <2> QED
    BY <2>3, <2>4, <2>5, OneSlot DEF ContractStep
<1>11. CASE Finalize
  <2>1. slot \in Slot /\ st = "resetting" /\ slot' = NoSlot /\ used' = used
    BY <1>2, <1>11 DEF TypeInv, HasSlot, Finalize, Delete
  <2>2. PICK t \in Slot : t = slot
    BY <2>1
  <2>3. \A s \in Slot : s # t => VmOf(s)' = VmOf(s) /\ AddrOf(s)' = AddrOf(s)
    BY <1>1, <1>2, <2>1, <2>2
  <2>4. VmOf(t) = "closing" /\ VmOf(t)' = "gone" /\ AddrOf(t)' = {}
    BY <1>1, <1>2, <2>1, <2>2 DEF Live
  <2> QED
    BY <2>3, <2>4, OneSlot DEF ContractStep
<1>12. CASE Restart
  <2>1. slot' = NoSlot /\ used' = used
    BY <1>12 DEF Restart, Cleanup
  <2>2. \A s \in Slot : /\ VmOf(s)' = (IF VmOf(s) = "none" THEN "none" ELSE "gone")
                        /\ AddrOf(s)' = {}
    BY <1>1, <1>2, <2>1
  <2> QED
    BY <2>2 DEF ContractStep, vmBar, addrBar
<1>13. CASE UNCHANGED vars
  BY <1>3, <1>13 DEF vars, slotVars
<1> QED
  BY TaskMoves, <1>3, <1>4, <1>5, <1>6, <1>7, <1>8, <1>9, <1>10, <1>11, <1>12, <1>13

\* The safety part of ImplementsContract: a request for a slot ends with a machine or
\* without, and a machine that was handed out is there until it has been torn down.
THEOREM SlotsKeepContract == Spec => Contract!Init /\ [][Contract!Next]_(Contract!vars)
<1>1. ASSUME Init PROVE Contract!Init
  <2>1. \A s \in Slot : VmOf(s) = "none" /\ AddrOf(s) = {}
    BY <1>1, SlotAssumption DEF Init, SlotInit, VmOf, AddrOf
  <2>2. vmBar = [s \in Slot |-> "none"] /\ addrBar = [s \in Slot |-> {}]
    BY <2>1 DEF vmBar, addrBar
  <2> QED
    BY <2>2 DEF vmBar, addrBar, VmOf, AddrOf, Contract!Init
<1>2. TypeInv /\ SlotInv /\ [Next]_vars => [Contract!Next]_(Contract!vars)
  <2> SUFFICES ASSUME ContractStep PROVE [Contract!Next]_(Contract!vars)
    BY ContractSteps
  <2>1. CASE UNCHANGED <<vmBar, addrBar>>
    BY <2>1 DEF vmBar, addrBar, VmOf, AddrOf, Contract!vars
  <2>2. ASSUME NEW s \in Slot,
               /\ vmBar[s] = "booting" /\ vmBar' = [vmBar EXCEPT ![s] = "serving"]
               /\ addrBar' = [addrBar EXCEPT ![s] = {s}]
               /\ \A o \in Slot : {s} \cap addrBar[o] = {}
        PROVE  Contract!Serve(s)
    <3>1. {s} \in SUBSET Slot
      OBVIOUS
    <3> QED
      BY <2>2, <3>1 DEF vmBar, addrBar, VmOf, AddrOf, Contract!Serve
  <2> QED
    BY <2>1, <2>2
       DEF ContractStep, vmBar, addrBar, VmOf, AddrOf, Contract!Next, Contract!Ask,
           Contract!Refuse, Contract!Close, Contract!Closed, Contract!Forget
<1> QED
  BY <1>1, <1>2, TypeInvariant, SlotInvariant, PTL DEF Spec

----------------------------------------------------------------------------
(* Requests that are still under way *)

\* What was sent stays what it was, whatever the connection loses or the server takes.
LEMMA WireKept ==
  ASSUME TypeOK, wire' \in {wire} \cup {RemoveAt(wire, i) : i \in DOMAIN wire}
  PROVE  \A k \in DOMAIN wire' : \E m \in DOMAIN wire : wire'[k] = wire[m]
<1>1. wire \in Seq(Req) /\ DOMAIN wire = 1..Len(wire) /\ Len(wire) \in Nat
  BY LenProperties DEF TypeOK, Req
<1>2. CASE \E i \in DOMAIN wire : wire' = RemoveAt(wire, i)
  <2>1. PICK i \in DOMAIN wire : wire' = RemoveAt(wire, i)
    BY <1>2
  <2>2. /\ wire' \in Seq(Req) /\ Len(wire') = Len(wire) - 1
        /\ \A k \in 1..Len(wire) - 1 : wire'[k] = IF k < i THEN wire[k] ELSE wire[k + 1]
    BY <1>1, <2>1, Removed
  <2>3. DOMAIN wire' = 1..Len(wire) - 1
    BY <2>2, LenProperties
  <2> QED
    BY <1>1, <2>2, <2>3
<1> QED
  BY <1>2

LEMMA Typed ==
  ASSUME TypeOK
  PROVE  /\ \A i \in DOMAIN wire : wire[i] \in Req
         /\ jobs \subseteq Job /\ tries \in Nat
         /\ cl \in Cl /\ st \in St
<1>1. wire \in Seq(Req) /\ jobs \subseteq Job /\ cl \in Cl /\ st \in St
  BY DEF TypeOK, Req, Job, Places
<1>2. tries \in Nat
  BY BoundAssumption DEF TypeOK
<1> QED
  BY <1>1, <1>2, LenProperties, ElementOfSeq

\* The client goes on to a call that it has not made before.
LEMMA HeardAsk ==
  ASSUME TypeOK, NEW r, r.op \in Op, RequestOK(r), NEW ok \in BOOLEAN, Heard(ok)
  PROVE  RequestOK(r)'
<1>1. CASE r.op = "submit"
  BY <1>1 DEF RequestOK, MayAsk, Heard, Cl, Calling, Inside, Out, Request
<1>2. CASE r.op = "stage-runtime"
  BY <1>2 DEF RequestOK, MayAsk, Heard, Cl, Calling, Inside, Out, Request
<1>3. CASE r.op = "stage-eval"
  BY <1>3 DEF RequestOK, MayAsk, Heard, Cl, Calling, Inside, Out, Request
<1>4. CASE r.op = "complete"
  BY <1>4 DEF RequestOK, MayAsk, Heard, Cl, Calling, Inside, Out, Request
<1> QED
  BY <1>1, <1>2, <1>3, <1>4 DEF Op

LEMMA ClientAsk ==
  ASSUME TypeOK, NEW r, r.op \in Op, r.n \in Nat, RequestOK(r), ClientMoves
  PROVE  RequestOK(r)'
<1>1. CASE \E ok \in BOOLEAN : Heard(ok)
  BY <1>1, HeardAsk
<1>2. CASE cl' = cl /\ tries' \in {tries, tries + 1}
  <2>1. tries' \in Nat /\ tries <= tries'
    BY <1>2, Typed
  <2> QED
    BY <1>2, <2>1, Typed DEF RequestOK
<1>3. CASE \/ cl = "polling" /\ cl' \in {"staging", "over"}
           \/ cl = "working" /\ cl' = "unlocking"
           \/ cl \in {"working", "judging"} /\ cl' = "leaving"
           \/ cl' = "gone"
  <2>1. CASE r.op = "submit"
    BY <1>3, <2>1 DEF RequestOK, MayAsk, Cl, Calling, Inside, Out, Request
  <2>2. CASE r.op = "stage-runtime"
    BY <1>3, <2>2 DEF RequestOK, MayAsk, Cl, Calling, Inside, Out, Request
  <2>3. CASE r.op = "stage-eval"
    BY <1>3, <2>3 DEF RequestOK, MayAsk, Cl, Calling, Inside, Out, Request
  <2>4. CASE r.op = "complete"
    BY <1>3, <2>4 DEF RequestOK, MayAsk, Cl, Calling, Inside, Out, Request
  <2> QED
    BY <2>1, <2>2, <2>3, <2>4 DEF Op
<1> QED
  BY <1>1, <1>2, <1>3 DEF ClientMoves

\* The request that a call sends is one that the client may make.
LEMMA SentAsk ==
  ASSUME TypeOK, cl \in Calling, tries < Attempts, tries' = tries + 1, cl' = cl,
         NEW r, r = [op |-> Request[cl], n |-> tries + 1]
  PROVE  RequestOK(r)'
<1>1. r.op = Request[cl] /\ r.n = tries'
  OBVIOUS
<1>2. cl \in MayAsk(Request[cl])
  BY DEF Calling, Request, MayAsk, Cl, Inside
<1>3. tries' \in Nat
  BY Typed
<1> QED
  BY <1>1, <1>2, <1>3 DEF RequestOK

\* The step of a request by the server, and what the client hears of it.
Handled(r) ==
    \/ UNCHANGED clientVars
    \/ Current(r) /\ waiting /\ \E ok \in BOOLEAN : Heard(ok)

LEMMA TakeSteps ==
  ASSUME TypeOK, Take
  PROVE  \E i \in DOMAIN wire :
           /\ wire' = RemoveAt(wire, i) /\ (proxied \/ i = 1) /\ wire[i] \in Req
           /\ \/ Submit(wire[i]) \/ Complete(wire[i]) \/ StageRefused(wire[i])
              \/ StageRuntime(wire[i]) \/ StageEval(wire[i])
           /\ Handled(wire[i])
<1>1. PICK i \in DOMAIN wire :
        /\ wire' = RemoveAt(wire, i) /\ (proxied \/ i = 1)
        /\ \/ Submit(wire[i]) \/ Complete(wire[i]) \/ StageRefused(wire[i])
           \/ StageRuntime(wire[i]) \/ StageEval(wire[i])
  BY DEF Take
<1>2. wire[i] \in Req
  BY Typed
<1>3. \/ UNCHANGED clientVars \/ Answer(wire[i], TRUE) \/ Answer(wire[i], FALSE)
  BY <1>1 DEF Submit, Complete, StageRefused, StageRuntime, StageEval, Live
<1> QED
  BY <1>1, <1>2, <1>3, AnswerMoves DEF Handled

LEMMA JobHandled ==
  ASSUME TypeOK, NEW j \in jobs, NEW ok \in BOOLEAN, JobMove(j, ok)
  PROVE  Handled(j)
<1>1. [op |-> j.op, n |-> j.n] \in Req
  BY Typed DEF Job, Req
<1>2. Current([op |-> j.op, n |-> j.n]) => Current(j)
  BY DEF Current
<1> QED
  BY <1>1, <1>2, AnswerMoves DEF JobMove, Handled

LEMMA AskHandled ==
  ASSUME TypeOK, NEW q, Handled(q), NEW r, r.op \in Op, RequestOK(r)
  PROVE  RequestOK(r)'
<1>1. CASE UNCHANGED clientVars
  BY <1>1 DEF clientVars, RequestOK
<1>2. CASE \E ok \in BOOLEAN : Heard(ok)
  BY <1>2, HeardAsk
<1> QED
  BY <1>1, <1>2 DEF Handled

\* The handlers that a taken request suspends.
LEMMA NewJobs ==
  ASSUME NEW r, Submit(r) \/ Complete(r) \/ StageRefused(r) \/ StageRuntime(r) \/ StageEval(r),
         NEW j \in jobs', j \notin jobs
  PROVE  /\ j.op = r.op /\ j.n = r.n /\ UNCHANGED clientVars
         /\ \/ StageRuntime(r) /\ ~cloudly /\ j.at = "mount" /\ Link(TRUE)
            \/ StageRuntime(r) /\ cloudly /\ j.at = "reference" /\ UNCHANGED dataVars
            \/ StageEval(r) /\ cloudly /\ j.at = "unlock" /\ UNCHANGED dataVars
<1>1. CASE StageRuntime(r)
  <2>1. PICK at \in {"mount", "reference"} :
          /\ Suspend(r, at) /\ UNCHANGED clientVars
          /\ \/ at = "mount" /\ ~cloudly /\ Link(TRUE)
             \/ at = "reference" /\ cloudly /\ UNCHANGED dataVars
    BY <1>1 DEF StageRuntime
  <2>2. j = [op |-> r.op, n |-> r.n, at |-> at]
    BY <2>1 DEF Suspend
  <2> QED
    BY <1>1, <2>1, <2>2
<1>2. CASE StageEval(r)
  <2>1. Suspend(r, "unlock") /\ UNCHANGED clientVars /\ cloudly /\ UNCHANGED dataVars
    BY <1>2 DEF StageEval
  <2>2. j = [op |-> r.op, n |-> r.n, at |-> "unlock"]
    BY <2>1 DEF Suspend
  <2> QED
    BY <1>2, <2>1, <2>2
<1>3. CASE Submit(r) \/ Complete(r) \/ StageRefused(r)
  BY <1>3 DEF Submit, Complete, StageRefused
<1> QED
  BY <1>1, <1>2, <1>3

LEMMA AskStep == ASSUME TypeInv, AllAsked, [Next]_vars PROVE AllAsked'
<1>1. TypeOK /\ WaitsInCall /\ wire \in Seq(Req)
  BY DEF TypeInv, TypeOK, Req
<1>2. /\ \A i \in DOMAIN wire : wire[i] \in Req /\ RequestOK(wire[i])
      /\ \A j \in jobs : j \in Job /\ RequestOK(j)
  BY <1>1, Typed DEF AllAsked
<1>3. \A r : r \in Req \cup Job => r.op \in Op /\ r.n \in Nat
  BY BoundAssumption DEF Req, Job
<1>4. CASE Client
  <2>1. ClientMoves /\ jobs' = jobs
    BY <1>1, <1>4, ClientSteps DEF Client
  <2>2. \A r : r \in Req \cup Job /\ RequestOK(r) => RequestOK(r)'
    BY <1>1, <1>3, <2>1, ClientAsk
  <2>3. ASSUME NEW k \in DOMAIN wire' PROVE RequestOK(wire[k])'
    <3>1. CASE wire' \in {wire} \cup {RemoveAt(wire, i) : i \in DOMAIN wire}
      <4>1. PICK m \in DOMAIN wire : wire'[k] = wire[m]
        BY <1>1, <2>3, <3>1, WireKept
      <4>2. PICK r : r = wire[m]
        OBVIOUS
      <4>3. RequestOK(r)'
        BY <1>2, <2>2, <4>2
      <4> QED
        BY <4>1, <4>2, <4>3 DEF RequestOK
    <3>2. CASE /\ cl \in Calling /\ tries' = tries + 1 /\ tries < Attempts /\ cl' = cl
               /\ wire' = Append(wire, [op |-> Request[cl], n |-> tries + 1])
      <4>1. PICK new : new = [op |-> Request[cl], n |-> tries + 1]
        OBVIOUS
      <4>2. new \in Req
        BY <1>1, <3>2, <4>1, Asked
      <4>3. /\ DOMAIN wire' = 1..Len(wire) + 1 /\ DOMAIN wire = 1..Len(wire) /\ Len(wire) \in Nat
            /\ \A i \in 1..Len(wire) : wire'[i] = wire[i]
            /\ wire'[Len(wire) + 1] = new
        BY <1>1, <3>2, <4>1, <4>2, AppendProperties, LenProperties
      <4>4. PICK r : r = wire'[k]
        OBVIOUS
      <4>5. CASE k \in 1..Len(wire)
        <5>1. r = wire[k] /\ k \in DOMAIN wire
          BY <4>3, <4>4, <4>5
        <5>2. RequestOK(r)'
          BY <1>2, <2>2, <5>1
        <5> QED
          BY <4>4, <5>2 DEF RequestOK
      <4>6. CASE k = Len(wire) + 1
        <5>1. r = [op |-> Request[cl], n |-> tries + 1]
          BY <4>1, <4>3, <4>4, <4>6
        <5>2. RequestOK(r)'
          BY <1>1, <3>2, <5>1, SentAsk
        <5> QED
          BY <4>4, <5>2 DEF RequestOK
      <4> QED
        BY <2>3, <4>3, <4>5, <4>6
    <3> QED
      BY <2>1, <3>1, <3>2 DEF ClientMoves
  <2> QED
    BY <1>2, <2>1, <2>2, <2>3 DEF AllAsked
<1>5. CASE Take
  <2>1. PICK i \in DOMAIN wire :
           /\ wire' = RemoveAt(wire, i) /\ wire[i] \in Req
           /\ \/ Submit(wire[i]) \/ Complete(wire[i]) \/ StageRefused(wire[i])
              \/ StageRuntime(wire[i]) \/ StageEval(wire[i])
           /\ Handled(wire[i])
    BY <1>1, <1>5, TakeSteps
  <2>2. \A r : r \in Req \cup Job /\ RequestOK(r) => RequestOK(r)'
    BY <1>1, <1>3, <2>1, AskHandled
  <2>3. ASSUME NEW k \in DOMAIN wire' PROVE RequestOK(wire[k])'
    <3>1. PICK m \in DOMAIN wire : wire'[k] = wire[m]
      BY <1>1, <2>1, <2>3, WireKept
    <3>2. PICK r : r = wire[m]
      OBVIOUS
    <3>3. RequestOK(r)'
      BY <1>2, <2>2, <3>2
    <3> QED
      BY <3>1, <3>2, <3>3 DEF RequestOK
  <2>4. ASSUME NEW j \in jobs' PROVE RequestOK(j)'
    <3>1. CASE j \in jobs
      BY <1>2, <2>2, <3>1
    <3>2. CASE j \notin jobs
      <4>1. j.op = wire[i].op /\ j.n = wire[i].n
        BY <2>1, <2>4, <3>2, NewJobs
      <4>2. PICK r : r = wire[i]
        OBVIOUS
      <4>3. RequestOK(r)'
        BY <1>2, <2>2, <4>2
      <4> QED
        BY <4>1, <4>2, <4>3 DEF RequestOK
    <3> QED
      BY <3>1, <3>2
  <2> QED
    BY <2>3, <2>4 DEF AllAsked
<1>6. CASE JobStep
  <2>1. PICK j \in jobs, ok \in BOOLEAN : JobMove(j, ok)
    BY <1>6, JobSteps
  <2>2. Handled(j)
    BY <1>1, <2>1, JobHandled
  <2>3. \A r : r \in Req \cup Job /\ RequestOK(r) => RequestOK(r)'
    BY <1>1, <1>3, <2>2, AskHandled
  <2>4. wire' = wire
    BY <1>6, JobSteps
  <2>5. ASSUME NEW k \in DOMAIN wire' PROVE RequestOK(wire[k])'
    <3>1. PICK r : r = wire[k]
      OBVIOUS
    <3>2. RequestOK(r)'
      BY <1>2, <2>3, <2>4, <2>5, <3>1
    <3> QED
      BY <2>4, <3>1, <3>2 DEF RequestOK
  <2>6. ASSUME NEW o \in jobs' PROVE RequestOK(o)'
    <3>1. CASE o \in jobs
      BY <1>2, <2>3, <3>1
    <3>2. CASE o \notin jobs
      <4>1. o = [j EXCEPT !.at = "others"]
        BY <2>1, <2>6, <3>2 DEF JobMove
      <4>2. o.op = j.op /\ o.n = j.n
        BY <1>2, <4>1 DEF Job
      <4>3. RequestOK(j)'
        BY <1>2, <2>3
      <4> QED
        BY <4>2, <4>3 DEF RequestOK
    <3> QED
      BY <3>1, <3>2
  <2> QED
    BY <2>5, <2>6 DEF AllAsked
<1>7. CASE Restart
  BY <1>7 DEF Restart, AllAsked
<1>8. CASE UNCHANGED <<cl, tries, wire, jobs>>
  BY <1>8 DEF AllAsked, RequestOK
<1> QED
  BY <1>4, <1>5, <1>6, <1>7, <1>8 DEF Next, Write, Beat, Scheduler, clientVars, vars

LEMMA AllAskedInvariant == Spec => []AllAsked
<1>1. Init => AllAsked
  BY DEF Init, AllAsked
<1> QED
  BY <1>1, AskStep, TypeInvariant, PTL DEF Spec

\* How the client moves in any step.
LEMMA AnyClientMove ==
  ASSUME TypeInv, [Next]_vars
  PROVE  ClientMoves \/ UNCHANGED clientVars \/ \E ok \in BOOLEAN : Heard(ok)
<1>1. TypeOK /\ WaitsInCall
  BY DEF TypeInv
<1>2. CASE Take
  BY <1>1, <1>2, TakeSteps DEF Handled
<1>3. CASE JobStep
  BY <1>1, <1>3, JobSteps, JobHandled DEF Handled
<1>4. CASE Client
  BY <1>1, <1>4, ClientSteps
<1> QED
  BY <1>2, <1>3, <1>4 DEF Next, Write, Beat, Scheduler, Restart, vars, clientVars

\* A client that left the body without an exception stays so.
LEMMA LeftStays == ASSUME TypeInv, Left, [Next]_vars PROVE Left'
<1>1. CASE UNCHANGED clientVars
  BY <1>1 DEF clientVars, Left
<1>2. CASE \E ok \in BOOLEAN : Heard(ok)
  BY <1>2 DEF Heard, Left, Inside, Out, Calling
<1>3. CASE ClientMoves
  <2>1. cl \notin {"polling", "working", "judging"} /\ ~raised
    BY DEF Left, Out
  <2>2. CASE Heard(FALSE)
    BY <1>2, <2>2
  <2>3. CASE UNCHANGED <<cl, raised>>
    BY <2>3 DEF Left
  <2>4. CASE cl' = "gone" /\ raised' = raised
    BY <2>4 DEF Left, Out
  <2> QED
    BY <1>3, <2>1, <2>2, <2>3, <2>4 DEF ClientMoves
<1> QED
  BY AnyClientMove, <1>1, <1>2, <1>3

LEMMA EarnStep == ASSUME TypeInv, AllAsked, EarnInv, [Next]_vars PROVE EarnInv'
<1>1. Left => Left'
  BY LeftStays
<1>2. CASE UNCHANGED <<st, verdict>>
  BY <1>1, <1>2 DEF EarnInv
<1>3. CASE st \in {"none", "queued", "ready"} /\ st' \in {"queued", "failed", "leased"} /\ UNCHANGED verdict
  BY <1>1, <1>3 DEF EarnInv
<1>4. CASE /\ st \in Live /\ st' = "resetting" /\ verdict' \in {"completed", "failed", "abandoned"}
           /\ verdict' = "completed" => ~raised /\ \E i \in DOMAIN wire : wire[i].op = "complete"
  <2>1. verdict' = "completed" => Left
    <3>1. MayAsk("complete") = {"leaving"} \cup Out
      BY DEF MayAsk
    <3> QED
      BY <1>4, <3>1 DEF AllAsked, RequestOK, Left
  <2> QED
    BY <1>1, <1>4, <2>1 DEF EarnInv
<1>5. CASE Dispatch
  BY <1>1, <1>5 DEF Dispatch, EarnInv
<1>6. CASE RunStart
  BY <1>2, <1>6 DEF RunStart, serverVars
<1>7. CASE StartFails
  BY <1>1, <1>7 DEF StartFails, EarnInv
<1>8. CASE Bind
  BY <1>1, <1>8 DEF Bind, EarnInv
<1>9. CASE Finalize
  BY <1>1, <1>9 DEF Finalize, EarnInv
<1>10. CASE Restart
  BY <1>10 DEF Restart, EarnInv
<1>11. CASE UNCHANGED vars
  BY <1>2, <1>11 DEF vars
<1> QED
  BY TaskMoves, <1>2, <1>3, <1>4, <1>5, <1>6, <1>7, <1>8, <1>9, <1>10, <1>11 DEF Live

\* Whatever is tried again, comes late or is cut off: a task ends COMPLETED only if its
\* client left the body without an exception.
THEOREM CompletionIsEarned == Spec => []EarnedByClient
<1>1. Init => EarnInv
  BY DEF Init, EarnInv
<1>2. EarnInv => EarnedByClient
  BY DEF EarnInv, EarnedByClient, Left
<1> QED
  BY <1>1, <1>2, EarnStep, TypeInvariant, AllAskedInvariant, PTL DEF Spec

----------------------------------------------------------------------------
(* The order of requests *)

LEMMA NoneSentKept ==
  ASSUME TypeOK, NoRuntimeSent, wire' \in {wire} \cup {RemoveAt(wire, i) : i \in DOMAIN wire}
  PROVE  NoRuntimeSent'
BY WireKept DEF NoRuntimeSent

\* The last request stays the last one when another is taken out.
LEMMA LastStaysLast ==
  ASSUME TypeOK, OrderInv, cl' = cl, tries' = tries,
         wire' \in {wire} \cup {RemoveAt(wire, i) : i \in DOMAIN wire}
  PROVE  \A k \in DOMAIN wire' : Current(wire[k])' => k = Len(wire')
<1>1. wire \in Seq(Req) /\ DOMAIN wire = 1..Len(wire) /\ Len(wire) \in Nat
  BY LenProperties DEF TypeOK, Req
<1>2. \A i \in DOMAIN wire : Current(wire[i]) => i = Len(wire)
  BY DEF OrderInv
<1>3. ASSUME NEW k \in DOMAIN wire', Current(wire[k])' PROVE k = Len(wire')
  <2>1. CASE wire' = wire
    BY <1>2, <1>3, <2>1 DEF Current
  <2>2. CASE \E i \in DOMAIN wire : wire' = RemoveAt(wire, i)
    <3>1. PICK i \in DOMAIN wire : wire' = RemoveAt(wire, i)
      BY <2>2
    <3>2. /\ wire' \in Seq(Req) /\ Len(wire') = Len(wire) - 1
          /\ \A m \in 1..Len(wire) - 1 : wire'[m] = IF m < i THEN wire[m] ELSE wire[m + 1]
      BY <1>1, <3>1, Removed
    <3>3. k \in 1..Len(wire) - 1
      BY <3>2, <1>3, LenProperties
    <3>4. PICK m \in DOMAIN wire : wire'[k] = wire[m] /\ m = IF k < i THEN k ELSE k + 1
      BY <1>1, <3>2, <3>3
    <3>5. Current(wire[m])
      BY <1>3, <3>4 DEF Current
    <3> QED
      BY <1>1, <1>2, <3>2, <3>3, <3>4, <3>5
  <2> QED
    BY <2>1, <2>2
<1> QED
  BY <1>3

\* A client between two calls, or at the first attempt of one, waits for no request.
LEMMA NothingCurrent ==
  ASSUME TypeInv', tries' = 0
  PROVE  /\ \A k \in DOMAIN wire' : ~Current(wire[k])'
         /\ \A j \in jobs' : ~Current(j)'
<1>1. wire' \in Seq(Req) /\ jobs' \subseteq Job
  BY DEF TypeInv, TypeOK, Req, Job, Places
<1>2. \A k \in DOMAIN wire' : wire'[k] \in Req
  BY <1>1, LenProperties, ElementOfSeq
<1>3. \A r \in Req \cup Job : r.n # 0
  BY DEF Req, Job
<1> QED
  BY <1>1, <1>2, <1>3 DEF Current

LEMMA OrderStep == ASSUME TypeInv, AllAsked, OrderInv, [Next]_vars PROVE OrderInv'
<1>1. TypeOK /\ WaitsInCall /\ wire \in Seq(Req) /\ TypeInv'
  BY TypeStep DEF TypeInv, TypeOK, Req
<1>2. /\ DOMAIN wire = 1..Len(wire) /\ Len(wire) \in Nat /\ tries \in Nat
      /\ \A i \in DOMAIN wire : wire[i] \in Req
      /\ jobs \subseteq Job
  BY <1>1, Typed, LenProperties
<1>3. /\ cl \notin Calling => tries = 0
      /\ \A i \in DOMAIN wire : Current(wire[i]) => i = Len(wire)
      /\ ~proxied /\ cl = "staging" /\ (\E j \in jobs : Current(j)) => NoRuntimeSent
      /\ ~proxied /\ cl \in {"working", "unlocking", "judging"} => NoRuntimeSent
  BY DEF OrderInv
<1>4. ASSUME tries' = 0, ~proxied /\ cl' \in {"working", "unlocking", "judging"} => NoRuntimeSent',
             proxied' = proxied
      PROVE  OrderInv'
  BY <1>1, <1>4, NothingCurrent DEF OrderInv
<1>5. CASE Client
  <2>1. ClientMoves /\ jobs' = jobs /\ proxied' = proxied
    BY <1>1, <1>5, ClientSteps DEF Client
  <2>2. CASE /\ cl \in Calling /\ tries' = tries + 1 /\ tries < Attempts /\ cl' = cl
             /\ wire' \in {wire, Append(wire, [op |-> Request[cl], n |-> tries + 1])}
    <3>1. PICK new : new = [op |-> Request[cl], n |-> tries + 1]
      OBVIOUS
    <3>2. new \in Req
      BY <1>1, <2>2, <3>1, Asked
    <3>3. /\ wire' = wire \/ (wire' = Append(wire, new) /\ DOMAIN wire' = 1..Len(wire) + 1 /\ Len(wire') = Len(wire) + 1)
          /\ \A k \in DOMAIN wire' : \/ k \in DOMAIN wire /\ wire'[k] = wire[k]
                                     \/ k = Len(wire) + 1 /\ k = Len(wire') /\ wire'[k] = new
      BY <1>1, <1>2, <2>2, <3>1, <3>2, AppendProperties, LenProperties
    <3>4. \A i \in DOMAIN wire : ~(wire[i].op = Request[cl] /\ wire[i].n = tries + 1)
      BY <1>2, <2>2 DEF AllAsked, RequestOK
    <3>5. \A j \in jobs : ~(j.op = Request[cl] /\ j.n = tries + 1)
      BY <1>2, <2>2 DEF AllAsked, RequestOK
    <3>6. \A k \in DOMAIN wire' : Current(wire[k])' => k = Len(wire')
      BY <2>2, <3>3, <3>4 DEF Current
    <3>7. \A j \in jobs' : ~Current(j)'
      BY <2>1, <2>2, <3>5 DEF Current
    <3>8. cl' \in {"working", "unlocking", "judging"} /\ ~proxied => NoRuntimeSent'
      <4>1. cl \in {"working", "unlocking", "judging"} => new.op = "stage-eval"
        BY <2>2, <3>1 DEF Calling, Request
      <4> QED
        BY <1>3, <2>2, <3>3, <4>1 DEF NoRuntimeSent
    <3> QED
      BY <2>1, <2>2, <3>6, <3>7, <3>8 DEF OrderInv
  <2>3. CASE UNCHANGED <<cl, tries>> /\ wire' \in {wire} \cup {RemoveAt(wire, i) : i \in DOMAIN wire}
    <3>1. NoRuntimeSent => NoRuntimeSent'
      BY <1>1, <2>3, NoneSentKept
    <3>2. \A k \in DOMAIN wire' : Current(wire[k])' => k = Len(wire')
      BY <1>1, <2>3, LastStaysLast
    <3>3. \A j \in jobs : Current(j)' <=> Current(j)
      BY <2>3 DEF Current
    <3> QED
      BY <1>3, <2>1, <2>3, <3>1, <3>2, <3>3 DEF OrderInv
  <2>4. CASE Heard(FALSE)
    BY <1>4, <2>1, <2>4 DEF Heard
  <2>5. CASE /\ UNCHANGED wire
             /\ \/ cl = "polling" /\ cl' \in {"staging", "over"} /\ tries' = tries
                \/ cl = "working" /\ cl' = "unlocking" /\ tries' = tries
                \/ cl \in {"working", "judging"} /\ cl' = "leaving" /\ tries' = tries
                \/ cl' = "gone" /\ tries' = 0
    <3>1. tries' = 0
      BY <1>3, <2>5 DEF Calling
    <3>2. NoRuntimeSent' <=> NoRuntimeSent
      BY <2>5 DEF NoRuntimeSent
    <3> QED
      BY <1>3, <1>4, <2>1, <2>5, <3>1, <3>2
  <2> QED
    BY <2>1, <2>2, <2>3, <2>4, <2>5 DEF ClientMoves
<1>6. CASE Take
  <2>1. PICK i \in DOMAIN wire :
           /\ wire' = RemoveAt(wire, i) /\ (proxied \/ i = 1) /\ wire[i] \in Req
           /\ \/ Submit(wire[i]) \/ Complete(wire[i]) \/ StageRefused(wire[i])
              \/ StageRuntime(wire[i]) \/ StageEval(wire[i])
           /\ Handled(wire[i])
    BY <1>1, <1>6, TakeSteps
  <2>2. proxied' = proxied
    BY <1>6 DEF Take
  <2>3. NoRuntimeSent => NoRuntimeSent'
    BY <1>1, <2>1, NoneSentKept
  <2>4. ~proxied /\ Current(wire[i]) => NoRuntimeSent'
    <3>1. wire' \in Seq(Req) /\ Len(wire') = Len(wire) - 1
      BY <1>1, <2>1, Removed
    <3>2. DOMAIN wire' = 1..Len(wire) - 1
      BY <3>1, LenProperties
    <3>3. ~proxied /\ Current(wire[i]) => Len(wire) = 1
      BY <1>3, <2>1
    <3> QED
      BY <3>2, <3>3 DEF NoRuntimeSent
  <2>5. CASE UNCHANGED clientVars
    <3>1. cl' = cl /\ tries' = tries
      BY <2>5 DEF clientVars
    <3>2. \A k \in DOMAIN wire' : Current(wire[k])' => k = Len(wire')
      BY <1>1, <2>1, <3>1, LastStaysLast
    <3>3. ASSUME NEW j \in jobs', Current(j)'
          PROVE  Current(wire[i]) \/ \E o \in jobs : Current(o)
      <4>1. Current(j)
        BY <3>1, <3>3 DEF Current
      <4>2. CASE j \notin jobs
        BY <2>1, <4>1, <4>2, NewJobs DEF Current
      <4> QED
        BY <4>1, <4>2
    <3> QED
      BY <1>3, <2>2, <2>3, <2>4, <3>1, <3>2, <3>3 DEF OrderInv
  <2>6. CASE Current(wire[i]) /\ \E ok \in BOOLEAN : Heard(ok)
    BY <1>4, <2>2, <2>4, <2>6 DEF Heard
  <2> QED
    BY <2>1, <2>5, <2>6 DEF Handled
<1>7. CASE JobStep
  <2>1. PICK j \in jobs, ok \in BOOLEAN : JobMove(j, ok)
    BY <1>7, JobSteps
  <2>2. wire' = wire /\ proxied' = proxied
    BY <1>7, JobSteps
  <2>3. NoRuntimeSent' <=> NoRuntimeSent
    BY <2>2 DEF NoRuntimeSent
  <2>4. CASE UNCHANGED clientVars
    <3>1. cl' = cl /\ tries' = tries
      BY <2>4 DEF clientVars
    <3>2. \A k \in DOMAIN wire' : Current(wire[k])' => k = Len(wire')
      BY <1>3, <2>2, <3>1 DEF Current
    <3>3. ASSUME NEW o \in jobs', Current(o)' PROVE \E p \in jobs : Current(p)
      <4>1. Current(o)
        BY <3>1, <3>3 DEF Current
      <4>2. CASE o \notin jobs
        <5>1. o = [j EXCEPT !.at = "others"]
          BY <2>1, <3>3, <4>2 DEF JobMove
        <5>2. o.op = j.op /\ o.n = j.n
          BY <1>2, <5>1 DEF Job
        <5> QED
          BY <4>1, <5>2 DEF Current
      <4> QED
        BY <4>1, <4>2
    <3> QED
      BY <1>3, <2>2, <2>3, <3>1, <3>2, <3>3 DEF OrderInv
  <2>5. CASE Current(j) /\ \E b \in BOOLEAN : Heard(b)
    BY <1>3, <1>4, <2>2, <2>3, <2>5 DEF Heard
  <2> QED
    BY <1>1, <2>1, <2>4, <2>5, JobHandled DEF Handled
<1>8. CASE Restart
  BY <1>3, <1>8 DEF Restart, clientVars, OrderInv, NoRuntimeSent
<1>9. CASE UNCHANGED <<cl, tries, wire, jobs, proxied>>
  BY <1>3, <1>9 DEF OrderInv, NoRuntimeSent, Current
<1> QED
  BY <1>5, <1>6, <1>7, <1>8, <1>9 DEF Next, Write, Beat, Scheduler, clientVars, vars

LEMMA OrderInvariant == Spec => []OrderInv
<1>1. Init => OrderInv
  BY DEF Init, OrderInv, NoRuntimeSent
<1> QED
  BY <1>1, OrderStep, TypeInvariant, AllAskedInvariant, PTL DEF Spec

----------------------------------------------------------------------------
(* The lease of the client *)

Granted == Live \cup {"resetting", "completed", "failed"}

LEMMA UnderwayStep ==
  ASSUME TypeInv, Underway', [Next]_vars, ~Restart PROVE Underway \/ st \in Live
<1>1. TypeOK /\ WaitsInCall /\ wire \in Seq(Req)
  BY DEF TypeInv, TypeOK, Req
<1>2. ASSUME cl' \in Inside \cup {"leaving"} PROVE Underway \/ st \in Live
  <2>1. CASE UNCHANGED clientVars
    BY <1>2, <2>1 DEF clientVars, Underway
  <2>2. CASE \E ok \in BOOLEAN : Heard(ok)
    BY <1>2, <2>2 DEF Heard, Underway, Inside, Calling
  <2>3. CASE ClientMoves
    <3>1. CASE Heard(FALSE)
      BY <2>2, <3>1
    <3>2. CASE UNCHANGED cl
      BY <1>2, <3>2 DEF Underway
    <3>3. CASE \/ cl = "polling" /\ cl' = "staging" /\ st \in Live
               \/ cl \in {"working", "judging"}
               \/ cl' \in {"over", "gone"}
      BY <1>2, <3>3 DEF Underway, Inside
    <3> QED
      BY <2>3, <3>1, <3>2, <3>3 DEF ClientMoves
  <2> QED
    BY AnyClientMove, <2>1, <2>2, <2>3
<1>3. ASSUME wire' \in {wire} \cup {RemoveAt(wire, i) : i \in DOMAIN wire},
             NEW k \in DOMAIN wire', wire'[k].op # "submit"
      PROVE  Underway
  BY <1>1, <1>3, WireKept DEF Underway
<1>4. CASE Client
  <2>1. ClientMoves /\ jobs' = jobs
    BY <1>1, <1>4, ClientSteps DEF Client
  <2>2. CASE /\ cl \in Calling /\ tries < Attempts
             /\ wire' = Append(wire, [op |-> Request[cl], n |-> tries + 1])
    <3>1. PICK new : new = [op |-> Request[cl], n |-> tries + 1]
      OBVIOUS
    <3>2. new \in Req
      BY <1>1, <2>2, <3>1, Asked
    <3>3. \A k \in DOMAIN wire' : \/ k \in DOMAIN wire /\ wire'[k] = wire[k]
                                  \/ wire'[k] = new
      BY <1>1, <2>2, <3>1, <3>2, AppendProperties, LenProperties
    <3>4. new.op = "submit" \/ cl \in Inside \cup {"leaving"}
      BY <2>2, <3>1 DEF Calling, Request, Inside
    <3> QED
      BY <1>2, <2>1, <3>3, <3>4 DEF Underway
  <2>3. CASE wire' \in {wire} \cup {RemoveAt(wire, i) : i \in DOMAIN wire}
    BY <1>2, <1>3, <2>1, <2>3 DEF Underway
  <2> QED
    BY <2>1, <2>2, <2>3 DEF ClientMoves
<1>5. CASE Take
  <2>1. PICK i \in DOMAIN wire :
           /\ wire' = RemoveAt(wire, i)
           /\ \/ Submit(wire[i]) \/ Complete(wire[i]) \/ StageRefused(wire[i])
              \/ StageRuntime(wire[i]) \/ StageEval(wire[i])
    BY <1>1, <1>5, TakeSteps
  <2>2. ASSUME NEW j \in jobs', j \notin jobs PROVE Underway
    <3>1. wire[i].op # "submit"
      BY <2>1, <2>2, NewJobs DEF StageRuntime, StageEval
    <3> QED
      BY <3>1 DEF Underway
  <2> QED
    BY <1>2, <1>3, <2>1, <2>2 DEF Underway
<1>6. CASE JobStep
  <2>1. jobs # {} /\ wire' = wire
    BY <1>6, JobSteps
  <2> QED
    BY <2>1 DEF Underway
<1>7. CASE UNCHANGED <<cl, wire, jobs>>
  BY <1>7 DEF Underway
<1> QED
  BY <1>4, <1>5, <1>6, <1>7 DEF Next, Write, Beat, Scheduler, clientVars, vars

\* Steps other than a restart leave the count of restarts alone.
LEMMA NoRestart ==
  ASSUME TypeInv, [Next]_vars, restarts' = 0
  PROVE  ~Restart /\ restarts = 0 /\ UNCHANGED <<cloudly, proxied>>
<1>1. restarts \in Nat
  BY BoundAssumption DEF TypeInv, TypeOK
<1>2. ~Restart
  BY <1>1 DEF Restart
<1>3. UNCHANGED <<restarts, cloudly, proxied>>
  BY <1>2, JobSteps DEF Next, Client, Write, Beat, Take, Scheduler, pastVars, vars
<1> QED
  BY <1>2, <1>3

LEMMA LeaseStep == ASSUME TypeInv, LeaseInv, [Next]_vars PROVE LeaseInv'
<1> SUFFICES ASSUME restarts' = 0, Underway' PROVE st' \in Granted
  BY DEF LeaseInv, Granted, Live
<1>1. ~Restart /\ restarts = 0
  BY NoRestart
<1>2. st \in Granted
  BY <1>1, UnderwayStep DEF LeaseInv, Granted
<1>3. st \notin {"none", "queued", "starting"}
  BY <1>2 DEF Granted, Live
<1>4. CASE Finalize
  <2>1. st' \in {"completed", "failed"}
    BY <1>4 DEF Finalize
  <2> QED
    BY <2>1 DEF Granted
<1> QED
  BY TaskMoves, <1>1, <1>2, <1>3, <1>4
     DEF Dispatch, RunStart, StartFails, Bind, Granted, Live, vars

LEMMA LeaseInvariant == Spec => []LeaseInv
<1>1. Init => LeaseInv
  BY DEF Init, LeaseInv, Underway, Inside
<1> QED
  BY <1>1, LeaseStep, TypeInvariant, PTL DEF Spec

----------------------------------------------------------------------------
(* What was left over when the reference was unlocked *)

LEMMA LateStays ==
  ASSUME TypeInv, cl \in MayAsk("stage-eval"), [Next]_vars PROVE cl' \in MayAsk("stage-eval")
<1>1. MayAsk("stage-eval") = {"unlocking", "judging", "leaving", "over", "gone"}
  BY DEF MayAsk, Out
<1>2. CASE UNCHANGED clientVars
  BY <1>2 DEF clientVars
<1>3. CASE \E ok \in BOOLEAN : Heard(ok)
  BY <1>1, <1>3 DEF Heard
<1>4. CASE ClientMoves
  <2>1. CASE Heard(FALSE)
    BY <1>3, <2>1
  <2> QED
    BY <1>1, <1>4, <2>1 DEF ClientMoves
<1> QED
  BY AnyClientMove, <1>2, <1>3, <1>4

\* How the history of stage-eval goes on.
LEMMA PastMoves ==
  ASSUME TypeInv, [Next]_vars, ~Restart
  PROVE  \/ UNCHANGED <<unlocked, overlap>>
         \/ /\ unlocked' = TRUE /\ overlap' = (overlap \/ \E o \in ToSet(wire) \cup jobs : o.op = "stage-runtime")
            /\ Take /\ \E i \in DOMAIN wire : wire' = RemoveAt(wire, i) /\ StageEval(wire[i])
<1>1. CASE Take
  <2>1. PICK i \in DOMAIN wire :
           /\ wire' = RemoveAt(wire, i)
           /\ \/ Submit(wire[i]) \/ Complete(wire[i]) \/ StageRefused(wire[i])
              \/ StageRuntime(wire[i]) \/ StageEval(wire[i])
    BY <1>1, TakeSteps DEF TypeInv
  <2>2. CASE StageEval(wire[i])
    BY <1>1, <2>1, <2>2 DEF StageEval
  <2>3. CASE Submit(wire[i]) \/ Complete(wire[i]) \/ StageRefused(wire[i]) \/ StageRuntime(wire[i])
    BY <2>3 DEF Submit, Complete, StageRefused, StageRuntime
  <2> QED
    BY <2>1, <2>2, <2>3
<1>2. CASE JobStep
  BY <1>2, JobSteps DEF pastVars
<1> QED
  BY <1>1, <1>2 DEF Next, Client, Write, Beat, Scheduler, pastVars, vars

\* A handler that is suspended after a step was suspended before it, or was taken up.
LEMMA JobsFrom ==
  ASSUME TypeInv, [Next]_vars, NEW o \in jobs', o \notin jobs
  PROVE  \/ /\ Take /\ \E i \in DOMAIN wire :
              /\ wire' = RemoveAt(wire, i) /\ (proxied \/ i = 1)
              /\ o.op = wire[i].op /\ o.n = wire[i].n /\ UNCHANGED clientVars
              /\ \/ StageRuntime(wire[i]) /\ ~cloudly /\ o.at = "mount" /\ Link(TRUE)
                 \/ StageRuntime(wire[i]) /\ cloudly /\ o.at = "reference" /\ UNCHANGED dataVars
                 \/ StageEval(wire[i]) /\ cloudly /\ o.at = "unlock" /\ UNCHANGED dataVars
         \/ /\ JobStep /\ Deny("reference", TRUE) /\ UNCHANGED clientVars
            /\ \E j \in jobs : /\ j.at = "reference" /\ o = [j EXCEPT !.at = "others"]
                               /\ o.op = j.op /\ o.n = j.n /\ o.at = "others"
<1>1. CASE Take
  BY <1>1, TakeSteps, NewJobs DEF TypeInv
<1>2. CASE JobStep
  <2>1. PICK j \in jobs, ok \in BOOLEAN : JobMove(j, ok)
    BY <1>2, JobSteps
  <2>2. /\ j.at = "reference" /\ Deny("reference", TRUE) /\ UNCHANGED clientVars
        /\ o = [j EXCEPT !.at = "others"]
    BY <2>1 DEF JobMove
  <2>3. j \in Job
    BY Typed DEF TypeInv
  <2>4. o.op = j.op /\ o.n = j.n /\ o.at = "others"
    BY <2>2, <2>3 DEF Job
  <2> QED
    BY <1>2, <2>2, <2>4
<1> QED
  BY <1>1, <1>2 DEF Next, Client, Write, Beat, Scheduler, Restart, vars

\* No stage-runtime is sent once stage-eval may be asked for.
LEMMA NoLateRuntime ==
  ASSUME TypeInv, [Next]_vars, cl \in MayAsk("stage-eval"),
         NEW k \in DOMAIN wire', wire'[k].op = "stage-runtime"
  PROVE  ~NoRuntimeSent
<1>1. TypeOK /\ WaitsInCall /\ wire \in Seq(Req)
  BY DEF TypeInv, TypeOK, Req
<1>2. CASE wire' \in {wire} \cup {RemoveAt(wire, i) : i \in DOMAIN wire}
  BY <1>1, <1>2, WireKept DEF NoRuntimeSent
<1>3. CASE Client
  <2>1. ClientMoves
    BY <1>1, <1>3, ClientSteps
  <2>2. CASE /\ cl \in Calling /\ tries < Attempts
             /\ wire' = Append(wire, [op |-> Request[cl], n |-> tries + 1])
    <3>1. PICK new : new = [op |-> Request[cl], n |-> tries + 1]
      OBVIOUS
    <3>2. new \in Req
      BY <1>1, <2>2, <3>1, Asked
    <3>3. (k \in DOMAIN wire /\ wire'[k] = wire[k]) \/ wire'[k] = new
      BY <1>1, <2>2, <3>1, <3>2, AppendProperties, LenProperties
    <3>4. new.op # "stage-runtime"
      BY <2>2, <3>1 DEF MayAsk, Out, Calling, Request
    <3> QED
      BY <3>3, <3>4 DEF NoRuntimeSent
  <2> QED
    BY <1>2, <2>1, <2>2 DEF ClientMoves
<1>4. CASE Take
  BY <1>1, <1>2, <1>4, TakeSteps
<1>5. CASE Restart
  BY <1>5 DEF Restart
<1> QED
  BY <1>2, <1>3, <1>4, <1>5, JobSteps DEF Next, Write, Beat, Scheduler, vars

\* Only an answer to stage-eval brings the client to judge.
LEMMA JudgingStep ==
  ASSUME TypeInv, PastInv, [Next]_vars, restarts = 0, cl' = "judging"
  PROVE  unlocked \/ unlocked'
<1>1. TypeOK /\ WaitsInCall /\ cl \in Cl
  BY Typed DEF TypeInv
<1>2. CASE cl = "judging"
  BY <1>2 DEF PastInv
<1>3. CASE cl # "judging"
  <2>1. CASE Take
    <3>1. PICK i \in DOMAIN wire :
             /\ wire[i] \in Req
             /\ \/ Submit(wire[i]) \/ Complete(wire[i]) \/ StageRefused(wire[i])
                \/ StageRuntime(wire[i]) \/ StageEval(wire[i])
             /\ Handled(wire[i])
      BY <1>1, <2>1, TakeSteps
    <3>2. Current(wire[i]) /\ cl = "unlocking"
      BY <1>3, <3>1 DEF Handled, clientVars, Heard
    <3>3. wire[i].op = "stage-eval"
      BY <3>2 DEF Current, Request
    <3>4. ~StageRefused(wire[i])
      <4> SUFFICES ASSUME StageRefused(wire[i]) PROVE FALSE
        OBVIOUS
      <4>1. Answer(wire[i], FALSE)
        BY DEF StageRefused
      <4>2. UNCHANGED clientVars \/ Heard(FALSE)
        BY <1>1, <3>1, <4>1, AnswerMoves
      <4> QED
        BY <1>3, <4>2 DEF clientVars, Heard
    <3> QED
      BY <3>1, <3>3, <3>4 DEF Submit, Complete, StageRuntime, StageEval
  <2>2. CASE JobStep
    <3>1. PICK j \in jobs, ok \in BOOLEAN : JobMove(j, ok)
      BY <2>2, JobSteps
    <3>2. Current(j) /\ cl = "unlocking"
      BY <1>1, <1>3, <3>1, JobHandled DEF Handled, clientVars, Heard
    <3>3. j.op = "stage-eval" /\ j.at \in Places /\ JobOK(j)
      BY <1>1, <3>2, Typed DEF Current, Request, PastInv, Job
    <3> QED
      BY <3>3 DEF JobOK, Places
  <2>3. CASE Client
    <3>1. ClientMoves
      BY <1>1, <2>3, ClientSteps
    <3> QED
      BY <1>3, <3>1 DEF ClientMoves, Heard
  <2> QED
    BY <1>3, <2>1, <2>2, <2>3 DEF Next, Write, Beat, Scheduler, Restart, clientVars, vars
<1> QED
  BY <1>2, <1>3

LEMMA PastStep == ASSUME TypeInv, AllAsked, PastInv, [Next]_vars PROVE PastInv'
<1>1. CASE Restart
  <2>1. jobs' = {} /\ wire' = <<>> /\ unlocked' = FALSE /\ restarts' = restarts + 1
    BY <1>1 DEF Restart
  <2>2. restarts' # 0
    BY <2>1, BoundAssumption DEF TypeInv, TypeOK
  <2> QED
    BY <2>1, <2>2 DEF PastInv
<1>2. CASE ~Restart
  <2>1. UNCHANGED <<cloudly, restarts>>
    BY <1>2, JobSteps DEF Next, Client, Write, Beat, Take, Scheduler, pastVars, vars
  <2>2. unlocked \in BOOLEAN /\ overlap \in BOOLEAN
    BY DEF TypeInv, TypeOK
  <2>3. unlocked => unlocked' /\ (overlap => overlap')
    BY <1>2, <2>2, PastMoves
  <2>4. \A j \in jobs' : JobOK(j)'
    <3>1. ASSUME NEW o \in jobs', o \notin jobs PROVE JobOK(o)'
      <4>1. CASE \E j \in jobs : j.at = "reference" /\ o.op = j.op /\ o.at = "others"
        BY <2>1, <4>1 DEF PastInv, JobOK
      <4>2. CASE \E i \in DOMAIN wire :
                   /\ o.op = wire[i].op
                   /\ \/ StageRuntime(wire[i]) /\ ~cloudly /\ o.at = "mount"
                      \/ StageRuntime(wire[i]) /\ cloudly /\ o.at = "reference"
                      \/ StageEval(wire[i]) /\ cloudly /\ o.at = "unlock"
        BY <2>1, <4>2 DEF StageRuntime, StageEval, JobOK
      <4> QED
        BY <3>1, <4>1, <4>2, JobsFrom
    <3>2. ASSUME NEW o \in jobs', o \in jobs PROVE JobOK(o)'
      BY <2>1, <2>3, <3>2 DEF PastInv, JobOK
    <3> QED
      BY <3>1, <3>2
  <2>5. ASSUME UNCHANGED <<unlocked, overlap>> PROVE PastInv'
    <3>1. unlocked' => cl' \in MayAsk("stage-eval")
      BY <2>5, LateStays DEF PastInv
    <3>2. unlocked' /\ ~NoRuntimeSent' => overlap'
      BY <2>5, NoLateRuntime DEF PastInv, NoRuntimeSent
    <3>3. ASSUME unlocked', NEW j \in jobs', j.op = "stage-runtime" PROVE overlap'
      <4>1. CASE j \in jobs
        BY <2>5, <3>3, <4>1 DEF PastInv
      <4>2. CASE j \notin jobs
        <5>1. (\E i \in DOMAIN wire : wire[i].op = "stage-runtime") \/ \E o \in jobs : o.op = "stage-runtime"
          BY <3>3, <4>2, JobsFrom
        <5> QED
          BY <2>5, <3>3, <5>1 DEF PastInv, NoRuntimeSent
      <4> QED
        BY <4>1, <4>2
    <3>4. cl' = "judging" /\ restarts' = 0 => unlocked'
      BY <2>1, <2>5, JudgingStep
    <3> QED
      BY <2>4, <3>1, <3>2, <3>3, <3>4 DEF PastInv
  <2>6. ASSUME /\ unlocked' = TRUE
               /\ overlap' = (overlap \/ \E o \in ToSet(wire) \cup jobs : o.op = "stage-runtime"),
               NEW i \in DOMAIN wire, wire' = RemoveAt(wire, i), StageEval(wire[i])
        PROVE  PastInv'
    <3>1. wire[i].op = "stage-eval"
      BY <2>6 DEF StageEval
    <3>2. cl' \in MayAsk("stage-eval")
      BY <2>6, <3>1, LateStays DEF AllAsked, RequestOK
    <3>3. ASSUME \/ \E k \in DOMAIN wire' : wire'[k].op = "stage-runtime"
                 \/ \E j \in jobs' : j.op = "stage-runtime"
          PROVE  overlap'
      <4>1. CASE \E k \in DOMAIN wire' : wire'[k].op = "stage-runtime"
        BY <2>6, <4>1, WireKept DEF ToSet, TypeInv
      <4>2. CASE \E j \in jobs' : j.op = "stage-runtime" /\ j \in jobs
        BY <2>6, <4>2
      <4>3. CASE \E j \in jobs' : j.op = "stage-runtime" /\ j \notin jobs
        <5>1. jobs' = jobs \/ Suspend(wire[i], "unlock")
          BY <2>6 DEF StageEval
        <5> QED
          BY <3>1, <4>3, <5>1 DEF Suspend
      <4> QED
        BY <3>3, <4>1, <4>2, <4>3
    <3> QED
      BY <2>4, <2>6, <3>2, <3>3 DEF PastInv, NoRuntimeSent
  <2> QED
    BY <1>2, <2>5, <2>6, PastMoves
<1> QED
  BY <1>1, <1>2

LEMMA PastInvariant == Spec => []PastInv
<1>1. Init => PastInv
  BY DEF Init, PastInv
<1> QED
  BY <1>1, PastStep, TypeInvariant, AllAskedInvariant, PTL DEF Spec

----------------------------------------------------------------------------
(* What the machine shows *)

\* What a handler does to the data of its machine.
JobData(j) ==
    \E ok \in BOOLEAN :
        \/ j.at = "mount" /\ Mount(ok)
        \/ j.at = "reference" /\ Deny("reference", ok)
        \/ j.at = "others" /\ Deny("others", ok)
        \/ j.at = "unlock" /\ Unlock(FALSE, ok)

\* Every change of the data, by who makes it.
LEMMA DataMoves ==
  ASSUME TypeInv, [Next]_vars
  PROVE  \/ UNCHANGED dataVars
         \/ Write
         \/ /\ ~cloudly /\ ~NoRuntimeSent /\ \E ok \in BOOLEAN : Link(ok)
            /\ st \in Live /\ UNCHANGED <<st, overlap, slotVars>>
         \/ /\ ~cloudly /\ unlocked' = TRUE /\ \E ok \in BOOLEAN : Unlock(TRUE, ok)
         \/ /\ UNCHANGED <<unlocked, overlap>> /\ JobStep /\ \E j \in jobs : JobData(j)
         \/ Bind /\ Scheduler
         \/ Wipe /\ (Finalize \/ Restart)
<1>1. CASE Take
  <2>1. PICK i \in DOMAIN wire :
           \/ Submit(wire[i]) \/ Complete(wire[i]) \/ StageRefused(wire[i])
           \/ StageRuntime(wire[i]) \/ StageEval(wire[i])
    BY <1>1, TakeSteps DEF TypeInv
  <2>2. CASE StageRuntime(wire[i]) /\ ~UNCHANGED dataVars
    <3>1. wire[i].op = "stage-runtime" /\ st \in Live /\ ~cloudly /\ (Link(TRUE) \/ Link(FALSE))
          /\ UNCHANGED <<st, overlap>>
      BY <2>2 DEF StageRuntime, serverVars
    <3>2. UNCHANGED slotVars
      BY <1>1 DEF Take
    <3> QED
      BY <3>1, <3>2 DEF NoRuntimeSent
  <2>3. CASE StageEval(wire[i]) /\ ~UNCHANGED dataVars
    BY <2>3 DEF StageEval
  <2> QED
    BY <2>1, <2>2, <2>3 DEF Submit, Complete, StageRefused
<1>2. CASE JobStep
  <2>1. PICK j \in jobs, ok \in BOOLEAN : JobMove(j, ok)
    BY <1>2, JobSteps
  <2>2. UNCHANGED dataVars \/ JobData(j)
    BY <2>1 DEF JobMove, JobData
  <2> QED
    BY <1>2, <2>2, JobSteps DEF pastVars
<1>3. CASE Scheduler
  BY <1>3 DEF Scheduler, Dispatch, RunStart, StartFails, Reap, ReapBatch, Finalize
<1>4. CASE Restart
  BY <1>4 DEF Restart
<1> QED
  BY <1>1, <1>2, <1>3, <1>4 DEF Next, Client, Beat, vars, dataVars

\* While the lease of the client lasts, no machine is new.
LEMMA StillLive ==
  ASSUME TypeInv, LeaseInv, [Next]_vars, restarts' = 0, Underway
  PROVE  /\ ~Bind /\ ~Restart /\ restarts = 0
         /\ st' \in Live => st \in Live /\ ~Finalize
<1>1. ~Restart /\ restarts = 0
  BY NoRestart
<1>2. st \in Granted
  BY <1>1 DEF LeaseInv, Granted
<1>3. st \notin {"none", "queued", "starting"}
  BY <1>2 DEF Granted, Live
<1> QED
  BY TaskMoves, <1>1, <1>3 DEF Dispatch, RunStart, StartFails, Bind, Finalize, Live, vars

\* What a new sight takes: a new machine, or stage-eval.
LEMMA SightMoves ==
  ASSUME TypeInv, PastInv, [Next]_vars
  PROVE  \/ seen' \subseteq seen \cup {"input", "output"} /\ (quiet => quiet')
         \/ seen' = {}
         \/ Bind /\ Fresh(cloudly)
         \/ unlocked' /\ seen' \subseteq seen \cup {"reference"} /\ (quiet => quiet')
<1>1. CASE UNCHANGED dataVars \/ Write
  BY <1>1 DEF dataVars, Write
<1>2. CASE \E ok \in BOOLEAN : Link(ok)
  BY <1>2 DEF Link
<1>3. CASE unlocked' = TRUE /\ \E ok \in BOOLEAN : Unlock(TRUE, ok)
  BY <1>3 DEF Unlock
<1>4. ASSUME NEW j \in jobs, JobData(j), UNCHANGED unlocked
      PROVE  \/ seen' \subseteq seen \cup {"input", "output"} /\ (quiet => quiet')
             \/ unlocked' /\ seen' \subseteq seen \cup {"reference"} /\ (quiet => quiet')
  <2>1. CASE \E ok \in BOOLEAN : Mount(ok) \/ Deny("reference", ok) \/ Deny("others", ok)
    BY <2>1 DEF Mount, Deny
  <2>2. CASE j.at = "unlock" /\ \E ok \in BOOLEAN : Unlock(FALSE, ok)
    <3>1. unlocked'
      BY <1>4, <2>2 DEF PastInv, JobOK
    <3> QED
      BY <2>2, <3>1 DEF Unlock
  <2> QED
    BY <1>4, <2>1, <2>2 DEF JobData
<1>5. CASE Bind
  BY <1>5 DEF Bind
<1>6. CASE Wipe
  BY <1>6 DEF Wipe
<1> QED
  BY DataMoves, <1>1, <1>2, <1>3, <1>4, <1>5, <1>6

LEMMA SightStep ==
  ASSUME TypeInv, LeaseInv, PastInv, SightInv, [Next]_vars PROVE SightInv'
<1>1. CASE Restart
  BY <1>1 DEF Restart, Wipe, SightInv
<1>2. CASE ~Restart
  <2>1. UNCHANGED cloudly
    BY <1>2, JobSteps DEF Next, Client, Write, Beat, Take, Scheduler, vars
  <2>2. unlocked => unlocked'
    BY <1>2, PastMoves
  <2>3. CASE ~cloudly
    <3>1. seen' \subseteq seen \cup {"input", "output"} \/ (unlocked' /\ seen' \subseteq seen \cup {"reference"})
      BY <2>3, SightMoves DEF Fresh
    <3>2. "others" \notin seen' /\ (~unlocked' => "reference" \notin seen')
      BY <2>2, <2>3, <3>1 DEF SightInv
    <3>3. \A j \in jobs' : j.at # "others"
      <4>1. \A j \in jobs : j.at \notin {"reference", "others"}
        BY <2>3 DEF PastInv, JobOK
      <4> QED
        BY <2>3, <4>1, JobsFrom
    <3> QED
      BY <3>2, <3>3 DEF SightInv
  <2>4. CASE cloudly
    <3>1. ASSUME NEW o \in jobs', o.at = "others", ~unlocked', restarts' = 0
          PROVE  "reference" \notin seen' \/ quiet'
      <4>1. CASE o \notin jobs
        <5>1. Deny("reference", TRUE)
          BY <3>1, <4>1, JobsFrom
        <5> QED
          BY <5>1 DEF Deny
      <4>2. CASE o \in jobs
        <5>1. ~Bind /\ restarts = 0
          BY <3>1, <4>2, StillLive DEF Underway
        <5>2. "reference" \notin seen \/ quiet
          BY <2>2, <3>1, <4>2, <5>1 DEF SightInv
        <5> QED
          BY <3>1, <5>1, <5>2, SightMoves
      <4> QED
        BY <4>1, <4>2
    <3> QED
      BY <2>1, <2>4, <3>1 DEF SightInv
  <2> QED
    BY <2>3, <2>4 DEF TypeInv, TypeOK
<1> QED
  BY <1>1, <1>2

LEMMA SightInvariant == Spec => []SightInv
<1>1. Init => SightInv
  BY DEF Init, NoData, SightInv
<1> QED
  BY <1>1, SightStep, TypeInvariant, LeaseInvariant, PastInvariant, PTL DEF Spec

\* An answer to the runtime phase comes from the handler of the last attempt, when its
\* last command has been answered.
LEMMA WorkingStep ==
  ASSUME TypeInv, PastInv, [Next]_vars, cl' = "working", cl # "working"
  PROVE  /\ cl = "staging"
         /\ \E j \in jobs : /\ Current(j)
                            /\ \/ ~cloudly /\ Mount(TRUE)
                               \/ cloudly /\ j.at = "others" /\ Deny("others", TRUE)
<1>1. TypeOK /\ WaitsInCall /\ cl \in Cl
  BY Typed DEF TypeInv
<1>2. CASE Take
  <2>1. PICK i \in DOMAIN wire :
           /\ wire[i] \in Req
           /\ \/ Submit(wire[i]) \/ Complete(wire[i]) \/ StageRefused(wire[i])
              \/ StageRuntime(wire[i]) \/ StageEval(wire[i])
           /\ Handled(wire[i])
    BY <1>1, <1>2, TakeSteps
  <2>2. Current(wire[i]) /\ cl = "staging"
    BY <2>1 DEF Handled, clientVars, Heard
  <2>3. wire[i].op = "stage-runtime"
    BY <2>2 DEF Current, Request
  <2>4. UNCHANGED clientVars \/ Answer(wire[i], FALSE)
    BY <2>1, <2>3 DEF Submit, Complete, StageRefused, StageRuntime, StageEval
  <2>5. UNCHANGED clientVars \/ Heard(FALSE)
    BY <1>1, <2>1, <2>4, AnswerMoves
  <2> QED
    BY <2>5 DEF clientVars, Heard
<1>3. CASE JobStep
  <2>1. PICK j \in jobs, ok \in BOOLEAN : JobMove(j, ok)
    BY <1>3, JobSteps
  <2>2. Current(j) /\ cl = "staging"
    BY <1>1, <2>1, JobHandled DEF Handled, clientVars, Heard
  <2>3. j \in Job /\ j.op = "stage-runtime" /\ JobOK(j)
    BY <1>1, <2>2, Typed DEF Current, Request, PastInv
  <2>4. Answer([op |-> j.op, n |-> j.n], ok)
    BY <2>1 DEF JobMove, clientVars
  <2>5. ok = TRUE
    <3>1. [op |-> j.op, n |-> j.n] \in Req
      BY <2>3 DEF Job, Req
    <3>2. UNCHANGED clientVars \/ Heard(ok)
      BY <1>1, <2>4, <3>1, AnswerMoves
    <3> QED
      BY <3>2 DEF clientVars, Heard
  <2>6. slot # NoSlot /\ ~UNCHANGED clientVars
    BY <2>1, <2>5 DEF JobMove, clientVars
  <2>7. (j.at = "mount" /\ Mount(TRUE)) \/ (j.at = "others" /\ Deny("others", TRUE)) \/ j.at = "unlock"
    BY <2>1, <2>5, <2>6 DEF JobMove
  <2>8. j.at # "unlock" /\ (j.at = "mount" => ~cloudly) /\ (j.at = "others" => cloudly)
    BY <2>3 DEF JobOK
  <2> QED
    BY <2>2, <2>7, <2>8
<1>4. CASE Client
  <2>1. ClientMoves
    BY <1>1, <1>4, ClientSteps
  <2> QED
    BY <2>1 DEF ClientMoves, Heard
<1> QED
  BY <1>2, <1>3, <1>4 DEF Next, Write, Beat, Scheduler, Restart, clientVars, vars

LEMMA HiddenStep ==
  ASSUME TypeInv, LeaseInv, PastInv, SightInv, ReferenceHidden, [Next]_vars
  PROVE  ReferenceHidden'
<1> SUFFICES ASSUME cl' \in {"working", "unlocking"}, st' \in Live, restarts' = 0, ~unlocked'
             PROVE  seen' \cap {"reference", "others"} = {} \/ quiet'
  BY DEF ReferenceHidden
<1>1. ~Restart /\ restarts = 0 /\ UNCHANGED cloudly
  BY NoRestart
<1>2. ~unlocked
  BY <1>1, PastMoves
<1>3. CASE ~cloudly
  <2>1. SightInv'
    BY SightStep
  <2> QED
    BY <1>1, <1>3, <2>1 DEF SightInv
<1>4. CASE cloudly /\ cl \in {"working", "unlocking"}
  <2>1. st \in Live /\ ~Bind
    BY <1>4, StillLive DEF Underway, Inside
  <2>2. seen \cap {"reference", "others"} = {} \/ quiet
    BY <1>1, <1>2, <1>4, <2>1 DEF ReferenceHidden
  <2> QED
    BY <2>1, <2>2, SightMoves
<1>5. CASE cloudly /\ cl \notin {"working", "unlocking"}
  <2>1. cl' = "working"
    <3>1. CASE ClientMoves
      BY <1>5, <3>1 DEF ClientMoves, Heard
    <3>2. CASE UNCHANGED clientVars \/ \E ok \in BOOLEAN : Heard(ok)
      BY <1>5, <3>2 DEF clientVars, Heard
    <3> QED
      BY <3>1, <3>2, AnyClientMove
  <2>2. PICK j \in jobs : j.at = "others" /\ Deny("others", TRUE)
    BY <1>5, <2>1, WorkingStep
  <2>3. "reference" \notin seen \/ quiet
    BY <1>1, <1>2, <2>2 DEF SightInv
  <2> QED
    BY <2>2, <2>3 DEF Deny
<1> QED
  BY <1>3, <1>4, <1>5 DEF TypeInv, TypeOK

\* Between the answer to stage-runtime and the first stage-eval the agent's machine shows
\* neither the reference nor what belongs to others.
THEOREM ReferenceStaysHidden == Spec => []ReferenceHidden
<1>1. Init => ReferenceHidden
  BY DEF Init, ReferenceHidden
<1> QED
  BY <1>1, HiddenStep, TypeInvariant, LeaseInvariant, PastInvariant, SightInvariant, PTL DEF Spec

\* An answer to stage-eval comes once the reference was linked, or its denial taken back.
LEMMA JudgingData ==
  ASSUME TypeInv, PastInv, [Next]_vars, cl' = "judging", cl # "judging"
  PROVE  /\ cl = "unlocking"
         /\ Unlock(TRUE, TRUE) \/ Unlock(FALSE, TRUE)
<1>1. TypeOK /\ WaitsInCall /\ cl \in Cl
  BY Typed DEF TypeInv
<1>2. CASE Take
  <2>1. PICK i \in DOMAIN wire :
           /\ wire[i] \in Req
           /\ \/ Submit(wire[i]) \/ Complete(wire[i]) \/ StageRefused(wire[i])
              \/ StageRuntime(wire[i]) \/ StageEval(wire[i])
           /\ Handled(wire[i])
    BY <1>1, <1>2, TakeSteps
  <2>2. Current(wire[i]) /\ cl = "unlocking"
    BY <2>1 DEF Handled, clientVars, Heard
  <2>3. wire[i].op = "stage-eval"
    BY <2>2 DEF Current, Request
  <2>4. \/ UNCHANGED clientVars \/ Answer(wire[i], FALSE)
        \/ Unlock(TRUE, TRUE)
    BY <2>1, <2>3 DEF Submit, Complete, StageRefused, StageRuntime, StageEval
  <2>5. ~Answer(wire[i], FALSE)
    <3> SUFFICES ASSUME Answer(wire[i], FALSE) PROVE FALSE
      OBVIOUS
    <3>1. UNCHANGED clientVars \/ Heard(FALSE)
      BY <1>1, <2>1, AnswerMoves
    <3> QED
      BY <3>1 DEF clientVars, Heard
  <2> QED
    BY <2>2, <2>4, <2>5 DEF clientVars
<1>3. CASE JobStep
  <2>1. PICK j \in jobs, ok \in BOOLEAN : JobMove(j, ok)
    BY <1>3, JobSteps
  <2>2. Current(j) /\ cl = "unlocking"
    BY <1>1, <2>1, JobHandled DEF Handled, clientVars, Heard
  <2>3. j \in Job /\ j.op = "stage-eval" /\ JobOK(j)
    BY <1>1, <2>2, Typed DEF Current, Request, PastInv
  <2>4. Answer([op |-> j.op, n |-> j.n], ok)
    BY <2>1 DEF JobMove, clientVars
  <2>5. ok = TRUE
    <3>1. [op |-> j.op, n |-> j.n] \in Req
      BY <2>3 DEF Job, Req
    <3>2. UNCHANGED clientVars \/ Heard(ok)
      BY <1>1, <2>4, <3>1, AnswerMoves
    <3> QED
      BY <3>2 DEF clientVars, Heard
  <2>6. slot # NoSlot /\ ~UNCHANGED clientVars
    BY <2>1, <2>5 DEF JobMove, clientVars
  <2>7. j.at = "unlock"
    BY <2>3 DEF JobOK, Job, Places
  <2> QED
    BY <2>1, <2>2, <2>5, <2>6, <2>7 DEF JobMove
<1>4. CASE Client
  <2>1. ClientMoves
    BY <1>1, <1>4, ClientSteps
  <2> QED
    BY <2>1 DEF ClientMoves, Heard
<1> QED
  BY <1>2, <1>3, <1>4 DEF Next, Write, Beat, Scheduler, Restart, clientVars, vars

LEMMA JudgeStep ==
  ASSUME TypeInv, LeaseInv, PastInv, OrderInv, JudgeSeesReference, [Next]_vars
  PROVE  JudgeSeesReference'
<1> SUFFICES ASSUME cl' = "judging", st' \in Live, restarts' = 0
             PROVE  "reference" \in seen' \/ quiet' \/ (overlap' /\ (proxied' \/ cloudly'))
  BY DEF JudgeSeesReference
<1>1. ~Restart /\ restarts = 0 /\ UNCHANGED <<cloudly, proxied>>
  BY NoRestart
<1>2. CASE cl # "judging"
  BY <1>2, JudgingData DEF Unlock
<1>3. CASE cl = "judging"
  <2>1. st \in Live /\ ~Bind /\ ~Finalize
    BY <1>3, StillLive DEF Underway, Inside
  <2>2. "reference" \in seen \/ quiet \/ (overlap /\ (proxied \/ cloudly))
    BY <1>1, <1>3, <2>1 DEF JudgeSeesReference
  <2>3. unlocked /\ (overlap => overlap')
    <3>1. unlocked
      BY <1>1, <1>3 DEF PastInv
    <3>2. overlap \in BOOLEAN
      BY DEF TypeInv, TypeOK
    <3> QED
      BY <1>1, <3>1, <3>2, PastMoves
  <2>4. CASE UNCHANGED dataVars \/ Write
    BY <1>1, <2>2, <2>3, <2>4 DEF dataVars, Write
  <2>5. CASE ~cloudly /\ ~NoRuntimeSent
    <3>1. overlap /\ proxied
      BY <1>3, <2>3, <2>5 DEF PastInv, OrderInv
    <3> QED
      BY <1>1, <2>3, <3>1
  <2>6. CASE \E ok \in BOOLEAN : Unlock(TRUE, ok)
    BY <1>1, <2>2, <2>3, <2>6 DEF Unlock
  <2>7. ASSUME NEW j \in jobs, JobData(j)
        PROVE  "reference" \in seen' \/ quiet' \/ (overlap' /\ (proxied' \/ cloudly'))
    <3>1. CASE j.at = "reference"
      <4>1. cloudly /\ overlap
        BY <2>3, <3>1 DEF PastInv, JobOK
      <4> QED
        BY <1>1, <2>3, <4>1
    <3>2. CASE \E ok \in BOOLEAN : Mount(ok) \/ Deny("others", ok) \/ Unlock(FALSE, ok)
      <4>1. ("reference" \in seen => "reference" \in seen') /\ (quiet => quiet')
        BY <3>2 DEF Mount, Deny, Unlock
      <4> QED
        BY <1>1, <2>2, <2>3, <4>1
    <3> QED
      BY <2>7, <3>1, <3>2 DEF JobData
  <2> QED
    BY <1>1, <2>1, <2>4, <2>5, <2>6, <2>7, DataMoves
<1> QED
  BY <1>2, <1>3

\* From the answer to stage-eval on the judge has the reference, unless a stage-runtime
\* that was left over takes it away, which only a proxy and the cloud allow.
THEOREM JudgeSeesTheReference == Spec => []JudgeSeesReference
<1>1. Init => JudgeSeesReference
  BY DEF Init, JudgeSeesReference
<1> QED
  BY <1>1, JudgeStep, TypeInvariant, LeaseInvariant, PastInvariant, OrderInvariant, PTL DEF Spec

----------------------------------------------------------------------------
(* What the agent works with *)

\* No handler but that of a stage-runtime touches input and output, and none the work.
LEMMA JobKeepsWork ==
  ASSUME NEW j, JobData(j)
  PROVE  /\ Staged => Staged'
         /\ work' = work
         /\ mounted \/ quiet => mounted' \/ quiet'
<1>1. CASE \E ok \in BOOLEAN : Mount(ok)
  BY <1>1 DEF Mount, Staged
<1>2. CASE \E ok \in BOOLEAN : Deny("reference", ok) \/ Deny("others", ok)
  BY <1>2 DEF Deny, Staged
<1>3. CASE \E ok \in BOOLEAN : Unlock(FALSE, ok)
  BY <1>3 DEF Unlock, Staged
<1> QED
  BY <1>1, <1>2, <1>3 DEF JobData

\* While a lease lasts, only a stage-runtime on the wire can clear the tree.
LEMMA WorkKept ==
  ASSUME TypeInv, [Next]_vars, ~Bind, ~Restart, ~Finalize, cloudly \/ NoRuntimeSent
  PROVE  /\ Staged => Staged'
         /\ work' = work \/ (Write /\ work' = "there")
         /\ mounted \/ quiet => mounted' \/ quiet'
<1>1. CASE UNCHANGED dataVars
  BY <1>1 DEF dataVars, Staged
<1>2. CASE Write
  BY <1>2 DEF Write, Staged
<1>3. CASE \E ok \in BOOLEAN : Unlock(TRUE, ok)
  BY <1>3 DEF Unlock, Staged
<1> QED
  BY DataMoves, JobKeepsWork, <1>1, <1>2, <1>3

LEMMA CloudWork ==
  ASSUME TypeInv, WorkInv, [Next]_vars, cloudly', st' \in Live
  PROVE  Staged' /\ (mounted' \/ quiet')
<1>1. ~Restart /\ ~Finalize
  BY DEF Restart, Finalize, Live
<1>2. cloudly
  BY <1>1, JobSteps DEF Next, Client, Write, Beat, Take, Scheduler, vars
<1>3. CASE Bind
  BY <1>2, <1>3 DEF Bind, Fresh, Staged, Item
<1>4. CASE ~Bind
  <2>1. st \in Live
    BY <1>1, <1>4, TaskMoves DEF Dispatch, RunStart, serverVars, StartFails, Live, vars
  <2> QED
    BY <1>1, <1>2, <1>4, <2>1, WorkKept DEF WorkInv
<1> QED
  BY <1>3, <1>4

LEMMA NoWorkYet ==
  ASSUME TypeInv, WorkInv, [Next]_vars, cl' \in {"submitting", "polling", "staging"}
  PROVE  work' = "none"
<1>1. cl \in {"submitting", "polling", "staging"}
  <2>1. CASE ClientMoves
    BY <2>1 DEF ClientMoves, Heard
  <2>2. CASE UNCHANGED clientVars \/ \E ok \in BOOLEAN : Heard(ok)
    BY <2>2 DEF clientVars, Heard
  <2> QED
    BY <2>1, <2>2, AnyClientMove
<1>2. work = "none"
  BY <1>1 DEF WorkInv
<1>3. CASE UNCHANGED dataVars
  BY <1>2, <1>3 DEF dataVars
<1>4. CASE \E ok \in BOOLEAN : Link(ok)
  BY <1>2, <1>4 DEF Link, Erased
<1>5. CASE \E ok \in BOOLEAN : Unlock(TRUE, ok)
  BY <1>2, <1>5 DEF Unlock
<1>6. CASE Bind \/ Wipe
  BY <1>6 DEF Bind, Fresh, Wipe
<1>7. ~Write
  BY <1>1 DEF Write
<1> QED
  BY DataMoves, JobKeepsWork, <1>2, <1>3, <1>4, <1>5, <1>6, <1>7

LEMMA StagedStep ==
  ASSUME TypeInv, AllAsked, LeaseInv, OrderInv, PastInv, WorkInv, [Next]_vars,
         ~proxied, ~cloudly, restarts' = 0, st' \in Live, cl' = "staging",
         NEW o \in jobs', Current(o)'
  PROVE  Staged'
<1>1. TypeOK /\ TypeInv' /\ ~Restart /\ restarts = 0
  BY NoRestart, TypeStep DEF TypeInv
<1>2. jobs \subseteq Job /\ tries \in Nat /\ o \in Job
  BY <1>1, Typed DEF TypeInv, TypeOK, Job, Places
<1>3. CASE o \notin jobs
  <2>1. Link(TRUE)
    <3>1. \A j \in jobs : j.at # "reference"
      BY DEF PastInv, JobOK
    <3>2. o.op = "stage-runtime"
      BY DEF Current, Request
    <3>3. \A r : StageEval(r) => r.op = "stage-eval"
      BY DEF StageEval
    <3> QED
      BY <1>3, <3>1, <3>2, <3>3, JobsFrom
  <2> QED
    BY <2>1 DEF Link, Staged
<1>4. CASE o \in jobs
  <2>1. o.n = tries'
    BY DEF Current
  <2>2. cl = "staging" /\ tries' = tries
    <3>1. CASE UNCHANGED clientVars
      BY <3>1 DEF clientVars
    <3>2. CASE \E ok \in BOOLEAN : Heard(ok)
      BY <3>2 DEF Heard, Inside
    <3>3. CASE ClientMoves
      <4>1. o.n # 0
        BY <1>2 DEF Job
      <4>2. cl \notin Calling => tries = 0
        BY DEF OrderInv
      <4>3. cl = "staging" /\ o.op = "stage-runtime" => o.n <= tries
        BY <1>4 DEF AllAsked, RequestOK, Calling, Request
      <4>4. o.op = "stage-runtime"
        BY DEF Current, Request
      <4>5. CASE cl' = cl /\ tries' = tries + 1
        BY <1>2, <2>1, <4>3, <4>4, <4>5
      <4>6. CASE cl = "polling" /\ tries' = tries
        BY <2>1, <4>1, <4>2, <4>6 DEF Calling
      <4>7. CASE Heard(FALSE)
        BY <3>2, <4>7
      <4> QED
        BY <3>3, <4>5, <4>6, <4>7 DEF ClientMoves
    <3> QED
      BY AnyClientMove, <3>1, <3>2, <3>3
  <2>3. Current(o)
    BY <2>2 DEF Current
  <2>4. st \in Live /\ ~Bind /\ ~Finalize
    BY <2>2, StillLive DEF Underway, Inside
  <2>5. Staged
    BY <1>1, <1>4, <2>2, <2>3, <2>4 DEF WorkInv
  <2>6. NoRuntimeSent
    BY <1>4, <2>2, <2>3 DEF OrderInv
  <2> QED
    BY <1>1, <2>4, <2>5, <2>6, WorkKept
<1> QED
  BY <1>3, <1>4

LEMMA WorkStep ==
  ASSUME TypeInv, AllAsked, LeaseInv, OrderInv, PastInv, WorkInv, [Next]_vars
  PROVE  WorkInv'
<1>1. restarts' = 0 => UNCHANGED <<cloudly, proxied>>
  BY NoRestart
<1>2. cloudly' /\ st' \in Live => Staged' /\ (mounted' \/ quiet')
  BY CloudWork
<1>3. cl' \in {"submitting", "polling", "staging"} => work' = "none"
  BY NoWorkYet
<1>4. ASSUME ~proxied', ~cloudly', restarts' = 0, st' \in Live, cl' = "staging",
             NEW o \in jobs', Current(o)'
      PROVE  Staged'
  BY <1>1, <1>4, StagedStep
<1> QED
  BY <1>2, <1>3, <1>4 DEF WorkInv

LEMMA WorkInvariant == Spec => []WorkInv
<1>1. Init => WorkInv
  BY DEF Init, NoData, WorkInv, Live
<1> QED
  BY <1>1, WorkStep, TypeInvariant, AllAskedInvariant, LeaseInvariant, OrderInvariant, PastInvariant,
     PTL DEF Spec

LEMMA WorkplaceStep ==
  ASSUME TypeInv, AllAsked, LeaseInv, OrderInv, PastInv, WorkInv, WorkplaceStands, [Next]_vars
  PROVE  WorkplaceStands'
<1> SUFFICES ASSUME cl' \in {"working", "unlocking", "judging"}, st' \in Live, restarts' = 0, ~proxied'
             PROVE  Staged' /\ work' # "lost" /\ (mounted' \/ quiet')
  BY DEF WorkplaceStands, Staged
<1>1. ~Restart /\ restarts = 0 /\ UNCHANGED <<cloudly, proxied>>
  BY NoRestart
<1>2. CASE cl \in {"working", "unlocking", "judging"}
  <2>1. st \in Live /\ ~Bind /\ ~Finalize
    BY <1>2, StillLive DEF Underway, Inside
  <2>2. Staged /\ work # "lost" /\ (mounted \/ quiet)
    BY <1>1, <1>2, <2>1 DEF WorkplaceStands, Staged
  <2>3. NoRuntimeSent
    BY <1>1, <1>2 DEF OrderInv
  <2> QED
    BY <1>1, <2>1, <2>2, <2>3, WorkKept
<1>3. CASE cl \notin {"working", "unlocking", "judging"}
  <2>1. cl' = "working"
    <3>1. CASE ClientMoves
      BY <1>3, <3>1 DEF ClientMoves, Heard
    <3>2. CASE UNCHANGED clientVars \/ \E ok \in BOOLEAN : Heard(ok)
      BY <1>3, <3>2 DEF clientVars, Heard
    <3> QED
      BY <3>1, <3>2, AnyClientMove
  <2>2. PICK j \in jobs : /\ Current(j) /\ cl = "staging"
                          /\ \/ ~cloudly /\ Mount(TRUE)
                             \/ cloudly /\ j.at = "others" /\ Deny("others", TRUE)
    BY <1>3, <2>1, WorkingStep
  <2>3. st \in Live /\ work = "none"
    BY <2>2, StillLive DEF Underway, Inside, WorkInv
  <2>4. CASE ~cloudly
    <3>1. Staged
      BY <1>1, <2>2, <2>3, <2>4 DEF WorkInv
    <3> QED
      BY <2>2, <2>3, <2>4, <3>1 DEF Mount, Staged
  <2>5. CASE cloudly
    <3>1. Staged' /\ (mounted' \/ quiet')
      BY <1>1, <2>5, CloudWork
    <3> QED
      BY <2>2, <2>3, <2>5, <3>1 DEF Deny
  <2> QED
    BY <2>4, <2>5 DEF TypeInv, TypeOK
<1> QED
  BY <1>2, <1>3

\* On a direct connection, for any number of attempts: from the answer to stage-runtime
\* on the agent has its input and output, and what it wrote is not erased.
THEOREM WorkplaceKeepsStanding == Spec => []WorkplaceStands
<1>1. Init => WorkplaceStands
  BY DEF Init, WorkplaceStands
<1> QED
  BY <1>1, WorkplaceStep, TypeInvariant, AllAskedInvariant, LeaseInvariant, OrderInvariant,
     PastInvariant, WorkInvariant, PTL DEF Spec
=============================================================================
