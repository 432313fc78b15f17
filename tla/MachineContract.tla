--------------------------- MODULE MachineContract ---------------------------
(***************************************************************************)
(* What a scheduler may rely on when it asks a runtime for a machine: the  *)
(* request ends, a machine handed out owns its addresses alone until it    *)
(* has been torn down, and a teardown that was asked for ends.  A restart  *)
(* of the process forgets every request and every machine at once.         *)
(***************************************************************************)
CONSTANTS Boot,  \* requests for a machine
          Port   \* host ports

VARIABLES vm,    \* vm[b]: what became of request b
          addr   \* addr[b]: the ports its machine answers on, {} unless it has one

vars == <<vm, addr>>

Phase == {"none", "booting", "serving", "closing", "gone"}

TypeOK == vm \in [Boot -> Phase] /\ addr \in [Boot -> SUBSET Port]

Init == vm = [b \in Boot |-> "none"] /\ addr = [b \in Boot |-> {}]

Ask(b) == vm[b] = "none" /\ vm' = [vm EXCEPT ![b] = "booting"] /\ UNCHANGED addr

\* The machine is handed out on ports that no other machine answers on.
Serve(b) ==
    /\ vm[b] = "booting"
    /\ vm' = [vm EXCEPT ![b] = "serving"]
    /\ \E P \in SUBSET Port :
         /\ \A o \in Boot : P \cap addr[o] = {}
         /\ addr' = [addr EXCEPT ![b] = P]

Refuse(b) == vm[b] = "booting" /\ vm' = [vm EXCEPT ![b] = "gone"] /\ UNCHANGED addr

Close(b) == vm[b] = "serving" /\ vm' = [vm EXCEPT ![b] = "closing"] /\ UNCHANGED addr

Closed(b) ==
    /\ vm[b] = "closing"
    /\ vm' = [vm EXCEPT ![b] = "gone"]
    /\ addr' = [addr EXCEPT ![b] = {}]

Forget ==
    /\ vm' = [b \in Boot |-> IF vm[b] = "none" THEN "none" ELSE "gone"]
    /\ addr' = [b \in Boot |-> {}]

Next == \/ \E b \in Boot : Ask(b) \/ Serve(b) \/ Refuse(b) \/ Close(b) \/ Closed(b)
        \/ Forget

Spec == Init /\ [][Next]_vars /\ \A b \in Boot : WF_vars(Serve(b) \/ Refuse(b) \/ Closed(b))
=============================================================================
