---------------------------- MODULE ClusterWire ----------------------------
(***************************************************************************)
(* The WebSocket connections between the workers and the master of a       *)
(* cluster (api of cluster/master_ws.py and cluster/worker_client.py).     *)
(*                                                                         *)
(* Each direction of a connection is a FIFO.  When a connection breaks the *)
(* worker sees it at once; the master may still find some of the frames    *)
(* that were under way, in order, before its handler finds the end.        *)
(* Frames that were under way to the worker are lost.  A worker that dials *)
(* again before the master noticed has a second connection beside the old  *)
(* one: two slots per worker.                                              *)
(***************************************************************************)
EXTENDS Naturals, Sequences

CONSTANTS Worker,   \* worker ids
          Slot,     \* connections of one worker that may exist at a time
          Task,     \* task ids clients may name
          MaxLease, \* BOUND: lease ids, that is assignments, in one behaviour
          None

Conn  == Worker \X Slot
Lease == 1..MaxLease

VARIABLES link,     \* link[c]: unused, open at both ends, or broken and not yet noticed
          toMaster, \* toMaster[c]: frames the handler of c has not read
          toWorker  \* toWorker[c]: frames the worker has not read

wire == <<link, toMaster, toWorker>>

WireInit ==
    /\ link = [c \in Conn |-> "free"]
    /\ toMaster = [c \in Conn |-> <<>>]
    /\ toWorker = [c \in Conn |-> <<>>]

\* The connection the worker has open, if any (_ws_out).
OpenOf(w) == {c \in Conn : c[1] = w /\ link[c] = "up"}

\* The worker sends a frame on c: nothing arrives once c broke.
ToMaster(c, frame) ==
    toMaster' = [toMaster EXCEPT ![c] = IF link[c] = "up" THEN Append(@, frame) ELSE @]

\* Connection c breaks: the master still reads a prefix of what it was sent.
Break(c) ==
    /\ link' = [link EXCEPT ![c] = "cut"]
    /\ toWorker' = [toWorker EXCEPT ![c] = <<>>]
    /\ \E kept \in 0..Len(toMaster[c]) :
         toMaster' = [toMaster EXCEPT ![c] = SubSeq(@, 1, kept)]
=============================================================================
