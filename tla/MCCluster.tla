----------------------------- MODULE MCCluster -----------------------------
(* Instances of Cluster for TLC. *)
EXTENDS Cluster, TLC

CONSTANTS a, d, w1, w2, b1, b2

OneRequest  == (b1 :> <<a>>)
TwoTasks == (b1 :> <<a, d>>)
TwoRequests == (b1 :> <<a>>) @@ (b2 :> <<d, a>>)

\* Either task fills a worker.
Small == [t \in Task |-> [r \in Resource |-> 2]]
Fits  == [w \in Worker |-> [r \in Resource |-> 3]]

WorkerSymmetry == Permutations(Worker)
=============================================================================
