-------------------------- MODULE MCLeaseScheduler --------------------------
(* Instances of LeaseScheduler for TLC. *)
EXTENDS LeaseScheduler, TLC

CONSTANTS a, c, d, g, big, b1, b2

\* Two requests that both name a, so the one that comes second is refused: b1 at
\* its first task, b2 after it stored the two before.  big exceeds the host, the
\* image of c has no runtime here, g boots in the cloud.
TwoRequests == (b1 :> <<a, c, d>>) @@ (b2 :> <<big, g, a>>)

\* Lease ids are drawn at random: no definition tells two of them apart.
LeaseSymmetry == Permutations(Lease)

\* The smaller instance of the liveness run: two requests that do not overlap.
LiveRequests == (b1 :> <<a>>) @@ (b2 :> <<d>>)

Routes == [t \in Task |-> CASE t = g -> "gcp" [] t = c -> "none" [] OTHER -> "local"]
=============================================================================
