----------------------------- MODULE MCVmRuntime -----------------------------
(* Instances of VmRuntime for TLC. *)
EXTENDS VmRuntime, TLC

\* Ports for three machines and noVNC ports for two.
PublishedRange == 1..3
NovncRange == 11..12
=============================================================================
