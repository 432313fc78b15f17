------------------------------ MODULE MCSession ------------------------------
(* Instances of Session for TLC. *)
EXTENDS Session, TLC
=============================================================================
