------------------------------- MODULE MCTspd -------------------------------
(* Tspd on two CPUs: one that boots and one that is turned on by it.         *)
EXTENDS Tspd
=============================================================================
