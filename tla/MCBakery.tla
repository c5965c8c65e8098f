------------------------------ MODULE MCBakery ------------------------------
(* Instances of BakeryLock small enough for TLC; the values are in the     *)
(* configurations.                                                         *)
EXTENDS BakeryLock
=============================================================================
