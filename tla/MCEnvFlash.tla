----------------------------- MODULE MCEnvFlash -----------------------------
(* EnvFlash with the default environment and two others.                   *)
EXTENDS EnvFlash
=============================================================================
