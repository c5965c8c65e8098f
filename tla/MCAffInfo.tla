----------------------------- MODULE MCAffInfo -----------------------------
(* PsciAffInfo with two callers of CPU_ON: one spin lock, one that waits.  *)
EXTENDS PsciAffInfo
=============================================================================
