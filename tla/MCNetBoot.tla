----------------------------- MODULE MCNetBoot -----------------------------
(* NetBoot with two files: a full block that an empty one follows, and one  *)
(* that is long enough for the block numbers to wrap.  After DHCP, where    *)
(* TFTP runs the same code, the file is empty.                              *)
EXTENDS NetBoot

MCFileSizes == [p \in Protocols |-> IF p = "TFTPGET" THEN {2, 7} ELSE {0}]
=============================================================================
