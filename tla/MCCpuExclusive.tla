--------------------------- MODULE MCCpuExclusive ---------------------------
(* Instance of the exclusive-section protocol for TLC.                     *)
EXTENDS CpuExclusive
=============================================================================
