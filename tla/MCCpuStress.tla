---------------------------- MODULE MCCpuStress ----------------------------
(* Small instance of the CPU stress service for TLC. *)
EXTENDS CpuStress

MCSimType == {"CPU_STRESS", "MEMORY_PRESSURE"}
MCDuration == {1, 2}
=============================================================================
