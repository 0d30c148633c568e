-------------------------- MODULE MCMemoryPressure --------------------------
(* Small instance of the memory pressure service for TLC: 2 objects to the   *)
(* MB and batches of 3, so that sizes 1, 2 and 3 take one batch, one full    *)
(* and one partial, and two full batches.                                    *)
EXTENDS MemoryPressure

MCSimType == {"CPU_STRESS", "MEMORY_PRESSURE"}
MCDuration == {1, 3}
MCSize == 1..3
=============================================================================
