------------------------- MODULE MCAsyncSimulations -------------------------
(* Small instance of the awaited simulations for TLC. *)
EXTENDS AsyncSimulations

MCSimType == {"SLOW_REQUEST", "EVENT_LOOP_BLOCKING", "FAILED_REQUEST"}
MCDuration == {1, 2}
=============================================================================
