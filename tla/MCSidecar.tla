------------------------------ MODULE MCSidecar ------------------------------
(* Small instance of the sidecar for TLC: two forks, so that a restart and    *)
(* a crash of the main process can both happen, and two probes in flight, so  *)
(* that they pile up.                                                         *)
EXTENDS Sidecar
=============================================================================
