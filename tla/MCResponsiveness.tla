-------------------------- MODULE MCResponsiveness --------------------------
(* Small instance of the responsiveness display for TLC. *)
EXTENDS Responsiveness
=============================================================================
