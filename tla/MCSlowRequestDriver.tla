-------------------------- MODULE MCSlowRequestDriver --------------------------
(* Small instance of the slow request driver for TLC: two campaigns of one   *)
(* page, with up to three requests each.                                     *)
EXTENDS SlowRequestDriver
=============================================================================
