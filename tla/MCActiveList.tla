---------------------------- MODULE MCActiveList ----------------------------
(* Small instance of a page's lists of active simulations for TLC. *)
EXTENDS ActiveList
=============================================================================
