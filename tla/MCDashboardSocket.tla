-------------------------- MODULE MCDashboardSocket --------------------------
(* Small instance of the dashboards' connections for TLC: an idle period of  *)
(* two minutes, two adjustments of the wall clock.                           *)
EXTENDS DashboardSocket
=============================================================================
