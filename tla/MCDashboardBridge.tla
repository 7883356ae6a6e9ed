-------------------------- MODULE MCDashboardBridge --------------------------
(* An instance of DashboardBridge for TLC.                                  *)
EXTENDS DashboardBridge
=============================================================================
