-------------------------- MODULE MCMonitorChecks --------------------------
(* Instances of MonitorChecks for TLC. *)
EXTENDS MonitorChecks
=============================================================================
