--------------------------- MODULE MCMonitorQuota ---------------------------
(* Instances of MonitorQuota for TLC. *)
EXTENDS MonitorQuota
=============================================================================
