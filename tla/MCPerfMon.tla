----------------------------- MODULE MCPerfMon -----------------------------
(* Model values for PerfMon. *)
EXTENDS PerfMon

=============================================================================
