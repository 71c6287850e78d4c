--------------------------- MODULE MCToolBatches ---------------------------
(* Two sessions that share the orchestrator. *)
EXTENDS ToolBatches, TLC
CONSTANTS s1, s2
=============================================================================
