---------------------------- MODULE MCSubAgents ----------------------------
(* Small instances of SubAgents. *)
EXTENDS SubAgents, TLC
CONSTANTS prompt, m1, scan

Allow(kinds) == [k \in Inputs |-> IF k \in kinds THEN 1 ELSE 0]
WorkBudgets    == {Allow({"toolUse", "error"}), Allow({"toolUse", "late"})}
=============================================================================
