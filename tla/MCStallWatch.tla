---------------------------- MODULE MCStallWatch ----------------------------
(* Small instances of StallWatch. *)
EXTENDS StallWatch, TLC
CONSTANTS m1, m2, m3

Allow(kinds) == [k \in Inputs |-> IF k \in kinds THEN 1 ELSE 0]
WatchBudgets == {Allow({"toolUse", "error"})}
=============================================================================
