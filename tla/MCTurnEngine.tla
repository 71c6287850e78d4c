---------------------------- MODULE MCTurnEngine ----------------------------
(* Small instances of TurnEngine: which inputs and mishaps each run allows.  *)
EXTENDS TurnEngine, TLC
CONSTANTS m1, m2, m3

Allow(kinds) == [k \in Inputs |-> IF k \in kinds THEN 1 ELSE 0]

EscapeBudget   == Allow({"esc", "interrupt", "resubmit", "toolUse"})
MishapsBudget  == Allow({"cancel", "retry", "resume", "factory", "toolUse"})
ToolRacesBudget == [Allow({"cancel", "late"}) EXCEPT !["resume"] = 2, !["toolUse"] = 2]
SilentBudget   == Allow({"silent"})

EscapeBudgets   == {EscapeBudget}
RaceBudgets     == {MishapsBudget, ToolRacesBudget}
SilentBudgets   == {SilentBudget}

\* Texts are interchangeable.  Safety runs only.
Symmetry == Permutations(Msgs)
=============================================================================
