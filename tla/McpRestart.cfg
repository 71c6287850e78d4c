SPECIFICATION FairSpec
CONSTANTS
  Budgets <- OneAsk
INVARIANTS RestartedIsUsable
\* The pair rests when the user does.
CHECK_DEADLOCK FALSE
