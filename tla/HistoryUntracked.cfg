SPECIFICATION Spec
CONSTANTS
  MaxCalls = 2
  Budgets <- UntrackedBudgets
INVARIANTS ReceivedCallsWhole
\* The system rests when the user does.
CHECK_DEADLOCK FALSE
