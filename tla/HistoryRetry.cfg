SPECIFICATION Spec
CONSTANTS
  MaxCalls = 2
  Budgets <- RetryBudgets
INVARIANTS TypeOK IndicesOwnEntries ThinkingFirst OneResultPerCall
\* The system rests when the user does.
CHECK_DEADLOCK FALSE
