SPECIFICATION Spec
CONSTANTS
  MaxCalls = 2
  Budgets <- CancelBudgets
INVARIANTS NoDanglingCall ReceivedCallsWhole OneReplyPerEntry
PROPERTIES AnsweredCallsKept ContinuesWithWholeLoops
\* The system rests when the user does.
CHECK_DEADLOCK FALSE
