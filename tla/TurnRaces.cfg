SPECIFICATION Spec
CONSTANTS
  m1 = m1
  m2 = m2
  m3 = m3
  Msgs = {m1}
  Modes = {"Queue"}
  Budgets <- RaceBudgets
INVARIANTS TypeOK OneLiveStream OneContinuationPerBatch
\* The system rests when the user does.
CHECK_DEADLOCK FALSE
