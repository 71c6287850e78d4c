SPECIFICATION Spec
CONSTANTS
  m1 = m1
  m2 = m2
  m3 = m3
  Msgs = {m1, m2}
  Modes = {"Queue", "Steer"}
  Budgets <- EscapeBudgets
INVARIANTS EveryTextInOnePlace CancelledSessionIsSilent
PROPERTIES KeepsLedger
SYMMETRY Symmetry
\* The system rests when the user does.
CHECK_DEADLOCK FALSE
