SPECIFICATION Spec
CONSTANTS
  a = a
  b = b
  c = c
  NoSession = NoSession
  Sessions = {a, b, c}
  Parent <- ForkOf
  Budgets <- LifeBudgets
INVARIANTS BusyIsOwned RestIsSaved WorkspaceKnown StoredScriptsRan
PROPERTIES StoredTextsKept ClosedLeavesNothingUp TreeSparesTheBusy
\* The system rests when the user does.
CHECK_DEADLOCK FALSE
