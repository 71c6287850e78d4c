SPECIFICATION FairSpec
CONSTANTS
  s1 = s1
  s2 = s2
  Sessions = {s1, s2}
  Kinds = {"builtin", "actor", "refused"}
  MaxBatches = 2
  MaxCalls = 2
  MaxCancels = 1
  MaxSupersedes = 1
  MaxLate = 1
INVARIANTS TypeOK UndisturbedBatchIsExact ResultCountedOnce
PROPERTIES EveryBatchAnswered
\* The orchestrator rests when no turn asks for a batch.
CHECK_DEADLOCK FALSE
