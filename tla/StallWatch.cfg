SPECIFICATION FairWatchSpec
CONSTANTS
  m1 = m1
  m2 = m2
  m3 = m3
  Msgs = {m1, m2}
  Modes = {"Queue"}
  Budgets <- WatchBudgets
  MaxRestarts = 1
  Hangs = 2
INVARIANTS LiveStreamsWatched TimersHaveTurns ContinuedWithResult
PROPERTIES TurnEnds EveryTextSettles
\* The system rests when the user does.
CHECK_DEADLOCK FALSE
