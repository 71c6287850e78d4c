SPECIFICATION FairSubSpec
CONSTANTS
  prompt = prompt
  m1 = m1
  scan = scan
  Prompt = prompt
  Msgs = {prompt, m1}
  Modes = {"Queue"}
  Budgets <- WorkBudgets
  Discoveries = {scan}
  Deadline = TRUE
INVARIANTS FinishedChildRests
PROPERTIES EveryCallAnswered OrphanEnds
\* The system rests when the user does.
CHECK_DEADLOCK FALSE
