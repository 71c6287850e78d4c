------------------------ MODULE MCSessionLifecycle ------------------------
(* Small instances of SessionLifecycle: a session and its fork.              *)
EXTENDS SessionLifecycle, TLC
CONSTANTS a, b, c

\* b is a fork of a, c a session of its own.
ForkOf == a :> a @@ b :> a @@ c :> c

Twice(kinds, more) == [k \in Kinds |-> IF k \in more THEN 2 ELSE IF k \in kinds THEN 1 ELSE 0]

PatientBudget ==
  Twice({"create", "archive", "teardown", "esc", "load", "rerun", "spawn"}, {"close", "fail"})
PairBudget == Twice({"close", "esc"}, {"create"})
TreeBudget ==
  Twice({"create", "fork", "closeTree", "archiveTree", "submit", "esc", "fail", "load", "rash"}, {})
CrashBudget ==
  Twice({"create", "close", "teardown", "submit", "load", "archiveTree", "fork"}, {"crash"})
RashBudget == Twice({"create", "close", "archive", "submit", "load", "esc", "rash"}, {})
QueueBudget == Twice({"create", "archiveTree"}, {"submit", "rash"})
EscBudget == Twice({"create", "esc", "rash"}, {"submit"})
LifeBudgets ==
  {PatientBudget, PairBudget, TreeBudget, CrashBudget, RashBudget, QueueBudget, EscBudget}
=============================================================================
