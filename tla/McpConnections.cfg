SPECIFICATION FairSpec
CONSTANTS
  Budgets <- TwoAsks
INVARIANTS McpTypeOK NoOrphanActor DesiredWhenQuiet ViewsAgree ServedOnce
PROPERTIES RoutedIsAnswered
\* The pair rests when the user does.
CHECK_DEADLOCK FALSE
