\* Two clients that may die at any step, two fields, SIGINT at any time.
SPECIFICATION FairSpec
CONSTANTS
  Clients = {c1, c2}
  Server = server
  f1 = f1
  f2 = f2
  Fields = {f1, f2}
  InitialPoints <- MCInitialPoints
  Free = Free
INVARIANTS
  PointsConserved
  FieldNotStale
  MutexRecoverable
PROPERTIES
  DeathDoesNotBlock
  ShutdownOutcome
CHECK_DEADLOCK FALSE
