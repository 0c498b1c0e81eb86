\* Does the parent show the number of SIGUSR2 that it has received?
SPECIFICATION CounterSpec
CONSTANTS
  Usr1PerUsr2 = 1
  MaxUsr2 = 3
INVARIANT
  ShownIsCount
CHECK_DEADLOCK FALSE
