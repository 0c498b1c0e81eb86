\* Ctrl+C: main frees the track while dogs still run.
SPECIFICATION Spec
CONSTANTS
  Dogs = {d1, d2, d3}
  N = 4
  MaxDistance = 2
  Nobody = Nobody
  MayInterrupt = TRUE
INVARIANT
  ThreadsEndedAtFree
CHECK_DEADLOCK FALSE
