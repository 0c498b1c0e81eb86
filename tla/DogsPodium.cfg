\* The podium that main shows, without Ctrl+C.
SPECIFICATION Spec
CONSTANTS
  Dogs = {d1, d2, d3}
  N = 4
  MaxDistance = 2
  Nobody = Nobody
  MayInterrupt = FALSE
INVARIANT
  PodiumHasThree
CHECK_DEADLOCK FALSE
