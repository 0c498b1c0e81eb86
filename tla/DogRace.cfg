\* Four dogs, one more than the podium has places, a track of three fields, Ctrl+C at any time.
SPECIFICATION FairSpec
CONSTANTS
  Dogs = {d1, d2, d3, d4}
  N = 3
  MaxDistance = 1
  Nobody = Nobody
  MayInterrupt = TRUE
INVARIANTS
  OneDogPerField
  TrackCounts
PROPERTIES
  PodiumFinal
  RaceEnds
CHECK_DEADLOCK FALSE
