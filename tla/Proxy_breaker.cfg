\* Three connections, a breaker of two failures within one tick.
SPECIFICATION FairSpec
CONSTANTS
  Conns = {c1, c2, c3}
  MAX_BURST = 2
  BURST_WINDOW = 1
  MaxTime = 3
  MaxFails = 3
INVARIANTS
  TypeOK
  TracksTheAlive
PROPERTIES
  OnlyBurstsTrip
  StopEnds
CHECK_DEADLOCK FALSE
