SPECIFICATION ReadSpec
CONSTANTS
  HeldMost = 3
  ATick = 2
  LastGen = 2
  Configs <- McConfigs
  OtherConfigs <- McOther
  Inputs <- McInputs
  Room = 2
  MinBytes = 0
  MaxDelay = 0
  ClockMax = 7
  MaxTakes = 1
  MaxLost = 0
  Wanted = 3
  ReadMost = 1
  Forcible <- McForcible
  MaxRuns = 2
INVARIANTS
  RingHolds
  SegmentsTrue
  TriggersTrue
CHECK_DEADLOCK FALSE
