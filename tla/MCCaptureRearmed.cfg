SPECIFICATION ReadSpec
CONSTANTS
  HeldMost = 3
  ATick = 2
  LastGen = 2
  Configs <- McRearmed
  OtherConfigs <- McOther
  Inputs <- McInputs
  Room = 2
  MinBytes = 0
  MaxDelay = 0
  ClockMax = 7
  MaxTakes = 0
  MaxLost = 0
  Wanted = 3
  ReadMost = 1
  Forcible <- McForcible
  MaxRuns = 1
INVARIANT RearmedTriggersTrue
CHECK_DEADLOCK FALSE
