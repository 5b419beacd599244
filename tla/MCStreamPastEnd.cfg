SPECIFICATION StreamSpec
CONSTANTS
  HeldMost = 2
  ATick = 3
  LastGen = 3
  Configs <- McConfigs
  OtherConfigs <- McConfigs
  Inputs <- McInputs
  Room = 2
  MinBytes = 2
  MaxDelay = 2
  ClockMax = 6
  MaxTakes = 0
  MaxLost = 0
  OnLoss = "continue"
  Octet = 2
  MaxMoves = 0
  MaxRuns = 1
INVARIANT NothingPastEnd
CHECK_DEADLOCK FALSE
