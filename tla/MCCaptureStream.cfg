SPECIFICATION StreamSpec
CONSTANTS
  HeldMost = 2
  ATick = 3
  LastGen = 3
  Configs <- McConfigs
  OtherConfigs <- McConfigs
  Inputs <- McInputs
  Room = 2
  MinBytes = 2
  MaxDelay = 2
  ClockMax = 5
  MaxTakes = 1
  MaxLost = 1
  OnLoss = "continue"
  Octet = 2
  MaxMoves = 1
  MaxRuns = 2
INVARIANTS
  PartsTrue
  NoSilentLoss
PROPERTIES
  StreamEnds
CHECK_DEADLOCK FALSE
