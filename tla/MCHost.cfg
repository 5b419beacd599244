\* Writes over a broken link, another host that takes the lock, connections across restarts.
CONSTANTS
  CorrMax = 31
  HalfRange = 16
  Sid = {s1, s2, s3}
  NoSid = NoSid
  h1 = h1
  h2 = h2
  Route <- BothHosts
  NoRoute = NoRoute
  Dropped = Dropped
  Fn = {}
  Request <- None
  Watched <- None
  RememberCount = 2
  LargeArg = {}
  LargeVal = {}
  ResMax = 2
  MaxConns = 1
  LeaseMin = 1
  LeaseMax = 1
  LeaseDefault = 1
  BootId = {1, 2}
  OutMax = 3
  BrokenResends = 1
  ConfirmTries = 2
  Loads <- ThreeLoads
  MaxWrites = 2
  MaxCrashes = 0
SPECIFICATION HSpec
SYMMETRY Ids
CHECK_DEADLOCK FALSE
INVARIANTS
  WriteRunsOnce
  ToldTheTruth
  HandlesAreTrue
PROPERTIES
  RecoveredClean
