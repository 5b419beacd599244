\* What must happen: calls end, and a lock whose holder died or never learned of it is freed.
CONSTANTS
  CorrMax = 15
  HalfRange = 8
  Sid = {s1, s2}
  NoSid = NoSid
  h1 = h1
  h2 = h2
  Route <- BothHosts
  NoRoute = NoRoute
  Dropped = Dropped
  Fn = {}
  Request <- None
  Watched <- None
  RememberCount = 2
  LargeArg = {}
  LargeVal = {}
  ResMax = 2
  MaxConns = 1
  LeaseMin = 1
  LeaseMax = 2
  LeaseDefault = 2
  BootId = {1}
  OutMax = 3
  BrokenResends = 1
  ConfirmTries = 2
  Loads <- Dying
  MaxWrites = 1
  MaxCrashes = 1
SPECIFICATION LiveSpec
CHECK_DEADLOCK FALSE
PROPERTIES
  CallsEnd
  NoLockStranded
