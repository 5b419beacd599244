\* A death between the open the probe takes and the file that names its session.
CONSTANTS
  CorrMax = 7
  HalfRange = 4
  h1 = h1
  h2 = h2
  r1 = r1
  Sid <- AllSids
  HostSid <- TwoHostSids
  RivalSid <- OneRivalSid
  NoSid = NoSid
  Host = Host
  Rival = Rival
  Route <- BothRoutes
  NoRoute = NoRoute
  Dropped = Dropped
  Empty = Empty
  Fn = {}
  Request <- None
  Watched <- None
  RememberCount = 1
  LargeArg = {0}
  LargeVal = {0, 1}
  ResMax = 1
  MaxConns = 1
  LeaseMin = 1
  LeaseMax = 1
  LeaseDefault = 1
  BootId = {1}
  OutMax = 1
  Reserve = 1
  MaxRuns = 2
  MaxUnseen = 0
SPECIFICATION KSpec
SYMMETRY Ids
CHECK_DEADLOCK FALSE
INVARIANTS
  LeftIsEnded
