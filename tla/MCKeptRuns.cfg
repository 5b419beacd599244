\* Runs of one machine, a rival: corrs 1..7 (half the space: 4), one reserved at a time.
CONSTANTS
  CorrMax = 7
  HalfRange = 4
  h1 = h1
  h2 = h2
  r1 = r1
  Sid <- AllSids
  HostSid <- TwoHostSids
  RivalSid <- OneRivalSid
  NoSid = NoSid
  Host = Host
  Rival = Rival
  Route <- BothRoutes
  NoRoute = NoRoute
  Dropped = Dropped
  Empty = Empty
  Fn = {}
  Request <- None
  Watched <- None
  RememberCount = 1
  LargeArg = {0}
  LargeVal = {0, 1}
  ResMax = 1
  MaxConns = 1
  LeaseMin = 1
  LeaseMax = 1
  LeaseDefault = 1
  BootId = {1}
  OutMax = 1
  Reserve = 1
  MaxRuns = 3
  MaxUnseen = 1
SPECIFICATION KSpec
SYMMETRY Ids
VIEW WithoutEnded
CHECK_DEADLOCK FALSE
INVARIANTS
  CorrsStayNew
  PreviousEnded
PROPERTIES
  OthersKeepTheLock
