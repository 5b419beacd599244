\* A USB pair whose resync finds no probe.
CONSTANTS
  CorrMax = 31
  HalfRange = 16
  Sid = {s1}
  NoSid = NoSid
  Holder = s1
  c1 = c1
  c2 = c2
  c3 = c3
  Route <- Connections
  Port = c1
  NoRoute = NoRoute
  Dropped = Dropped
  Fn = {7}
  Request <- None
  Watched <- None
  RememberCount = 3
  LargeArg = {}
  LargeVal = {}
  ResMax = 1
  MaxConns = 1
  LeaseMin = 1
  LeaseMax = 1
  LeaseDefault = 1
  BootId = {1}
  OutMax = 8
  MaxInflight = 3
  BrokenResends = 2
  ConfirmTries = 2
  FirstCorr = 29
  MaxCorrs = 14
  Uses <- EachFraming
SPECIFICATION LinkSpec
CHECK_DEADLOCK FALSE
PROPERTIES
  ConfirmComesFirst
