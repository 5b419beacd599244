\* The lock, its lease and the resend table: two sessions, corrs 1..5 (half the space: 3).
CONSTANTS
  CorrMax = 5
  HalfRange = 3
  Sid = {s1, s2}
  NoSid = NoSid
  Route = {usb}
  NoRoute = NoRoute
  Dropped = Dropped
  Fn = {7}
  Bodies <- LockBodies
  Request <- AllRequests
  Watched <- AllRequests
  RememberCount = 2
  LargeArg = {2}
  LargeVal = {}
  ResMax = 2
  MaxConns = 1
  LeaseMin = 1
  LeaseMax = 1
  LeaseDefault = 1
  BootId = {1}
  OutMax = 1
SPECIFICATION Spec
SYMMETRY Symmetry
INVARIANTS
  AtMostOnce
  TableIsTrue
PROPERTIES
  OneVerdict
