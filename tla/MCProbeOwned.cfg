\* What a session creates: two sessions, two routes, one wire of two connections, numbers 1..3.
CONSTANTS
  CorrMax = 5
  HalfRange = 3
  Sid = {s1, s2}
  NoSid = NoSid
  Route = {usb, tcp}
  NoRoute = NoRoute
  Dropped = Dropped
  Fn = {7}
  Bodies <- OwnBodies
  Request <- OddRequests
  Watched <- None
  RememberCount = 1
  LargeArg = {0, 1, 2, 7, 9}
  LargeVal = {0, 1, 2, 3}
  ResMax = 3
  MaxConns = 2
  LeaseMin = 1
  LeaseMax = 2
  LeaseDefault = 1
  BootId = {1}
  OutMax = 200
SPECIFICATION Spec
SYMMETRY Symmetry
VIEW WithoutAnswers
INVARIANTS
  LiveThingsOwned
PROPERTIES
  NothingPassesOn
  NumbersNotReused
  LeaseGrowsByProcessing
  ImplementsLock
