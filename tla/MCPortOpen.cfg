SPECIFICATION SpeedSpec
CONSTANTS
  Rates <- MCRates
  Idle = 3
  VerifyMs <- MCVerifyMs
  Verified <- MCVerified
  Retry = 4
  Wait = 3
  RaisedWait = 1
  BrokenResends = 1
  ConfirmTries = 2
  FlowFail = 2
  Plans <- MCPlans
  Lines <- MCLines
  Kinds <- MCKinds
  Loads <- MCLoads
CHECK_DEADLOCK FALSE
INVARIANTS
  OpenFindsProbe
