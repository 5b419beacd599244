\* A port whose pin a gpio takes and gives back.
CONSTANTS
  Chan <- Two
  IdleMode = {"pull", "high"}
  SetMode = {"high"}
  Fn <- Fns
  Kind <- Kinds
  Offer <- GpioAndLogic
  Port <- One
  PinsOf <- OnePin
  WireOf <- OneWire
  MaxConns = 1
  PlanRoles = 2
  GenMax = 3
  StoreMax = 2
  Lackable <- NoPull
  Initial <- AtBoot
  ItemMax = 1
SPECIFICATION Spec
INVARIANTS
  NoHoldReturns
