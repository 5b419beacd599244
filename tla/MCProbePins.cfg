\* Two changes a boot, one value each; one save that may fail; firmware with and without a pull on channel 1.
CONSTANTS
  Chan <- Two
  IdleMode = {"pull", "high"}
  SetMode = {"high"}
  Fn <- Fns
  Kind <- Kinds
  Offer <- Offers
  Port <- One
  PinsOf <- OnePin
  WireOf <- OneWire
  MaxConns = 1
  PlanRoles = 2
  GenMax = 3
  StoreMax = 2
  Lackable <- NoPull
  Initial <- AtBoot
  ItemMax = 1
SPECIFICATION Spec
VIEW Told
INVARIANTS
  ParkedAtIdle
  PinsSafe
PROPERTIES
  RunningKeepsPins
  SavedComesBack
  GpioKeepsLine
