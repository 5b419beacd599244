\* A restart with another firmware between plan and lock (ImportKeepsNames is violated).
CONSTANTS
  Item <- Items
  Secrets = {"pass"}
  Chans = 2
  Accepts <- Forms
  Decls <- BothFirmwares
  Initial <- NoValues
  Starts <- Kept
  Commands <- AllCommands
  PerPage = 2
  PerRequest = 2
  StoreMax = 4
  GenMax = 6
  OtherRows <- Others
  Loads <- AllLoads
SPECIFICATION Spec
PROPERTIES
  ImportKeepsNames
CHECK_DEADLOCK FALSE
