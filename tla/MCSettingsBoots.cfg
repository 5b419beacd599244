\* A restart between two pages: they may have the same generation (ReadsAcrossBoots is violated).
CONSTANTS
  Item <- Items
  Secrets = {"pass"}
  Chans = 2
  Accepts <- Forms
  Decls <- BothFirmwares
  Initial <- NoValues
  Starts <- Kept
  Commands <- AllCommands
  PerPage = 2
  PerRequest = 2
  StoreMax = 4
  GenMax = 6
  OtherRows <- Others
  Loads <- AllLoads
SPECIFICATION Spec
INVARIANTS
  ReadsAcrossBoots
CHECK_DEADLOCK FALSE
