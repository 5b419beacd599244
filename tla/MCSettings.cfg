\* Two channels, pages and requests of two values; another session's changes, or a restart with each firmware.
CONSTANTS
  Item <- Items
  Secrets = {"pass"}
  Chans = 2
  Accepts <- Forms
  Decls <- BothFirmwares
  Initial <- NoValues
  Starts <- Kept
  Commands <- AllCommands
  PerPage = 2
  PerRequest = 2
  StoreMax = 4
  GenMax = 6
  OtherRows <- Others
  Loads <- AllLoads
SPECIFICATION Spec
INVARIANTS
  ReadIsOneMoment
  StartsOverForChange
PROPERTIES
  DoneIsDone
  SavedAsTold
CHECK_DEADLOCK FALSE
