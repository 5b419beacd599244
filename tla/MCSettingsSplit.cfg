\* Labels that change places in two requests (ImportIsTaken is violated).
CONSTANTS
  Item <- Items
  Secrets = {"pass"}
  Chans = 2
  Accepts <- Forms
  Decls <- BothFirmwares
  Initial <- NoValues
  Starts <- Kept
  Commands <- AllCommands
  PerPage = 2
  PerRequest = 1
  StoreMax = 4
  GenMax = 6
  OtherRows <- Others
  Loads <- AllLoads
SPECIFICATION Spec
PROPERTIES
  ImportIsTaken
CHECK_DEADLOCK FALSE
