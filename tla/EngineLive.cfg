SPECIFICATION FairSpec
CONSTANTS
  ServiceDaemons <- OneDaemon
  KeepTasks = 1
  MaxRequests = 2
  MaxRx = 1
  MaxGeneration = 1
  CanRestart = TRUE
  StoreCanFail = FALSE
PROPERTIES
  RunningFinishes
