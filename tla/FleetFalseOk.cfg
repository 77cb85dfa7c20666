SPECIFICATION FleetSpec
CONSTANTS
  ServiceDaemons <- OneDaemon
  KeepTasks = 5
  MaxRequests = 1
  MaxRx = 0
  MaxGeneration = 0
  CanRestart = FALSE
  StoreCanFail = FALSE
  Ungated = {}
  MaxCrashes = 0
  EarlyCommit = TRUE
PROPERTIES
  OkMeansConverged
