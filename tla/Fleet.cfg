SPECIFICATION FleetSpec
CONSTANTS
  ServiceDaemons <- OneDaemon
  KeepTasks = 5
  MaxRequests = 1
  MaxRx = 0
  MaxGeneration = 0
  CanRestart = TRUE
  StoreCanFail = FALSE
  Ungated = {}
  MaxCrashes = 1
  EarlyCommit = TRUE
INVARIANTS
  AppliedIsLoaded
  StartNotLost
  ShownMatchesQueue
