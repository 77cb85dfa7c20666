SPECIFICATION FleetSpec
CONSTANTS
  ServiceDaemons <- TwoDaemons
  KeepTasks = 5
  MaxRequests = 0
  MaxRx = 0
  MaxGeneration = 0
  CanRestart = TRUE
  StoreCanFail = TRUE
  Ungated = {"apid"}
  MaxCrashes = 1
  EarlyCommit = FALSE
INVARIANTS
  StartsTogether
