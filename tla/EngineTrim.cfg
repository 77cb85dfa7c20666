SPECIFICATION QueueSpec
CONSTANTS
  ServiceDaemons <- OneDaemon
  KeepTasks = 5
  MaxRequests = 7
  MaxRx = 1
  MaxGeneration = 1
  CanRestart = FALSE
  StoreCanFail = FALSE
PROPERTIES
  PendingIsKept
