SPECIFICATION MCSpec
CONSTANTS
  ServiceDaemons <- OneDaemon
  KeepTasks = 1
  MaxRequests = 3
  MaxRx = 2
  MaxGeneration = 1
  CanRestart = TRUE
  StoreCanFail = TRUE
INVARIANTS
  OneDriver
  QueueInOrder
  NoStall
PROPERTIES
  AnswerOnce
