SPECIFICATION FabricSpec
CONSTANTS
  Inventories <- MCInventories
  ExcludedIps = {}
  BatchSize = 1
  TxQueueLimit = 1
  MaxProbes = 1
  MaxProbeReloads = 0
  MaxIcmpFaults = 1
  MaxSaseCycles = 3
  MaxInbox = 2
  MaxHellos = 2
  MaxDelivered = 1
  MaxLost = 1
  StreamFrames = {1, 2, 3, 4}
  LengthOf <- FrameLengths
  HeaderLen = 2
  MaxFrameSize = 5
  RingSize = 7
  SocketSize = 3
  TopoDocument <- OneSiteDocument
  RoleOfEndpoint <- MCRole
  Bodies <- MCBodies
  MaxArrivals = 4
  MaxAsked = 2
  MaxFailures = 1
  MaxReadLines = 3
  MaxEntryLines = 2
  PageRows = 1
  MaxEntries = 3
  MaxRotations = 1
  MaxLogFaults = 1
INVARIANTS
  NothingUnhandled
  RowsSound
PROPERTIES
  SweepEnds
  ImplementsHandshake
  Serves
  ImplementsQueue
  AcceptedArrives
  SiteIsDrawn
  CatchesUp
CHECK_DEADLOCK FALSE
