SPECIFICATION ServicesSpec
CONSTANTS
  Targets = {"authd", "mgmtd"}
  MaxRounds = 2
  MaxHbRestarts = 1
  Inventories <- MCInventories
  ExcludedIps = {}
  BatchSize = 1
  TxQueueLimit = 1
  MaxProbes = 2
  MaxProbeReloads = 1
  MaxIcmpFaults = 1
  MaxSaseCycles = 3
  TopoDocument <- MCTopoDocument
  RoleOfEndpoint <- MCRole
  Bodies <- MCBodies
  MaxArrivals = 3
  MaxAsked = 2
  MaxFailures = 1
  Profiles = {"fw", "sse"}
  SaseDevices = {"tenant"}
  SaseProfiles = {"sse"}
  AutoProfiles = {"fw"}
  Passwords = {1}
  MaxTickets = 2
  MaxKeys = 1
  MaxRefreshes = 1
  MaxFaults = 1
  HeldResults = 0
  Documents <- MCDocs
  Keyed = {"k1"}
  BodiesPerStream = 1
  PageLimit = 2
  MaxSamples = 3
  MaxReloads = 1
  StartDocument <- MCStart
  Requests <- MCRequests
  MaxCommits = 2
  Names = {"nightly"}
  Sessions = {"s1"}
  Owners = {"o1"}
  Workers = 2
  MaxTurns = 2
  MaxReads = 1
  MaxPartials = 1
  MaxStreams = 3
  MaxProgress = 2
  MaxPushes = 3
  MaxChatFaults = 1
  HeldAnswers = 0
  HeldCases = 1
  Users = {1, 2}
  FirstAdmins = {1}
  DefaultAdmin = 1
  Seeded = {1}
  OldFormat = {2}
  Browsers = {"b1", "b2"}
  Secrets = {1, 2}
  FreeAttempts = 1
  MaxThrottled = 1
  SsoConfig <- MCSsoConfig
  SamlResponses <- MCResponses
  Tokens <- MCTokens
  SsoResultLimit = 0
  MaxSso = 2
  MaxUpdates = 2
  MaxAttempts = 2
INVARIANTS
  PendingCounted
  RoundsSound
  StatusSound
  PictureSound
  TicketAccounted
  CacheIsDurable
  CollectionSound
  StoredSound
  AnswersTracked
  PushCarriesKey
  SsoSound
  AccountsKept
CHECK_DEADLOCK FALSE
