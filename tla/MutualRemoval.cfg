SPECIFICATION LocalSpec
CONSTANTS
  Users = {1, 2}
  FirstAdmins = {1, 2}
  DefaultAdmin = 1
  Seeded = {}
  OldFormat = {}
  Browsers = {"b1", "b2"}
  Secrets = {1, 2}
  FreeAttempts = 1
  MaxThrottled = 1
  SsoConfig <- MCSsoConfig
  SamlResponses <- MCResponses
  Tokens <- MCTokens
  SsoResultLimit = 0
  MaxSso = 0
  MaxUpdates = 2
  MaxAttempts = 2
INVARIANTS
  WayIn
CHECK_DEADLOCK FALSE
