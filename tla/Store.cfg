SPECIFICATION FairSpec
CONSTANTS
  Domains <- MCDomains
  Secrets <- MCSecrets
  Accounts = "user"
  Shipped <- MCShipped
  MaxCommits = 2
  MaxOutages = 2
  MaxCrashes = 1
INVARIANTS
  OneActive
  ServedVersionStable
  NoSecretStored
  UndoneStaysOut
  EditsSurviveOnline
PROPERTIES
  HistoryKept
  EventuallyPreflighted
