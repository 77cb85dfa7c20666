SPECIFICATION Spec
CONSTANTS
  Domains <- EditDomains
  Secrets = {}
  Accounts = "console"
  Shipped <- EditDomains
  MaxCommits = 2
  MaxOutages = 1
  MaxCrashes = 0
INVARIANTS
  EditsSurvive
