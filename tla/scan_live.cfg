SPECIFICATION FairSpec
CONSTANTS
  Accounts = {a1, a2}
  NoAccount = NoAccount
  NumRules = 1
  Limits <- LiveLimits
  Timely = TRUE
INVARIANT PassedScanNotDiscarded
PROPERTY QueueDrains
