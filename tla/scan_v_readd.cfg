SPECIFICATION Spec
CONSTANTS
  Accounts = {a1, a2}
  NoAccount = NoAccount
  NumRules = 1
  Limits <- DeleteLimits
  Timely = TRUE
INVARIANT StatusBackedByJob
