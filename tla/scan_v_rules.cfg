SPECIFICATION Spec
CONSTANTS
  Accounts = {a1, a2}
  NoAccount = NoAccount
  NumRules = 1
  Limits <- RuleFaultLimits
  Timely = TRUE
PROPERTY PassedMeansRulesSucceeded
