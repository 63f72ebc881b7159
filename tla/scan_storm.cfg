SPECIFICATION Spec
CONSTANTS
  Accounts = {a1, a2}
  NoAccount = NoAccount
  NumRules = 1
  Limits <- StormLimits
  Timely = FALSE
SYMMETRY Symmetry
INVARIANTS TypeOK MutexMatchesLoops RulesSeeFinishedScan UndeletedRowsAreBacked
PROPERTY ImplementsLifecycle
