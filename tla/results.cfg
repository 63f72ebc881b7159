SPECIFICATION Spec
CONSTANTS
  NumRules = 2
  Resources = {x1, x2}
  MaxTime = 3
  ClockStepsBack = FALSE
SYMMETRY Symmetry
CONSTRAINT FewReports
INVARIANTS TypeOK AlertsMirrorResults
PROPERTIES AlertKeepsHistory ImplementsAlertBoard
