SPECIFICATION Spec
CONSTANTS
    NumRules = 1
    Resources = {x1}
    MaxTime = 1
    ClockStepsBack = FALSE
PROPERTIES LastRunIsOfARun
CHECK_DEADLOCK FALSE
