SPECIFICATION Spec
CONSTANTS
    Tasks <- MCScheduled
    Chains = {}
    DayLength = 2
    MaxClock = 2
    OperatorDrives = FALSE
    SharedLocaltime = TRUE
PROPERTIES
    OnlyLoopsFireAgain
CHECK_DEADLOCK FALSE
