SPECIFICATION FairSpec
CONSTANTS
    Tasks <- MCScheduledLoop
    Chains = {}
    DayLength = 2
    MaxClock = 1
    OperatorDrives = FALSE
    SharedLocaltime = FALSE
PROPERTY
    PauseAnswered
CHECK_DEADLOCK FALSE
