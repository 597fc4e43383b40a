SPECIFICATION FairSpec
CONSTANTS
    Tasks <- MCTripAndMinute
    Chains <- MCChains
    DayLength = 2
    MaxClock = 0
    OperatorDrives = TRUE
    SharedLocaltime = FALSE
INVARIANTS
    NoLostUpload
    TerminateStopsNavigation
    ReportMatchesExecution
    NoThreadStuck
PROPERTIES
    TerminateTakesEffect
    StopHangsOnlyIdle
CHECK_DEADLOCK FALSE
