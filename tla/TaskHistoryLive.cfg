SPECIFICATION FairHistorySpec
CONSTANTS
    Tasks <- MCHistory
    Chains = {}
    DayLength = 2
    MaxClock = 0
    OperatorDrives = FALSE
    SharedLocaltime = FALSE
    MaxUploads = 3
INVARIANTS
    OneActionAfterTerminate
    RunsAtMostTwice
PROPERTIES
    ImplementsSlot
    AcceptedUploadRuns
CHECK_DEADLOCK FALSE
