SPECIFICATION FairSpec
CONSTANTS
    Services = {"bag", "camera"}
    MaxRequests = 3
    NoAnswer = NoAnswer
INVARIANTS
    NoThreadStuck
    AnswersAreOwn
    OneUnreportedPerApi
    NoCleanExit
PROPERTIES
    RequestDiscipline
    EveryRequestSettles
CHECK_DEADLOCK FALSE
