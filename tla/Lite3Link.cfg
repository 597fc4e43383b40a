SPECIFICATION FairSpec
CONSTANTS
    Handlers = {"server", "executor"}
    MaxCommands = 3
CHECK_DEADLOCK FALSE
INVARIANTS
    AnswersAreTrue
    OnlyRacingConnectsTerminate
    NoThreadStuck
PROPERTY
    HeartbeatsGoOn
