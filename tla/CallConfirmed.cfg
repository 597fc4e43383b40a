SPECIFICATION Spec
CONSTANTS
    Handlers = {"h1"}
    RobotId = 1
    LineBound = 2
    Strangers = FALSE
INVARIANTS
    CallSucceedsIfConfirmed
