SPECIFICATION Spec
CONSTANTS
    h1 = h1
    h2 = h2
    Handlers = {h1, h2}
    RobotId = 1
    LineBound = 3
    Strangers = TRUE
SYMMETRY Swap
INVARIANTS
    TypeOK
    AcceptedIsOwnOrLate
    SilentLineStaysInStep
