SPECIFICATION Spec
CONSTANTS
    srv = srv
    exec = exec
    Handlers <- MCHandlers
    Payloads <- MCPayloads
    Noise <- MCNoise
    MaxItems = 2
CHECK_DEADLOCK FALSE
SYMMETRY Swap
INVARIANTS
    TypeOK
    DeliveredIsArrived
    OnlyRacingConnectsTerminate
PROPERTY
    ChargeWasReported
