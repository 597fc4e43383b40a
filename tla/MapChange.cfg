SPECIFICATION Spec
CONSTANTS
    srv = srv
    exec = exec
    Handlers <- MCHandlers
    Maps = {"map", "hall"}
    Default = "map"
    Length <- MCLength
    MaxFaults = 3
SYMMETRY Swap
INVARIANTS
    TypeOK
    SavedMapIsConfirmed
    SuccessIsReal
PROPERTIES
    LastNavCallFails
