CONSTANTS
    Keys = {k1, k2}
    Ttls = {2, 4}
    ResolutionTimeout = 4
    InitialReserve = 1
    Generations = 3
    Settings = 0
    Limit = 1
    MaxTime = 5
    NftFails = FALSE
    Panics = FALSE
CHECK_DEADLOCK FALSE
SPECIFICATION Spec
INVARIANTS NeverPoisoned
