CONSTANTS
    Keys = {k1, k2}
    Ttls = {4}
    ResolutionTimeout = 4
    InitialReserve = 1
    Generations = 3
    Settings = 1
    Limit = 1
    MaxTime = 4
    NftFails = TRUE
    Panics = TRUE
CHECK_DEADLOCK FALSE
SPECIFICATION FairSpec
INVARIANTS NoOverstay KnownKernel
PROPERTIES AnswerInForce 
