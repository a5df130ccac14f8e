SPECIFICATION FairSpec
CONSTANTS
    MaxOthers = 1
    Faults = {"caller", "worker", "bwrap"}
    Filters = {TRUE}
PROPERTY ExecutionEnds
CHECK_DEADLOCK FALSE
