CONSTANTS
    Grace = 1
    MaxOthers = 2

SPECIFICATION Spec

INVARIANT
    ReportsBeforeFinished

CHECK_DEADLOCK FALSE
