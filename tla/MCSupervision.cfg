CONSTANTS
    Grace = 2
    MaxOthers = 2
SPECIFICATION FairSpec
INVARIANTS BlockedBeforeAsked HonestCode
PROPERTIES RunEnds NothingOutlives
CHECK_DEADLOCK FALSE
