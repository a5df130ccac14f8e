CONSTANTS
    AttemptTimeout = 1
    Delays <- MCDelays
    Generations = 2
    Timeout = 2
    Window = 2
    Interval = 1
    QueueCap = 2
    Guards = {g1, g2}
    None = none
    PromptStart = FALSE
SYMMETRY MCSymmetry
SPECIFICATION Spec
INVARIANT RestoredIsOpen
