CONSTANTS
    AttemptTimeout = 3
    Delays <- MCDelays
    Generations = 3
    MaxSpan = 5
SPECIFICATION Spec
PROPERTIES BackoffKept OnlyTimelySuccess
