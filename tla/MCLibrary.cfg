SPECIFICATION MCSpec
CONSTANTS
    Receivers = {r1, r2}
    MaxEvents = 2
    MaxBytes = 3
    MaxEvent = 2
    SocketCap = 1
    MaxNext = 4
    Futures = {f1, f2}
    Tasks = {t1, t2}
    Threads = {h1, h2}
    Callers = {c1, c2}
    Sizes = {1, 2, 3, 4}
    Counts = {0, 1, 2, 3}
    MAX_MESSAGE = 3
    MAX_FDS = 2
    MaxMessages = 2
    Capacity = 2
SYMMETRY MCSymmetry
INVARIANTS LossesTold NoLostWakeup DeliveredAsSent HonestReport
PROPERTIES HandleWakes OrderKept
CHECK_DEADLOCK FALSE
