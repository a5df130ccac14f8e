SPECIFICATION MCSpec
CONSTANTS
    Lines = {"running", "isolated", "unsafe"}
    Sizes = {1, 2}
    MaxNotices = 2
    MaxBytes = 4
    MaxPushed = 4
    MaxFaults = 2
    Peers <- MCPeers
INVARIANT NoticesKept
PROPERTIES Serves ToldInTheEnd
CHECK_DEADLOCK FALSE
