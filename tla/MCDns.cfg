SPECIFICATION MCSpec
CONSTANTS
    Clients = {c1, c2}
    Names = {n1}
    Refused = refused
    MaxId = 2
    MaxResolutions = 2
    MaxWaiters = 1
    MaxKept = 1
    Timeout = 1
    FailureHold = 1
    Ttls = {2}
    FollowInterval = 1
    MaxChanges = 1
    Panics = TRUE
    Peers <- MCPeers
    Replies <- MCReplies
    Policy <- MCPolicy
    Route <- MCRoute
SYMMETRY MCSymmetry
INVARIANTS BooksAgree NoOldAnswer Authorized WithinLifetimes
PROPERTIES FrontKeepsAnswers ExchangeInOrder
CHECK_DEADLOCK FALSE
