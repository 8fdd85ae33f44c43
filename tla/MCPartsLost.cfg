\* A watcher may find no connection (exec.rs:692): its part has no event.
SPECIFICATION FairSpec
CONSTANTS
    p1 = p1
    p2 = p2
    o1 = o1
    o2 = o2
    Part <- MCPart
    Offer <- MCOneOffer
    MaxAge = 0
    MaxTime = 1
    MaxRestarts = 0
    ConnectFails = TRUE
    LossyRpc = FALSE
PROPERTIES
    EventAlwaysEmitted
CHECK_DEADLOCK FALSE
