\* Two parts, one HTLC per hash; any RPC call may end in a transport error, but
\* every connection succeeds and nothing restarts.
SPECIFICATION FairSpec
CONSTANTS
    p1 = p1
    p2 = p2
    o1 = o1
    o2 = o2
    Part <- MCPart
    Offer <- MCOneOffer
    MaxAge = 0
    MaxTime = 1
    MaxRestarts = 0
    ConnectFails = FALSE
    LossyRpc = TRUE
PROPERTIES
    EventAlwaysEmitted
    ExecuteReturns
CHECK_DEADLOCK FALSE
