\* An RPC call may end in a transport error, which counts as a failed part
\* (exec.rs:936): its claim is dropped while its HTLC is in flight.
SPECIFICATION FairSpec
CONSTANTS
    p1 = p1
    p2 = p2
    o1 = o1
    o2 = o2
    Part <- MCPart
    Offer <- MCOneOffer
    MaxAge = 0
    MaxTime = 1
    MaxRestarts = 0
    ConnectFails = FALSE
    LossyRpc = TRUE
PROPERTIES
    ClaimsLeaveForAReason
CHECK_DEADLOCK FALSE
