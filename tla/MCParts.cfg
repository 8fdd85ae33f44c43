\* Safety: two parts, two HTLCs per hash, one restart, the clock past MaxAge.
SPECIFICATION Spec
CONSTANTS
    p1 = p1
    p2 = p2
    o1 = o1
    o2 = o2
    Part <- MCPart
    Offer <- MCOffer
    MaxAge = 0
    MaxTime = 1
    MaxRestarts = 1
    ConnectFails = TRUE
    LossyRpc = FALSE
SYMMETRY MCSymmetry
INVARIANTS
    TypeOK
    SettledOnceAndWhole
    ReportsAreTrue
    NothingBookedNeverPaid
    ClaimWhileInFlight
    NoStrayClaim
    OneEventEach
PROPERTIES
    ImplementsIdeal
    ReportsAreFinal
    ClaimsLeaveForAReason
CHECK_DEADLOCK FALSE
