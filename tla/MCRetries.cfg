SPECIFICATION FairSpec
CONSTANTS
    p1 = p1
    p2 = p2
    c1 = c1
    c2 = c2
    c3 = c3
    Path <- MCPath
    Chan <- MCChan
    On <- MCOn
    Amount = 5
    Fragment = 2
    MaxParts = 2
    MaxOther = 1
    MaxForgets = 1
CHECK_DEADLOCK FALSE
INVARIANTS
    RoundsBounded
PROPERTIES
    LoopEnds
