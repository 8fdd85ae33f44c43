SPECIFICATION FairSpec
CONSTANTS
    r1 = r1
    r2 = r2
    s1 = s1
    s2 = s2
    d1 = d1
    d2 = d2
    Req <- MCReq
    Source <- OneSource
    Dest <- OneDest
    Ask <- MCQueue
    Million = 2
    Fragment = 1
CHECK_DEADLOCK FALSE
PROPERTIES
    EveryCallAnswered
