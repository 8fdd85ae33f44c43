SPECIFICATION Spec
CONSTANTS
    r1 = r1
    r2 = r2
    s1 = s1
    s2 = s2
    d1 = d1
    d2 = d2
    Req <- OneRequest
    Source <- MCSource
    Dest <- MCDest
    Ask <- MCAsk
    Million = 2
    Fragment = 2
CHECK_DEADLOCK FALSE
INVARIANTS
    TypeOK
    FeeRateKept
    NeverMovesTooMuch
    FeePotKept
    CapsKept
    TotalsBracketTheTruth
    ErrorMovedNothing
