SPECIFICATION FairSpec
CONSTANTS
    us = us
    split = split
    p1 = p1
    p2 = p2
    p3 = p3
    p4 = p4
    null = null
    Us <- us
    SplitNode <- split
    Null <- null
    Rank <- MCRank
    Dest <- MCDest
    MirrorScid <- MCMirrorScid
    MaxHops = 4
    Base = 5
    Word = 25
    Whole = 2
    MaxAmount = 7
    FeeType = 2
    Wide <- MCWide
    Header <- MCHeader
    Failures <- MCFailures
CHECK_DEADLOCK FALSE
INVARIANTS
    SendsTheQuote
    ReadAsMeant
    BlameIsFair
PROPERTIES
    NothingGetsStuck
