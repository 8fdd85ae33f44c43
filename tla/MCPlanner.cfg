\* Every case of MCCases: parts, ladder, layers, and channels that change.
SPECIFICATION FairSpec
CONSTANTS
    t1 = t1
    t2 = t2
    s1 = s1
    s2 = s2
    d1 = d1
    d2 = d2
    o1 = o1
    Task <- MCTask
    Chan <- MCChan
    Cases <- MCCases
    NoCap = 99
    Million = 4
    SinglePath = 3
    Accuracy = 4
CHECK_DEADLOCK FALSE
INVARIANTS
    TypeOK
    CapsKept
    SourcesPinned
    PlanKeepsTheEnvelope
    SlotsWellUsed
    LayersAccounted
    RungFits
PROPERTIES
    PlanReturns
