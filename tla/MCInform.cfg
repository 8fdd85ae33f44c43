SPECIFICATION Spec
CONSTANTS
    chan = chan
    t1 = t1
    t2 = t2
    Key <- MCKey
    Lower = {}
    Task <- MCTask
    Bound = {1, 2}
    Agings = {1, 4}
    Divisor = 2
    KeepBuckets = 1
    SweepEvery = 2
    Slack = 2
    Start = 13
    MaxTime = 15
    MaxRestarts = 1
SYMMETRY TaskSymmetry
INVARIANTS
    TypeOK
    ObservationsAreKept
CHECK_DEADLOCK FALSE
