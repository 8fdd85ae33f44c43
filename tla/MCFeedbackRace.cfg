SPECIFICATION Spec
CONSTANTS
    out = out
    left = left
    right = right
    shared = shared
    in = in
    self = self
    n1 = n1
    n2 = n2
    n3 = n3
    cheap = cheap
    dear = dear
    p1 = p1
    p2 = p2
    p3 = p3
    NoPolicy = NoPolicy
    Chan <- MCChan
    Ours <- MCOurs
    Node <- MCNode
    Self = self
    Source <- MCSource
    Path <- MCPath
    Policy <- MCPolicy
    Fee <- MCFee
    Advertised <- MCAdvertised
    Gossiped <- MCGossiped
    Part <- MCPart
    MaxAges = {0, 1}
    MaxTime = 2
    MaxRestarts = 1
SYMMETRY PartSymmetry
INVARIANT
    EscalationIsEarned
CHECK_DEADLOCK FALSE
