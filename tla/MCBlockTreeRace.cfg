CONSTANTS
    g = g
    a1 = a1
    a2 = a2
    b1 = b1
    b2 = b2
    b3 = b3
    b4 = b4
    c2 = c2
    t1 = t1
    t2 = t2
    Null = Null
    Idle = Idle
    Block = {g, a1, a2, b1, b2, b3}
    Genesis = g
    Parent <- MCParent
    Work <- MCWork
    Address <- MCAddress
    Malformed = {}
    Invalid = {}
    Thread = {t1, t2}
    Invalidatable = {}
    Reconsidered = {}
    Precious = {}
    MaxPrecious = 0
    MaxUser = 0
    MaxRestarts = 0
SPECIFICATION Spec
INVARIANT BestChainActive
CHECK_DEADLOCK FALSE
