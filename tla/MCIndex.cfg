CONSTANTS
    g = g
    a1 = a1
    a2 = a2
    b1 = b1
    b2 = b2
    b3 = b3
    b4 = b4
    c2 = c2
    t1 = t1
    t2 = t2
    hash1 = hash1
    hash2 = hash2
    hash3 = hash3
    hash4 = hash4
    hash5 = hash5
    hash6 = hash6
    hash7 = hash7
    hash8 = hash8
    p1 = p1
    p2 = p2
    p3 = p3
    p4 = p4
    p5 = p5
    p6 = p6
    p7 = p7
    cb = cb
    base = base
    X = X
    Y = Y
    tag = tag
    addr = addr
    Null = Null
    Idle = Idle
    Block = {g, a1, a2, b1, b2, b3, c2}
    Genesis = g
    Parent <- MCParent
    Work <- MCWork
    Address <- MCAddress
    Malformed = {b3}
    Invalid = {c2}
    Thread = {t1}
    Invalidatable = {a1, b2}
    Reconsidered = {b2}
    Precious = {b2}
    MaxPrecious = 1
    MaxUser = 2
    MaxRestarts = 1
SPECIFICATION MCSpec
INVARIANTS TypesOK BestChainActive CheckBlockIndex NoAssertionFails
           SearchesExact MerkleExact MutationFlagged
           DeploymentExact PoolMinable PackagesExact 
CHECK_DEADLOCK FALSE
