CONSTANTS
    o1 = o1
    o2 = o2
    o3 = o3
    g = g
    m = m
    a2 = a2
    b2 = b2
    b3 = b3
    x3 = x3
    Spent = Spent
    NoEntry = NoEntry
    Null = Null
    NoUndo = NoUndo
    Outpoint <- MCOutpoint
    Coin <- MCCoin
    Unspendable = {}
    Size <- MCSize
    Block <- SmallBlock
    Genesis = g
    Parent <- SmallParent
    Height <- SmallHeight
    Vtx <- SmallVtx
    MaxCrashes = 2
    MaxFile = 0
    PowerLoss = FALSE
    Fresh = FALSE
SPECIFICATION ErrorSpec
INVARIANT DbConsistent
CHECK_DEADLOCK FALSE
