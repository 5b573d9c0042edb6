CONSTANTS
    first = first
    second = second
    child = child
    base = base
    X = X
    Null = Null
    Tx <- MCTx
    Coinbase = {}
    Ins <- MCIns
    Confirmed <- MCConfirmed
    Fee <- MCFee
    nLockTime <- MCLock
    nSequence <- MCLock
    OptIn = {}
    Issue <- MCIssue
    Reissue <- MCNone
    Mark <- MCNone
    Freeze = {}
    Frozen <- MCNone
    From <- MCNone
    fEnableReplacement = TRUE
    COINBASE_MATURITY = 2
    limitAncestorCount = 3
    limitDescendantCount = 3
    maxDescendantsToVisit = 3
    MAX_DISCONNECTED_TX_POOL_SIZE = 3
    MaxHeight = 2
    MaxTxs = 2
    MaxVictims = 1
SPECIFICATION Spec
CHECK_DEADLOCK FALSE
INVARIANT InputsAvailable
