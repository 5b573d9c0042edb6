CONSTANTS
    o1 = o1
    o2 = o2
    c1 = c1
    c2 = c2
    burn = burn
    b1 = b1
    b2 = b2
    freeze = freeze
    root = root
    sub = sub
    i1 = i1
    i2 = i2
    v1 = v1
    v2 = v2
    t1 = t1
    t2 = t2
    t3 = t3
    t4 = t4
    Spent = Spent
    NoEntry = NoEntry
    Null = Null
    Outpoint <- MCOutpoint
    Coin <- MCCoin
    Unspendable <- MCUnspendable
    Size <- MCSize
    Block <- MCBlock
SPECIFICATION MCSpec
CONSTRAINT Unspoilt
INVARIANTS TypesOK FlagsSound NoLogicError UsageExact StatusExact CachesSound MetaExact IndexExact
PROPERTY ImplementsUtxoSet
