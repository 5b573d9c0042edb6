CONSTANTS
    g = g
    a1 = a1
    a2 = a2
    b1 = b1
    b2 = b2
    b3 = b3
    b4 = b4
    t1 = t1
    t2 = t2
    Null = Null
    Idle = Idle
    Worker = {w1, w2}
    Master = Master
    Check = {check1, check2, check3}
    Bad = {check3}
    nBatchSize = 2
    MaxBlocks = 2
    Producer = {producer}
    Main = Main
SPECIFICATION MCSpec
INVARIANTS TypesOK NoAssertionFails VerdictExact TodoExact SomeoneAwake CallbacksInOrder
PROPERTIES ActivationEnds MasterReturns SchedulerFinishes
CHECK_DEADLOCK FALSE
