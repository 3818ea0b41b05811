SPECIFICATION LocksFairSpec
CONSTANTS
    t1 = t1
    t2 = t2
    t3 = t3
    NoThread = NoThread
    Threads = {t1, t2, t3}
    Orders = {o1, o2, o3}
    Batches <- AllSets
    MayBatch <- TwoBatch
PROPERTY ImplementsSections
PROPERTY SectionRuns
CHECK_DEADLOCK FALSE
