SPECIFICATION FairSpec
CONSTANTS
    count = 2
    MAX_THREAD_POOL = 8
    ELIST_SIZE = 1
    t1 = t1 t2 = t2
    Thread <- MCThread
    Home <- MCHome
    keyspace_lb = 0
    keyspace_ub = 3
    v1 = v1 v2 = v2
    Val <- MCVal
    None = None
    Nobody = Nobody
    Calls <- MCCalls
    MaxOps <- MCMaxOps
    MayRunAhead <- MCAhead
    OldRequests <- MCOld
INVARIANTS
    UseOK
    OwnAnswer
PROPERTIES
    ImplementsMap
    EverythingReturns
