SPECIFICATION FairSpec
CONSTANTS
    Thread = {t1, t2}
    Requests <- MCRequests
    Alignment = 4
    kMinSlabClass = 0
    kMaxSlabClass = 3
    Word = 1
    UintBits = 6
    HugePages = {FALSE}
    RegionSizes = {4, 5, 6}
CHECK_DEADLOCK FALSE
INVARIANTS
    BlocksOK
    NoOverlap
PROPERTIES
    ClearsWhatItReuses
    AllocationReturns
