SPECIFICATION FairSpec
CONSTANTS
    Thread = {t1, t2}
    Key = {1, 2, 3}
    Val = {a, b}
    None = None
    ELIST_SIZE = 2
    PLIST_SIZE = 2
    Hash <- MCHash
    MaxDepth = 3
    MaxOps = 2
INVARIANTS
    TreeOK
    OneInside
PROPERTIES
    ImplementsMap
    OperationsReturn
