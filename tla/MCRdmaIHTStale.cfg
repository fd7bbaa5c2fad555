SPECIFICATION Spec
CONSTANTS
    Client = {c1, c2}
    Key = {1, 2}
    Val = {a}
    None = None
    ELIST_SIZE = 1
    PLIST_SIZE = 2
    Hash <- MCHash
    NodeOf <- MCNodeOf
    RootNode = c1
    cache_depth = 2
    MaxDepth = 3
    MaxOps = 2
INVARIANTS
    LockedIsFresh
