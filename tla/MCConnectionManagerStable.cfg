SPECIFICATION Spec
CONSTANTS
    Node = {1, 2, 3}
    Peers <- MCPeers
    kUnlocked = kUnlocked
    NoConn = NoConn
    Unstable = {}
INVARIANTS
    TypeOK
    LockExclusion
    AgreedConnection
    NoDuplicate
    InitBarrier
