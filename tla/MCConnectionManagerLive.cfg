SPECIFICATION FairSpec
CONSTANTS
    Node = {1, 2}
    Peers <- MCPeers
    kUnlocked = kUnlocked
    NoConn = NoConn
    Unstable = {1, 2}
INVARIANTS
    AgreedConnection
PROPERTIES
    
    ConnectAnswered
    LockReturned
