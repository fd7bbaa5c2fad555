SPECIFICATION FairSpec
CONSTANTS
    NumSlots = 2
    kRecvMaxBytes = 3
    max_recv_wr = 4
    Message = {a, b}
    Garbage = Garbage
    MaxSends = 5
INVARIANTS
    RingsAgree
    UnreadNotPosted
PROPERTIES
    ImplementsFifo
    SentIsDelivered
