SPECIFICATION FairSpec
CONSTANTS
    Thread = {1, 2, 3}
    Qp = {q1, q2}
    THREAD_MAX = 2
    MaxOps <- FewOps
    Kinds <- AllKinds
INVARIANTS
    CountersOK
    ReturnsAfterCompletion
    AtomicsAreSerial
PROPERTIES
    WritesItsValue
    OperationsReturn
