SPECIFICATION FairSpec
CONSTANTS
    n1 = n1 n2 = n2 c1 = c1 c2 = c2 c3 = c3
    Node <- MCNode
    Thread <- MCThread
    Home <- MCHome
    MayCrash = {n2}
    ServerMayCrash = {"recv", "send"}
    MsgSize = 2
    op_count = 2
    LapTimes <- MCLapTimes
    qps_sampling_rate = 10
    lat_sampling_rate = 10
    MaxTimedOps <- MCMaxTimedOps
CHECK_DEADLOCK FALSE
INVARIANTS
    NodesOK
    StopIsBarrier
    Reports
PROPERTIES
    EveryoneEnds
