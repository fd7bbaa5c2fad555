SPECIFICATION Spec
CONSTANTS
    Key = {1, 2, 3, 4, 5}
    Nil = Nil
    window_size_ = 4
    Scale = 720
    MaxSamples = 6
CHECK_DEADLOCK FALSE
INVARIANTS
    TreeOK
    StatisticsOK
