SPECIFICATION Spec
CONSTANTS
    CtrSpan = 8
    CtrStart = 1
    Buffers = 2
    LastHalf = 15
    MaxGap = 4
    FirstHalf <- MCFirstHalf
    InputFails = TRUE
    NoHalf = NoHalf
INVARIANTS HalvesOfOneExposure InputInOrder SlipsOnlyNearLoss
CHECK_DEADLOCK FALSE
