SPECIFICATION Spec
CONSTANTS
    NoCount = NoCount
    NumThreads = 2
    NumberOfFrames = 0
    FrameCount = NoCount
    U64Max = 5
    LastEof = 1
    Access = {"random", "sequential"}
    MayFailToWrite = TRUE
INVARIANTS NothingForgotten FailureIsReported BoundedLoss ProgressIsEarned
PROPERTIES StopsAtEof Terminates
CHECK_DEADLOCK FALSE
