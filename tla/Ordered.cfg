SPECIFICATION Spec
CONSTANTS
    NoCount = NoCount
    NumThreads = 2
    NumberOfFrames = 6
    FrameCount = 5
    U64Max = 9
    LastEof = 3
    Access = {"random", "sequential"}
    MayHangUp = TRUE
INVARIANTS PipelineInOrder BoundedMemory
PROPERTIES DeliversInOrder PullerEnds
CHECK_DEADLOCK FALSE
