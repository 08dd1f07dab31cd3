SPECIFICATION Spec
CONSTANTS
    NoCount = NoCount
    NumThreads = 2
    NumberOfFrames = 3
    FrameCount = NoCount
    U64Max = 9
    LastEof = 2
    Access = {"sequential"}
    MayFailToWrite = FALSE
PROPERTIES StopsAtEof
CHECK_DEADLOCK FALSE
