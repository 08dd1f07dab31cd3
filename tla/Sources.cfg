SPECIFICATION SourceSpec
CONSTANTS
    Consumers = {c1, c2}
    Waits <- Pulls
    Accepts <- Admits
    Values <- MCValues
    Frames <- MCFrames
    Initial = 0
    Nothing = Nothing
    Failed = Failed
    Lengths = {1, 4, 8}
    Window = 2
    Asked = 3
    NumFrames = 3
    Cpus = 2
    NumChunks = 2
    Averages = 2
INVARIANTS SleepersHaveReason FramesMatchBlobs AveragesPartitionTheInput
PROPERTIES PullsAreAnswered
CHECK_DEADLOCK FALSE
