SPECIFICATION PipelineSpec
CONSTANTS
    Sizes <- SizesDef
    Depths <- DepthsDef
    Switches <- SwitchesDef
    Rates <- RatesDef
    Patterns <- Cfas
    MaxNodes = 3
    NumThreads = 2
    Stored = 2
    MaxAveraged = 2
    Unread = Unread
    Absent = Absent
    Word = 64
INVARIANTS LengthsFit NothingUnwritten PanicsAreAsserted  CapsCoverRequests
CHECK_DEADLOCK FALSE
