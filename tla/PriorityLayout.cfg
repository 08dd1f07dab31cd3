SPECIFICATION Spec
CONSTANTS
    s1 = s1  s2 = s2
    Slots <- MCSlots
    Frames <- MCFrames
    Outputs <- MCOutputs
    FrameSpan = 8
    MaskSpan = 16
INVARIANTS FrameReadsBack
