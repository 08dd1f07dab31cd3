SPECIFICATION Spec
CONSTANTS
    Frames = 4
    Rounds = 2
    MaxTrouble = 2
    Nothing = Nothing
INVARIANTS DrawnInOrder LittleIsLost
PROPERTIES ProcessEnds
CHECK_DEADLOCK FALSE
