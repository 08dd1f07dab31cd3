\* One property, expected to be violated.
SPECIFICATION Spec
CONSTANTS
    a = a
    b = b
    c = c
    Names = {a, b, c}
    MaxInputs = 2
    MaxQueue = 6
INVARIANTS WellFormedNeverPanics
CHECK_DEADLOCK FALSE
