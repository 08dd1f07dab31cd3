\* Three names, two inputs each, MaxQueue 6: without a cycle the stack holds at
\* most five nodes; with one it grows until the bound stops it, hence no
\* deadlock check.
SPECIFICATION Spec
CONSTANTS
    a = a
    b = b
    c = c
    Names = {a, b, c}
    MaxInputs = 2
    MaxQueue = 6
INVARIANTS InputsFirst BuildComplete SuccessIsComplete
PROPERTIES ChainsAreBuilt
CHECK_DEADLOCK FALSE
