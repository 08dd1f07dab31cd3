SPECIFICATION Spec
CONSTANTS
    w1 = w1  w2 = w2  c1 = c1  a = a  b = b  c = c  none = none
    Workers <- MCWorkers
    Clients <- MCClients
    Tasks <- MCTasks
    Wanted <- MCWanted
    Key <- MCKey
    FrameSpan = 8
    MaskSpan = 16
    NoTask = none
    MaxPolls = 1
INVARIANTS NoStrandedWork OneHolder
PROPERTIES OutputThenFrame WakeupsAreServed ImplementsTaskPool
