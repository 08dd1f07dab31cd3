SPECIFICATION Spec
CONSTANTS
    x = x  y = y  z = z
    Consumers <- Three
    Capacity = 1
    Last = 3
    Setups <- MCSetups
    Nobody = Nobody
INVARIANTS WithinCapacity PulledOnce KeptForTheRest
PROPERTIES EverybodyIsServed
CHECK_DEADLOCK FALSE
