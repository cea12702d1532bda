CONSTANTS
    MaxRows = 2
    MaxStamp = 2
    MaxRestarts = 1
    MaxInFlight = 2
    MaxParts = 1
    ConcurrentAcks = FALSE
SPECIFICATION Spec
INVARIANT WithinReach
CHECK_DEADLOCK FALSE
