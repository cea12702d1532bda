CONSTANTS
    MaxRows = 2
    MaxStamp = 2
    MaxRestarts = 1
    MaxInFlight = 2
    MaxParts = 2
    ConcurrentAcks = TRUE
SPECIFICATION Spec
INVARIANT AtLeastOnce
CHECK_DEADLOCK FALSE
