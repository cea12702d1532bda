CONSTANTS
    MaxRows = 2
    MaxStamp = 1
    MaxRestarts = 1
    MaxInFlight = 2
    MaxParts = 2
    ConcurrentAcks = FALSE
SPECIFICATION LiveSpec
INVARIANTS TypeOK AtLeastOnce WithinReachAtFirst
PROPERTY EventuallySent
CHECK_DEADLOCK FALSE
