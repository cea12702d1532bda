SPECIFICATION ServicesSpec
CONSTANTS
    Refs <- DataRefs
    NameOf <- DataNames
    FirstConfigs <- DataFirst
    NextConfigs <- DataNexts
    KindChoices <- DataKinds
    HasRule = {"p"}
    MaxSource = 1
    DFaults = 1
    DCancels = 1
    MaxReconfigures = 2
    Jobs = {j1, j2}
    Evaluations = {w1, w2}
    NoJob = NoJob
    DLConfigs <- LoggerConfigs
    DLEvents <- LoggerEvents
    MaskAt <- LoggerMask
    DropAt <- LoggerDrop
    MaxVersions = 3
    MaxStarts = 2
    FilterRequests <- CallsForFilters
    FilterRows <- RowsToFilter
INVARIANTS ServicesTypeOK  ImpactSafety  FilterMeansPolicy
PROPERTIES ReconfigureEnds EventuallyFresh JobsEnd StartEnds
CHECK_DEADLOCK FALSE
