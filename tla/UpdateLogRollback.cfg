CONSTANTS
    Paths <- NestedPaths
    Inputs <- MCInputs
    InitHeap <- NestedHeap
    InitRoot = 1
    MaxWrites = 3
SPECIFICATION LogSpec
INVARIANT CommittedDataIntact
