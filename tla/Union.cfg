SPECIFICATION TablesSpec
CONSTANTS
    Buckets = 2
    Sizes <- UnionSizes
    TableKeys <- UnionKeys
    PlainValues <- UnionValues
    InputNames = {1}
    MaxEntries = 3
INVARIANT UnionPrefersRight
CHECK_DEADLOCK FALSE
