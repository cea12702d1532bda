SPECIFICATION FilterSpec
CONSTANTS
    FilterRequests <- RightSides
    FilterRows <- RowsToFilter
INVARIANT SidesDoNotMatter
CHECK_DEADLOCK FALSE
