CONSTANTS
    r1 = r1
    r2 = r2
    k1 = k1
    k2 = k2
    k3 = k3
    p1 = p1
    p2 = p2
    Requests = {r1, r2}
    Keys = {k1, k2, k3}
    Inputs <- MCInputs
    Paths = {p1, p2}
    Path <- OnePath
    NumWorkers = 2
    CacheSize = 1
    MaxCommits = 2
SPECIFICATION Spec
INVARIANT PolicyIsCurrent
CHECK_DEADLOCK FALSE
