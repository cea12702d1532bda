CONSTANTS
    r1 = r1
    r2 = r2
    k1 = k1
    k2 = k2
    k3 = k3
    p1 = p1
    p2 = p2
    Requests = {r1, r2}
    Keys = {k1, k2, k3}
    Inputs <- MCInputs
    Paths = {p1, p2}
    Path <- OnePath
    NumWorkers = 2
    CacheSize = 1
    MaxCommits = 1
SPECIFICATION LiveSpec
INVARIANTS TypeOK BatchSnapshot ResponseFits
PROPERTY AnsweredWithoutWriter
\* A batch that is overtaken by a commit stops (see BatchDeadlock.cfg).
CHECK_DEADLOCK FALSE
