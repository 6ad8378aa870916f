SPECIFICATION Spec
CONSTANTS
    d1 = d1
    d2 = d2
    d3 = d3
    metrics = metrics
    a = a
    Jobs = {d1, metrics}
    Periodic <- MCPeriodic
    Workers = {w1, w2}
    CallIds = {c1, c2, c3}
    Apps = {a}
    AppOf <- MCAppOf
    Mutexes = {m1, m2}
    NoJob = NoJob
    NoCall = NoCall
    NoKey = NoKey
    NoMutex = NoMutex
    PollLimit = 2
    ReapLimit = 1
    MaxClock = 3
    MaxFaults = 1
    DrainBounded = FALSE
    OrphansServed = TRUE
CHECK_DEADLOCK FALSE
SYMMETRY Symm
INVARIANTS
    TypeOK
PROPERTIES
    EachQueueingRunsOnce
    RowsFollowLifecycle
