SPECIFICATION AppSpec
CONSTANTS
    health = health
    app = app
    Jobs = {d1}
    Periodic <- MCPeriodic
    Workers = {w1, w2}
    CallIds = {c1, c2}
    Apps = {app}
    AppOf <- MCAppOf
    Mutexes = {m1, m2}
    NoJob = NoJob
    NoCall = NoCall
    NoKey = NoKey
    NoMutex = NoMutex
    PollLimit = 2
    ReapLimit = 1
    MaxClock = 2
    MaxFaults = 0
    MaxCreateFails = 1
    Kinds = {"restart", "destroy"}
    DrainBounded = TRUE
    OrphansServed = FALSE
    ShortRequests = TRUE
CHECK_DEADLOCK FALSE
SYMMETRY Symm
INVARIANTS
    BusyAppHasWork
