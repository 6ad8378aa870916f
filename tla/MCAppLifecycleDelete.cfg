SPECIFICATION AppSpec
CONSTANTS
    health = health
    app = app
    Jobs = {d1, d2, health}
    Periodic <- MCPeriodic
    Workers = {w1, w2}
    CallIds = {c1, c2}
    Apps = {app}
    AppOf <- MCAppOf
    Mutexes = {m1, m2}
    NoJob = NoJob
    NoCall = NoCall
    NoKey = NoKey
    NoMutex = NoMutex
    PollLimit = 2
    ReapLimit = 1
    MaxClock = 3
    MaxFaults = 0
    MaxCreateFails = 0
    Kinds = {"deploy", "destroy"}
    DrainBounded = TRUE
    OrphansServed = FALSE
    ShortRequests = TRUE
CHECK_DEADLOCK FALSE
SYMMETRY Symm
PROPERTIES
    DeletesWaitForRuns
