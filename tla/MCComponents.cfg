SPECIFICATION ComponentsSpec
CONSTANTS
    Threads = {t1, t2, t3}
    Keys = {k1, k2}
    NoKey = NoKey
    Mutexes = {m1, m2, m3}
    NoMutex = NoMutex
    Jobs = {1, 2}
    KindsOf <- MCKindsOf
    Branches = {main, dev}
    VarNames = {k}
    Values = {v}
    Unset = Unset
    MaxCommit = 3
    MaxEvents = 2
    MaxContainers = 2
    Stderr = TRUE
    Clients = {b1, b2}
    Inbox = 1
    EventRoom = 2
    SendRoom = 1
    MaxWishes = 1
    MaxBroadcasts = 2
    MaxConns = 2
    LinkInbox = 1
    MaxOutages = 1
    Users = {u1}
    Passwords = {p1, p2}
    Logins = {s1, s2}
    AcctRequests = {r1, r2}
    Limit = 2
    Window = 3
    LastTick = 8
    Width = 3
    MaxStep = 2
    Publishers = {h1, h2, h3}
    QueueRoom = 2
    MaxNews = 5
    MaxSamples = 2
    LastSample = 4
    MaxStarts = 3
    Ingesters = {i1, i2}
    Retention = 1
    LastTime = 2
    MaxIngests = 3
    MaxRestarts = 1
    MaxSecrets = 3
    MaxRelease = 2
    Dollars = {2}
SYMMETRY Symm
CHECK_DEADLOCK FALSE
INVARIANTS
    ComponentsTypeOK
    NoOrphanEntry
    RestartChangesNothing
    DiffExplainsDeploy
    OpenMeansUp
    AggregateIgnoresOrder
    DeliveredInOrder
    OnlineAgreesOnceQuiet
    RouterClosesOnce
    UsableSessionsAreListed
    PasswordIsTheLastOneSet
    RateIsExact
    NewestGoesOnlyInACrowd
    RestartKeepsWhatWasFlushed
    EveryIngestOnce
    HistoryIsExact
    FirstInstallReachesItsStores
    UpgradeKeepsItsBinary
PROPERTIES
    SuccessServesItsRecord
    ClosedOnce
    KickLeavesOnlyRacers
    SpikesNeedACause
    LatestGoesBackOnlyAroundAStart
    CredentialsAreFresh
