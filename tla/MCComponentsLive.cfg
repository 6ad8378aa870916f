SPECIFICATION LiveSpec
CONSTANTS
    Threads = {t1, t2}
    Keys = {k1}
    NoKey = NoKey
    Mutexes = {m1, m2}
    NoMutex = NoMutex
    MaxContainers = 2
    Stderr = TRUE
    Clients = {b1, b2}
    Inbox = 1
    EventRoom = 1
    SendRoom = 1
    MaxWishes = 1
    MaxBroadcasts = 2
    MaxConns = 2
    LinkInbox = 1
    MaxOutages = 0
    Publishers = {h1, h2}
    QueueRoom = 1
    MaxNews = 4
    Ingesters = {i1, i2}
    Retention = 1
    LastTime = 1
    MaxIngests = 2
    MaxRestarts = 1
CHECK_DEADLOCK FALSE
PROPERTIES
    LockReturns
    GateEnds
    LeaversAreForgotten
    LostLinksRedial
    QueueDrains
    BufferDrains
