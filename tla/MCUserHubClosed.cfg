SPECIFICATION HubSpec
CONSTANTS
    Clients = {c1}
    Inbox = 2
    EventRoom = 2
    SendRoom = 2
    MaxWishes = 1
    MaxBroadcasts = 2
CHECK_DEADLOCK FALSE
PROPERTIES
    NoSendOnClosed
