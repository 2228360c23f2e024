CONSTANTS
    s1 = s1
    Sockets = {s1}
    NoSocket = NoSocket
    MaxClients = 2
    ReadSizes = {1, 2}
    MaxChunks = 1
    Replies <- PlainReplies
    Peer = {"hangup"}
    Raises = {}
    MaxFaults = 0
SPECIFICATION FairSpec
PROPERTIES EveryRequestAnswered ClosedStateRemoved
CHECK_DEADLOCK FALSE
