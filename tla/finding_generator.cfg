CONSTANTS
    s1 = s1
    Sockets = {s1}
    NoSocket = NoSocket
    MaxClients = 2
    ReadSizes = {0, 1}
    MaxChunks = 1
    Replies <- UnsafeReplies
    Peer = {"hangup"}
    Raises = {}
    MaxFaults = 0
SPECIFICATION Spec
INVARIANT GeneratorExecuted
CHECK_DEADLOCK FALSE
