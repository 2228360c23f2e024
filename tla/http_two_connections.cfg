CONSTANTS
    s1 = s1
    s2 = s2
    Sockets = {s1,s2}
    NoSocket = NoSocket
    MaxClients = 2
    ReadSizes = {1}
    MaxChunks = 1
    Replies <- PlainReplies
    Peer = {"hangup"}
    Raises = {}
    MaxFaults = 0
SPECIFICATION Spec
INVARIANTS OneStream PipelineHead NoStall
SYMMETRY SocketSymmetry
CHECK_DEADLOCK FALSE
