CONSTANTS
    s1 = s1
    Sockets = {s1}
    NoSocket = NoSocket
    MaxClients = 2
    ReadSizes = {0, 2}
    MaxChunks = 1
    Replies <- PlainReplies
    Peer = {"hangup"}
    Raises = {"routing", "later handler", "coroutine", "filter", "observer", "httperror", "encode", "prepare", "body"}
    MaxFaults = 2
SPECIFICATION Spec
INVARIANT PipelineAssertion
CHECK_DEADLOCK FALSE
