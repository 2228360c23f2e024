CONSTANTS
    s1 = s1
    Sockets = {s1}
    NoSocket = NoSocket
    MaxClients = 2
    ReadSizes = {1,2}
    MaxChunks = 1
    Replies <- PlainReplies
    Peer = {"malformed", "tls", "hangup", "ssl error", "plaintext error"}
    Raises = {"routing", "later handler", "coroutine", "filter", "observer", "httperror", "encode", "prepare", "body"}
    MaxFaults = 1
SPECIFICATION Spec
INVARIANTS PipelineInvariant OrderInvariant ResponsesInOrder NoResponseSkipped
PROPERTIES KeepsPromise
CHECK_DEADLOCK FALSE
