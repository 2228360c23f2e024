CONSTANTS
    s1 = s1
    Sockets = {s1}
    NoSocket = NoSocket
    MaxClients = 2
    ReadSizes = {0, 1, 2}
    MaxChunks = 1
    Replies <- SomeReplies
    Peer = {"malformed", "tls", "hangup"}
    Raises = {}
    MaxFaults = 0
SPECIFICATION Spec
INVARIANTS PipelineInvariant NoStall DoneMeansSent
PROPERTIES ClosesBetweenResponses KeepsPromise
CHECK_DEADLOCK FALSE
