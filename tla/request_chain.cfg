CONSTANTS
    c1 = c1
    c2 = c2
    Clients = {c1, c2}
    Nobody = Nobody
    Requests <- SomeRequests
    Methods = {"GET", "HEAD", "PUT", "DELETE"}
    Supported = {"GET", "HEAD", "PUT", "POST", "DELETE"}
    Coroutines = {"DELETE"}
    MaxVersion = 3
    MaxFaults = 1
SPECIFICATION FairSpec
INVARIANTS ChainInvariant ExecutedAsChecked OneOutcome
PROPERTIES RefusedForAReason EveryRequestAnswered
CHECK_DEADLOCK FALSE
