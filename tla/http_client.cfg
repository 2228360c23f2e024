CONSTANTS
    c1 = c1
    c2 = c2
    here = here
    Clients = {c1, c2}
    Origins = {here}
    Origin <- OneOrigin
    Nobody = Nobody
    MaxSockets = 2
    MaxAsks = 3
    MaxExtra = 1
    Network = {"refuse", "drop", "close"}
SPECIFICATION FairSpec
INVARIANTS ClientInvariant OwnResponse ParsedForOwnRequest
PROPERTY EveryRequestAnswered
CHECK_DEADLOCK FALSE
