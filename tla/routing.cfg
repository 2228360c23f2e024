CONSTANTS
    d1 = d1
    d2 = d2
    alias = alias
    unknown = unknown
    r1 = r1
    r2 = r2
    r3 = r3
    gateway = gateway
    peer = peer
    c1 = c1
    Domains = {d1, d2}
    NoDomain = NoDomain
    Resources = {r1, r2, r3}
    NoResource = NoResource
    Choosy = {r2}
    Trees <- SomeTrees
    Initially = {d1, d2, r1, r2}
    Hosts = {d1, d2, alias, unknown}
    NoHost = NoHost
    LocalName = d1
    Aliases <- SomeAliases
    Gateways = {gateway}
    Clients = {c1}
    Requests <- SomeRequests
    MaxChanges = 2
SPECIFICATION FairSpec
INVARIANTS RoutingInvariant CalledAsAsked RefusedMeansAbsent RegistryFollowsTree
PROPERTY EveryRequestRouted
CHECK_DEADLOCK FALSE
