\* Requests through the middleware chain to a pool of one or two connections.
SPECIFICATION FairSpec
CONSTANTS
    r1 = r1
    r2 = r2
    proxy = proxy
    client = client
    other = other
    nobody = nobody
    garbled = garbled
    Requests <- MCRequests
    Callers <- MCCallers
    Proxies <- MCProxies
    Outsiders <- MCOutsiders
    NoAddress <- nobody
    NotAnAddress <- garbled
    MaxHops <- MCMaxHops
    PoolSizes <- MCPoolSizes
    Scenarios <- MCScenarios
    MaxAttempts = 2
CHECK_DEADLOCK FALSE
INVARIANTS
    ConnectionsReturned
    CreateTimeHonest
    RetriesHonest
    OnlyAdmitted
    ContractKept
PROPERTIES
    RequestsAnswered
