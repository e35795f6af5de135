SPECIFICATION FairSpec
CONSTANTS
    r1 = r1
    v1 = v1
    Requests = {r1, r2}
    Workers = {k1, k2}
    Live = {k1}
    Values = {v1, v2}
    Says <- MCSays
    None = None
    MaxFaults = 2
INVARIANTS
    TypeOK
    QueueConsistent
    FreshOrPending
PROPERTIES
    Implements
    Served
