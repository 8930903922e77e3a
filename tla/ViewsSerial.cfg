SPECIFICATION ViewSpec
CONSTANTS
    c1 = c1
    c2 = c2
    s = s
    t = t
    Bad = Bad
    NoClient = NoClient
    Clients = {c1}
    Attrs <- MCAttrs
    CardOneAttrs <- MCCardOne
    IdentityAttrs <- MCIdentity
    Values <- MCValues
    BadValues = {Bad}
    TempIDs = {s, t}
    Batches <- MixedBatches
    Times = {0, 1}
    PoolSize = 1
    Partitioned = FALSE
    MaxTx = 3
    MaxOpens = 1
INVARIANTS
    QueryAsOfSound
    PullAsOfComplete
    ValidTimeCoversCurrent
    PullAsOfExact
CHECK_DEADLOCK FALSE
