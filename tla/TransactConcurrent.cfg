SPECIFICATION ViewSpec
CONSTANTS
    c1 = c1
    c2 = c2
    s = s
    t = t
    Bad = Bad
    NoClient = NoClient
    Clients = {c1, c2}
    Attrs <- MCAttrs
    CardOneAttrs <- MCCardOne
    IdentityAttrs <- MCIdentity
    Values <- MCValues
    BadValues = {Bad}
    TempIDs = {s, t}
    Batches <- SharedBatches
    Times = {0}
    PoolSize = 2
    Partitioned = FALSE
    MaxTx = 3
    MaxOpens = 1
INVARIANTS
    IdentityUnique
    TxIDsFresh
    NewEntitiesBlank
PROPERTIES
    ImplementsLog
    PastIsImmutable
CHECK_DEADLOCK FALSE
