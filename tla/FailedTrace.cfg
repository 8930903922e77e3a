SPECIFICATION Spec
CONSTANTS
    c1 = c1
    c2 = c2
    s = s
    t = t
    Bad = Bad
    NoClient = NoClient
    Clients = {c1}
    Attrs <- MCAttrs
    CardOneAttrs <- MCCardOne
    IdentityAttrs <- MCIdentity
    Values <- MCValues
    BadValues = {Bad}
    TempIDs = {s, t}
    Batches <- FailingBatches
    Times = {0}
    PoolSize = 1
    Partitioned = FALSE
    MaxTx = 2
    MaxOpens = 0
INVARIANT FailedLeavesNoTrace
CHECK_DEADLOCK FALSE
