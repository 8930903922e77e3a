SPECIFICATION Spec
CONSTANTS
    Clients = {1, 2, 3}
    MaxTx = 3
    MaxTime = 3
INVARIANT ViewRespectsRealTime
CHECK_DEADLOCK FALSE
