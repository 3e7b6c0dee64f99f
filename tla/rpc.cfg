SPECIFICATION FairRpcSpec
CONSTANTS
    Process = {p1, p2}
    Thread = {t1, t2}
    PoolSize = 1
    MaxOpen = 1
    MaxCall = 4
    Exclusive = TRUE
INVARIANT RpcTypeOK
INVARIANT OwnAnswer
PROPERTY CallsReturn
CHECK_DEADLOCK FALSE
