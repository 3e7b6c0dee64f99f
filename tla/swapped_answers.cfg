SPECIFICATION RpcSpec
CONSTANTS
    Process = {p1}
    Thread = {t1, t2}
    PoolSize = 2
    MaxOpen = 2
    MaxCall = 2
    Exclusive = FALSE
SYMMETRY Symmetric
INVARIANT OwnAnswer
CHECK_DEADLOCK FALSE
