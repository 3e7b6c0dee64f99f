SPECIFICATION FairFrontEndSpec
CONSTANTS
    N = 3
    Client = {c1, c2}
    Started <- AllRM
    PoolSize = 15
    Name = {m, k}
    Value = {"a"}
    Apply <- StringApply
    Width = 2
    Command = {"create", "apply", "getState", "remove"}
    MaxDown = 0
    Nil = Nil
    Gone = Gone
    Typed <- Creates
    MaxCommand = 3
    MaxExit = 0
    MaxStart = 0
    CalmExit = FALSE
PROPERTY CommandEnds
CHECK_DEADLOCK FALSE
