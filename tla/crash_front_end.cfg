SPECIFICATION FrontEndSpec
CONSTANTS
    N = 4
    Client = {c1}
    Started <- AllRM
    PoolSize = 15
    Name = {m}
    Value = {0, 1, 2, 3}
    Apply <- BankApply
    Width = 2
    Command = {"create", "apply", "getState", "remove"}
    MaxDown = 1
    Nil = Nil
    Gone = Gone
    Typed <- AddOneKeep
    MaxCommand = 2
    MaxExit = 1
    MaxStart = 1
    CalmExit = FALSE
 
 
INVARIANT MutualExclusion
CHECK_DEADLOCK FALSE
