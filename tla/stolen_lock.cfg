SPECIFICATION FrontEndSpec
CONSTANTS
    N = 3
    Client = {c1, c2}
    Started <- AllRM
    PoolSize = 15
    Name = {m}
    Value = {"a"}
    Apply <- StringApply
    Width = 2
    Command = {"create", "apply", "getState", "remove"}
    MaxDown = 0
    Nil = Nil
    Gone = Gone
    Typed <- Writes
    MaxCommand = 4
    MaxExit = 0
    MaxStart = 0
    CalmExit = FALSE
SYMMETRY Symmetric
INVARIANT MutualExclusion
CHECK_DEADLOCK FALSE
