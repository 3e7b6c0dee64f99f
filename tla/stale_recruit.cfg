SPECIFICATION FrontEndSpec
CONSTANTS
    N = 5
    Client = {c1}
    Started <- AllRM
    PoolSize = 15
    Name = {m}
    Value = {"a", "b"}
    Apply <- StringApply
    Width = 2
    Command = {"create", "apply", "getState", "remove"}
    MaxDown = 1
    Nil = Nil
    Gone = Gone
    Typed <- Writes
    MaxCommand = 2
    MaxExit = 1
    MaxStart = 0
    CalmExit = FALSE
INVARIANT AnsweredIsEverywhere
CHECK_DEADLOCK FALSE
