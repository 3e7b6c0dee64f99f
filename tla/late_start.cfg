SPECIFICATION FrontEndSpec
CONSTANTS
    N = 4
    Client = {c1}
    Started <- FirstManagers
    PoolSize = 15
    Name = {m}
    Value = {"a"}
    Apply <- StringApply
    Width = 2
    Command = {"create", "apply", "getState", "remove"}
    MaxDown = 1
    Nil = Nil
    Gone = Gone
    Typed <- Writes
    MaxCommand = 3
    MaxExit = 1
    MaxStart = 1
    CalmExit = TRUE
INVARIANT AnsweredIsReplicated
CHECK_DEADLOCK FALSE
