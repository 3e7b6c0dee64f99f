SPECIFICATION FairFrontEndSpec
CONSTANTS
    N = 5
    Client = {c1}
    Started <- AllRM
    PoolSize = 15
    Name = {m}
    Value = {0, 1, 2, 3}
    Apply <- BankApply
    Width = 2
    Command = {"create", "apply", "getState", "remove"}
    MaxDown = 2
    Nil = Nil
    Gone = Gone
    Typed <- AddOne
    MaxCommand = 3
    MaxExit = 2
    MaxStart = 0
    CalmExit = TRUE
INVARIANT ShellTypeOK
INVARIANT AnsweredIsReplicated
INVARIANT AnsweredIsEverywhere
PROPERTY CommandEnds
PROPERTY ImplementsOneHost
CHECK_DEADLOCK FALSE
