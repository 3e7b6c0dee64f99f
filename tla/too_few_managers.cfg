SPECIFICATION Spec
CONSTANTS
    N = 2
    Client = {c1}
    Started <- AllRM
    PoolSize = 15
    Name = {m}
    Value = {"a"}
    Apply <- StringApply
    Width = 2
    Command = {"create", "apply", "getState", "remove"}
    MaxDown = 1
    Nil = Nil
    Gone = Gone
INVARIANT LockOwner
INVARIANT WaitsForAnswer
CHECK_DEADLOCK FALSE
