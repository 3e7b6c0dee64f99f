SPECIFICATION Spec
CONSTANTS
    N = 4
    Client = {c1}
    Started <- AllRM
    PoolSize = 15
    Name = {m}
    Value = {0, 1, 2, 3}
    Apply <- BankApply
    Width = 2
    Command = {"create", "apply", "getState", "remove"}
    MaxDown = 0
    Nil = Nil
    Gone = Gone
INVARIANT TypeOK
INVARIANT GroupAgreement
PROPERTY ImplementsService
