CONSTANTS
    Turn = {t1, t2}
    c1 = c1
    Conv = {c1}
    ConvOf <- MCConvOf
    StoreKind = "memory"
    ClientPolicy = "ended"
    MaxToolIterations = 2
    MaxCalls = 2
    AutoSave = TRUE
    NoTurn = NoTurn
SPECIFICATION Spec
INVARIANTS
    RequestWellFormed
CHECK_DEADLOCK FALSE
