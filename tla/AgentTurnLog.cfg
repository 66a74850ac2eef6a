CONSTANTS
    Turn = {t1, t2, t3}
    c1 = c1
    Conv = {c1}
    ConvOf <- MCConvOf
    StoreKind = "file"
    ClientPolicy = "ended"
    MaxToolIterations = 1
    MaxCalls = 1
    AutoSave = TRUE
    NoTurn = NoTurn
SPECIFICATION Spec
PROPERTIES
    StoreIsALog
CHECK_DEADLOCK FALSE
