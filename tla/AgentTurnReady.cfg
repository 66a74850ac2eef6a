CONSTANTS
    Turn = {t1, t2}
    c1 = c1
    Conv = {c1}
    ConvOf <- MCConvOf
    StoreKind = "file"
    ClientPolicy = "ready"
    MaxToolIterations = 2
    MaxCalls = 1
    AutoSave = TRUE
    NoTurn = NoTurn
SPECIFICATION Spec
PROPERTIES
    ReadyMeansKept
CHECK_DEADLOCK FALSE
