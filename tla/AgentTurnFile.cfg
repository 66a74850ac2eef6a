CONSTANTS
    Turn = {t1, t2}
    c1 = c1
    Conv = {c1}
    ConvOf <- MCConvOf
    StoreKind = "file"
    ClientPolicy = "any"
    MaxToolIterations = 2
    MaxCalls = 2
    AutoSave = TRUE
    NoTurn = NoTurn
SPECIFICATION FairSpec
INVARIANTS
    TypeOK
    StoredWellFormed
    RequestWellFormed
    StoredAtomically
    NeverStuckWorking
    KeptUnlessExcused
PROPERTIES
    TurnsEnd
    StepsRunOut
CHECK_DEADLOCK FALSE
