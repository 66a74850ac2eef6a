CONSTANTS
    Turn = {t1, t2}
    c1 = c1
    Conv = {c1}
    ConvOf <- MCConvOf
    StoreKind = "memory"
    ClientPolicy = "any"
    MaxToolIterations = 2
    MaxCalls = 1
    AutoSave = TRUE
    NoTurn = NoTurn
SYMMETRY Symmetry
SPECIFICATION Spec
INVARIANTS
    RequestShowsOwnWork
    AnswersFollowCalls
CHECK_DEADLOCK FALSE
