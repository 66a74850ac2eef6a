SPECIFICATION ToolSpec
CONSTANTS
    k1 = k1
    k2 = k2
    q1 = q1
    q2 = q2
    note = note
    None = None
    Null = Null
    Unknown = Unknown
    Skeleton = {k1, k2}
    Security <- MCSecurity
    Data <- MCData
    Tool <- MCTool
    Access <- MCAccess
    Policy <- MCPolicy
    Users <- MCUsers
    Query <- MCQuery
    Shape <- MCShape
    Finding <- MCFinding
    HasRecovery = TRUE
    MaxRecovery = 1
    MaxMessages = 2
    MaxCalls = 3
    MaxRetries = 1
INVARIANTS
    ResultsBelongToCalls
    BlockedStaysBlocked
    GuidanceIsOwn
    EffectsOnce
    EntitledRows
CHECK_DEADLOCK FALSE
