CONSTANTS
    Past = Past
    Turn = {t1, t2}
    MaxAttempts = 3
    MaxRetries = 2
    MaxConsecutive529 = 2
    HasFallback = TRUE
    KeepFirst = 1
    KeepRecent = 3
    MaxToolIterations = 2
    MaxCalls = 1
    History <- MCHistory
SPECIFICATION Spec
PROPERTIES
    CompactionShrinks
CHECK_DEADLOCK FALSE
