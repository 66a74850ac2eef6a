CONSTANTS
    a = a
    b = b
    t = t
    u = u
    d = d
    q = q
    g1 = g1
    g2 = g2
    w = w
    f1 = f1
    f2 = f2
    x = x
    y = y
    z = z

    \* Stores with embeddings
    ToolMemory = {a}
    TextMemory = {b}
    TableSchema = {t, u}
    Metric = {d}
    Client = {x1, x2}
    Model = {m1, m2}
    Nearness <- MCNearness
    Matching <- MCMatching
    Wording <- MCWording
    Reranks = TRUE
    CrossScore <- MCCrossScore
    Limit = 1
    Absent = Absent

    \* The component tree
    Component = {c1, c2, c3}
    Data = {v1, v2}
    Missing = Missing
    MaxNodes = 4

    \* Evaluation
    Variants <- MCVariants
    Cases <- MCCases
    NameOf <- MCNameOf
    Words = {w}
    JudgeVerdicts <- MCJudgeVerdicts
    MaxConcurrency = 2

    \* Files
    File = {f1, f2}
    Word = {x, y, z}
    NameWords <- MCNameWords
    Texts <- MCTexts
    EditTexts <- MCEditTexts
    MaxLine = 4
    MaxBatch = 2
    MaxCalls = 2
    MaxEdits = 1
    NoFile = NoFile

    \* The web client
    Bodies <- MCBodies

    \* Agent memory
    NoTool = NoTool

    \* Schema extraction
    Null = Null
    DistinctLimit = 2

    \* The LLM service
    Unset = Unset
    ObjectArgs <- MCObjectArgs
    OtherArgs <- MCOtherArgs

    \* Metric SQL
    NoCalc = NoCalc

    \* Prompts and charts
    NoPrompt = NoPrompt
    Failure = Failure
    NoValue = NoValue

SPECIFICATION Spec
INVARIANTS
    EmbeddingsSurvive
    TreeFollowsManager
    EditsAsNumbered
    WholeTurnShown
    PermitsComeBack
    ResultsOnce
PROPERTIES
    ComparisonEnds
\* Requests, comparisons and calls come to an end.
CHECK_DEADLOCK FALSE
