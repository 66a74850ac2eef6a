SPECIFICATION DraftSpec
CONSTANTS
    a = a
    d = d
    c = c
    t1 = t1
    t2 = t2
    AtomicName = {a}
    DerivedName = {d}
    CompositeName = {c}
    TableSeq <- MCTableSeq
    Results <- MCResults
    Extractor = {e1, e2}
    Importer = {i1, i2}
    MaxCalls = 3
    None = None
INVARIANTS
    DraftTypeOK
    FreshIsVisible
    EntitiesOnce
    ClearedStaysCleared
    NotImportedTwice
    SiblingsLinked
    StatusIsTrue
SYMMETRY DraftSymmetry
CHECK_DEADLOCK FALSE
