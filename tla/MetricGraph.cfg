SPECIFICATION GraphSpec
CONSTANTS
    Atomic = {a1}
    Derived = {d1, d2}
    Composite = {c1}
    Editor = {e1}
    Syncer = {s1, s2}
    Searcher = {f1}
    Limit = 1
    MaxBusy = 2
    None = None
INVARIANTS
    GraphTypeOK
    DeletedStaysDeleted
    GraphMirrors
    SearchIsShown
SYMMETRY CatalogSymmetry
CHECK_DEADLOCK FALSE
