SPECIFICATION Spec
CONSTANTS
    None = None
    Stale = Stale
    NoFile = NoFile
    Indexers = {i}
    Mergers = {m, n}
    Readers = {}
    Peekers = {}
    MayCrash = {i}
    DeletesFail = FALSE
    MaxGen = 5
    MaxSeg = 8
INVARIANTS
    CutoffStays
CHECK_DEADLOCK FALSE
