SPECIFICATION Spec
CONSTANTS
    None = None
    Stale = Stale
    NoFile = NoFile
    Indexers = {i}
    Mergers = {}
    Readers = {r}
    Peekers = {k}
    MayCrash = {i}
    DeletesFail = TRUE
    MaxGen = 3
    MaxSeg = 5
INVARIANTS
    IndexInv
    NothingLeaks
    ReadersSucceed
CHECK_DEADLOCK FALSE
