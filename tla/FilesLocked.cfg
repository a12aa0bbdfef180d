SPECIFICATION Spec
CONSTANTS
    None = None
    Stale = Stale
    NoFile = NoFile
    Indexers = {i}
    Mergers = {m, n}
    Readers = {r}
    Peekers = {}
    MayCrash = {i, m}
    DeletesFail = FALSE
    MaxGen = 4
    MaxSeg = 6
INVARIANTS
    LatestIntact
    LockedIntact
    ReadersUpToDate
PROPERTIES
    PublishedImmutable
    LatestAdvances
CHECK_DEADLOCK FALSE
