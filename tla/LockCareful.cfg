SPECIFICATION CarefulSpec
CONSTANTS
    None = None
    Proc = {a, b, c}
    Hosts = {{a, b}, {c}}
    Clearers = {a, b, c}
    MayCrash = {a, b, c}
    PidReuse = TRUE
    Timeout = 1
    Interval = 2
INVARIANTS
    MutualExclusion
    HolderOwnsFile
PROPERTIES
    ImplementsMutex
