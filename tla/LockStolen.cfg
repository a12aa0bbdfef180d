SPECIFICATION Spec
CONSTANTS
    None = None
    Proc = {a, b, c}
    Hosts = {{a, b, c}}
    Clearers = {a, b, c}
    MayCrash = {a, b, c}
    PidReuse = FALSE
    Timeout = 2
    Interval = 1
INVARIANTS
    MutualExclusion
CHECK_DEADLOCK FALSE
