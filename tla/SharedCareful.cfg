SPECIFICATION CarefulSpec
CONSTANTS
    None = None
    Proc = {a, b}
    Objs = {a1, a2, b1}
    Lives = {{a, a1}, {a, a2}, {b, b1}}
    MaxNum = 3
    Tries = 2
    MayCrash = {a}
    Pollers = {b}
    ReleaseAll = FALSE
INVARIANTS
    OwnFile
PROPERTIES
    SteadyHolderSeen
