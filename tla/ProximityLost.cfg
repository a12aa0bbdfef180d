SPECIFICATION Spec
CONSTANTS
    DocMax = 1
    Offset = 1
    Words = {2}
    Positions = {0, 1, 2, 3}
    Within = 2
CHECK_DEADLOCK FALSE
INVARIANTS
    MissesNoDocument
