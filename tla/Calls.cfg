SPECIFICATION MCSpec
CONSTANTS
    Thread = {t1, t2, t3}
    Key = {"foo", "bar"}
    Value = {v1}
    Bucket = {0}
    HashOf <- MCShared
    None = None
INVARIANTS
    KeysUnique
    NothingLeaks
PROPERTIES
    ImplementsRegistry
    CallsReturn
    ObtainEnds
    StaleIsCleared
CHECK_DEADLOCK FALSE
