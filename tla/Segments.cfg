SPECIFICATION MCSpec
INVARIANTS
    DifferencesAddUp
    Inverted
PROPERTIES
    LexiconsIterate
    PostingsIterate
CHECK_DEADLOCK FALSE
