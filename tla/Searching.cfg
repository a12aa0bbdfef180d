SPECIFICATION MCSpec
INVARIANTS
    CallsChildrenRightly
    CountsThePhrase
    QueriesMeanTheString
PROPERTIES
    VisitsTheMatches
    BestHits
CHECK_DEADLOCK FALSE
