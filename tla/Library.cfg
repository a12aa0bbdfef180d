SPECIFICATION MCSpec
CONSTANTS
    Process = {p1, p2}
    DataFile = {d1, d2}
    None = None
    Gone = Gone
    Keepers = {}
    MaxSession = 3
INVARIANTS
    WritesInOrder
    CommitsSurvive
PROPERTIES
    FoldersKeepFiles
    StreamsReadTheirPart
    RecyclingPaysOff
    HashesAreMaps
    BitVectorsAreSets
    SorterIsABag
    QueueKeepsTheBest
CHECK_DEADLOCK FALSE
