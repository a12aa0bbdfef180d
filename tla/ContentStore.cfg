SPECIFICATION Spec
CONSTANTS
    MaxDocs = 3
    MaxSeg = 6
    MaxCommits = 4
    Terms = {{1, 3}, {2}}
    Fields = {{1, 2}, {3}}
INVARIANTS
    NoDocTwice
    DocMapsAgree
PROPERTIES
    ImplementsDocStore
CHECK_DEADLOCK FALSE
