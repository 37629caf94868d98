\* Every operation, any order of keys, up to four entries at once.
SPECIFICATION Spec
CONSTANTS
    Node = {n1, n2, n3, n4}
    HeapSize = 4
    NULL = NULL
    MaxTime = 2
    CountRange = 8
    MaxRaises = 2
SYMMETRY Symmetry
INVARIANTS
    TypeOK
    WellFormed
    MergeStaysInside
    LeastFirst
    CountFailsOnlyRaised
PROPERTY ImplementsQueue
CONSTRAINT FewRaised
CHECK_DEADLOCK FALSE
