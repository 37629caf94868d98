\* Nine entries: trees up to degree 3, marks, cascading cuts, and the merges after them.
SPECIFICATION DeepSpec
CONSTANTS
    Node = {1, 2, 3, 4, 5, 6, 7, 8, 9}
    HeapSize = 9
    NULL = NULL
    MaxTime = 10
    CountRange = 16
    MaxRaises = 0
    Fill = 9
    Takes = 2
    Hurries = 2
INVARIANTS
    WellFormed
PROPERTY ImplementsQueue
CHECK_DEADLOCK FALSE
