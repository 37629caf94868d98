\* Four removals from nine entries index degree_roots past its end.
SPECIFICATION DeepSpec
CONSTANTS
    Node = {1, 2, 3, 4, 5, 6, 7, 8, 9}
    HeapSize = 9
    NULL = NULL
    MaxTime = 10
    CountRange = 16
    MaxRaises = 0
    Fill = 9
    Takes = 4
    Hurries = 0
INVARIANT MergeStaysInside
CHECK_DEADLOCK FALSE
