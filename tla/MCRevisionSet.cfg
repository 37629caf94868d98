\* Two variables, two schemas, one refused statement; the process ends anywhere.
SPECIFICATION Spec
CONSTANTS
    Var = {v1, v2}
    Signature = {s1, s2}
    MaxRevision = 2
    MaxFaults = 1
SYMMETRY Symmetry
INVARIANTS
    TypeOK
    UniqueUnlessRefused
    WrittenAhead
    NeverBehind
    CacheIsRow
    LagBounded
PROPERTY RowsNeverGoBack
CHECK_DEADLOCK FALSE
