\* The database refuses one statement.
SPECIFICATION Spec
CONSTANTS
    Var = {v1}
    Signature = {s1}
    MaxRevision = 3
    MaxFaults = 1
INVARIANT NoDuplicates
CHECK_DEADLOCK FALSE
