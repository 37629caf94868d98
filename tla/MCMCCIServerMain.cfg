\* Three ids, of which 1 and 5 coincide as MCCI_VARIABLE_T, any table, two processes.
SPECIFICATION Spec
CONSTANTS
    VarId = {1, 2, 5}
    VarRange = 4
    Row <- const_Row
    TooLong <- const_TooLong
    MaxEdits = 1
    MaxStarts = 2
INVARIANTS
    TypeOK
    LookupsAgree
    SameHashSameMeaning
    
CHECK_DEADLOCK FALSE
