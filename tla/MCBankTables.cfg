\* Both bank classes, three key sets, one with two subscribers, three timeouts, of
\* which 0 makes calls throw, and one renewal to a later timeout.
SPECIFICATION TablesSpec
CONSTANTS
    KeySet <- const_KeySet
    Client <- const_Client
    Node <- const_Node
    HeapSize = 3
    NULL = NULL
    Timeouts = {0, 1, 2}
    Nows = {2, 3}
    MaxTime = 2
    CountRange = 4
    Size1 = 2
    Size2 = 2
    CounterRange = 2
    MaxRaises = 1
INVARIANTS
    TablesTypeOK
    TablesAgree
    MapsAreFreed
PROPERTIES
    ImplementsBank
    OverIsRemoved
CONSTRAINT FewLater
CHECK_DEADLOCK FALSE
