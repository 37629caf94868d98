\* A request that was renewed to a later timeout stays when it is over.
SPECIFICATION TablesSpec
CONSTANTS
    KeySet <- const_KeySet
    Client <- const_Client
    Node <- const_Node
    HeapSize = 3
    NULL = NULL
    Timeouts = {0, 1, 2}
    Nows = {2, 3}
    MaxTime = 2
    CountRange = 4
    Size1 = 2
    Size2 = 2
    CounterRange = 2
    MaxRaises = 1
PROPERTY OverIsRemovedAlways
CONSTRAINT FewLater
CHECK_DEADLOCK FALSE
