\* A request for a packet that was delivered before throws.
SPECIFICATION LocalSpec
CONSTANTS
    Client = {0, 1}
    Modulus = 6
    HeapLimit = 4
    MyNode = 1
    RemoteNode = {2}
    HostAny = 9
    Var = {0, 1}
    Schema = {1}
    MaxLocal = 2
    MaxRemote = 2
    Requests <- const_Requests
    MaxRevision = 2
    MaxTime = 2
PROPERTY RequestsAreOK
CONSTRAINT Followed
CHECK_DEADLOCK FALSE
