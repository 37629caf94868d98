\* Four scenarios: local ranges of two clients; timeouts, of which 0 makes calls throw;
\* renewed subscriptions and bad requests; subscriptions and ranges of another node.
SPECIFICATION ScenarioSpec
CONSTANTS
    Client = {0, 1}
    Modulus = 6
    HeapLimit = 4
    MyNode = 1
    RemoteNode = {2}
    HostAny = 9
    Var = {0, 1}
    Schema = {1}
    MaxLocal = 2
    MaxRemote = 2
    Requests <- const_Requests
    MaxRevision = 2
    MaxTime = 2
INVARIANTS
    TypeOK
    CountersTrack
    LocalQuotaHeld
    WorkingIsLatest
    WaitingIsAskedFor
PROPERTIES
    NoSilentLoss
    ProductionReachesAll
    ImplementsDelivery
CONSTRAINT Followed
CHECK_DEADLOCK FALSE
