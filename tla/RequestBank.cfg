\* Both bank classes: two clients, two keys, three timeouts, of which 0 makes calls throw.
SPECIFICATION Spec
CONSTANTS
    Client = {0, 1}
    Key = {k1, k2}
    MaxTime = 2
    Modulus = 8
    HeapLimit = 4
INVARIANTS
    TypeOK
    CounterTracks
    StaleKeysHoldNothing
CHECK_DEADLOCK FALSE
