\* A request that is fulfilled leaves a wrong counter behind.
SPECIFICATION Spec
CONSTANTS
    Client = {0}
    Key = {k1}
    MaxTime = 1
    Modulus = 8
    HeapLimit = 4
INVARIANT CounterTracksAll
CHECK_DEADLOCK FALSE
