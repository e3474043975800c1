SPECIFICATION FairSpec
CONSTANTS
    r1 = r1
    r2 = r2
    r3 = r3
    Requests = {r1, r2, r3}
    Peer <- OnePeer
    Kind <- PingsAndFind
    Second = 2
    Expiration = 2
    MaxNow = 5
    BucketSize = 2
    MaxNeighbors = 1
    Workers = 1
INVARIANTS
    NoDoubleClose
PROPERTIES
    VerdictIsFinal
    EveryRequestSettles
    KeepsPromise
CHECK_DEADLOCK FALSE
