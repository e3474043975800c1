SPECIFICATION FairSpec
CONSTANTS
    Peers = {p1}
    Neighbours = {n1}
    Infos = {i1, i2}
    Workers = {w1, w2}
    None = none
    Start = 4
    MaxNow = 5
    Second = 2
    FindPause = 1
    InfoPause = 1
    Frequency <- MCFrequency
INVARIANTS
    PublishedOnce
    StoredIsAnnounced
PROPERTIES
    BumpHoldsOff
    MarkedIsPublished
CHECK_DEADLOCK FALSE
