SPECIFICATION Spec
CONSTANTS
    Peers = {p1}
    Neighbours = {n1}
    Infos = {i1}
    Workers = {w1, w2}
    None = none
    Start = 6
    MaxNow = 9
    Second = 2
    FindPause = 3
    InfoPause = 3
    Frequency <- MCFrequency
PROPERTIES
    RefreshesAreSpaced
CHECK_DEADLOCK FALSE
