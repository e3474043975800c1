SPECIFICATION FairSpec
CONSTANTS
    Nodes = {1, 2, 3, 4}
    alpha = 2
    wants = 3
    MaxDepth = 3
INVARIANTS
    SlotsAreSafe
    ResultIsClosest
PROPERTIES
    DeliveriesAreMerged
    Terminates
CHECK_DEADLOCK FALSE
