SPECIFICATION FairSpec
CONSTANTS
    Nodes = {boot, n1}
    Nursery = {boot}
    Callers = {c}
    MaxCopies = 1
PROPERTIES
    CallersAreReleased
    CloseDrains
    TableIsReseeded

CHECK_DEADLOCK FALSE
