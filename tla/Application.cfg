SPECIFICATION AppFairSpec
CONSTANTS
    Nodes = {n1, n2}
    Workers = {w1}
    Zero = zero
    Attempts = 2
INVARIANTS
    NoZeroItem
    QuietAfterStop
    RunWaits
PROPERTIES
    SeenIsHandled
    InterruptEndsAll
CHECK_DEADLOCK FALSE
