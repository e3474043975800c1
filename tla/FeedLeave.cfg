SPECIFICATION FairSpec
CONSTANTS
    Listeners = {l1, l2}
    Events = {e1, e2}
    Drains = {}
PROPERTIES
    EveryCallReturns
CHECK_DEADLOCK FALSE
