SPECIFICATION FairSpec
CONSTANTS
    Listeners = {l1, l2}
    Events = {e1, e2}
    Drains = {l1, l2}
INVARIANTS
    NoSendOnClosed
PROPERTIES
    EveryCallReturns
    UnsubscribedReaderEnds
    KeepsFeedPromise
CHECK_DEADLOCK FALSE
