SPECIFICATION FairSpec
CONSTANTS
    Peers = {p}
    Workers = {w1, w2}
    Callers = {c}
    MaxGlobalFailures = 1
    MaxFaults = 2
    MaxQueue = 1
INVARIANTS
    RequestsAreBonded
    OnlyAnsweredEnterTable
    FaultsAreCounted
PROPERTIES
    PoolRecovers
CHECK_DEADLOCK FALSE
