SPECIFICATION PoolFairSpec
CONSTANTS
    Jobs = {j1, j2, j3, j4}
    Returning = {j1, j2, j3}
    Target = 2
INVARIANTS
    SpawnedOnce
    TargetUnlessLate
PROPERTIES
    AddedIsSpawned
    KeepsPoolPromise
CHECK_DEADLOCK FALSE
