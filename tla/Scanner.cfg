SPECIFICATION FairSpec
CONSTANTS
    Ips = {a, b}
    Workers = {w}
    MaxTopic = 1
    MaxOutlived = 1
INVARIANTS
    MarksStandForScans
    TwinScansNeedExpiry
PROPERTIES
    AnnouncedIsScanned
    EndsWhenAsked
