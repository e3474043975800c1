SYMMETRY Interchangeable
SPECIFICATION Spec
CONSTANTS
    self = self
    n1 = n1
    n2 = n2
    n3 = n3
    boot = boot
    n4 = n4
    lone = lone
    Ids = {self, n1, n2, n3, n4, boot, lone}
    Self = self
    Buckets = {1, 2, 3}
    BucketOf <- MCBucketOf
    Ips = {"x1", "y1", "lan"}
    Lan = {"lan"}
    Subnets = {"x", "y", "local"}
    Subnet <- MCSubnet
    Addresses <- MCAddresses
    Nursery <- MCNursery
    bucketSize = 2
    maxReplacements = 1
    bucketIPLimit = 1
    tableIPLimit = 2
INVARIANTS
    NodesAreUnique
    IpAccounting
    OnlyAnsweredAreLive
PROPERTIES
    OnlyThePingedLeave
