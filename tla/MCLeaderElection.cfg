SPECIFICATION FairSpec
CONSTANTS
    Worker = {w1, w2}
    NoWorker = none
    TTL = 4
    Interval = 2
    OpTime = 1
    MaxFaults = 2
    MaxBoots = 3
INVARIANTS
    LeaderHoldsLock
    LeaseInv
PROPERTIES
    LeaderEmerges
CHECK_DEADLOCK FALSE
