CONSTANTS
    k1 = k1
    k2 = k2
    l1 = l1
    l2 = l2
    Keys = {k1, k2}
    Lanes = {l1, l2}
    LaneOf <- MCLaneOf
    Sweeper = Sweeper
    Nobody = Nobody
    NoKey = NoKey
    NoRow = NoRow
    MaxTime = 2
    MaxRecords = 2
    MaxRejections = 1
    MaxAttempts = 2
SPECIFICATION FairSpec
INVARIANTS
    DeadlinesExact
    BacklogShown
    LeasesExact
PROPERTIES
    ExpiryHitsItsRow
    WaitersProceed
CHECK_DEADLOCK FALSE
