SPECIFICATION Spec
CONSTANTS
    Nobody = Nobody
    Absent = Absent
    NoPartition = NoPartition
    Mutations = {m1, m2}
    Values = {v1}
    k1 = k1
    k2 = k2
    p1 = p1
    Keys <- MCKeys
    Partitions <- MCPartitions
    PartitionOf <- MCPartitionOf
    Transitions = {reset, close}
    Subscribers = {s1}
    QueueCapacity = 2
SYMMETRY MCSymmetry
INVARIANTS
    RegistryExact
    PendingBatchesExact
    StatusIsLast
    ReplayReachesCursor
    VersionChain
    NoLostUpdate
    QuietOnceClosed
PROPERTIES
    EndedQueueOnlyDrains
    BarrierKeepsPromise
CHECK_DEADLOCK FALSE
