SPECIFICATION Spec
CONSTANTS
    Nobody = Nobody
    Absent = Absent
    NoPartition = NoPartition
    Mutations = {m1, m2}
    Values = {v1}
    k1 = k1
    k2 = k2
    p1 = p1
    Keys = {k1}
    Partitions = {}
    PartitionOf <- MCPartitionOfOne
    Transitions = {reset}
    Subscribers = {s1}
    QueueCapacity = 1
PROPERTIES
    MutationsReturn
    ClosesReturn
    SubscribersCatchUp
CHECK_DEADLOCK FALSE
