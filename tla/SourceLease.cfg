CONSTANTS
    l1 = l1
    l2 = l2
    a = a
    b = b
    FeedLanes = {l1, l2}
    Ids = {a, b}
    IdsOf <- DisjointIds
    Clients = {c1, c2}
    Manager = Manager
    Nobody = Nobody
    MaxLeases = 3
SPECIFICATION FairSpecLease
INVARIANTS
    RowsAreOwned
    OneRuntime
    SubscribersServed
PROPERTIES
    EveryoneLeaves
CHECK_DEADLOCK FALSE
