CONSTANTS
    l1 = l1
    l2 = l2
    a = a
    b = b
    FeedLanes = {l1, l2}
    Ids = {a, b}
    IdsOf <- SharedIds
    Clients = {c1}
    Manager = Manager
    Nobody = Nobody
    MaxLeases = 1
SPECIFICATION SpecLease
INVARIANT NoRowsWithoutLease
CHECK_DEADLOCK FALSE
