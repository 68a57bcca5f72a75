SPECIFICATION FairSpecHealth
CONSTANTS
    s1 = s1
    f1 = f1
    MaxRequests = 2
    Subscribers <- MCSubscribers
    Refreshers <- MCRefreshers
    Drain = Drain
    Closer = Closer
    NoReader = NoReader
    MaxThrows = 1
INVARIANTS
    AnswersAreFresh
    CloseIsFinal
PROPERTIES
    RequestsServed
CHECK_DEADLOCK FALSE
