SPECIFICATION SpecViewport
CONSTANTS
    k1 = k1
    k2 = k2
    k3 = k3
    r1 = r1
    r2 = r2
    s1 = s1
    s2 = s2
    s3 = s3
    Keys <- MCKeys
    Rows <- MCRows
    Sinks <- MCSinks
    FirstRows <- MCFirstRows
    StrayWindows <- MCStrayWindows
    WindowBound = 3
    VersionBound = 2
    MinReplacement = 2
    StagedFrom = 2
    Priority <- MCPriority
    NoNode = NoNode
    NoRequest = NoRequest
    NoCall = NoCall
    AlienRow = AlienRow
SYMMETRY Symmetry
INVARIANTS FollowsTheEngine KeyIndexesExact SinksAreCleared SinkShowsTheClient
PROPERTIES RefusedDeltaChangesNothing
CHECK_DEADLOCK FALSE
