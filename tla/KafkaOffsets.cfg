CONSTANTS
    PartitionCount = 3
    FirstPartitions = 1
    FirstEnd = 1
    MaxEnd <- MCMaxEnd
    Starts <- MCStarts
    Usable <- MCUsable
    ReadsFromJoin = TRUE
    ResolutionAttempts = 2
    MaxFaults = 2
SPECIFICATION FairSpec
INVARIANTS
    NothingSkipped
PROPERTIES
    FrozenStays
    EverythingHandled
CHECK_DEADLOCK FALSE
