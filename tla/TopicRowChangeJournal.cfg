SPECIFICATION SpecJournal
CONSTANTS
    p1 = p1
    Root = Root
    Partitions <- MCPartitions
    MaxEntries = 2
    MaxVersions = 2
    VersionBound = 4
    BatchBound = 3
    RefsBound = 2
INVARIANTS ExactOrUnknown KnowsWithinLimits
