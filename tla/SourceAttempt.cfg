CONSTANTS
    Lanes = {l1, l2}
    NoLane = NoLane
    MaxAttempts = 2
    MaxEvents = 2
SPECIFICATION FairSpec
INVARIANTS
    SettledOnce
    CancelledEffectsStop
    OneWinner
PROPERTIES
    StopReturns
CHECK_DEADLOCK FALSE
