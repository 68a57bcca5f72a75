SPECIFICATION Spec
CONSTANTS
    Keys <- MCKeys
    Fields <- MCFields
    Matching <- MCMatching
    Ends <- MCTornEnds
    Unlimited = Unlimited
    Preemptible = TRUE
    Forgetful = FALSE
    LeaseBound = 1
    LogBound = 2
INVARIANT EmptyResultReportsZero
