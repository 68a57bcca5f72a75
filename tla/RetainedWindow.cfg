SPECIFICATION Spec
CONSTANTS
    Keys <- MCKeys
    Fields <- MCFields
    Matching <- MCMatching
    Ends <- MCEnds
    Unlimited = Unlimited
    Preemptible = FALSE
    Forgetful = TRUE
    LeaseBound = 1
    LogBound = 2
INVARIANTS LeasesSeeTheResult RetainedIsPrefix
