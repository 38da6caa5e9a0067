SPECIFICATION FairSpec
CONSTANTS
    s1 = s1
    s2 = s2
    s3 = s3
    Source = {s1, s2, s3}
    MaxCounter = 1
    MaxLen = 4
    Inputs <- AllQueues
INVARIANTS
    NeverPanics
    PrefixIsCausal
    EachItemOnce
    OvertakenOnlyWhileWaiting
PROPERTY
    Returns
CHECK_DEADLOCK FALSE
