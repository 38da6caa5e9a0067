SPECIFICATION Spec
CONSTANTS
    Unassigned = Unassigned
    Publishers <- ReferenceSinks
    StepLists <- AllStepLists
    MaxSteps = 2
INVARIANTS
    EverySinkIsServed
    NoSilentTrustDrop
    WithheldReachLane
    TotalsAddUp
CHECK_DEADLOCK FALSE
