SPECIFICATION Spec
CONSTANTS
    a = a
    b = b
    c1 = c1
    c2 = c2
    c3 = c3
    r1 = r1
    r2 = r2
    Source = {a, b}
    Content = {c1, c2, c3}
    Receipt = {r1, r2}
    MaxCounter = 3
    Frame <- CausalFrames
    CapacityArgs = {1, 3, 4}
    WindowArgs = {8}
    MaxPushes = 5
INVARIANTS
    BatchIsCausal
    FlaggedItemsFloat
    FlagsIgnoreArrivalOrder
    NoSilentDrop
PROPERTIES
    ImplementsOutbox
    DrainKeepsCausalArrivals
