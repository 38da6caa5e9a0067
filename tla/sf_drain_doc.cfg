SPECIFICATION Spec
CONSTANTS
    a = a
    b = b
    c1 = c1
    c2 = c2
    c3 = c3
    r1 = r1
    r2 = r2
    Source = {a, b}
    Content = {c1, c2, c3}
    Receipt = {r1, r2}
    MaxCounter = 3
    Frame <- ReplayFrames
    CapacityArgs = {2}
    WindowArgs = {4}
    MaxPushes = 4
INVARIANT
    PendingPlusDrainedIsPushes
