SPECIFICATION Spec
CONSTANTS
    e1 = e1
    alice = alice
    bob = bob
    Evidence = {e1}
    Owner = {alice, bob}
    Unassigned = Unassigned
    CapacityArgs = {0, 2, 3}
    MaxPushes = 5
    MaxHandoffs = 2
SYMMETRY OwnerSymmetry
INVARIANTS
    EveryEntryAccounted
    InInsertionOrder
    UnreviewedBelongToShift
    ReviewerIsKept
    CustodyChain
    AgeBoundsBacklog
PROPERTY
    UnreviewedLeaveLast
