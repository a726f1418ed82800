SPECIFICATION Spec
CONSTANTS
    c1 = c1
    c2 = c2
    c3 = c3
    Stale = Stale
    Child <- ThreeChildren
    MaxSlots = 4
    PushFails = TRUE
    ChunkFails = TRUE
SYMMETRY Interchangeable
INVARIANTS
    WatchesOwnSlot
    SlotsPartitioned
    LockHasHolder
