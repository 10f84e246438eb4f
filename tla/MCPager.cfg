SPECIFICATION Spec
CONSTANTS
    ChunkCount = 1
    LowEnd = 5
    ChunkPages = 1
    MaxPages = 6
    MaxRevision = 0
    Revisions = {0, 1}
    CatalogRoots = {6}
    MaxTransactions = 2
    MaxEvictions = 1
    MaxEndings = 2
    Faults = {"write", "flush"}
    Endings <- PowerFirst
    v1 = v1
    Vals = {v1}
INVARIANTS AlwaysOpens IInv
PROPERTIES NeverTouchesActive ImplementsAtomicStore
CHECK_DEADLOCK FALSE
