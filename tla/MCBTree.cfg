SPECIFICATION Spec
CONSTANTS
    Keys = {1, 2, 3, 4, 5}
    Values = {"s", "w", "big"}
    Size <- MCSize
    ChunkCount <- MCChunkCount
    SeparatorSize = 1
    NodeCapacity = 3
    MaxDepth = 4
    DataPages = {1,2,3,4,5,6,7,8,9,10,11,12,13,14}
    Batches <- MCBatches
    MaxCandidates = 2
    Bounds = {3}
    Reference = {4}
INVARIANTS ContentsAgree PagesAccounted FingerprintsExact ReadersAccept CursorAgrees
CHECK_DEADLOCK FALSE
