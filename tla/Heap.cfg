CONSTANTS
    HeapStart = 8
    HeapSize = 48
    HdrSize = 5
    Align = 2
    MIN_SPLIT = 8
    SizeMod = 64
    Requests = {0, 1, 9}
    Counts = {2}
SPECIFICATION Spec
INVARIANTS ListTilesHeap LiveBlocksSound NoFreeNeighbours
CHECK_DEADLOCK FALSE
