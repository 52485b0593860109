SPECIFICATION Spec
CONSTANTS
    BOUND_T1_SIZE = 5
    BOUND_T2_SIZE = 2
    BOUND_T3_SIZE = 2
    HeapStart = 5
    HeapSize = 9
    Frames <- MCFrames
    Sizes = {0, 2, 5}
    Offsets <- MCOffsets
    AccessSizes = {1, 2}
    MaxRegions = 3
INVARIANTS CellsExact ChecksExact
 
