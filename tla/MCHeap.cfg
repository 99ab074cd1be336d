SPECIFICATION Spec
CONSTANTS
    RegionSizes <- Sizes
    MinRest = 1
    MaxRequest = 4
    MaxPtrs = 3
    FileSize <- FileSizes
    HandleSize = 1
    MaxOpen = 2
    MaxCached = 1
INVARIANTS Tiled OwnersKeepBlocks
CHECK_DEADLOCK FALSE
