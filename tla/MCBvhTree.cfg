SPECIFICATION Spec
\* The tree is built once.
CHECK_DEADLOCK FALSE
CONSTANTS
    Soups <- MCSoups
    MaxLeaf = 2
    MaxDepth = 2
    FourWayAt = 6
    Unit = 2
    PackMax = 12
    Int16Max = 14
    BaseUnit = 4
    BaseField = 65536
INVARIANTS
    EveryTriangleOnce
    BoundsEnclose
    BlobPacked
