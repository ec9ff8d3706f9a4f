SPECIFICATION Spec
\* The files are written once.
CHECK_DEADLOCK FALSE
CONSTANTS
    Compiled <- MCOneModelLods
    MinLods = {0}
    AllowedRootLods = {0}
    Influences <- MCInfluences
    LargeModels = {FALSE}
    IndexRange = 65536
INVARIANT
    CollisionTrianglesMeant
