SPECIFICATION Spec
\* The files are written once.
CHECK_DEADLOCK FALSE
CONSTANTS
    Compiled <- MCReaders
    MinLods = {0, 1, 2}
    AllowedRootLods = {0, 1, 3}
    Influences <- MCInfluences
    LargeModels = {FALSE, TRUE}
    IndexRange = 65536
INVARIANTS
    VgMeant
    ExtraWeightsFound
    OneLodMeant
    StripsFollowVertices
    FlexesFollowVertices
    SidecarFollowsVertices
    SortSound
