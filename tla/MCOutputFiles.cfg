SPECIFICATION Spec
\* The last compile allowed ends and nothing follows.
CHECK_DEADLOCK FALSE
CONSTANTS
    Sources <- MCSources
    Names <- MCNames
    CanFail = {"open_mdl", "write_phy", "write_vvd", "write_vtx", "sort_vtx", "cut_weights", "convert", "load", "write_rson", "write_vg", "read_phy", "write_cphy", "patch"}
    Crashes = TRUE
    MaxCompiles = 2
INVARIANTS
    ClaimedPhysics
    LoadableSet
    PhysicsKept
    IntermediatesGone
    RsonLinksRrig
