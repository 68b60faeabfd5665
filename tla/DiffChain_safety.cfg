SPECIFICATION Spec
CONSTANTS
    Blocks = {b1}
    Values = {v1, v2}
    MaxGid = 3
SYMMETRY Symmetry
INVARIANTS
    RestoredExact
    BaseExact
    NoHole
    ExplicitSnapshotsKept
    LatestAgrees
CHECK_DEADLOCK FALSE
