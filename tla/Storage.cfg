SPECIFICATION MCSpec
CONSTANTS
    Writes = {w1, w2}
    Local = Local
    Remotes = {r1}
    Origin = "loaded"
    Faults <- AllFaults
    VolumeIds = {v1, v2, v3}
    Names = {n1, n2}
    GroupExtents = {e1, e2}
    VolumeFaults <- AllVolumeFaults
SYMMETRY Symmetry
INVARIANTS
    TypeOK
    OkMeansEveryReplica
    EarlyOnlyIfDoubled
    NoWriteForgotten
    VolumeTypeOK
    CreatedIsSafe
    Consistent
CHECK_DEADLOCK FALSE
