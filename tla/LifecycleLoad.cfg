SPECIFICATION VolumeSpec
CONSTANTS
  e2 = e2
  e1 = e1
  n2 = n2
  n1 = n1
  v2 = v2
  v1 = v1
  VolumeIds = {v1, v2}
  Names = {n1, n2}
  GroupExtents = {e1, e2}
  VolumeFaults <- NoFaults
SYMMETRY Symmetry
INVARIANT InitReturns
CHECK_DEADLOCK FALSE
