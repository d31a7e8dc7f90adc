SPECIFICATION Spec
CONSTANTS
    Writes = {w1, w2}
    Local = Local
    Remotes = {}
    Origin = "created"
    Faults <- AllFaults
INVARIANT
    ErrorMeansNoCallback
CHECK_DEADLOCK FALSE
