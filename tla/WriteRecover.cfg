SPECIFICATION LiveSpec
CONSTANTS
    Writes = {w1, w2}
    Local = Local
    Remotes = {r1}
    Origin = "created"
    Faults = {}
PROPERTY
    RecoversFromFailure
CHECK_DEADLOCK FALSE
