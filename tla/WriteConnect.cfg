SPECIFICATION LiveSpec
CONSTANTS
    Writes = {w1}
    Local = Local
    Remotes = {r1}
    Origin = "loaded"
    Faults <- ConnectOnly
PROPERTY
    WriteCompletes
CHECK_DEADLOCK FALSE
