SPECIFICATION VhostSpec
CONSTANTS
    DeviceNames = {n1}
    Devices = {d1}
    Exposers = {e1}
    GuestIos = {g1}
INVARIANT
    DeletedIsUnused
CHECK_DEADLOCK FALSE
