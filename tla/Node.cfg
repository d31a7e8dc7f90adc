SPECIFICATION MCSpec
CONSTANTS
    Reads = {r1, r2}
    RemoteCount = 2
    ReadFaults = {"submit", "reject", "io", "drop", "oom", "disconnect", "connect", "send", "writev", "partial", "lost", "short"}
    HeaderSize = 1
    FirstPayload = 2
    MaxPayload = 8
    Payloads = {0, 5, 7}
    MaxSent = 2
    Fds = {1, 2, 8}
    Handlers = {h1}
    NoHandler = NoHandler
    FirstMap = 2
    MapLimit = 8
    MaxEvents = 2
    MaxFiles = 3
    Requests = {q1, q2}
    Syncs = {y1}
    DeviceNames = {n1, n2}
    Devices = {d1, d2, d3}
    Exposers = {e1, e2}
    GuestIos = {g1}
    MaxBoots = 3
    Volumes = {"v1", "v2"}
    Disks = {"d1", "d2"}
    DiskUnits <- TestUnits
    DiskBlock <- TestDiskBlock
    VolumeBlock <- TestVolumeBlock
    Extents <- TestExtents
    NumBlocks <- TestNumBlocks
    MaxExtents = 8
    MaxWrites = 3
INVARIANTS
    ReadAnswersOnce
    FailsOnlyIfAllFail
    AbortsOnlyBeyondLocal
    FramesWhole
    NothingDropped
    EventsReachOwner
    IoAccounted
    DeviceListSound
    NoDeviceLost
    ModulesNest
    TestLeavesNothing
    VolumesApart
PROPERTIES
    ReadEnds
    ReceivedIsDispatched
    NodeEnds
CHECK_DEADLOCK FALSE
