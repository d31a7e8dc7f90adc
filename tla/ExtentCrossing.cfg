SPECIFICATION ExtentSpec
CONSTANTS
    Volumes = {"v1", "v2"}
    Disks = {"d1", "d2"}
    DiskUnits <- TestUnits
    DiskBlock <- TestDiskBlock
    VolumeBlock <- TestVolumeBlock
    Extents <- TestExtents
    NumBlocks <- TestNumBlocks
    MaxExtents = 8
    MaxWrites = 3
INVARIANT ReadsWhatWasWritten
CHECK_DEADLOCK FALSE
