SPECIFICATION Spec
CONSTANTS
    liveRoot = liveRoot
    esp1 = esp1
    xboot1 = xboot1
    root1 = root1
    esp2 = esp2
    tmpfs = tmpfs
    Partition <- MCPartition
    DiskOf <- MCDiskOf
    KindOf <- MCKindOf
    Above <- MCAbove
    Live = {liveRoot}
    Tmpfs = tmpfs
    Binds <- MCBinds
    FsType = {"xfs", "ext4"}
    MaxRuns = 2
    MaxSilent = 1
INVARIANTS
    MountsUndone
    SuccessInstalls
PROPERTIES
    OnlyChosenWritten
\* The last run has ended.
CHECK_DEADLOCK FALSE
