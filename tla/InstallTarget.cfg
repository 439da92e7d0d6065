SPECIFICATION Spec
CONSTANTS
    esp = esp
    xboot = xboot
    root = root
    spare = spare
    tmpfs = tmpfs
    Device <- MCDevice
    HostFs <- tmpfs
    Mountpoint <- MCMountpoint
    Length <- MCLength
    Above <- MCAbove
    BootMounts = {"/boot", "/efi", "/boot/efi"}
    Relative = {"swap"}
    Requests <- MCRequests
    MaxFaults = 2
INVARIANTS
    IInv
    TargetRestored
    MountsServed
    InstalledOK
PROPERTIES
    OnlyOwnDevicesWritten
    KeepsPromise
\* After a fault the leaked mounts may pin every layout's partitions: the system
\* really may stop.
CHECK_DEADLOCK FALSE
