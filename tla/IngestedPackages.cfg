SPECIFICATION Spec
CONSTANTS
    none = none
    absent = absent
    None <- none
    Absent <- absent
    Strategy = {"whole_disk_xfs", "whole_disk_btrfs"}
    Viable = {{}, {"whole_disk_xfs"}, {"whole_disk_xfs", "whole_disk_btrfs"}}
    FsPackages <- MCFsPackages
    Selection = {"base", "desktop-common", "kernel-desktop", "gnome", "server"}
    Hidden = {"base", "desktop-common", "kernel-desktop"}
    Implicit = {"kernel-desktop"}
    Headless = "server"
    Base = "base"
    Common = "desktop-common"
    Depends <- MCDepends
    PackagesOf <- MCPackagesOf
    Package <- MCPackage
    Locale = {"en_US.UTF-8", "de_DE.UTF-8"}
    DefaultLocale = "en_US.UTF-8"
    Timezone = {"UTC"}
    DefaultTimezone = "UTC"
    Account = {"old", "new"}
    Documents <- MCDocuments
    MaxRuns = 1
INVARIANT
    IngestedPackagesKept
CHECK_DEADLOCK FALSE
