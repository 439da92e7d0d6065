SPECIFICATION Spec
CONSTANTS
    sda = sda
    sdb = sdb
    big = big
    small = small
    spare = spare
    NoDrive = NoDrive
    Unknown = Unknown
    Disk <- MCDisk
    Drive <- MCDrive
    Strategy = {"whole", "spread"}
    Layout = {"full", "compact", "root", "boot"}
    PartsOf <- MCPartsOf
    PlansOf <- MCPlansOf
    Selections <- MCSelections
    MaxSwaps = 2
INVARIANT
    ForcedPlanWasConfirmed
