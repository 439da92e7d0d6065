SPECIFICATION LiveSpec
CONSTANTS
    c1 = c1
    c2 = c2
    plain = plain
    btrfs = btrfs
    Above = {}
    Call = {c1, c2}
    Partition <- MCPartition
    Carriers = {plain}
    Mixable = {btrfs}
    MaxStarts = 2
INVARIANTS
    Attributed
    CallersServed
    MountsOK
PROPERTIES
    ShutdownCompletes
\* Every call has ended and the process has: nothing is left to happen.
CHECK_DEADLOCK FALSE
