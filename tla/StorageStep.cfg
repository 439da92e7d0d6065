SPECIFICATION Spec
CONSTANTS
    none = none
    gone = gone
    Strategy = {"whole_xfs", "whole_btrfs", "home_btrfs", "plain"}
    BaseOf <- MCBaseOf
    FsOf <- MCFsOf
    FsOrder <- MCFsOrder
    PlanOf <- MCPlanOf
    Mountpoint = {"/", "/efi", "/home"}
    Length <- MCLength
    Gone = gone
    None = none
INVARIANTS
    PlanOK
    PreviewIsMounted
PROPERTIES
    DefaultsReproduce
\* The step is over when its plan is shown or it has failed.
CHECK_DEADLOCK FALSE
