---------------------------- MODULE MCStorageStep ----------------------------
(***************************************************************************)
(* StorageStep with two variants of a layout on the whole disk, a layout   *)
(* with a home partition of its own, and one without variants that has a   *)
(* swap partition.                                                         *)
(***************************************************************************)
EXTENDS StorageStep, TLC

CONSTANTS none, gone

MCBaseOf ==
    ("whole_xfs" :> "whole") @@ ("whole_btrfs" :> "whole")
      @@ ("home_btrfs" :> "home") @@ ("plain" :> "plain")

MCFsOf ==
    ("whole_xfs" :> "xfs") @@ ("whole_btrfs" :> "btrfs")
      @@ ("home_btrfs" :> "btrfs") @@ ("plain" :> none)

MCFsOrder == <<"xfs", "btrfs">>

MCLength == ("/" :> 1) @@ ("/efi" :> 4) @@ ("/home" :> 5)

On(device, mountpoint) == [device |-> device, mountpoint |-> mountpoint]

\* The whole disk formatted as fs.
Whole(fs) ==
    [mounts |-> <<On("p1", "/efi"), On("p2", "/")>>, fstype |-> ("p1" :> "vfat") @@ ("p2" :> fs)]

MCPlanOf ==
    [id \in DOMAIN MCBaseOf |->
        CASE id = "home_btrfs" ->
                [mounts |-> <<On("p1", "/home"), On("p2", "/")>>,
                 fstype |-> ("p1" :> "btrfs") @@ ("p2" :> "btrfs")]
          [] id = "plain" ->
                [mounts |-> <<On("p1", "swap"), On("p2", "/")>>,
                 fstype |-> ("p1" :> "swap") @@ ("p2" :> "btrfs")]
          [] OTHER -> Whole(MCFsOf[id])]

=============================================================================
