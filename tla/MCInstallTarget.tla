-------------------------- MODULE MCInstallTarget --------------------------
(***************************************************************************)
(* InstallTarget on layouts of the shipped strategies (ESP, XBOOTLDR and   *)
(* root on one disk, root btrfs or not), a layout that nests the ESP below *)
(* /boot and lists it first, one with a partition of its own for /home,    *)
(* and one without a root.                                                 *)
(***************************************************************************)
EXTENDS InstallTarget, TLC

CONSTANTS esp, xboot, root, spare, tmpfs

MCDevice == {esp, xboot, root, spare}

MCLength ==
    ("/" :> 1) @@ ("/home" :> 5) @@ ("/boot" :> 5) @@ ("/efi" :> 4) @@ ("/boot/efi" :> 9)
      @@ ("/dev" :> 4) @@ ("/dev/shm" :> 8) @@ ("/dev/pts" :> 8) @@ ("/proc" :> 5) @@ ("/sys" :> 4)

MCMountpoint == DOMAIN MCLength

MCAbove ==
    {<<"/", p>> : p \in MCMountpoint \ {"/"}}
      \cup {<<"/boot", "/boot/efi">>, <<"/dev", "/dev/shm">>, <<"/dev", "/dev/pts">>}

Types(rootType, homeType) ==
    (esp :> "vfat") @@ (xboot :> "vfat") @@ (root :> rootType) @@ (spare :> homeType)

At(device, mountpoint) == [device |-> device, mountpoint |-> mountpoint]

\* use_whole_disk.kdl: the role mounts in the order plan_to_proto sorts them.
WholeDisk(rootType, wants) ==
    [mounts |-> <<At(root, "/"), At(xboot, "/boot"), At(esp, "/efi")>>,
     fstype |-> Types(rootType, "none"), wants |-> wants]

\* Children first, an entry that is not absolute in between.
Nested(rootType) ==
    [mounts |-> <<At(esp, "/boot/efi"), At(spare, "swap"), At(xboot, "/boot"), At(root, "/")>>,
     fstype |-> Types(rootType, "none"), wants |-> {"locale", "timezone", "rootpw"}]

OwnHome(rootType, homeType) ==
    [mounts |-> <<At(spare, "/home"), At(root, "/")>>,
     fstype |-> Types(rootType, homeType), wants |-> {"user"}]

Rootless ==
    [mounts |-> <<At(xboot, "/boot"), At(esp, "/efi")>>,
     fstype |-> Types("none", "none"), wants |-> {}]

MCRequests ==
    {WholeDisk("xfs", {}), WholeDisk("btrfs", {"user"}), Nested("btrfs"), Nested("xfs"),
     OwnHome("btrfs", "xfs"), Rootless}

=============================================================================
