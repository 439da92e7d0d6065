--------------------------- MODULE ResolveMounts ---------------------------
(***************************************************************************)
(* What install_service.rs computes from the mounts of an                  *)
(* InstallSystemRequest before it runs a single mount(8): resolve_mounts,  *)
(* btrfs::expand_subvolumes and fstab_params.  Pure operators.             *)
(*                                                                         *)
(* A requested mount is [device, mountpoint]; a resolved mount adds the    *)
(* probed fstype and the subvol= option ("none" when the Option is None).  *)
(***************************************************************************)
EXTENDS Integers, Sequences

CONSTANTS
    Mountpoint,  \* the absolute mountpoints; any other one does not start with '/'
    Length       \* the number of bytes of each absolute mountpoint

Root == "/"
Home == "/home"
RootSubvol == "@"
HomeSubvolUnderRoot == "@/home"  \* variant: @home is created inside @
HomeSubvol == "@home"

ASSUME MountpointAssumption ==
    /\ {Root, Home} \subseteq Mountpoint
    /\ Length \in [Mountpoint -> Nat]

-----------------------------------------------------------------------------

\* Each mount with the filesystem type blkid reports for its device.
Probe(mounts, fstype) ==
    [i \in DOMAIN mounts |->
        [device |-> mounts[i].device, mountpoint |-> mounts[i].mountpoint,
         fstype |-> fstype[mounts[i].device], subvol |-> "none"]]

BtrfsRoots(mounts) ==
    {i \in DOMAIN mounts : mounts[i].mountpoint = Root /\ mounts[i].fstype = "btrfs"}

\* The first btrfs mount at "/" moves onto @; @home of the same device is added
\* unless the request has a /home of its own.
ExpandSubvolumes(mounts) ==
    LET first == CHOOSE i \in BtrfsRoots(mounts) : \A j \in BtrfsRoots(mounts) : i <= j
        moved == [mounts EXCEPT ![first].subvol = RootSubvol]
        home  == [mounts[first] EXCEPT !.mountpoint = Home, !.subvol = HomeSubvol]
    IN  IF BtrfsRoots(mounts) = {} THEN mounts
        ELSE IF \E i \in DOMAIN mounts : mounts[i].mountpoint = Home THEN moved
        ELSE Append(moved, home)

\* variant: the order of the request is kept
KeepsOrder(mounts, i, j) == i < j

\* Position i sorts before position j: a shorter mountpoint, or an equally long
\* one that came first (sort_by_key is stable).
SortsBefore(mounts, i, j) ==
    LET a == Length[mounts[i].mountpoint]
        b == Length[mounts[j].mountpoint]
    IN  a < b \/ (a = b /\ i < j)

Absolute(mounts) == {i \in DOMAIN mounts : mounts[i].mountpoint \in Mountpoint}

\* The one enumeration of the absolute mounts in sorted order.
SortedOrders(mounts) ==
    {p \in UNION {[1..n -> Absolute(mounts)] : n \in 0..Len(mounts)} :
        /\ \A k \in Absolute(mounts) : \E i \in DOMAIN p : p[i] = k
        /\ \A i, j \in DOMAIN p : i < j => SortsBefore(mounts, p[i], p[j])}

\* resolve_mounts, as the set that holds its one result.  Skipping the mounts
\* that are not absolute last, instead of first, changes nothing: neither "/"
\* nor /home is one of them.
Resolutions(mounts, fstype) ==
    LET expanded == ExpandSubvolumes(Probe(mounts, fstype))
    IN  {[i \in DOMAIN p |-> expanded[p[i]]] : p \in SortedOrders(expanded)}

Distinct(mounts) ==
    \A i, j \in DOMAIN mounts : i # j => mounts[i].mountpoint # mounts[j].mountpoint

Sorted(mounts) ==
    \A i, j \in DOMAIN mounts : i < j =>
        Length[mounts[i].mountpoint] <= Length[mounts[j].mountpoint]

HasRoot(mounts) == \E i \in DOMAIN mounts : mounts[i].mountpoint = Root

-----------------------------------------------------------------------------

\* The sixth field of an fstab line: the pass in which fsck(8) checks the mount.
FsckPass(mountpoint, fstype) ==
    CASE fstype = "btrfs"                                          -> 0
      [] mountpoint = Root /\ fstype = "bcachefs"                  -> 0
      [] mountpoint = Root /\ fstype \notin {"btrfs", "bcachefs"}  -> 1
      [] mountpoint # Root /\ fstype = "vfat"                      -> 0
      [] mountpoint # Root /\ fstype \notin {"btrfs", "vfat"}      -> 2

\* vfat mounts other than the root are hidden from other users by umask=0077.
Umasked(mountpoint, fstype) == mountpoint # Root /\ fstype = "vfat"

FstabLine(m) ==
    [device |-> m.device, mountpoint |-> m.mountpoint, subvol |-> m.subvol,
     pass |-> FsckPass(m.mountpoint, m.fstype), umask |-> Umasked(m.mountpoint, m.fstype)]

=============================================================================
