------------------------------ MODULE MCWizard ------------------------------
(***************************************************************************)
(* Wizard with two strategies, one of whose filesystems needs packages of  *)
(* its own, a desktop, the server and the selections below them.  One      *)
(* document is a full record that lists too few packages, one leaves most  *)
(* fields out, and one is a bare system-model.                             *)
(***************************************************************************)
EXTENDS Wizard, TLC

CONSTANTS none, absent

MCFsPackages == ("whole_disk_xfs" :> {}) @@ ("whole_disk_btrfs" :> {"btrfs-progs"})

MCDepends ==
    ("base" :> {}) @@ ("desktop-common" :> {"base"}) @@ ("kernel-desktop" :> {})
      @@ ("gnome" :> {"desktop-common"}) @@ ("server" :> {"base"})

MCPackagesOf ==
    ("base" :> {"systemd"}) @@ ("desktop-common" :> {"firefox"}) @@ ("kernel-desktop" :> {"linux-stable"})
      @@ ("gnome" :> {"gdm"}) @@ ("server" :> {"sshd"})

MCPackage == {"systemd", "firefox", "linux-stable", "gdm", "sshd", "helix", "btrfs-progs"}

Doc(form, strategy, locale, timezone, selection, packages, root, user) ==
    [form |-> form, strategy |-> strategy, locale |-> locale, timezone |-> timezone,
     selection |-> selection, packages |-> packages, root |-> root, user |-> user]

MCDocuments ==
    {Doc("install", "whole_disk_btrfs", "de_DE.UTF-8", "UTC", "server", {"helix"}, "old", "old"),
     Doc("install", "gone", "", absent, absent, absent, "old", absent),
     Doc("system", absent, absent, absent, absent, {"systemd", "helix"}, absent, absent)}

=============================================================================
