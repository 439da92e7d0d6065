--------------------------- MODULE InstallTarget ---------------------------
(***************************************************************************)
(* The privileged half of an installation: what the backend does to the    *)
(* machine between the moment a partition layout has been applied and the  *)
(* moment the user may reboot.  One client (the summary step of the CLI)   *)
(* drives two calls, WriteSystemModel and InstallSystem; each is a chain   *)
(* of external commands, any of which may fail, over the kernel's mount    *)
(* table and the disks.  umount may find its filesystem held by a stray    *)
(* process, and the backend may die at any command; the mount table        *)
(* survives both.  At most MaxFaults of these two happen in a behaviour.   *)
(***************************************************************************)
EXTENDS ResolveMounts, MountTable, FiniteSets

CONSTANTS
    Device,      \* the partitions
    HostFs,      \* the live medium's filesystems, the source of the bind mounts
    BootMounts,  \* the mountpoints moss puts boot entries on (ESP, XBOOTLDR)
    Relative,    \* mountpoints that do not start with '/'
    Requests,    \* the layouts a client may ask for: [mounts, fstype, wants]
    MaxFaults    \* bound on stray-process umount failures and backend deaths

Binds == <<"/dev", "/dev/shm", "/dev/pts", "/proc", "/sys">>
Volume == {"top", "@", "@home"}
Subvol == Volume \cup {"none"}
FsType == {"btrfs", "xfs", "vfat", "bcachefs", "none"}
Settings == {"locale", "timezone", "useradd", "passwords"}
ConfigSteps == Settings \cup {"forget", "machineid"}
Artifact == {"system-model", "install-model", "repos", "index", "os", "boot",
             "live-id", "machineid", "fstab"} \cup Settings
Option == {"locale", "timezone", "user", "rootpw"}

TopSteps == {"mount_top", "create_subvols", "set_default", "unmount_top"}
ModelSteps == {"mount_model", "write_model", "unmount_model"}
ChrootSteps == {"repos", "index", "packages", "fstab"} \cup ConfigSteps
Control == {"idle", "mount", "unwind"} \cup TopSteps \cup ModelSteps \cup ChrootSteps

ASSUME InstallAssumption ==
    /\ HostFs \notin Device
    /\ \A i \in DOMAIN Binds : Binds[i] \in Mountpoint
    /\ BootMounts \subseteq Mountpoint
    /\ MaxFaults \in Nat

\* An ancestor's path is a proper prefix of its descendants' paths.
ASSUME PathAssumption ==
    \A p, q \in Mountpoint : <<p, q>> \in Above => p # q /\ Length[p] < Length[q]

\* A layout names no mountpoint twice, and none at or below a bind mount; nor
\* is /home, which a btrfs root adds, below one.
ASSUME RequestAssumption ==
    /\ \A b \in DOMAIN Binds : ~Covers(Binds[b], Home)
    /\ \A r \in Requests :
          /\ r.mounts \in Seq([device : Device, mountpoint : Mountpoint \cup Relative])
          /\ r.fstype \in [Device -> FsType]
          /\ r.wants \subseteq Option
          /\ \A i, j \in DOMAIN r.mounts :
                i # j => r.mounts[i].mountpoint # r.mounts[j].mountpoint
          /\ \A i \in DOMAIN r.mounts, b \in DOMAIN Binds :
                ~Covers(Binds[b], r.mounts[i].mountpoint)

VARIABLES
    table,     \* the kernel's mount table below the target root
    disk,      \* per device: fstype, default subvolume, subvolumes, files of each volume
    dirty,     \* devices with writes that have not reached the disk
    request,   \* the layout of the current run of the CLI
    stage,     \* how far the CLI has come: idle, formatted, written, installed
    op,        \* the call in progress or last made: write or install
    pc,        \* the command the call is at; idle between calls
    plan,      \* the resolved mounts of the call
    mounted,   \* the mountpoints the call has mounted and must unmount
    ok,        \* no step of the call has failed
    fstab,     \* the lines of the target's /etc/fstab
    base,      \* the mount table the last call found
    stuck,     \* an umount of the last call met a stray process, or the backend died
    kept,      \* the last call failed to remove a machine-id that was there
    unsynced,  \* the sync of the last call did not run
    faults     \* stray-process failures and backend deaths so far

machine == <<table, disk, dirty>>
client == <<request, stage>>
ghost == <<base, stuck, kept, unsynced, faults>>
vars == <<machine, client, op, pc, plan, mounted, ok, fstab, ghost>>

Entry(dev, sub, at) == [dev |-> dev, sub |-> sub, at |-> at]
MountEntry(m) == Entry(m.device, m.subvol, m.mountpoint)

\* Everything install_target mounts, in order: the resolved mounts, then the binds.
Schedule ==
    [i \in 1..(Len(plan) + Len(Binds)) |->
        IF i <= Len(plan) THEN MountEntry(plan[i])
        ELSE Entry(HostFs, "none", Binds[i - Len(plan)])]

\* The volume an entry shows: its subvol= option, or the default subvolume.
VolumeOf(e) == IF e.sub = "none" THEN disk[e.dev].default ELSE e.sub

\* A lookup of path under the target root ends in volume v of device d.
Shows(path, d, v) ==
    \E i \in DOMAIN table : Serves(table, i, path) /\ table[i].dev = d /\ VolumeOf(table[i]) = v

OnTarget(path, artifact) ==
    \E d \in Device, v \in Volume : Shows(path, d, v) /\ artifact \in disk[d].files[v]

\* Files land where a lookup of their path ends; with nothing mounted that is
\* the live medium's tmpfs and no device changes.  added holds <<path, artifact>>
\* pairs, removed artifacts of the root.
Store(added, removed) ==
    /\ disk' = [d \in Device |-> [disk[d] EXCEPT !.files = [v \in Volume |->
          (disk[d].files[v] \ {a \in removed : Shows(Root, d, v)})
             \cup {x[2] : x \in {y \in added : Shows(y[1], d, v)}}]]]
    /\ dirty' = dirty \cup {d \in Device : \E x \in added, v \in Volume : Shows(x[1], d, v)}

Formatted(type) ==
    [fstype |-> type, default |-> "top", subvols |-> {"top"}, files |-> [v \in Volume |-> {}]]

Init ==
    /\ table = <<>>
    /\ disk = [d \in Device |-> Formatted("none")]
    /\ dirty = {}
    /\ request \in Requests
    /\ stage = "idle"
    /\ op = "write"
    /\ pc = "idle"
    /\ plan = <<>>
    /\ mounted = <<>>
    /\ ok = TRUE
    /\ fstab = <<>>
    /\ base = <<>>
    /\ stuck = FALSE
    /\ kept = FALSE
    /\ unsynced = FALSE
    /\ faults = 0

-----------------------------------------------------------------------------
(***************************************************************************)
(* Calls: how they begin and end.                                          *)
(***************************************************************************)

\* A run of the CLI applies a layout first (see ApplyStrategy): every partition
\* of it is formatted.  mkfs refuses a filesystem that is still mounted.
Format(r) ==
    /\ pc = "idle"
    /\ \A i \in DOMAIN r.mounts : ~IsMounted(table, r.mounts[i].device)
    /\ disk' = [d \in Device |->
          IF \E i \in DOMAIN r.mounts : r.mounts[i].device = d
          THEN Formatted(r.fstype[d]) ELSE disk[d]]
    /\ request' = r
    /\ stage' = "formatted"
    /\ fstab' = <<>>
    /\ UNCHANGED <<table, dirty, op, pc, plan, mounted, ok, ghost>>

Begin(kind, first, mounts) ==
    /\ op' = kind
    /\ pc' = first
    /\ plan' = mounts
    /\ mounted' = <<>>
    /\ ok' = TRUE
    /\ base' = table
    /\ stuck' = FALSE
    /\ kept' = FALSE
    /\ unsynced' = FALSE
    /\ UNCHANGED <<machine, client, fstab, faults>>

\* The call answers; an error ends the run of the CLI.
Return(good) ==
    /\ pc' = "idle"
    /\ stage' = IF ~good THEN "idle" ELSE IF op = "write" THEN "written" ELSE "installed"
    /\ UNCHANGED request

\* A call that fails before it has mounted anything.
Refuse(kind) ==
    /\ pc = "idle"
    /\ stage \in {"formatted", "written"}
    /\ op' = kind
    /\ pc' = "idle"
    /\ stage' = "idle"
    /\ plan' = <<>>
    /\ ok' = FALSE
    /\ base' = table
    /\ stuck' = FALSE
    /\ kept' = FALSE
    /\ unsynced' = FALSE
    /\ UNCHANGED <<machine, request, mounted, fstab, faults>>

ProbedType == [d \in Device |-> disk[d].fstype]

\* WriteSystemModel of the device the layout mounts at "/".
WriteSystemModel ==
    /\ pc = "idle"
    /\ stage \in {"formatted", "written"}
    /\ \E i \in DOMAIN request.mounts :
          LET d == request.mounts[i].device
              btrfs == disk[d].fstype = "btrfs"
          IN  /\ request.mounts[i].mountpoint = Root
              /\ Begin("write", IF btrfs THEN "mount_top" ELSE "mount_model",
                       <<[device |-> d, mountpoint |-> Root, fstype |-> disk[d].fstype,
                          subvol |-> IF btrfs THEN RootSubvol ELSE "none"]>>)

\* blkid or the creation of the target directory fails.
WriteSystemModelFails == HasRoot(request.mounts) /\ Refuse("write")

\* variant: the root check is missing
AcceptsAnyInstall(mounts) == TRUE

\* A request without a root mount is rejected before anything runs.
AcceptsInstall(mounts) == HasRoot(mounts)

InstallSystem ==
    /\ pc = "idle"
    /\ stage \in {"formatted", "written"}
    /\ AcceptsInstall(request.mounts)
    /\ \E resolved \in Resolutions(request.mounts, ProbedType) :
          Begin("install",
                IF \E i \in DOMAIN resolved : resolved[i].mountpoint = Root /\ resolved[i].subvol # "none"
                THEN "mount_top" ELSE "mount",
                resolved)

\* No root mount, or blkid fails while the mounts are resolved.
InstallSystemFails == Refuse("install")

-----------------------------------------------------------------------------
(***************************************************************************)
(* Commands.                                                               *)
(***************************************************************************)

\* mount(8) of an entry; a subvol= option names a subvolume that exists.
CanMount(e) == e.dev \in Device /\ e.sub # "none" => e.sub \in disk[e.dev].subvols

\* umount(8) of path.  Detaching the last mount of a filesystem writes it back.
Detached(i) ==
    /\ table' = Detach(table, i)
    /\ dirty' = IF \E j \in DOMAIN table : j # i /\ table[j].dev = table[i].dev
                THEN dirty ELSE dirty \ {table[i].dev}
    /\ UNCHANGED <<stuck, faults>>

Unmount(path) ==
    \/ \E i \in DOMAIN table : Detaches(table, i, path) /\ Detached(i)
    \/ /\ \A i \in DOMAIN table : ~Detaches(table, i, path)  \* EBUSY
       /\ UNCHANGED <<table, dirty, stuck, faults>>
    \/ /\ faults < MaxFaults                                 \* a stray process
       /\ faults' = faults + 1
       /\ stuck' = TRUE
       /\ UNCHANGED <<table, dirty>>

\* A step of the call fails; control moves to where the code picks the error up.
Fails(next) ==
    /\ pc' = next
    /\ ok' = FALSE
    /\ UNCHANGED <<table, client, op, plan, mounted, fstab, ghost>>

-----------------------------------------------------------------------------
(***************************************************************************)
(* create_subvolumes: the top level of a btrfs root is mounted on its own, *)
(* given @ and @home, and unmounted again.                                 *)
(***************************************************************************)

RootDevices == {plan[i].device : i \in {j \in DOMAIN plan : plan[j].mountpoint = Root}}

MountTop ==
    /\ pc = "mount_top"
    /\ \/ /\ \E d \in RootDevices : table' = Attach(table, Entry(d, "top", Root))
          /\ mounted' = <<Root>>
          /\ pc' = "create_subvols"
          /\ UNCHANGED <<disk, dirty, client, op, plan, ok, fstab, ghost>>
       \/ Return(FALSE) /\ ok' = FALSE
          /\ UNCHANGED <<machine, op, plan, mounted, fstab, ghost>>

\* @ and then @home, each unless it exists; a failure leaves the ones before it.
CreateSubvols ==
    /\ pc = "create_subvols"
    /\ \E made \in {{}, {RootSubvol}, {RootSubvol, HomeSubvol}} :
          /\ disk' = [d \in Device |->
                IF d \in RootDevices THEN [disk[d] EXCEPT !.subvols = @ \cup made] ELSE disk[d]]
          /\ dirty' = dirty \cup RootDevices
          /\ \/ /\ made = {RootSubvol, HomeSubvol}
                /\ pc' = "set_default"
                /\ UNCHANGED <<table, client, op, plan, mounted, ok, fstab, ghost>>
             \/ Fails("unmount_top")

\* variant: the default subvolume is left at the top level
SetNoDefault ==
    /\ pc = "set_default"
    /\ pc' = "unmount_top"
    /\ UNCHANGED <<machine, client, op, plan, mounted, ok, fstab, ghost>>

SetDefault ==
    /\ pc = "set_default"
    /\ \/ /\ disk' = [d \in Device |->
                IF d \in RootDevices THEN [disk[d] EXCEPT !.default = RootSubvol] ELSE disk[d]]
          /\ dirty' = dirty \cup RootDevices
          /\ pc' = "unmount_top"
          /\ UNCHANGED <<table, client, op, plan, mounted, ok, fstab, ghost>>
       \/ Fails("unmount_top") /\ UNCHANGED <<disk, dirty>>

\* The result of umount is ignored; an earlier error ends the call here, before
\* install_target has anything to unwind.
UnmountTop ==
    /\ pc = "unmount_top"
    /\ Unmount(Root)
    /\ mounted' = <<>>
    /\ IF ok
       THEN /\ pc' = IF op = "write" THEN "mount_model" ELSE "mount"
            /\ UNCHANGED client
       ELSE Return(FALSE)
    /\ UNCHANGED <<disk, op, plan, ok, fstab, base, kept, unsynced>>

-----------------------------------------------------------------------------
(***************************************************************************)
(* write_to_target: the model must land where the installed system looks.  *)
(***************************************************************************)

MountModelRoot ==
    /\ pc = "mount_model"
    /\ \/ /\ CanMount(MountEntry(plan[1]))
          /\ table' = Attach(table, MountEntry(plan[1]))
          /\ mounted' = <<Root>>
          /\ pc' = "write_model"
          /\ UNCHANGED <<disk, dirty, client, op, plan, ok, fstab, ghost>>
       \/ Return(FALSE) /\ ok' = FALSE
          /\ UNCHANGED <<machine, op, plan, mounted, fstab, ghost>>

\* The system-model and then the install-model; a failure may leave the first.
WriteModel ==
    /\ pc = "write_model"
    /\ \E files \in {{}, {"system-model"}, {"system-model", "install-model"}} :
          /\ Store({<<Root, f>> : f \in files}, {})
          /\ \/ /\ files = {"system-model", "install-model"}
                /\ pc' = "unmount_model"
                /\ UNCHANGED <<table, client, op, plan, mounted, ok, fstab, ghost>>
             \/ Fails("unmount_model")

\* result.and(unmounted): here a failed umount does fail the call.
UnmountModelRoot ==
    /\ pc = "unmount_model"
    /\ Unmount(Root)
    /\ mounted' = <<>>
    /\ ok' = (ok /\ table' # table)
    /\ Return(ok')
    /\ UNCHANGED <<disk, op, plan, fstab, base, kept, unsynced>>

-----------------------------------------------------------------------------
(***************************************************************************)
(* install_target.  Every failure goes to the unwinding.                   *)
(***************************************************************************)

CommandFails == Fails("unwind") /\ UNCHANGED <<disk, dirty>>

\* The next mount of the schedule; mounted grows only when mount(8) succeeded.
MountNext ==
    /\ pc = "mount"
    /\ LET e == Schedule[Len(mounted) + 1]
       IN  \/ /\ CanMount(e)
              /\ table' = Attach(table, e)
              /\ mounted' = Append(mounted, e.at)
              /\ pc' = IF Len(mounted) + 1 = Len(Schedule) THEN "repos" ELSE "mount"
              /\ UNCHANGED <<disk, dirty, client, op, plan, ok, fstab, ghost>>
           \/ CommandFails

\* A step that writes files into the target and moves on.
Succeeds(added, removed, next) ==
    /\ Store(added, removed)
    /\ pc' = next
    /\ UNCHANGED <<table, client, op, plan, mounted, ok, ghost>>

\* configure_repos: unstable becomes the only repository of the target.
ConfigureRepos ==
    /\ pc = "repos"
    /\ \/ Succeeds({<<Root, "repos">>}, {}, "index") /\ UNCHANGED fstab
       \/ CommandFails

\* moss repo update needs the repository and the network.
UpdateIndex ==
    /\ pc = "index"
    /\ \/ /\ OnTarget(Root, "repos")
          /\ Succeeds({<<Root, "index">>}, {}, "packages")
          /\ UNCHANGED fstab
       \/ CommandFails

\* The boot mounts of the layout: its ESP and XBOOTLDR.
BootPoints == {p \in BootMounts : \E i \in DOMAIN plan : plan[i].mountpoint = p}

\* moss sync --import reads the system-model of the target, installs the
\* packages (with the live medium's machine-id) and writes boot entries below
\* each boot mount.  A failed sync may leave part of the system behind.
MossSync ==
    /\ pc = "packages"
    /\ \/ /\ OnTarget(Root, "system-model")
          /\ OnTarget(Root, "index")
          /\ Succeeds({<<Root, "os">>, <<Root, "live-id">>}
                        \cup {<<p, "boot">> : p \in BootPoints}, {}, "locale")
          /\ UNCHANGED fstab
       \/ \E part \in SUBSET {"os", "live-id"} :
             /\ Store({<<Root, a>> : a \in part}, {})
             /\ Fails("unwind")

\* configure_target: locale, timezone, machine-id, user and passwords in this
\* order, the settings when the request has them.
After(step) ==
    CASE step = "locale"    -> "timezone"
      [] step = "timezone"  -> "forget"
      [] step = "useradd"   -> "passwords"
      [] step = "passwords" -> "fstab"

Requested(step) ==
    \/ step \in {"locale", "timezone"} /\ step \in request.wants
    \/ step = "useradd" /\ "user" \in request.wants
    \/ step = "passwords" /\ request.wants \cap {"user", "rootpw"} # {}

\* chpasswd sets the password of accounts that exist.
CanConfigure(step) ==
    step = "passwords" /\ "user" \in request.wants => OnTarget(Root, "useradd")

\* variant: nobody removes the machine-id the packages brought
ForgetNothing ==
    /\ pc = "forget"
    /\ pc' = "machineid"
    /\ UNCHANGED <<machine, client, op, plan, mounted, ok, fstab, ghost>>

\* The removal of the machine-id the packages brought.  Its result is ignored,
\* since there may be none; an id that is there and cannot be removed stays.
ForgetMachineId ==
    /\ pc = "forget"
    /\ pc' = "machineid"
    /\ \/ Store({}, {"live-id"}) /\ UNCHANGED kept
       \/ OnTarget(Root, "live-id") /\ kept' = TRUE /\ UNCHANGED <<disk, dirty>>
    /\ UNCHANGED <<table, client, op, plan, mounted, ok, fstab, base, stuck, unsynced, faults>>

\* systemd-machine-id-setup makes an id where it finds none, and leaves one it finds.
SetupMachineId ==
    /\ pc = "machineid"
    /\ \/ LET made == IF OnTarget(Root, "live-id") THEN {} ELSE {<<Root, "machineid">>}
          IN  Succeeds(made, {}, "useradd") /\ UNCHANGED fstab
       \/ CommandFails

Configure(step) ==
    /\ pc = step
    /\ \/ /\ ~Requested(step)
          /\ pc' = After(step)
          /\ UNCHANGED <<machine, client, op, plan, mounted, ok, fstab, ghost>>
       \/ /\ Requested(step)
          /\ CanConfigure(step)
          /\ Succeeds({<<Root, step>>}, {}, After(step))
          /\ UNCHANGED fstab
       \/ Requested(step) /\ CommandFails

\* variant: the subvolumes are forgotten
RawMounts == {Probe(request.mounts, ProbedType)}

\* The mounts fstab is made of: resolved anew from the request.
FstabMounts == Resolutions(request.mounts, ProbedType)

WriteFstab ==
    /\ pc = "fstab"
    /\ \/ \E resolved \in FstabMounts :
             /\ HasRoot(resolved)
             /\ fstab' = [i \in DOMAIN resolved |-> FstabLine(resolved[i])]
             /\ Succeeds({<<Root, "fstab">>}, {}, "unwind")
       \/ CommandFails

\* variant: the mounts are undone in the order they were made
UnwindForward ==
    /\ pc = "unwind"
    /\ mounted # <<>>
    /\ Unmount(Head(mounted))
    /\ mounted' = Tail(mounted)
    /\ UNCHANGED <<disk, client, op, pc, plan, ok, fstab, base, kept, unsynced>>

\* The last mount still to undo; umount's result is ignored.
Unwind ==
    /\ pc = "unwind"
    /\ mounted # <<>>
    /\ Unmount(mounted[Len(mounted)])
    /\ mounted' = SubSeq(mounted, 1, Len(mounted) - 1)
    /\ UNCHANGED <<disk, client, op, pc, plan, ok, fstab, base, kept, unsynced>>

\* variant: install_target returns without a sync
ReturnUnsynced ==
    /\ pc = "unwind"
    /\ mounted = <<>>
    /\ Return(ok)
    /\ UNCHANGED <<machine, op, plan, mounted, ok, fstab, ghost>>

\* variant: the result of the installation is lost on the way
ReturnSuccess ==
    /\ pc = "unwind"
    /\ mounted = <<>>
    /\ dirty' = {}
    /\ Return(TRUE)
    /\ UNCHANGED <<table, disk, op, plan, mounted, ok, fstab, ghost>>

\* sync comes last, its result is ignored too, and the call answers.
SyncAndReturn ==
    /\ pc = "unwind"
    /\ mounted = <<>>
    /\ \/ dirty' = {} /\ UNCHANGED unsynced
       \/ UNCHANGED dirty /\ unsynced' = TRUE
    /\ Return(ok)
    /\ UNCHANGED <<table, disk, op, plan, mounted, ok, fstab, base, stuck, kept, faults>>

-----------------------------------------------------------------------------

\* The backend is killed during a call and started again: the call is lost, the
\* kernel's mounts stay, and the CLI's run has failed.
BackendDies ==
    /\ pc # "idle"
    /\ faults < MaxFaults
    /\ faults' = faults + 1
    /\ stuck' = TRUE
    /\ ok' = FALSE
    /\ mounted' = <<>>
    /\ Return(FALSE)
    /\ UNCHANGED <<machine, op, plan, fstab, base, kept, unsynced>>

Call ==
    \/ MountTop \/ CreateSubvols \/ SetDefault \/ UnmountTop
    \/ MountModelRoot \/ WriteModel \/ UnmountModelRoot
    \/ MountNext \/ ConfigureRepos \/ UpdateIndex \/ MossSync
    \/ (\E step \in Settings : Configure(step))
    \/ ForgetMachineId \/ SetupMachineId
    \/ WriteFstab \/ Unwind \/ SyncAndReturn

Next ==
    \/ \E r \in Requests : Format(r)
    \/ WriteSystemModel \/ WriteSystemModelFails
    \/ InstallSystem \/ InstallSystemFails
    \/ Call
    \/ BackendDies

Spec == Init /\ [][Next]_vars

-----------------------------------------------------------------------------
(***************************************************************************)
(* Properties.                                                             *)
(***************************************************************************)

MountType == [dev : Device \cup {HostFs}, sub : Subvol, at : Mountpoint]
DiskType == [fstype : FsType, default : Volume, subvols : SUBSET Volume,
             files : [Volume -> SUBSET Artifact]]
ResolvedType == [device : Device, mountpoint : Mountpoint, fstype : FsType, subvol : Subvol]

TypeOK ==
    /\ table \in Seq(MountType)
    /\ disk \in [Device -> DiskType]
    /\ dirty \subseteq Device
    /\ request \in Requests
    /\ stage \in {"idle", "formatted", "written", "installed"}
    /\ op \in {"write", "install"}
    /\ pc \in Control
    /\ plan \in Seq(ResolvedType)
    /\ mounted \in Seq(Mountpoint)
    /\ ok \in BOOLEAN
    /\ base \in Seq(MountType)
    /\ stuck \in BOOLEAN
    /\ kept \in BOOLEAN
    /\ unsynced \in BOOLEAN
    /\ faults \in 0..MaxFaults

\* "Always unmount again": whichever command of a call failed, and whatever
\* earlier calls left behind, the mount table is the one the call found, unless
\* an umount of this very call met a stray process or the backend died in it.
TargetRestored == pc = "idle" /\ ~stuck => table = base

\* While moss and the chroot commands run, every resolved mount, the root among
\* them, is what a lookup of its mountpoint ends in: none is shadowed by another
\* (/boot over /boot/efi), and nothing is written to the live medium's tmpfs.
MountsServed ==
    pc \in ChrootSteps =>
        /\ HasRoot(plan)
        /\ \A i \in DOMAIN plan : \E j \in DOMAIN table :
              /\ table[j] = MountEntry(plan[i])
              /\ Serves(table, j, plan[i].mountpoint)

\* When the client is told that the installation is complete, the whole of it
\* is on the devices it asked for: the system and its configuration in the root
\* volume, boot entries on the boot partitions.
RequiredArtifacts ==
    {"system-model", "repos", "index", "os", "fstab"}
        \cup {step \in Settings : Requested(step)}

InstalledComplete ==
    stage = "installed" =>
        \A i \in DOMAIN plan :
            LET m == plan[i]
                files == disk[m.device].files[VolumeOf(MountEntry(m))]
            IN  /\ m.mountpoint = Root => RequiredArtifacts \subseteq files
                /\ m.mountpoint \in BootMounts => "boot" \in files

\* "The user is told they may reboot the moment this returns": after an
\* installation, writes are pending only on a filesystem that is still mounted
\* because of a fault, and only if sync(1) itself could not run.
DurableWhenTold ==
    stage = "installed" =>
        \A d \in dirty : unsynced /\ IsMounted(table, d)

\* The model is found again by DiscoverSystemModels, which mounts the root
\* partition without a subvol= option: the default subvolume has it, from the
\* moment WriteSystemModel has answered.
Rediscoverable ==
    stage \in {"written", "installed"} =>
        \A i \in DOMAIN plan : plan[i].mountpoint = Root =>
            LET d == disk[plan[i].device]
            IN  "system-model" \in d.files[d.default]

\* The installed system's fstab mounts exactly what the installation mounted,
\* subvolumes included.
FstabMatchesMounts ==
    stage = "installed" =>
        {[device |-> fstab[i].device, sub |-> fstab[i].subvol, at |-> fstab[i].mountpoint]
            : i \in DOMAIN fstab}
        = {[device |-> plan[i].device, sub |-> plan[i].subvol, at |-> plan[i].mountpoint]
            : i \in DOMAIN plan}

\* An installed system has a machine-id of its own and not the one the packages
\* brought, wherever on the root partition one might look, unless the removal
\* of that one failed.
OwnMachineId ==
    stage = "installed" /\ ~kept =>
        \A d \in RootDevices :
            /\ \A v \in Volume : "live-id" \notin disk[d].files[v]
            /\ \E i \in DOMAIN plan :
                  /\ plan[i].mountpoint = Root /\ plan[i].device = d
                  /\ "machineid" \in disk[d].files[VolumeOf(MountEntry(plan[i]))]

\* What the client may rely on once it has been told of a success, and may reboot.
InstalledOK ==
    InstalledComplete /\ DurableWhenTold /\ Rediscoverable /\ FstabMatchesMounts /\ OwnMachineId

\* No step ever writes to a partition outside the layout the user approved, not
\* even through a mount that an earlier, failed run left behind.
OnlyOwnDevicesWritten ==
    [][\A d \in Device : disk'[d] # disk[d] =>
          \E i \in DOMAIN request'.mounts : request'.mounts[i].device = d]_vars

-----------------------------------------------------------------------------
(***************************************************************************)
(* The promise kept: Promise, read off the state of the machine.           *)
(***************************************************************************)

\* The volume of device d the installed system has as its root.
RootVolume(d) == IF disk[d].fstype = "btrfs" THEN RootSubvol ELSE "top"

\* All of these artifacts are on the root partition of the layout.
RootCarries(artifacts) ==
    \E i \in DOMAIN request.mounts :
        LET d == request.mounts[i].device
        IN  request.mounts[i].mountpoint = Root /\ artifacts \subseteq disk[d].files[RootVolume(d)]

Carried ==
    IF RootCarries(RequiredArtifacts) THEN "system"
    ELSE IF RootCarries({"system-model"}) THEN "model" ELSE "nothing"

Told == CASE stage = "idle"      -> "nothing"
          [] stage = "formatted" -> "prepared"
          [] OTHER               -> stage

P == INSTANCE Promise WITH
        told <- Told, carried <- Carried, call <- IF pc = "idle" THEN "none" ELSE op

\* Whatever fails, leaks or dies, the chain of commands implements Promise: the
\* client is told of a system only when all of it is on its root partition, and
\* nothing that happens later, short of a new layout, takes any of it away.
KeepsPromise == P!Spec

-----------------------------------------------------------------------------
(***************************************************************************)
(* The inductive invariant behind TargetRestored and MountsServed.         *)
(***************************************************************************)

\* A plan is sorted, names no mountpoint twice, and none below a bind mount.
Orderly(mounts) ==
    /\ Distinct(mounts)
    /\ Sorted(mounts)
    /\ \A i \in DOMAIN mounts, b \in DOMAIN Binds : ~Covers(Binds[b], mounts[i].mountpoint)

\* Which call a control point belongs to, and what it works on.
CallInv ==
    /\ pc \in ModelSteps => op = "write"
    /\ pc \in {"mount", "unwind"} \cup ChrootSteps => op = "install"
    /\ Orderly(plan)
    /\ op = "write" /\ pc # "idle" => Len(plan) = 1 /\ plan[1].mountpoint = Root
    /\ op = "install" /\ pc # "idle" => HasRoot(plan)

\* The short calls hold one mount or none.
HeldInv ==
    /\ pc \in {"idle", "mount_top", "mount_model"} => mounted = <<>>
    /\ pc \in {"create_subvols", "set_default", "unmount_top", "write_model", "unmount_model"} =>
          mounted = <<Root>>

\* Unless something went wrong with an umount, the table is the one the call
\* found with the mounts it has still to undo stacked on top, in order.
LedgerInv ==
    ~stuck =>
        /\ Len(table) = Len(base) + Len(mounted)
        /\ \A i \in 1..Len(base) : table[i] = base[i]
        /\ \A i \in 1..Len(mounted) : table[Len(base) + i].at = mounted[i]

\* Whatever earlier calls left behind, the top of the table is the part of the
\* schedule that has been mounted.
ScheduleInv ==
    /\ pc = "mount" => Len(mounted) < Len(Schedule)
    /\ pc \in ChrootSteps => Len(mounted) = Len(Schedule)
    /\ pc \in {"mount"} \cup ChrootSteps =>
          /\ Len(table) >= Len(mounted)
          /\ \A i \in 1..Len(mounted) : table[Len(table) - Len(mounted) + i] = Schedule[i]

TableInv == TypeOK /\ CallInv /\ HeldInv /\ LedgerInv /\ ScheduleInv

-----------------------------------------------------------------------------
(***************************************************************************)
(* What it takes besides for InstalledOK, OnlyOwnDevicesWritten and        *)
(* KeepsPromise: what the steps of a run have left on the disks.           *)
(***************************************************************************)

\* The partition the layout of this run mounts at "/": one, or none.
RequestRoots ==
    {request.mounts[i].device : i \in {j \in DOMAIN request.mounts : request.mounts[j].mountpoint = Root}}

\* What a call may resolve the layout to.
ModelPlanOf(d) ==
    <<[device |-> d, mountpoint |-> Root, fstype |-> disk[d].fstype,
       subvol |-> IF disk[d].fstype = "btrfs" THEN RootSubvol ELSE "none"]>>

PlansOf(kind) ==
    IF kind = "write" THEN {ModelPlanOf(d) : d \in RequestRoots}
    ELSE Resolutions(request.mounts, ProbedType)

\* Where the CLI is while a call is under way, and after it; what was resolved
\* for the last call is still what the layout resolves to.
RunInv ==
    /\ pc # "idle" => stage \in {"formatted", "written"}
    /\ pc = "idle" /\ stage = "written" => op = "write"
    /\ stage = "installed" => pc = "idle" /\ op = "install"
    /\ pc # "idle" \/ stage \in {"written", "installed"} => plan \in PlansOf(op)
    /\ pc \in TopSteps => \A d \in RequestRoots : disk[d].fstype = "btrfs"

\* The short calls work on the root partition they have mounted on top.
TopInv ==
    /\ pc \in {"create_subvols", "set_default"} =>
          table # <<>> /\ table[Len(table)] \in {Entry(d, "top", Root) : d \in RootDevices}
    /\ pc = "write_model" => table # <<>> /\ table[Len(table)] = MountEntry(plan[1])

\* Unwritten data is only in filesystems that are mounted, and an installation
\* that has been reported leaves none of it unless sync itself did not run.
DirtyInv ==
    /\ \A d \in dirty : IsMounted(table, d)
    /\ stage = "installed" => dirty = {} \/ unsynced

\* An installation is finished once fstab is written and nothing has failed.
Finished == (pc = "unwind" /\ ok) \/ stage = "installed"

\* The default subvolume is the root of the installed system once it matters.
Settled ==
    \/ pc \in {"mount", "unwind"} \cup ModelSteps \cup ChrootSteps
    \/ pc = "unmount_top" /\ ok
    \/ stage \in {"written", "installed"}

VolumeInv ==
    /\ \A d \in Device : disk[d].default \in {"top", RootVolume(d)}
    /\ Settled => \A d \in RequestRoots : disk[d].default = RootVolume(d)

\* The steps of configure_target that are over when control is at a step.
Passed(step) ==
    CASE step = "locale"    -> {}
      [] step = "timezone"  -> {"locale"}
      [] step \in {"forget", "machineid", "useradd"} -> {"locale", "timezone"}
      [] step = "passwords" -> Settings \ {"passwords"}
      [] step = "fstab"     -> Settings

\* What the root partition must carry by now.
Due ==
    IF Finished THEN RequiredArtifacts
    ELSE IF pc = "index" THEN {"repos"}
    ELSE IF pc = "packages" THEN {"repos", "index"}
    ELSE IF pc \in ConfigSteps \cup {"fstab"}
    THEN {"system-model", "repos", "index", "os"} \cup {s \in Passed(pc) : Requested(s)}
    ELSE {}

\* The root partition: before an installation it has the model at most; then it
\* has all that is due; the model is there from the end of the write.
RootInv ==
    \A d \in RequestRoots :
        LET files == disk[d].files[RootVolume(d)]
        IN  /\ stage \in {"formatted", "written"} /\ (pc = "idle" \/ op = "write") =>
                  files \subseteq {"system-model", "install-model"}
            /\ stage \in {"written", "installed"} \/ (pc = "unmount_model" /\ ok) =>
                  "system-model" \in files
            /\ Due \subseteq files

\* The packages' machine-id is gone, and the target has one of its own, once
\* control is past these steps and the removal has not failed.
Forgotten == ~kept /\ (pc \in {"machineid", "useradd", "passwords", "fstab"} \/ Finished)
Renewed == ~kept /\ (pc \in {"useradd", "passwords", "fstab"} \/ Finished)

\* The packages' machine-id gets to the root volume only, and so does the new one.
MachineIdInv ==
    \A d \in RequestRoots :
        /\ \A v \in Volume :
              (v # RootVolume(d) /\ stage # "idle") \/ Forgotten => "live-id" \notin disk[d].files[v]
        /\ Renewed => "machineid" \in disk[d].files[RootVolume(d)]

\* Boot entries are on the boot partitions as soon as moss has run.
BootInv ==
    pc \in ConfigSteps \cup {"fstab"} \/ Finished =>
        \A i \in DOMAIN plan : plan[i].mountpoint \in BootMounts =>
            "boot" \in disk[plan[i].device].files[VolumeOf(MountEntry(plan[i]))]

FstabInv ==
    Finished =>
        {[device |-> fstab[i].device, sub |-> fstab[i].subvol, at |-> fstab[i].mountpoint]
            : i \in DOMAIN fstab}
        = {[device |-> plan[i].device, sub |-> plan[i].subvol, at |-> plan[i].mountpoint]
            : i \in DOMAIN plan}

DiskInv ==
    RunInv /\ TopInv /\ DirtyInv /\ VolumeInv /\ RootInv /\ MachineIdInv /\ BootInv /\ FstabInv

IInv == TableInv /\ DiskInv

=============================================================================
