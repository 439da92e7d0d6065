------------------------------- MODULE Engine -------------------------------
(***************************************************************************)
(* The previous installer (old/): the CLI asks its questions, the engine   *)
(* compiles the answers to a list of steps and a list of cleanups, and the *)
(* CLI executes the one and then the other.  Of the commands the steps     *)
(* run, the two of moss are checked; all the others are captured: whatever *)
(* their exit status, the installation goes on.  A step that does fail     *)
(* ends the program on the spot, its cleanups not executed; what it has    *)
(* mounted below /tmp/lichen is there when it is run again.                *)
(***************************************************************************)
EXTENDS MountTable, FiniteSets

CONSTANTS
    Partition,   \* the partitions of the machine
    DiskOf,      \* partition |-> its disk
    KindOf,      \* partition |-> "esp", "xbootldr" or "regular"
    Live,        \* the partitions the running system has its root on
    Tmpfs,       \* what /tmp/lichen is on before anything is mounted there
    Binds,       \* the directories bound into the target, in order
    FsType,      \* the filesystems ask_filesystem offers
    MaxRuns,     \* bound on the runs of the program
    MaxSilent    \* bound on the captured commands that fail

None == "none"
NoType == "unformatted"
BootType == "vfat"   \* what boot partitions carry
Root == "/"
Paths == {Root, "/efi", "/boot"} \cup {Binds[i] : i \in DOMAIN Binds}
Disk == {DiskOf[p] : p \in Partition}

ASSUME EngineAssumption ==
    /\ Live \subseteq Partition
    /\ Tmpfs \notin Partition /\ None \notin Partition
    /\ {NoType, BootType} \cap FsType = {}
    \* The directories of the target are beside each other and below its root.
    /\ Binds \in Seq(STRING)
    /\ \A p \in Paths \ {Root} : ~Covers(p, Root)
    /\ \A i \in DOMAIN Binds : ~Covers(Binds[i], "/efi") /\ ~Covers(Binds[i], "/boot") /\ Binds[i] # Root
    /\ ~Covers("/boot", "/efi") /\ ~Covers("/efi", "/boot")
    /\ MaxRuns \in Nat /\ MaxSilent \in Nat

VARIABLES
    table,    \* the mounts below /tmp/lichen
    fs,       \* partition |-> its filesystem
    files,    \* what each partition, and the tmpfs, carries
    kind,     \* the filesystem type the target's fstab gives its root
    probed,   \* partition |-> the filesystem found when the engine was made
    choice,   \* the answers: esp, xbootldr, root and type
    phase,    \* start, asking, running, cleaning, success, failed, refused, cancelled
    steps,    \* the steps to execute
    cleanups, \* the cleanups to execute
    base,     \* the mounts this run found
    runs,     \* runs so far
    silent    \* captured commands that have failed in this run

machine == <<table, fs, files, kind>>
program == <<probed, choice, phase, steps, cleanups, base, runs>>
vars == <<machine, program, silent>>

NoChoice == [esp |-> None, xbootldr |-> None, root |-> None, type |-> NoType]

Init ==
    /\ table = <<>>
    /\ fs \in [Partition -> FsType \cup {BootType, NoType}]
    /\ \A p \in Partition : fs[p] = BootType <=> KindOf[p] # "regular"
    /\ \A p \in Live : fs[p] # NoType
    /\ files = [d \in Partition \cup {Tmpfs} |-> {}]
    /\ kind = NoType
    /\ probed = fs
    /\ choice = NoChoice
    /\ phase = "start"
    /\ steps = <<>>
    /\ cleanups = <<>>
    /\ base = <<>>
    /\ runs = 0
    /\ silent = 0

\* What a lookup of a path below /tmp/lichen ends in: a device, or the tmpfs.
At(path) ==
    LET served == {i \in DOMAIN table : Serves(table, i, path)}
    IN  IF served = {} THEN Tmpfs ELSE table[CHOOSE i \in served : TRUE].dev

-----------------------------------------------------------------------------
(***************************************************************************)
(* Installer::new and the questions.                                       *)
(***************************************************************************)

\* What is on offer when the root was found to be on nodes, and skipped are the
\* disks found to be parents of those and the disks that could not be read.
Offered(nodes, skipped) == {p \in Partition \ nodes : DiskOf[p] \notin skipped}

\* The XBOOTLDR partitions that go with an ESP: those of its disk.
Paired(offered, esp) == {p \in offered : KindOf[p] = "xbootldr" /\ DiskOf[p] = DiskOf[esp]}

\* A boot partition is an ESP with the XBOOTLDR of its disk, if there is one;
\* which of several comes first in the partition table is left open.
BootPartitions(offered) ==
    {boot \in [esp : {p \in offered : KindOf[p] = "esp"}, xbootldr : offered \cup {None}] :
        LET paired == Paired(offered, boot.esp)
        IN  IF paired = {} THEN boot.xbootldr = None ELSE boot.xbootldr \in paired}

SystemPartitions(offered) == {p \in offered : KindOf[p] = "regular"}

\* The user is ready, the engine is made, and it probes every superblock.
Start ==
    /\ phase \in {"start", "success", "failed", "refused", "cancelled"}
    /\ runs < MaxRuns
    /\ runs' = runs + 1
    /\ probed' = fs
    /\ phase' = "asking"
    /\ choice' = NoChoice
    /\ steps' = <<>>
    /\ cleanups' = <<>>
    /\ base' = table
    /\ silent' = 0
    /\ UNCHANGED machine

\* There is no ESP or no partition to choose from, or a prompt fails.
GiveUp ==
    /\ phase = "asking"
    /\ phase' = "cancelled"
    /\ UNCHANGED <<machine, probed, choice, steps, cleanups, base, runs, silent>>

\* The user has answered; the summary waits for a yes.  What was on offer went by
\* how far the engine, when it was made, got in looking for the root: without its
\* device there are no nodes, the rest of a chain that is not found is not among
\* them, and neither is a parent that is not found among the disks.
Answer ==
    /\ phase = "asking"
    /\ choice = NoChoice
    /\ \E nodes \in SUBSET Live, skipped \in SUBSET Disk :
          LET offered == Offered(nodes, skipped)
          IN  \E boot \in BootPartitions(offered), root \in SystemPartitions(offered), type \in FsType :
                 choice' = [esp |-> boot.esp, xbootldr |-> boot.xbootldr, root |-> root, type |-> type]
    /\ UNCHANGED <<machine, probed, phase, steps, cleanups, base, runs, silent>>

-----------------------------------------------------------------------------
(***************************************************************************)
(* compile_to_steps.                                                       *)
(***************************************************************************)

Do(what) == [do |-> what, dev |-> None, at |-> Root]
Mount(dev, at) == [do |-> "mount", dev |-> dev, at |-> at]

FormatSteps(c) == <<[do |-> "format", dev |-> c.root, at |-> Root]>>

PartitionMounts(c) ==
    <<Mount(c.root, Root), Mount(c.esp, "/efi")>>
        \o (IF c.xbootldr = None THEN <<>> ELSE <<Mount(c.xbootldr, "/boot")>>)

BindMounts == [i \in DOMAIN Binds |-> Mount(Tmpfs, Binds[i])]

\* root is a builtin account and comes first in the set of accounts.
Setup ==
    <<Do("repo"), Do("packages"), Do("rootpw"), Do("user"), Do("userpw"), Do("locale"),
      Do("timezone"), Do("machineid"), Do("fstab")>>

\* variant: the root is mounted before it is formatted
StepsMountFirst(c) == PartitionMounts(c) \o FormatSteps(c) \o BindMounts \o Setup

\* "Must format and mount `/` before we can add more mounts".
StepsOf(c) == FormatSteps(c) \o PartitionMounts(c) \o BindMounts \o Setup

Unmounts(c) ==
    LET mounts == PartitionMounts(c) \o BindMounts
    IN  [i \in DOMAIN mounts |-> [do |-> "umount", dev |-> None, at |-> mounts[i].at]]

\* variant: the cleanups are not reversed
CleanupsInOrder(c) == <<Do("sync")>> \o Unmounts(c)

\* A sync after the unmounts, and all of it reversed.
CleanupsOf(c) == Reverse(Append(Unmounts(c), Do("sync")))

\* The user confirms.  The fstab entry needs the superblock that was probed: a
\* partition without one is refused before anything has happened.
Confirm ==
    /\ phase = "asking"
    /\ choice # NoChoice
    /\ IF probed[choice.root] = NoType
       THEN phase' = "refused" /\ UNCHANGED <<steps, cleanups>>
       ELSE /\ phase' = "running"
            /\ steps' = StepsOf(choice)
            /\ cleanups' = CleanupsOf(choice)
    /\ UNCHANGED <<machine, probed, choice, base, runs, silent>>

-----------------------------------------------------------------------------
(***************************************************************************)
(* Steps.                                                                  *)
(***************************************************************************)

\* The step at the head is s, and the next one follows.
Executes(s) ==
    /\ phase = "running"
    /\ steps # <<>>
    /\ s = Head(steps)
    /\ steps' = Tail(steps)
    /\ UNCHANGED <<probed, choice, phase, cleanups, base, runs>>

\* A captured command that fails where it could have succeeded.
FailsSilently == silent < MaxSilent /\ silent' = silent + 1 /\ UNCHANGED machine

Leaves(added, at) ==
    /\ files' = [files EXCEPT ![At(at)] = @ \cup added]
    /\ UNCHANGED <<table, fs>>

\* A filesystem below the target, or the one the system runs on.
InUse(dev) == IsMounted(table, dev) \/ dev \in Live

\* mkfs, which does not touch a filesystem that is mounted.
FormatPartition ==
    \E s \in {x \in {Head(steps)} : x.do = "format"} :
        /\ Executes(s)
        /\ \/ /\ ~InUse(s.dev)
              /\ fs' = [fs EXCEPT ![s.dev] = choice.type]
              /\ files' = [files EXCEPT ![s.dev] = {}]
              /\ UNCHANGED <<table, kind, silent>>
           \/ InUse(s.dev) /\ UNCHANGED <<machine, silent>>
           \/ FailsSilently

\* variant: what a failed run has left mounted at a directory is taken for the mount
MountUnlessMounted ==
    \E s \in {x \in {Head(steps)} : x.do = "mount"} :
        /\ Executes(s)
        /\ \/ /\ table' = IF \E i \in DOMAIN table : Detaches(table, i, s.at)
                          THEN table ELSE Attach(table, [dev |-> s.dev, at |-> s.at])
              /\ UNCHANGED <<fs, files, kind, silent>>
           \/ FailsSilently

\* mount, of a partition or of a directory of the running system.
MountPartition ==
    \E s \in {x \in {Head(steps)} : x.do = "mount"} :
        /\ Executes(s)
        /\ \/ /\ table' = Attach(table, [dev |-> s.dev, at |-> s.at])
              /\ UNCHANGED <<fs, files, kind, silent>>
           \/ FailsSilently

\* moss repo add: checked.
AddRepo ==
    /\ Executes(Do("repo"))
    /\ Leaves({"repo"}, Root)
    /\ UNCHANGED <<kind, silent>>

\* moss install: checked.  The boot entries go to XBOOTLDR if there is one, or
\* else to the ESP, by way of the directories they should be mounted on.
InstallPackages ==
    /\ Executes(Do("packages"))
    /\ "repo" \in files[At(Root)]
    /\ LET boot == At(IF choice.xbootldr = None THEN "/efi" ELSE "/boot")
       IN  files' = [d \in DOMAIN files |->
              files[d] \cup (IF d = At(Root) THEN {"os"} ELSE {})
                       \cup (IF d = boot THEN {"boot"} ELSE {})]
    /\ UNCHANGED <<table, fs, kind, silent>>

\* chpasswd, useradd and systemd-machine-id-setup in a chroot: captured.
Accounts(what) ==
    /\ Executes(Do(what))
    /\ \/ /\ "os" \in files[At(Root)]
          /\ what = "userpw" => "user" \in files[At(Root)]
          /\ Leaves({what}, Root) /\ UNCHANGED <<kind, silent>>
       \/ FailsSilently

\* Files below etc/, written by the program itself: a failure is an error.
SetRegion(what) ==
    /\ Executes(Do(what))
    /\ "os" \in files[At(Root)]
    /\ Leaves({what}, Root)
    /\ UNCHANGED <<kind, silent>>

\* The entry was made when the steps were compiled, from the probed superblock.
EmitFstab ==
    /\ Executes(Do("fstab"))
    /\ "os" \in files[At(Root)]
    /\ Leaves({"fstab"}, Root)
    /\ kind' = probed[choice.root]
    /\ UNCHANGED silent

\* A command cannot be spawned, moss fails, or a file cannot be written: main
\* returns the error, and nothing is cleaned up.
StepFails ==
    /\ phase \in {"running", "cleaning"}
    /\ phase' = "failed"
    /\ UNCHANGED <<machine, probed, choice, steps, cleanups, base, runs, silent>>

Step ==
    /\ phase = "running" /\ steps # <<>>
    /\ \/ FormatPartition \/ MountPartition \/ AddRepo \/ InstallPackages
       \/ (\E what \in {"rootpw", "user", "userpw", "machineid"} : Accounts(what))
       \/ (\E what \in {"locale", "timezone"} : SetRegion(what))
       \/ EmitFstab

StepsDone ==
    /\ phase = "running"
    /\ steps = <<>>
    /\ phase' = "cleaning"
    /\ UNCHANGED <<machine, probed, choice, steps, cleanups, base, runs, silent>>

-----------------------------------------------------------------------------
(***************************************************************************)
(* Cleanups.                                                               *)
(***************************************************************************)

\* umount: captured; it fails, too, while something is mounted on top.
Unmount(path) ==
    \/ /\ \E i \in DOMAIN table : Detaches(table, i, path) /\ table' = Detach(table, i)
       /\ UNCHANGED <<fs, files, kind, silent>>
    \/ /\ \A i \in DOMAIN table : ~Detaches(table, i, path)
       /\ UNCHANGED <<machine, silent>>
    \/ FailsSilently

Cleanup ==
    /\ phase = "cleaning"
    /\ cleanups # <<>>
    /\ cleanups' = Tail(cleanups)
    /\ IF Head(cleanups).do = "sync" THEN UNCHANGED <<machine, silent>>
       ELSE Unmount(Head(cleanups).at)
    /\ UNCHANGED <<probed, choice, phase, steps, base, runs>>

\* "Successfully installed {}! Reboot now to start using it!"
Congratulate ==
    /\ phase = "cleaning"
    /\ cleanups = <<>>
    /\ phase' = "success"
    /\ UNCHANGED <<machine, probed, choice, steps, cleanups, base, runs, silent>>

Next ==
    \/ Start \/ GiveUp \/ Answer \/ Confirm
    \/ Step \/ StepFails \/ StepsDone
    \/ Cleanup \/ Congratulate

Spec == Init /\ [][Next]_vars

-----------------------------------------------------------------------------
(***************************************************************************)
(* Properties.                                                             *)
(***************************************************************************)

Artifact ==
    {"repo", "os", "boot", "rootpw", "user", "userpw", "locale", "timezone", "machineid", "fstab"}

TypeOK ==
    /\ table \in Seq([dev : Partition \cup {Tmpfs}, at : Paths])
    /\ fs \in [Partition -> FsType \cup {BootType, NoType}]
    /\ files \in [Partition \cup {Tmpfs} -> SUBSET Artifact]
    /\ kind \in FsType \cup {NoType}
    /\ probed \in [Partition -> FsType \cup {BootType, NoType}]
    /\ choice \in [esp : Partition \cup {None}, xbootldr : Partition \cup {None},
                   root : Partition \cup {None}, type : FsType \cup {NoType}]
    /\ phase \in {"start", "asking", "running", "cleaning", "success", "failed", "refused", "cancelled"}
    /\ base \in Seq([dev : Partition \cup {Tmpfs}, at : Paths])
    /\ runs \in 0..MaxRuns
    /\ silent \in 0..MaxSilent

Answered == {choice.esp, choice.xbootldr, choice.root}

\* What a run writes goes to the partitions that were answered and to no others,
\* whatever mounts of others a failed run has left at the same directories.  A command
\* that fails unseen, a mount or an umount for instance, may open the way to those
\* mounts, and to nothing else.
OnlyChosenWritten ==
    [][\A p \in Partition \ Answered :
         (silent' = 0 \/ ~IsMounted(base, p)) => fs'[p] = fs[p] /\ files'[p] = files[p]]_vars

\* The cleanups undo the mounts of this run, in whatever state an earlier run has
\* left the directory: unless a command failed unseen, a success leaves the mount
\* table as the run found it.
MountsUndone == phase = "success" /\ silent = 0 => table = base

Required == Artifact \ {"boot"}

Installed ==
    /\ fs[choice.root] = choice.type
    /\ Required \subseteq files[choice.root]
    /\ "boot" \in files[IF choice.xbootldr = None THEN choice.esp ELSE choice.xbootldr]

\* No filesystem is on the root that mkfs would not touch.
RootFree == ~IsMounted(base, choice.root) /\ choice.root \notin Live

\* A run in which no command failed unseen, and that says it has succeeded, has
\* formatted the root as confirmed, put all of the system on it and boot entries
\* on the boot partition, whatever else an earlier run has left mounted.
SuccessInstalls == phase = "success" /\ silent = 0 /\ RootFree => Installed

=============================================================================
