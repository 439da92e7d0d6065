# Verification of lichen

TLA+ models of the AerynOS installer in this repository, TLC runs that check
them on small instances, and TLAPS proofs of the properties that matter most.
Paths below are relative to the repository's root.

## 1. The system

`lichen_backend` runs as root and serves gRPC on `/run/lichen.sock`; the `cli`
walks the user through six steps and calls the backend. The calls of one
installation are, in order: `ListDisks`, `ListStrategies`, `TryStrategy` (for
each strategy), `DiscoverSystemModels`, and, after the user's confirmation,
`ApplyStrategy`, `WriteSystemModel` and `InstallSystem`, whose answer is a
stream. All real work is done by external commands (`mount`, `umount`, `mkfs`,
`btrfs`, `blkid`, `moss`, `chroot`, `sync`) on shared state that outlives every
process involved: the kernel's mount table and the disks.

### Inventory

| Component | State | Operations | What is hard | Modelled by |
|---|---|---|---|---|
| Install service, target (`backend/src/install_service.rs`, `install_service/btrfs.rs`) | mount table, disks, files on the target, the list `mounted` of the call | `WriteSystemModel`, `InstallSystem` | about twenty commands, each may fail; order of mounts and of umounts; leaked mounts; backend deaths; ignored results | `MountTable`, `ResolveMounts`, `InstallTarget` |
| Install service, stream (same file, 119-182, 482-533) | mpsc channel of 64, `done`, tail of 30 lines, two pipes | worker, ticker, stderr reader, client | back-pressure, disconnects, two pipes and a full channel, quiet or hanging commands, racing last messages | `InstallStream` |
| Install service, discovery (229-270) | probe mountpoint, snapshot of `/proc/self/mounts` | `DiscoverSystemModels` | concurrent calls share the mountpoint; results of umount ignored | `Backend`; its answer is an input of `Documents`, `StorageStep`, `Wizard` |
| Provisioner service (`provisioner_service.rs`, `plans.rs`) | builtin strategies (constant); per call: devices, plan | `ListStrategies`, `TryStrategy`, `ApplyStrategy` | several disks, no rollback, plans made twice, drives that come and go, `mkfs --force` | `Provisioning` |
| Wizard (`cli/src/main.rs`, `args.rs`, `frontend.rs`, `frontend/*.rs`) | the `Model`, active and available steps | six steps, imports, refresh, abort | steps skipped after an import, several sources of packages | `Wizard` |
| Storage step (`frontend/storage.rs`) | viable strategies, items, choice | probe, fold, pick, refresh, filesystem, preview | positions of two lists, a strategy that is not viable any more, a preview computed apart from the backend | `StorageStep`; as one step of the walk, `Wizard` |
| Model documents (`cli/src/install_model.rs`) | the two KDL documents | `to_kdl`, `from_kdl`, `apply_*` | a record must reproduce the installation, alone and merged with moss' own document, after edits | `Documents` |
| Selections (`cli/src/selections.rs`) | none | `resolve`, `mandatory` | closure of dependencies | `Selections`, `Wizard` |
| Navigation (`crates/installer/src/lib.rs`) | steps, order, availability, active step | the builder, goto, next, previous, has_next and has_previous, (un)available | any calls in any order; off-by-one | `Navigation`; the walk of the CLI, `Wizard` |
| Backend process (`backend/src/main.rs`, `system_service.rs`) | calls, clients, shutdown channel | signals, `Shutdown`, graceful end, restart | workers are detached from the server | `Backend`; a kill in the middle of a call, `InstallTarget.BackendDies` |
| Authorization (`backend/src/auth.rs`, `lichen-macros`) | none | refuse a call without credentials | | `Backend.RefuseUnidentified` |
| Disk, locale and OS-info services, protocols, logging | none that changes | queries, conversions | nothing a model would add | not modelled |
| Previous installer (`old/`) | steps and cleanups of the engine, mounts, disks | questions, compilation, execution | commands that fail unseen, no cleanup after a failure, a second run on what the first left | `Engine` |
| disks-rs, moss, the kernel, btrfs | external | as called | | operators marked external |

`PROJECT.json` lists under `hazards` each place where the code may go wrong in a
way a test hardly reaches, with the property that would show it.

## 2. Modules

**`MountTable`** (external) says what the kernel does with `mount` and `umount`:
a table is the sequence of live mounts; a lookup ends in the last mount that
covers the path; `umount` detaches the visible mount at exactly that path and
fails (EBUSY) if anything is mounted on top.

**`ResolveMounts`** is `resolve_mounts`, `expand_subvolumes` and `fstab_params`
as operators: probing, moving a btrfs root onto `@` and adding `/home`, the
stable sort by path length, the fstab pass. `Resolutions` is the set with the
one result, so that the sort needs no recursion and can be proved about.

**`InstallTarget`** extends both. `table`, `disk` (file system, default
subvolume, subvolumes and files of each volume) and `dirty` are the machine;
`request` and `stage` the client; `op`, `pc`, `plan`, `mounted`, `ok` the local
variables of `write_to_target`, `create_subvolumes` and `install_target`. One
action is one command with its success and its failure: `MountTop`,
`CreateSubvols`, `SetDefault`, `UnmountTop` (btrfs.rs 48-66), `MountModelRoot`,
`WriteModel`, `UnmountModelRoot` (187-225), `MountNext` (a mount or a bind
mount, 294-320), `ConfigureRepos`, `UpdateIndex`, `MossSync`, `Configure(step)` for
each setting, `ForgetMachineId` and `SetupMachineId` (400 and 401), `WriteFstab`,
`Unwind` (one umount), `SyncAndReturn`. Files are written through
the mount table: `Store` puts an artifact on whatever a lookup of its path ends
in, and nothing reaches a disk when that is the live medium. An `umount` may
meet a stray process and the backend may be killed at any command and started
again; both are counted in `faults`. `stuck` and `unsynced` remember that one of
these, or a failed `sync`, happened in the last call, `kept` that the machine-id the
packages brought could not be removed, which the code does not notice; `base` is the
table the call found. They are history variables that only properties read.

**`Promise`** is what a client may expect, with no commands, threads or mounts in
it: a layout is prepared, calls follow one another, the root partition comes to
carry the system-model and then the system, and the client is told of each only
when it is so. `InstallTarget` implements it as a whole (`KeepsPromise` is
`P!Spec`, the state of the machine substituted for its variables); the worker, the
channel and the client of `InstallStream` implement its steps (`TellsAsPromised`).
It is a specification of its own and translates no code.

**`InstallStream`** is the threads of one `InstallSystem` call: worker
(`Report`, `CommandEnds`, `Spawn`, `ReadStdout`, `ForwardLine`, `Join`, `Wait`,
`Unmount`, `Finish`, `Verdict`), stderr reader, ticker (`CheckDone`, `WakeUp`,
`Tick`), the child, what it leaves behind with its pipes still open (`HeirEnds`),
and the client. What commands do to the machine is left to
`InstallTarget`. `succeeded` and `beat` are history variables.

**`Provisioning`** is the way to the point of no return. `behind` maps device
paths to drives and may change (`Hotplug`); `table` and `made` say what is on
each drive; `ApplyStrategy` is `SelectDevices`, `MakePlan`, `Simulate(d)`,
`WriteTable(d)` and `Format`, each with its failure. disks-rs appears as the
constant operator `PlansOf`, which maps a strategy and the drives seen to the
set of plans.

**`Wizard`** is the CLI: `Start` reads the documents of the command line, each
step is an action that asks or skips as the code does and then runs the loop of
`run_internal` (`Advance`), `Install` leaves the record (`ToKdl`) that a later
run may find (`Refresh`) or be given.

**`Selections`** is the loop of `resolve`: the stack `pending`, the set `visited`
and the packages so far; `Skip`, `Visit`, `Fail` and `Return` are the four ways
through its body. `Closure` says without a stack what it is to compute; `Wizard`
uses that in place of the loop.

**`Backend`** is the process around the calls. A call discovers models,
writes one, installs, or asks for the end; it shares with the others the table of
mounts at the probe and the target directory. `BeginDiscover`, `Probe`, `Read`, `Unprobe`,
`EndDiscover` are `discover_models`; `BeginWriting`, `MountTarget`, `Work`,
`WorkFails`, `UnmountTarget` are the frame of the two writing calls, whose inside
is `InstallTarget`. A client may `Leave`: a handler that has not begun to block is
dropped, a blocking one goes on. `Signal`, `Shutdown`, `SignalHandler`, `Exit` and
`Start` are the life of the process; `WaitedFor` says for which calls it stays. No
call keeps another out: the server does not, and after a Ctrl-C the handler or worker
of one run of the CLI goes on beside the calls of the next. An `umount` may fail at any
time, and a discovery may fail to list the disks or to read the mounts, which it then
takes to be none. Two history variables tell these cases apart: `crossed` has the calls
at whose directory another has mounted or unmounted while they were using it, `stays`
counts the mounts that failed umounts and dying calls have left. That preparing a
btrfs root mounts and unmounts it once more at the target directory is
`InstallTarget`'s subject and no step here.

**`StorageStep`** is the storage step item by item: the viable strategies in the
order of a hash map, the folding of variants into one item per layout, Refresh OS
and its number, the filesystem prompt, and the preview. It takes `ResolveMounts` as
the backend's part (`INSTANCE`).

**`Positions`** has the three operators of `StorageStep` and `Documents` on lists: the
first of some positions, positions in ascending order, and the elements found at them.
`filter` and `find` of the code are sets of positions here, which can be proved about.

**`Documents`** has both documents as trees of nodes. `Write` puts them on the disk,
moss and the administrator change them (`ChangePackages`, `AddNode`, `RemoveNode`,
`RemoveRecord`), and the next run imports one, the other or both (`Import`), or
finds one (`ImportDiscovered`).

**`Navigation`** is the installer crate's builder and cursor, with any frontend: all
calls in any order. A frontend adds each step once; the builder would take an id
twice, and a walk by `next_step` would then never leave it.

**`Engine`** is the previous installer: which partitions it offers, the steps and
cleanups it compiles, and their execution with failing and silently failing
commands. What is on offer depends on how far the search for the running system's
disks gets: without the root's device nothing is excluded, and a chain or a parent that
is not found counts as none (`engine.rs` 64-98). The program may be run again on what
it left behind.

**`MC*`** give the constants. **`*_proofs`** hold the theorems, those of `Selections`
and `Navigation` in one module (`SelectionsNavigation_proofs`), those of `StorageStep`
and `Documents` in another (`StorageDocuments_proofs`); for that, the specifications
of `Navigation` and `Documents` bear their names (`NavigationSpec`, `DocumentsSpec`).
Definitions marked "variant" stand next to the one they vary; nothing refers to them;
they exist to confirm that each property notices the bug they describe.

## 3. Runs

| Run | Question | Distinct states |
|---|---|---|
| `InstallTarget.cfg` | Is the machine left right whichever commands fail, and the promise kept? | 99,208 |
| `InstallStream.cfg` | Does every installation end, with a true verdict, and does the stream never idle? | 180,926 |
| `Provisioning.cfg` | Which drives are changed, and when? | 535,008 |
| `Wizard.cfg` | Does every walk give a complete, reproducible model? | 93,754 |
| `Selections.cfg` | Does `resolve` find the closure, whatever the definitions? | 1,611 |
| `Backend.cfg` | Are calls side by side, with departing clients, failing umounts, shutdown and restart, right as long as none crosses another at its directory? | 513,591 |
| `StorageStep.cfg` | Is the plan that is shown the one picked, viable, and what is mounted? | 90,112 |
| `Documents.cfg` | Do the documents reproduce the installation, alone, merged and edited? | 75,510 |
| `Navigation.cfg` | Does the cursor move over the available steps, one by one and back? | 1,317 |
| `Engine.cfg` | Did the previous installer install what was confirmed, where it was confirmed and nowhere else? | 3,486,598 |

Every module has a type invariant, most often the first conjunct of an invariant of
its run (`IInv`, `LoopInv`, `ModelOK`, `MountsOK`, `DocumentsOK`, `PlanOK`); those of
`Navigation` and `Engine` are proved only.

*InstallTarget.* `TargetRestored`: the table after a call is the one it found,
unless an umount of that very call met a stray process or the backend died.
`MountsServed`: while moss and the chroot commands run, every mount of the plan
is visible at its mountpoint. `InstalledOK` is what the user may rely on when told
to reboot, in five parts: `InstalledComplete`, `DurableWhenTold`, `Rediscoverable`,
`FstabMatchesMounts`, `OwnMachineId`. The last says that the target has a machine-id of
its own and, anywhere on its root partition, no longer the live medium's, unless the
removal of that one failed. `KeepsPromise` is the refinement of `Promise`.
`OnlyOwnDevicesWritten`: no step writes outside the requested layout, not even
through leaked mounts. `IInv` is the inductive
invariant of section 5. Bounds: four partitions; six layouts, which are those of
`data/strategies/use_whole_disk.kdl` with and without btrfs, one that nests
`/boot/efi` in `/boot` and lists children first with a swap entry in between, one
with a `/home` partition, and one without a root; any number of runs of the CLI;
two faults, enough for a leaked mount to be met by a later call that fails as
well. Deadlock is not checked: leaked mounts may pin the partitions of every
layout, and then no further run is possible.

*InstallStream.* Channel of two messages, pipes of one line, tail of two, at most
three lines, a silent command and a streamed one: every buffer fills and overflows
in every combination. `TruthfulVerdict`: success is reported exactly when every
command succeeded. `ErrorDetailComplete`: the detail of a failure is the end of each
pipe. `ClientAnswered` also shows that the stream never ends without a verdict: the
CLI's branch for `Ok(None)` is not reached and has no action. `StreamNeverIdles` and
the second half of `ThreadsEnd` hold even if a command hangs. The system stops when
the installation has ended, so deadlock is not checked.

*Provisioning.* Two paths, three drives of which one is small, two strategies of
which one spans both disks, can be ambiguous and depends on the drive's size,
requests that are empty, name a disk twice or a strategy nobody knows, and two
hardware changes: enough to replace a drive by another.

*Wizard.* Two runs of the CLI, two strategies of which one needs packages, a
desktop and the server; documents that are complete, mostly empty, and bare
system-models, with a strategy that is not viable any more.

*Selections.* The ten shipped selections with the dependencies of
`data/selections`, and every variant in which one of four of them has gained a
dependency on one of five names, so that circles and unknown names occur; every
argument. `ResolvesClosure`: the result is that of the closure, and an error says
that the closure has an unknown name. `MandatoryCarried` ties `mandatory`, which
knows one name, to the data files: picking a selection installs all that an import
of it must carry. `Returns`: circles do not keep the loop going. `resolve` returns,
so deadlock is not checked.

*Backend.* Two calls of any kind, two partitions of which one is btrfs (may be
mounted ro and rw at once) and one carries a model, two starts of the process, so
that a call meets the mount of an installation that died with the process before.
The properties are about a call that no other has crossed: none mounted or unmounted
at its directory between its own mount and the moment it reads or writes there. Mounts
that failed umounts and dead processes have left may lie below, and a rival may be under
way before or after. `Attributed`: such a discovery reports a model only under a partition that
carried it. `CallersServed`: such a writing call has written to its own root if it
succeeds, and nowhere else in any case; and, crossed or not, no caller that waits is
left without an answer. `MountsOK`: each directory has exactly one mount for each call
at work there, for each umount that failed, and for each installation that died with
its process, however calls interleave. What crossing does is said in section 6.
`ShutdownCompletes`: a hanging installation whose client has gone does not hold up the
end. Everything stops when the process has ended for the last time.

*StorageStep.* Four strategies in every order and subset, two of them variants of one
layout; every set of mkfs helpers; every recorded strategy, one that no longer
exists included. `PlanOK`: the plan is viable and of the layout that was picked, and
no variant is hidden for want of a mkfs when none has one. `PreviewIsMounted`: the
preview shows what `resolve_mounts` will mount. `DefaultsReproduce`: accepting
everything preselected gives the recorded strategy.

*Documents.* Three models (with all accounts, without any, without a real name), two
changes by moss or the administrator to any node. `DocumentsOK`: what is written
reads as the same model, from the record or the two documents together.
`MergePrefersLive`: of an import of both, fields are the record's and packages moss'.
`EditsAreLocal`: a spoilt node changes its own field only.

*Navigation.* Four registered ids and an unknown one; the registered ones are
interchangeable, so the run uses symmetry (no property is a liveness property).

*Engine.* The disk of the running system, a disk with ESP, XBOOTLDR and a root
partition, a disk with an ESP alone; two of the five bind mounts; two runs; one command
that fails unseen in each, so that a second run may find any mounts that a failed one has
left, of other answers than its own. `SuccessInstalls`: unless a command failed unseen, a
success is one, whatever was mounted, except if the confirmed root was, which mkfs then
does not touch. `OnlyChosenWritten`: a run changes only the partitions that were answered
or, once a command has failed unseen, those that a failed run had left mounted.
`MountsUndone`: unless a command failed unseen, the cleanups undo exactly this run's
mounts. Everything stops after the last run.

Each constant is small; no other run uses symmetry.

### Disagreements with the documentation

Two runs state what a comment of the repository says, and TLC shows a behaviour
of the code that does not agree; `PROJECT.json` quotes the lines.

| Run | Property | What happens |
|---|---|---|
| `ConfirmedPlan.cfg` | `ForcedPlanWasConfirmed` | with a drive exchanged after the preview, the plan applied is not the one shown |
| `IngestedPackages.cfg` | `IngestedPackagesKept` | the desktop step drops the packages of an imported system-model |

Section 6 lists five more places where the models show such a behaviour and a property
makes an exception for it.

## 4. Fairness

`resolve` is sequential code, so its next step is taken (`WF`). The other liveness
properties are those of `InstallStream` and `Backend`. Threads are scheduled, so a step that
stays possible is taken (`WF` of the stderr reader and of the client, which
reads in a loop). A blocked `blocking_send` waits in the channel's semaphore,
whose queue is first come, first served: a sender that finds room again and
again gets in, which is `SF` of the worker and of the ticker. That commands end, a
child that wants to write does so when it can, and what it leaves behind ends as
well, is `CommandFairness`. It is no part of `LiveSpec` but a hypothesis of the
properties that need it: otherwise a command may hang for ever, and the stream must
still tick. A client may leave at any time and is never forced to.

In `Backend` the runtime polls its tasks and short commands end, so discoveries,
model writes, `Shutdown`, the signal handler and the exit are `WF`. Nothing is assumed
of an installation, which may hang in moss, nor of its client.

## 5. Proofs

TLAPS proves the following for all constants that satisfy the named assumptions.
`PROJECT.json` lists each theorem; an invariant is proved from a stronger one that is
inductive, `IInv` in most modules.

**`InstallTarget_proofs`**: everything its run checks (`InstalledOKAlways`,
`TargetRestoredAlways`, `MountsServedAlways`, `OnlyOwnDevicesWrittenAlways`,
`KeepsPromiseAlways`), for every layout, path tree and number of faults.
`ResolveMountsCorrect`: a request that names no mountpoint twice is resolved to typed
mounts, sorted by length, without duplicates, with the root if it had one;
`ResolutionEntries` says which mounts these are. The invariant has two halves.

`TableInv` is about mounts. `TargetRestored` and `MountsServed` are not inductive: they
speak of the ends of a call and say nothing of the steps between. `CallInv` says which
call a control point belongs to, and that its plan is sorted, free of duplicates and
clear of the bind mounts; `HeldInv` that the short calls hold one mount or none;
`LedgerInv` that the table is `base` with exactly the mounts of `mounted` on top, unless
something went wrong with an umount; `ScheduleInv` that the top of the table is the
part of the schedule mounted so far, whatever lies below. `LedgerInv` needs that undoing
the last mount always finds it: nothing is stacked above it and its path is visible
(`UnmountLast`). `MountsServed` follows from `ScheduleInv` and `ResolveMountsCorrect`: a
later mount of a sorted plan cannot cover an earlier mountpoint, since an ancestor's path
is shorter (`LaterDoesNotCover`), and no bind mount is above a mountpoint of the plan.

`DiskInv` is about the disks: how far a call got says which artifacts the volumes of its
layout carry. `VolumeInv` says that the default subvolume of a root is the one the system
is installed in, once it is mounted by device alone; `RootInv` and `BootInv`
what is on the root and boot partitions after each command; `MachineIdInv` and `FstabInv`
what became of the live medium's machine-id, unless it could not be removed, and what
fstab lists; `DirtyInv` that only
mounted partitions have unwritten data. It rests on `MountsServed`: a file written below
the target lands on the device that the plan has there (`RootLanding`, `PlanLanding`,
`StoreEffect`), whatever an earlier call leaked underneath, and for that reason
`OnlyOwnDevicesWritten` holds. For `KeepsPromise` each command is a step of `Promise` or a
stutter: what the root carries grows by one stage at a time (`GrowPromise`), no command
takes away what the client has been told of, and success is told when it is there.

**`Backend_proofs`**: `MountsOKAlways`, `AttributedAlways`, `CallersServedAlways`, and with
it `NoCallerAbandonedAlways`, without a hypothesis: for any set of calls, however they
interleave and whichever umounts fail. `BaseInv` says what kind of call is where and that
what a partition carries it has carried. `MountsOwned` is inductive in itself: each action
that adds or detaches a mount, or fails to, moves one call to or from the control points
that account for one. `HoldInv`: a call that uses its directory, and that nobody has
crossed, has its own partition on top, whatever lies below; it is set by that call's own
mount and lost only by a mount or umount at the same directory, which is what crosses it.
`HomeInv` and `WrittenInv` follow what such a call writes.

**`Wizard_proofs`**: `ModelOKAlways`, `EveryStepOnceAlways` and `ReproducesAlways`, for
all strategies, selections, languages and documents. `WalkInv`: the steps performed are
the first of `Steps`, and the next one is active. `ModelInv`: what a step leaves in the
model is still there after the later ones, and a model that names a selection has its
mandatory packages. `RecordInv`: a record holds everything an installation needs.
`ReproducesInv`: until the end of a walk from a record alone, the model follows the
record.

**`SelectionsNavigation_proofs`**, of `Selections`: `LoopInvariant`,
`ResolveComputesClosure` and `MandatoryCarriedAlways`, for every set of definitions. The
invariant is the usual one of a search: what is visited or on the stack lies in the
closure, and whatever a visited selection depends on is visited or on the stack. When the
stack is empty the visited set is closed, and the closure is the least such set
(`ClosureLeast`). Of `Navigation`: `NavigableAlways`, `BackAndForthAlways` and
`NothingSkippedEver`, for every set of ids and every order. They rest on each id having
one place in the order (`OnceEach`).

**`InstallStream_proofs`**: `TypeCorrect`, `TruthfulVerdictAlways`,
`ErrorDetailCompleteAlways` and `TellsAsPromisedAlways`, for every list of commands and
every size of channel, pipe and tail. `ChannelInv`: no verdict is in the channel before
the worker's last step, and only the right one. `WorkerInv`: where the worker is says how
many commands have succeeded. `PipeInv`: a line written is in its pipe or recorded, until
a bad line breaks the pipe. `ReaderInv`: the worker leaves a pipe only at its end and a
child only with both read. `TailInv`: the tail holds, of each pipe, the latest of what is
recorded, and all of it unless it is full. The last theorem is the step half of the
refinement of `Promise`.

**`Provisioning_proofs`**: `TypeCorrect`, `NoWriteBeforeValidationAlways`,
`OnlyRequestedDrivesAlways` and `AppliedIsThereAlways`, for every planner that keeps
`PlannerAssumption`. The code compares the numbers of requested and of found disks;
`CountsAgree` proves that this is enough, since a repeated request finds fewer. The
invariant says which disks are selected, planned, simulated and written at each point of
the call, and, as long as no drive moves, what the writes have left.

**`StorageDocuments_proofs`**, of `StorageStep`: `PlanOKAlways`,
`DefaultsReproduceAlways` and `PreviewIsMountedAlways`, for every set of strategies, every
order in which the backend lists them, and every set of mkfs helpers. `StepInv`: the viable
strategies are listed once each, a chosen item is one that was shown, and the plan is a
viable one of its layout. Every viable strategy is found again under the item of its layout
(`DisplayFolds`), which is where the preselected item comes from. For the preview, the
backend's result does not depend on the order in which its stable sort meets the mounts
(`ResolvedAre`), a plan has one root, so the preview and `expand_subvolumes` mean the same
partition by it (`RootsAgree`), and both come to `Common`: the preview by its branches
(`PreviewIsCommon`), the backend by expanding and sorting (`MountedIsCommon`).

Of `Documents`: `DocumentsOKAlways`, `MergePrefersLiveAlways` and `EditsAreLocalAlways`,
for all texts, packages and models, and any number of edits. `DocsInv`: a document on the
disk has only nodes that the installer, moss or an edit put there, and until an edit the
system-model in the record is the one beside it. `Reads` says what a list of nodes makes of a
field: the last string of its name counts. `FieldsKept` shows that applying node after node
computes it, and `ReadsNamed` that it depends on the nodes of that name alone, which is
`EditsAreLocal`. For `RoundTripOf`, `Written` says which nodes a record has, and
`WrittenReads` reads them: an empty text is not written and its field stays as in
`Model::default`, empty as well.

Both rest on lemmas about `Positions` (`InOrderIs`, `PickIs`) and about functions defined by
recursion up to a number (`Recursion`, `Upwards`), from the well-foundedness of the natural
numbers.

**`Engine_proofs`**: `TypeCorrect`, `MountsUndoneAlways`, `SuccessInstallsAlways` and
`OnlyChosenWrittenAlways`, for every set of partitions and any number of runs and silent
failures. `BaseInv` holds whatever fails: the answers are partitions of their kinds
(`ChoiceInv`), and only boot partitions carry the boot filesystem (`KindInv`). `RunInv`
ties the place reached in the list of steps, or of cleanups, to the mounts that stand on
what the run found (`Grown`) and to what has been achieved on the disks (`Achieved`), as
long as no command failed unseen. A mount step adds one mount (`AttachGrows`), a cleanup
takes the last one off (`DetachTop`), and on top of whatever a run found it sees its own
root, ESP and XBOOTLDR (`TargetShown`). `KnownInv` holds even if commands fail unseen:
only what was answered, or was mounted before, is mounted during a run.

Assumptions, all evaluated by TLC on the instances:

| Assumption | What it says |
|---|---|
| `PathAssumption`, `MountpointAssumption` | paths have lengths, and a proper ancestor is shorter than its descendants |
| `RequestAssumption` | a layout names no mountpoint twice and none at or below a bind mount; role mounts of the shipped strategies are `/`, `/boot`, `/efi` |
| `InstallAssumption` | the live medium's file systems are not partitions of the layout |
| `BackendAssumption` | neither of the probe and the target directory lies below the other |
| `WizardAssumption` | constants are typed; `""`, "none" and "absent" are no names |
| `OfferedReachMandatory` (`Wizard`, `Selections`) | the server depends, directly or not, on the base, every other selection that is offered on the common part: a fact of `data/selections` |
| `SelectionsAssumption` | definitions list names, and the named constants are selections |
| `StreamAssumption` | buffers have room for at least one |
| `PlannerAssumption` | a planner plans for the drives it was shown and formats only partitions of its own tables |
| `NavigationAssumption` | plugins are registered under ids |
| `StorageAssumption` | there are finitely many strategies, an id is its base and its suffix, and a plan lists its role mounts, with one root at most: `plans.rs` reads them off the partitions of a plan, and each shipped strategy has one with the role `/` |
| `DocumentsAssumption` | constants are typed; a selection has finitely many mandatory packages; `Model::default` has no strategy, disk or desktop (`derive(Default)`), only a locale and a timezone (`region.rs` 14-23) |
| `EngineAssumption` | the bind directories are below the target's root, beside `/efi` and `/boot`, and these beside each other; tmpfs is no partition; the boot filesystem is none the user can choose |

Only model-checked: liveness (`Returns`, `ClientAnswered`, `ThreadsEnd`,
`StreamNeverIdles`, `ShutdownCompletes`), which is out of the prover's reach.

## 6. Limits

- Some of what the documentation says or suggests the code does not bring about. The
  models have the behaviours, and the properties name the exception they make for them:
  - The server keeps no call out while another uses the same directory
    (`install_service.rs` 36 and 39). Of two discoveries that overlap, one may report the
    other's model under its own partition ("the model was found on", `install.proto` 42);
    of two writing calls, for instance a worker whose client is gone and the next run, one may
    write to the other's root and both succeed. `Attributed`, `SuccessIsOnDisk` and
    `WritesAtHome` leave out the calls in `crossed`; without that TLC finds both.
  - A discovery may probe a partition that is mounted ("never touch", line 241), since it
    read the mounts too early or could not read them (`BeginDiscover`).
  - If the machine-id that the packages brought cannot be removed, the target keeps the
    live medium's, and the installation succeeds (lines 394-401). `OwnMachineId` leaves out
    the calls that are `kept`.
  - The previous installer may fail to find where it runs, and then offers that disk, too
    (`old/crates/installer/src/engine.rs` 64-82; `Answer`).
  - It reports success whatever became of the commands it captures
    (`old/lichen_cli/src/main.rs` 50-64 and 380). `SuccessInstalls` asks for `silent = 0`.
- Refresh OS takes the recorded strategy without asking for its mkfs. `StorageStep` has it
  as it is; what is left is the failure of the mkfs, which is `Provisioning`'s. No property
  is about which of two documents on a disk a discovery should prefer: nothing in the
  repository says so.
- A `Shutdown` that is answered after the signal handler has returned panics in its
  handler (`panicked` in `Backend`); the model has the step, no property is about it.
- `sync` is not modelled per file: a device is dirty or not. Disk contents are a set of
  artifacts per volume. `moss` is assumed to need a system-model and an index, and to
  write boot entries to the boot mounts of the layout.
- KDL is modelled as nodes with arguments and properties; its syntax and the wording of
  errors are not. Which repository URIs `repositories` finds in a document is left out.
  Prompts, logging and progress texts are not modelled.
- `old/` is outside the workspace build and includes data files that are not in the
  repository (`selections/*.json`); `Engine` takes what it does from its code alone, and
  leaves out package groups and the locale registry.

### Not modelled

The disk and locale services and the OS-info parser answer queries from `/sys`, a
locale table and `os-release` and keep no state; what they answer is an input of
`Wizard`, `StorageStep` and `Provisioning`. `protocols` holds message definitions and
conversions. disks-rs, moss, btrfs-progs and the kernel are outside the repository and
appear as operators marked external.

## 7. Plan

1. Done: every component with state of its own; the proofs of section 5.
2. Done: every invariant and every action property that a run checks is proved for all
   constants, the refinement of `Promise` included.
3. Open: a change to the code that a model translates is followed there first, by TLC, then
   in the proofs. Worth adding when the code comes to have it: turns that the server
   enforces (no call would be crossed, and the conditions of `Attributed` and
   `CallersServed` could go), a check that the machine-id is gone, and a check of
   `ApplyStrategy` against the plan that was shown.
