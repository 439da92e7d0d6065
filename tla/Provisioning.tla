---------------------------- MODULE Provisioning ----------------------------
(***************************************************************************)
(* The way to the point of no return: a client tries strategies on disks,  *)
(* shows the user a plan, asks for confirmation, and has the backend apply *)
(* the strategy.  ApplyStrategy discovers the disks and plans once more,   *)
(* simulates every disk, writes every partition table and makes every      *)
(* filesystem; each of these may fail.  Meanwhile drives may be unplugged  *)
(* or come back under another path.  The planner (disks-rs) is external.   *)
(***************************************************************************)
EXTENDS Integers, Sequences, FiniteSets

CONSTANTS
    Disk,           \* device paths, /dev/sda and so on
    Drive,          \* the drives behind them
    NoDrive,        \* what is behind a path without a drive
    Strategy,       \* the builtin strategies
    Unknown,        \* a strategy id the backend does not know
    Layout,         \* what can be in a partition table
    PartsOf(_),     \* the partitions of a layout, "old" and "torn" included
    PlansOf(_, _),  \* strategy and view (disk |-> drive) to the set of its plans
    Selections,     \* the sequences of disks a client may ask for
    MaxSwaps        \* bound on hardware changes

\* What can be on a drive: a layout of this backend, the user's data, or half
\* of a write.
TableType == Layout \cup {"old", "torn"}

\* A plan is [layouts, formats]: the layout each of its disks gets, and its
\* filesystems in the order they are made, each [disk, part].
ASSUME PlannerAssumption ==
    /\ IsFiniteSet(Disk)
    /\ NoDrive \notin Drive
    /\ Unknown \notin Strategy
    /\ MaxSwaps \in Nat
    /\ \A disks \in Selections : disks \in Seq(Disk)
    /\ \A s \in Strategy, S \in SUBSET Disk : \A view \in [S -> Drive] :
          /\ IsFiniteSet(PlansOf(s, view))
          /\ \A p \in PlansOf(s, view) :
             /\ DOMAIN p.layouts \in SUBSET S \ {{}}
             /\ \A d \in DOMAIN p.layouts : p.layouts[d] \in Layout
             /\ Len(p.formats) \in Nat /\ DOMAIN p.formats = 1..Len(p.formats)
             /\ \A i \in DOMAIN p.formats :
                   /\ p.formats[i].disk \in DOMAIN p.layouts
                   /\ p.formats[i].part \in PartsOf(p.layouts[p.formats[i].disk])

VARIABLES
    behind,     \* the drive behind each path
    table,      \* what is on each drive
    made,       \* the partitions of each drive with a filesystem made on this table
    swaps,      \* hardware changes so far
    client,     \* choosing, shown, applying, applied, failed
    request,    \* the strategy and the disks the client has chosen
    shown,      \* the plans the user has been shown: the one of the request, or none
    call,       \* ApplyStrategy: idle, select, plan, simulate, write, format
    selected,   \* the disks it has discovered, with the drives seen there
    plan,       \* the plan it made, in a set of at most one
    simulated,  \* the disks that passed the simulation
    rewritten,  \* the disks whose table was written
    next,       \* the filesystem to make next
    before      \* what was on each drive when the call began

hardware == <<behind, table, made>>
backend == <<call, selected, plan, simulated, rewritten, next>>
vars == <<hardware, swaps, client, request, shown, backend, before>>

NoRequest == [strategy |-> Unknown, disks |-> <<>>]
NoView == [d \in {} |-> NoDrive]

Init ==
    /\ behind \in [Disk -> Drive \cup {NoDrive}]
    /\ \A d, e \in Disk : behind[d] = behind[e] /\ behind[d] # NoDrive => d = e
    /\ table = [h \in Drive |-> "old"]
    /\ made = [h \in Drive |-> {}]
    /\ swaps = 0
    /\ client = "choosing"
    /\ request = NoRequest
    /\ shown = {}
    /\ call = "idle"
    /\ selected = NoView
    /\ plan = {}
    /\ simulated = {}
    /\ rewritten = {}
    /\ next = 1
    /\ before = table

-----------------------------------------------------------------------------
(***************************************************************************)
(* The client.                                                             *)
(***************************************************************************)

Requested(disks) == {disks[i] : i \in DOMAIN disks}

\* Discovery sees the drives that are there.
Discovered == {d \in Disk : behind[d] # NoDrive}

\* variant: any of the requested disks will do
SelectsSome(disks) == Requested(disks) \cap Discovered # {}

\* selected_devices: some disk is requested, and the devices found are as many
\* as the requested paths.
Selects(disks) ==
    /\ disks # <<>>
    /\ Cardinality(Requested(disks) \cap Discovered) = Len(disks)

View(disks) == [d \in Requested(disks) \cap Discovered |-> behind[d]]

\* TryStrategy lists the plans of a known strategy; the storage step keeps the
\* first and shows it to the user.  Nothing is written.
TryStrategy ==
    /\ client = "choosing"
    /\ \E s \in Strategy, disks \in Selections :
          /\ Selects(disks)
          /\ \E p \in PlansOf(s, View(disks)) :
                /\ shown' = {p}
                /\ request' = [strategy |-> s, disks |-> disks]
    /\ client' = "shown"
    /\ UNCHANGED <<hardware, swaps, backend, before>>

\* "Erase and install?", answered with no by default.
Decline ==
    /\ client = "shown"
    /\ client' = "failed"
    /\ UNCHANGED <<hardware, swaps, request, shown, backend, before>>

CallApply ==
    /\ client' = "applying"
    /\ call' = "select"
    /\ before' = table
    /\ UNCHANGED <<hardware, swaps, shown, selected, plan, simulated, rewritten, next>>

Confirm ==
    /\ client = "shown"
    /\ CallApply
    /\ UNCHANGED request

\* A program that calls ApplyStrategy without having tried anything.
ApplyBlindly ==
    /\ client = "choosing"
    /\ \E s \in Strategy \cup {Unknown}, disks \in Selections :
          request' = [strategy |-> s, disks |-> disks]
    /\ CallApply

\* A new run of the CLI, on whatever the last one left on the drives.
StartOver ==
    /\ client \in {"applied", "failed"}
    /\ client' = "choosing"
    /\ request' = NoRequest
    /\ shown' = {}
    /\ selected' = NoView
    /\ plan' = {}
    /\ simulated' = {}
    /\ rewritten' = {}
    /\ next' = 1
    /\ before' = table
    /\ UNCHANGED <<hardware, swaps, call>>

-----------------------------------------------------------------------------
(***************************************************************************)
(* ApplyStrategy.                                                          *)
(***************************************************************************)

Fail ==
    /\ call' = "idle"
    /\ client' = "failed"

\* An unknown strategy or a missing disk is refused.
SelectDevices ==
    /\ call = "select"
    /\ IF request.strategy # Unknown /\ Selects(request.disks)
       THEN call' = "plan" /\ selected' = View(request.disks) /\ UNCHANGED client
       ELSE Fail /\ UNCHANGED selected
    /\ UNCHANGED <<hardware, swaps, request, shown, plan, simulated, rewritten, next, before>>

\* variant: the first of several plans will do
MakeAnyPlan ==
    /\ call = "plan"
    /\ LET plans == PlansOf(request.strategy, selected)
       IN  IF plans # {}
           THEN call' = "simulate" /\ plan' = plans /\ UNCHANGED client
           ELSE Fail /\ UNCHANGED plan
    /\ UNCHANGED <<hardware, swaps, request, shown, selected, simulated, rewritten, next, before>>

\* The strategy is planned anew; anything but exactly one plan is refused.
MakePlan ==
    /\ call = "plan"
    /\ LET plans == PlansOf(request.strategy, selected)
       IN  IF Cardinality(plans) = 1
           THEN call' = "simulate" /\ plan' = plans /\ UNCHANGED client
           ELSE Fail /\ UNCHANGED plan
    /\ UNCHANGED <<hardware, swaps, request, shown, selected, simulated, rewritten, next, before>>

ThePlan == CHOOSE p \in plan : TRUE
PlanDisks == UNION {DOMAIN p.layouts : p \in plan}

\* variant: each disk is written as soon as it has been simulated
SimulateOne(d) ==
    /\ call = "simulate"
    /\ d \in PlanDisks \ simulated
    /\ \/ simulated' = simulated \cup {d} /\ call' = "write" /\ UNCHANGED client
       \/ Fail /\ UNCHANGED simulated
    /\ UNCHANGED <<hardware, swaps, request, shown, selected, plan, rewritten, next, before>>

\* One disk of the plan is simulated; the map of the plan's disks has no order.
Simulate(d) ==
    /\ call = "simulate"
    /\ d \in PlanDisks \ simulated
    /\ \/ /\ simulated' = simulated \cup {d}
          /\ call' = IF simulated' = PlanDisks THEN "write" ELSE "simulate"
          /\ UNCHANGED client
       \/ Fail /\ UNCHANGED simulated
    /\ UNCHANGED <<hardware, swaps, request, shown, selected, plan, rewritten, next, before>>

Formats == ThePlan.formats

\* The call goes on with filesystem i, or answers with the plan.
Continue(i) ==
    IF i > Len(Formats) THEN call' = "idle" /\ client' = "applied"
    ELSE call' = "format" /\ UNCHANGED client

\* One partition table is written; the write may fail before or in the middle of
\* it.  Nothing that was on the drive is left.
WriteTable(d) ==
    /\ call = "write"
    /\ d \in PlanDisks \ rewritten
    /\ \/ /\ behind[d] # NoDrive
          /\ table' = [table EXCEPT ![behind[d]] = ThePlan.layouts[d]]
          /\ made' = [made EXCEPT ![behind[d]] = {}]
          /\ rewritten' = rewritten \cup {d}
          /\ IF rewritten' = PlanDisks THEN Continue(1) ELSE UNCHANGED <<call, client>>
       \/ /\ behind[d] # NoDrive
          /\ table' = [table EXCEPT ![behind[d]] = "torn"]
          /\ made' = [made EXCEPT ![behind[d]] = {}]
          /\ Fail
          /\ UNCHANGED rewritten
       \/ Fail /\ UNCHANGED <<table, made, rewritten>>
    /\ UNCHANGED <<behind, swaps, request, shown, selected, plan, simulated, next, before>>

MoveOn == next' = next + 1 /\ Continue(next + 1)

\* variant: the exit status of mkfs is not looked at
FormatRegardless ==
    /\ call = "format"
    /\ \/ LET f == Formats[next]
              h == behind[f.disk]
          IN  /\ h # NoDrive
              /\ f.part \in PartsOf(table[h])
              /\ made' = [made EXCEPT ![h] = @ \cup {f.part}]
       \/ UNCHANGED made
    /\ MoveOn
    /\ UNCHANGED <<behind, table, swaps, request, shown, selected, plan, simulated, rewritten, before>>

\* mkfs --force on the next partition, if there is such a device.
Format ==
    /\ call = "format"
    /\ \/ LET f == Formats[next]
              h == behind[f.disk]
          IN  /\ h # NoDrive
              /\ f.part \in PartsOf(table[h])
              /\ made' = [made EXCEPT ![h] = @ \cup {f.part}]
              /\ MoveOn
       \/ Fail /\ UNCHANGED <<made, next>>
    /\ UNCHANGED <<behind, table, swaps, request, shown, selected, plan, simulated, rewritten, before>>

ApplyStrategy ==
    \/ SelectDevices \/ MakePlan
    \/ (\E d \in Disk : Simulate(d) \/ WriteTable(d))
    \/ Format

-----------------------------------------------------------------------------

\* A drive is unplugged, or one that has no path gets a free one.
Hotplug ==
    /\ swaps < MaxSwaps
    /\ swaps' = swaps + 1
    /\ \E d \in Disk, h \in Drive \cup {NoDrive} :
          /\ \A e \in Disk : h # NoDrive => behind[e] # h
          /\ behind[d] = NoDrive \/ h = NoDrive
          /\ behind' = [behind EXCEPT ![d] = h]
    /\ UNCHANGED <<table, made, client, request, shown, backend, before>>

Next ==
    \/ TryStrategy \/ Decline \/ Confirm \/ ApplyBlindly \/ StartOver
    \/ ApplyStrategy
    \/ Hotplug

Spec == Init /\ [][Next]_vars

-----------------------------------------------------------------------------
(***************************************************************************)
(* Properties.                                                             *)
(***************************************************************************)

TypeOK ==
    /\ behind \in [Disk -> Drive \cup {NoDrive}]
    /\ table \in [Drive -> TableType]
    /\ made \in [Drive -> SUBSET UNION {PartsOf(l) : l \in TableType}]
    /\ swaps \in 0..MaxSwaps
    /\ client \in {"choosing", "shown", "applying", "applied", "failed"}
    /\ request \in [strategy : Strategy \cup {Unknown}, disks : Selections \cup {<<>>}]
    /\ Cardinality(shown) <= 1
    /\ call \in {"idle", "select", "plan", "simulate", "write", "format"}
    /\ selected \in UNION {[S -> Drive] : S \in SUBSET Disk}
    /\ Cardinality(plan) <= 1
    /\ simulated \subseteq PlanDisks
    /\ rewritten \subseteq PlanDisks
    /\ next \in Nat
    /\ before \in [Drive -> TableType]

\* "Validate every disk before mutating any of them": while a disk of the plan
\* has not passed the simulation, and for ever if one fails it, every drive holds
\* what it held when the call began.
NoWriteBeforeValidation ==
    call \in {"select", "plan", "simulate"} \/ plan = {} \/ simulated # PlanDisks => table = before

\* "Applying the strategy to only the disks that happened to resolve is not what
\* the user approved": a drive has changed only if every requested path, none
\* named twice, was found, and it is the drive that was behind one of them.
OnlyRequestedDrives ==
    \A h \in Drive : table[h] # before[h] =>
        /\ DOMAIN selected = Requested(request.disks)
        /\ Len(request.disks) = Cardinality(DOMAIN selected)
        /\ swaps = 0 => \E d \in DOMAIN selected : selected[d] = h

\* What ApplyStrategy reports as applied is there: the tables it planned, with
\* every filesystem made after its table was written.
AppliedIsThere ==
    client = "applied" /\ swaps = 0 =>
        \A d \in PlanDisks :
            /\ table[behind[d]] = ThePlan.layouts[d]
            /\ \A i \in DOMAIN Formats : Formats[i].disk = d => Formats[i].part \in made[behind[d]]

\* "Forcing is safe here only because the plan is user-confirmed before
\* apply_strategy is reached": a filesystem is made only for the plan the user
\* was shown.
ForcedPlanWasConfirmed ==
    call = "format" /\ shown # {} => plan = shown

=============================================================================
