----------------------------- MODULE StorageStep -----------------------------
(***************************************************************************)
(* The storage step of the CLI, item by item: which strategies are viable  *)
(* for the disk, how they are folded into one item per layout, what        *)
(* "Refresh OS" and the filesystem prompt make of them, and the plan that  *)
(* is shown.  ResolveMounts is what the backend makes of the same plan.    *)
(***************************************************************************)
EXTENDS Integers, Sequences, SequencesExt, Positions

CONSTANTS
    Strategy,    \* the ids of the strategies the backend knows
    BaseOf,      \* id |-> the id without its filesystem suffix
    FsOf,        \* id |-> the filesystem of the suffix, or None
    FsOrder,     \* the filesystems of FILESYSTEM_CHOICES, in order
    PlanOf,      \* id |-> its plan: the role mounts and the filesystem of each device
    Mountpoint, Length, \* see ResolveMounts
    Gone,        \* the id of a strategy that is no more, in an old document
    None         \* no strategy, no filesystem, no suffix

Backend == INSTANCE ResolveMounts

IsSequence(s) == s \in Seq(ToSet(s))

RootsOf(p) == {i \in DOMAIN p.mounts : p.mounts[i].mountpoint = "/"}

ASSUME StorageAssumption ==
    /\ IsFiniteSet(Strategy) /\ None \notin Strategy /\ Gone \notin Strategy
    /\ IsSequence(FsOrder)
    /\ \A id \in Strategy : FsOf[id] \in Range(FsOrder) \cup {None}
    \* An id is its base and its suffix.
    /\ \A i, j \in Strategy : BaseOf[i] = BaseOf[j] /\ FsOf[i] = FsOf[j] => i = j
    \* The role mounts of a plan are a list, with one root at most.
    /\ \A id \in Strategy :
          /\ IsSequence(PlanOf[id].mounts)
          /\ \A i, j \in RootsOf(PlanOf[id]) : i = j
    /\ {"/", "/home"} \subseteq Mountpoint
    /\ Length \in [Mountpoint -> Nat]

VARIABLES
    phase,    \* probing, listed, filesystem, planned or failed
    viable,   \* the ids of the viable strategies, in the order of a hash map
    mkfs,     \* the filesystems the live medium has a mkfs for
    found,    \* the strategy in the document discovered on the disk, or None
    imported, \* the model came from a document
    strategy, \* the strategy of the model; None is the empty string
    chosen,   \* the item that was chosen: a position, or RefreshIndex
    plan,     \* the strategy whose plan is shown
    defaults  \* every prompt so far was answered with what it preselected

vars == <<phase, viable, mkfs, found, imported, strategy, chosen, plan, defaults>>

Init ==
    /\ phase = "probing"
    /\ viable = <<>>
    /\ mkfs \in SUBSET ToSet(FsOrder)
    /\ found \in Strategy \cup {Gone, None}
    /\ imported \in BOOLEAN
    /\ strategy \in IF imported THEN Strategy \cup {Gone, None} ELSE {None}
    /\ chosen = -1
    /\ plan = None
    /\ defaults = TRUE

-----------------------------------------------------------------------------
(***************************************************************************)
(* The items.                                                              *)
(***************************************************************************)

\* variant: all of them are shown
DisplayAll == [i \in DOMAIN viable |-> i]

\* The places of the first viable strategy of each layout.
Display ==
    InOrder({i \in DOMAIN viable : \A j \in 1..(i - 1) : BaseOf[viable[j]] # BaseOf[viable[i]]})

\* Items are numbered from 0, and the number of viable strategies is Refresh OS.
RefreshIndex == Len(viable)

Items == 0..(Len(Display) - 1) \cup (IF found = None THEN {} ELSE {RefreshIndex})

Layout(item) == BaseOf[viable[Display[item + 1]]]

SameLayout ==
    {item \in 0..(Len(Display) - 1) : strategy \in Strategy /\ Layout(item) = BaseOf[strategy]}

\* variant: what was found on the disk is preselected before what was imported
InitialItemFound ==
    IF found # None THEN RefreshIndex
    ELSE IF imported /\ SameLayout # {} THEN First(SameLayout) ELSE 0

\* The item that is preselected.
InitialItem ==
    IF imported THEN IF SameLayout = {} THEN 0 ELSE First(SameLayout)
    ELSE IF found # None THEN RefreshIndex ELSE 0

\* list_strategies and try_strategy: some have a plan for the disk.
ProbeStrategies ==
    /\ phase = "probing"
    /\ \E S \in SUBSET Strategy : viable' \in SetToSeqs(S)
    /\ phase' = IF viable' = <<>> THEN "failed" ELSE "listed"
    /\ UNCHANGED <<mkfs, found, imported, strategy, chosen, plan, defaults>>

Shows(id) == phase' = "planned" /\ plan' = id /\ strategy' = id

\* variant: the recorded strategy is taken, viable or not
RefreshAsRecorded ==
    /\ phase = "listed"
    /\ found # None
    /\ chosen' = RefreshIndex
    /\ imported' = TRUE
    /\ Shows(found)
    /\ defaults' = (defaults /\ InitialItem = RefreshIndex)
    /\ UNCHANGED <<viable, mkfs, found>>

\* Refresh OS: the model becomes the one found, with its strategy if that is
\* viable, or else with the first one that is.
Refresh ==
    /\ phase = "listed"
    /\ found # None
    /\ chosen' = RefreshIndex
    /\ imported' = TRUE
    /\ Shows(IF found \in ToSet(viable) THEN found ELSE viable[1])
    /\ defaults' = (defaults /\ InitialItem = RefreshIndex)
    /\ UNCHANGED <<viable, mkfs, found>>

ChooseLayout ==
    /\ phase = "listed"
    /\ \E item \in Items :
          /\ found = None \/ item # RefreshIndex
          /\ chosen' = item
          /\ defaults' = (defaults /\ InitialItem = item)
    /\ phase' = "filesystem"
    /\ UNCHANGED <<viable, mkfs, found, imported, strategy, plan>>

-----------------------------------------------------------------------------
(***************************************************************************)
(* select_filesystem.                                                      *)
(***************************************************************************)

\* The viable filesystem variants of the layout, in the order of the choices.
Variants ==
    Pick(FsOrder, {k \in DOMAIN FsOrder :
        \E i \in DOMAIN viable : BaseOf[viable[i]] = Layout(chosen) /\ FsOf[viable[i]] = FsOrder[k]})

Creatable == Pick(Variants, {k \in DOMAIN Variants : Variants[k] \in mkfs})

\* variant: what cannot be created is hidden, whatever is left
AvailableStrictly == Creatable

\* "Never hide everything".
Available == IF Creatable = <<>> THEN Variants ELSE Creatable

WithSuffix(fs) == CHOOSE id \in Strategy : BaseOf[id] = Layout(chosen) /\ FsOf[id] = fs

InitialFs ==
    LET recorded == {i \in DOMAIN Available : WithSuffix(Available[i]) = strategy}
    IN  IF recorded = {} THEN 1 ELSE First(recorded)

\* There is nothing to ask about a layout without variants, or with a single one.
SelectFilesystem ==
    /\ phase = "filesystem"
    /\ IF Available = <<>>
       THEN Shows(viable[Display[chosen + 1]]) /\ UNCHANGED defaults
       ELSE \E i \in DOMAIN Available :
               /\ Shows(WithSuffix(Available[i]))
               /\ defaults' = (defaults /\ (Len(Available) > 1 => i = InitialFs))
    /\ UNCHANGED <<viable, mkfs, found, imported, chosen>>

\* The user presses Escape at any prompt.
Abort ==
    /\ phase \in {"listed", "filesystem"}
    /\ phase' = "failed"
    /\ UNCHANGED <<viable, mkfs, found, imported, strategy, chosen, plan, defaults>>

Next == ProbeStrategies \/ Refresh \/ ChooseLayout \/ SelectFilesystem \/ Abort

Spec == Init /\ [][Next]_vars

-----------------------------------------------------------------------------
(***************************************************************************)
(* The plan: what render_plan shows of it, and what becomes of it.         *)
(***************************************************************************)
Entry(device, mountpoint, subvol) == [device |-> device, mountpoint |-> mountpoint, subvol |-> subvol]

\* variant: @home is shown whatever the plan says about /home
PreviewAlwaysHome(p) ==
    LET root  == p.mounts[First(RootsOf(p))].device
        btrfs == RootsOf(p) # {} /\ p.fstype[root] = "btrfs"
        shown == {Entry(m.device, m.mountpoint, IF btrfs /\ m.mountpoint = "/" THEN "@" ELSE "none") :
                     m \in ToSet(p.mounts)}
    IN  shown \cup (IF btrfs THEN {Entry(root, "/home", "@home")} ELSE {})

\* The mounts of render_plan, which works out the subvolumes for itself.
Preview(p) ==
    LET root  == p.mounts[First(RootsOf(p))].device
        btrfs == RootsOf(p) # {} /\ p.fstype[root] = "btrfs"
        home  == \E i \in DOMAIN p.mounts : p.mounts[i].mountpoint = "/home"
        shown == {Entry(m.device, m.mountpoint, IF btrfs /\ m.mountpoint = "/" THEN "@" ELSE "none") :
                     m \in ToSet(p.mounts)}
    IN  shown \cup (IF btrfs /\ ~home THEN {Entry(root, "/home", "@home")} ELSE {})

\* The mounts the summary requests: those with an absolute path.
Requested(p) == Pick(p.mounts, {i \in DOMAIN p.mounts : p.mounts[i].mountpoint \in Mountpoint})

\* What the backend mounts, once the plan is applied.
Mounted(p) ==
    {Entry(m.device, m.mountpoint, m.subvol) :
        m \in UNION {ToSet(resolved) : resolved \in Backend!Resolutions(Requested(p), p.fstype)}}

-----------------------------------------------------------------------------
(***************************************************************************)
(* Properties.                                                             *)
(***************************************************************************)
TypeOK ==
    /\ phase \in {"probing", "listed", "filesystem", "planned", "failed"}
    /\ ToSet(viable) \subseteq Strategy
    /\ imported \in BOOLEAN /\ defaults \in BOOLEAN
    /\ strategy \in Strategy \cup {Gone, None}
    /\ chosen \in -1..Len(viable)
    /\ plan \in Strategy \cup {None}

\* "Strategy disappeared from the viable list" is never reported: whatever is
\* chosen, the plan shown is one that was tried on this disk.
PlanIsViable == phase = "planned" => plan \in ToSet(viable)

\* The positions of the folded items and the number of Refresh OS, which is that
\* of the unfolded ones, are never taken for one another, and no two items stand
\* for the same layout: the plan is of the layout that was picked.
ItemsToldApart ==
    /\ RefreshIndex \notin 0..(Len(Display) - 1)
    /\ \A i, j \in 0..(Len(Display) - 1) : Layout(i) = Layout(j) => i = j
    /\ phase = "planned" /\ chosen # RefreshIndex => BaseOf[plan] = Layout(chosen)

\* A user who accepts whatever is preselected gets the strategy of the document
\* found on the disk or, before that, of the one that was imported, if it is viable;
\* of an imported one only if the medium can create its filesystem.
DefaultsReproduce ==
    [][/\ Refresh /\ ~imported /\ found \in ToSet(viable) /\ defaults' => plan' = found
       /\ SelectFilesystem /\ defaults' /\ imported /\ strategy \in ToSet(viable) /\ FsOf[strategy] \in mkfs
             => plan' = strategy
       /\ Refresh /\ defaults' => ~imported]_vars

\* Every viable strategy whose filesystem can be created can be had, and when none
\* can be created, all of them: "never hide everything".
NothingHidden ==
    phase = "filesystem" =>
        \A i \in DOMAIN viable :
            BaseOf[viable[i]] = Layout(chosen) /\ FsOf[viable[i]] # None
              /\ (FsOf[viable[i]] \in mkfs \/ Creatable = <<>>)
                => FsOf[viable[i]] \in ToSet(Available)

\* A state is well typed, the plan is viable and the one that was picked, and
\* every other one could have been.
PlanOK == TypeOK /\ PlanIsViable /\ ItemsToldApart /\ NothingHidden

\* "The @/@home layout is applied backend-side for the btrfs root, so it isn't in
\* the role_mounts; reconstruct it here": the mounts shown are those that are made.
PreviewIsMounted ==
    phase = "planned" =>
        {m \in Preview(PlanOf[plan]) : m.mountpoint \in Mountpoint} = Mounted(PlanOf[plan])

=============================================================================
