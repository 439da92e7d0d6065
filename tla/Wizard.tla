------------------------------- MODULE Wizard -------------------------------
(***************************************************************************)
(* The CLI: model documents are imported from the command line or found on *)
(* the disk, the frontend walks through the steps, each of which asks the  *)
(* user or takes what was imported, and the summary installs the model and *)
(* leaves a record of it, which a later run can import again.  The backend *)
(* is Provisioning's and InstallTarget's subject.                          *)
(***************************************************************************)
EXTENDS Integers, Sequences, FiniteSets, SequencesExt

CONSTANTS
    Strategy,      \* the builtin strategies
    Viable,        \* the sets of strategies that may have a plan for the disk
    FsPackages,    \* strategy |-> the userspace packages of its root filesystem
    Selection,     \* the embedded selections; "" is none of them
    Hidden,        \* the selections that are not offered
    Implicit,      \* the selections that are always installed
    Headless,      \* the selection whose mandatory part is Base ("server")
    Base, Common,  \* "base" and "desktop-common"
    Depends,       \* selection |-> the selections it depends on
    PackagesOf,    \* selection |-> its own packages
    Package,
    Locale, DefaultLocale,
    Timezone, DefaultTimezone,
    Account,       \* root passwords and users; None is neither
    None, Absent,
    Documents,     \* the documents a first run may find or be given
    MaxRuns        \* bound on the runs of the CLI

Steps == <<"storage", "locale", "timezone", "desktop", "accounts", "summary">>

\* What documents give for a field: whatever their authors wrote there.
Named(values) == values \ {Absent}

LocaleName    == Locale \cup Named({d.locale : d \in Documents})
TimezoneName  == Timezone \cup Named({d.timezone : d \in Documents})
StrategyName  == Strategy \cup Named({d.strategy : d \in Documents})
SelectionName == Selection \cup Named({d.selection : d \in Documents})
PackageName   == Package \cup UNION Named({d.packages : d \in Documents})
AccountName   == Account \cup Named({d.root : d \in Documents} \cup {d.user : d \in Documents})

\* None and Absent stand for no value and no node: nothing that the program
\* picks from or a document gives is one of them.
ASSUME WizardAssumption ==
    /\ {Base, Common, Headless} \cup Implicit \cup Hidden \subseteq Selection
    /\ PackagesOf \in [Selection -> SUBSET Package]
    /\ FsPackages \in [Strategy -> SUBSET Package]
    /\ DefaultLocale \in Locale /\ DefaultTimezone \in Timezone
    /\ \A v \in Viable : v \subseteq Strategy
    /\ "" \notin Strategy \cup Locale \cup Timezone \cup Selection
    /\ None \notin Strategy \cup LocaleName \cup TimezoneName \cup SelectionName \cup Account
    /\ Absent \notin Strategy \cup Locale \cup Timezone \cup Selection \cup {"", None}
    /\ \A S \in SUBSET PackageName : S # Absent
    /\ MaxRuns \in Nat

VARIABLES
    phase,      \* start, steps, installed, aborted
    model,      \* the installation model the steps fill in
    active,     \* the active step of the Installer
    available,  \* the steps navigation may reach
    viable,     \* the strategies with a plan for the chosen disk
    onDisk,     \* the document a previous installation left, or None
    source,     \* the documents this run has imported
    asked,      \* the fields the user was asked for in this run
    visited,    \* the steps performed, in order
    emitted,    \* the records of the installations so far
    runs        \* runs of the CLI so far

vars == <<phase, model, active, available, viable, onDisk, source, asked, visited, emitted, runs>>

-----------------------------------------------------------------------------
(***************************************************************************)
(* Selections and documents.                                               *)
(***************************************************************************)

ClosedUnderDepends(S) == \A s \in S : Depends[s] \subseteq S

\* The selections that resolve(name) visits: the dependency closure of the
\* implicit ones and name.
Closure(name) ==
    {s \in Selection :
        \A S \in SUBSET Selection : ClosedUnderDepends(S) /\ Implicit \cup {name} \subseteq S => s \in S}

Resolve(name) == UNION {PackagesOf[s] : s \in Closure(name)}

\* mandatory: what an import is never without.
MandatoryRoot(name) == IF name = Headless THEN Base ELSE Common

Mandatory(name) == Resolve(MandatoryRoot(name))

\* In the embedded selections, every one that is offered depends, directly or
\* not, on the one that is mandatory with it.
ASSUME OfferedReachMandatory == \A d \in Selection \ Hidden : MandatoryRoot(d) \in Closure(d)

DefaultModel ==
    [imported |-> FALSE, strategy |-> "", plan |-> None, locale |-> DefaultLocale,
     timezone |-> DefaultTimezone, selection |-> "", packages |-> {}, root |-> None, user |-> None]

Given(field, otherwise) == IF field = Absent THEN otherwise ELSE field

\* variant: the locale and timezone are taken whether or not there are such nodes
ApplyWithoutDefaults(m, doc) ==
    [m EXCEPT !.strategy = Given(doc.strategy, @), !.locale = doc.locale,
              !.timezone = doc.timezone, !.selection = Given(doc.selection, @),
              !.packages = Given(doc.packages, @), !.root = Given(doc.root, @),
              !.user = Given(doc.user, @)]

\* apply_install_model: absent nodes leave their fields alone.
ApplyInstallModel(m, doc) ==
    [m EXCEPT !.strategy = Given(doc.strategy, @), !.locale = Given(doc.locale, @),
              !.timezone = Given(doc.timezone, @), !.selection = Given(doc.selection, @),
              !.packages = Given(doc.packages, @), !.root = Given(doc.root, @),
              !.user = Given(doc.user, @)]

\* apply_system_model: the package set and nothing else.
ApplySystemModel(m, doc) == [m EXCEPT !.packages = Given(doc.packages, @)]

FromKdl(doc) ==
    IF doc.form = "install" THEN ApplyInstallModel(DefaultModel, doc)
    ELSE ApplySystemModel(DefaultModel, doc)

\* variant: an import brings its packages and nothing more
AsListed(m) == [m EXCEPT !.imported = TRUE]

\* ensure_mandatory, on the command line as in the refresh of a disk.
Imported(m) == [m EXCEPT !.imported = TRUE, !.packages = @ \cup Mandatory(m.selection)]

\* A field that is empty is left out of a record.
Recorded(value) == IF value \in {"", None} THEN Absent ELSE value

\* variant: the record forgets the desktop
ToKdlWithoutDesktop(m) ==
    [form |-> "install", strategy |-> Recorded(m.strategy), locale |-> Recorded(m.locale),
     timezone |-> Recorded(m.timezone), selection |-> Absent, packages |-> m.packages,
     root |-> Recorded(m.root), user |-> Recorded(m.user)]

\* to_kdl: the record of an installation.
ToKdl(m) ==
    [form |-> "install", strategy |-> Recorded(m.strategy), locale |-> Recorded(m.locale),
     timezone |-> Recorded(m.timezone), selection |-> Recorded(m.selection),
     packages |-> m.packages, root |-> Recorded(m.root), user |-> Recorded(m.user)]

-----------------------------------------------------------------------------
(***************************************************************************)
(* Navigation.                                                             *)
(***************************************************************************)

Position(step) == CHOOSE i \in DOMAIN Steps : Steps[i] = step

\* variant: the first later step is taken, available or not
NextOfAll(step) == {i \in DOMAIN Steps : i > Position(step)}

\* The later steps that are available; the first of them is next.
Following(step) == {i \in DOMAIN Steps : i > Position(step) /\ Steps[i] \in available}

FirstOf(S) == CHOOSE i \in S : \A j \in S : i <= j

Init ==
    /\ phase = "start"
    /\ model = DefaultModel
    /\ active = "storage"
    /\ available = {}
    /\ viable = {}
    /\ onDisk \in Documents \cup {None}
    /\ source = {}
    /\ asked = {}
    /\ visited = <<>>
    /\ emitted = {}
    /\ runs = 0

\* The documents on the command line are read and main starts the frontend with
\* every step but the summary available.  A system-model's packages replace those
\* of an install-model.
Start ==
    /\ phase # "steps"
    /\ runs < MaxRuns
    /\ runs' = runs + 1
    /\ \E install \in {d \in Documents \cup emitted : d.form = "install"} \cup {None},
          system \in {d \in Documents : d.form = "system"} \cup {None} :
          LET first  == IF install = None THEN DefaultModel ELSE ApplyInstallModel(DefaultModel, install)
              second == IF system = None THEN first ELSE ApplySystemModel(first, system)
          IN  /\ source' = {install, system} \ {None}
              /\ model' = IF source' = {} THEN DefaultModel ELSE Imported(second)
    /\ phase' = "steps"
    /\ active' = "storage"
    /\ available' = ToSet(Steps) \ {"summary"}
    /\ viable' \in Viable
    /\ asked' = {}
    /\ visited' = <<>>
    /\ UNCHANGED <<onDisk, emitted>>

\* The loop of run_internal after a step: the next available one, and, when there
\* is none, the summary, which becomes available then.
Advance ==
    /\ visited' = Append(visited, active)
    /\ IF Following(active) # {}
       THEN active' = Steps[FirstOf(Following(active))] /\ UNCHANGED available
       ELSE active' = "summary" /\ available' = available \cup {"summary"}
    /\ UNCHANGED <<phase, viable, onDisk, emitted, runs>>

Perform(step) == phase = "steps" /\ active = step

-----------------------------------------------------------------------------
(***************************************************************************)
(* The steps.                                                              *)
(***************************************************************************)

\* The user picks one of the viable strategies.
Partition ==
    /\ Perform("storage")
    /\ \E s \in viable : model' = [model EXCEPT !.strategy = s, !.plan = s]
    /\ asked' = asked \cup {"strategy"}
    /\ Advance
    /\ UNCHANGED source

\* "Refresh OS": the model becomes the one found on the disk, with the strategy
\* recorded in it or, if that is not viable, the first that is, in the order of a
\* hash map.
Refresh ==
    /\ Perform("storage")
    /\ onDisk # None
    /\ LET found == Imported(FromKdl(onDisk))
       IN  \E s \in IF found.strategy \in viable THEN {found.strategy} ELSE viable :
              model' = [found EXCEPT !.strategy = s, !.plan = s]
    /\ source' = {onDisk}
    /\ asked' = {"strategy"}
    /\ Advance

LocaleStep ==
    /\ Perform("locale")
    /\ IF model.imported /\ model.locale # ""
       THEN UNCHANGED <<model, asked>>
       ELSE /\ \E l \in Locale : model' = [model EXCEPT !.locale = l]
            /\ asked' = asked \cup {"locale"}
    /\ Advance
    /\ UNCHANGED source

TimezoneStep ==
    /\ Perform("timezone")
    /\ IF model.imported /\ model.timezone # ""
       THEN UNCHANGED <<model, asked>>
       ELSE /\ \E z \in Timezone : model' = [model EXCEPT !.timezone = z]
            /\ asked' = asked \cup {"timezone"}
    /\ Advance
    /\ UNCHANGED source

\* A picked desktop decides the packages, all of them.
Desktop ==
    /\ Perform("desktop")
    /\ IF model.imported /\ model.selection # ""
       THEN UNCHANGED <<model, asked>>
       ELSE /\ \E d \in Selection \ Hidden :
                  model' = [model EXCEPT !.selection = d, !.packages = Resolve(d)]
            /\ asked' = asked \cup {"desktop"}
    /\ Advance
    /\ UNCHANGED source

\* variant: one imported account is enough
HasAnyAccount == model.root # None \/ model.user # None

\* Imported accounts are offered to be kept when there are both.
HasAccounts == model.root # None /\ model.user # None

Accounts ==
    /\ Perform("accounts")
    /\ \/ HasAccounts /\ UNCHANGED <<model, asked>>
       \/ /\ \E r, u \in Account : model' = [model EXCEPT !.root = r, !.user = u]
          /\ asked' = asked \cup {"accounts"}
    /\ Advance
    /\ UNCHANGED source

\* ensure_filesystem_packages
WithFsPackages(m) == [m EXCEPT !.packages = @ \cup FsPackages[m.strategy]]

\* The user confirms the summary and the backend installs the model.
Install ==
    /\ Perform("summary")
    /\ model.plan # None
    /\ model' = WithFsPackages(model)
    /\ phase' = "installed"
    /\ onDisk' = ToKdl(model')
    /\ emitted' = emitted \cup {onDisk'}
    /\ visited' = Append(visited, "summary")
    /\ UNCHANGED <<active, available, viable, source, asked, runs>>

\* The backend fails before the disk is formatted, before the model is written,
\* or after that.
InstallFails ==
    /\ Perform("summary")
    /\ phase' = "aborted"
    /\ onDisk' \in {onDisk, None, ToKdl(WithFsPackages(model))}
    /\ UNCHANGED <<model, active, available, viable, source, asked, visited, emitted, runs>>

\* The user presses Escape in any step, or no strategy is viable.
Abort ==
    /\ phase = "steps"
    /\ phase' = "aborted"
    /\ UNCHANGED <<model, active, available, viable, onDisk, source, asked, visited, emitted, runs>>

Next ==
    \/ Start
    \/ Partition \/ Refresh \/ LocaleStep \/ TimezoneStep \/ Desktop \/ Accounts
    \/ Install \/ InstallFails \/ Abort

Spec == Init /\ [][Next]_vars

-----------------------------------------------------------------------------
(***************************************************************************)
(* Properties.                                                             *)
(***************************************************************************)

ModelType ==
    [imported : BOOLEAN, strategy : StrategyName \cup {""}, plan : Strategy \cup {None},
     locale : LocaleName \cup {""}, timezone : TimezoneName \cup {""},
     selection : SelectionName \cup {""}, packages : SUBSET PackageName,
     root : AccountName \cup {None}, user : AccountName \cup {None}]

TypeOK ==
    /\ phase \in {"start", "steps", "installed", "aborted"}
    /\ model \in ModelType
    /\ active \in ToSet(Steps)
    /\ available \subseteq ToSet(Steps)
    /\ viable \subseteq Strategy
    /\ asked \subseteq {"strategy", "locale", "timezone", "desktop", "accounts"}
    /\ Len(visited) <= Len(Steps)
    /\ runs \in 0..MaxRuns

\* "An imported model never installs less than a bootable system": whatever was
\* imported and picked, the mandatory packages are installed, and the tools of
\* the root filesystem.
Bootable ==
    phase = "installed" =>
        Mandatory(model.selection) \cup FsPackages[model.strategy] \subseteq model.packages

\* No import lets the walk skip a question whose answer the installation needs.
NothingMissing ==
    phase = "installed" =>
        /\ model.plan = model.strategy
        /\ model.locale # "" /\ model.timezone # "" /\ model.selection # ""
        /\ model.root # None /\ model.user # None

\* The model that is installed is well typed, complete and bootable.
ModelOK == TypeOK /\ Bootable /\ NothingMissing

\* Every step is performed once, in order, and the summary last of all.
EveryStepOnce ==
    /\ phase = "installed" => visited = Steps
    /\ phase = "steps" => active \in available /\ ~Contains(visited, active)

\* "Re-importing it reproduces the installation": the record of an installation,
\* imported from a file or found on the disk, leads to the very same record, if
\* the user keeps the accounts and the recorded strategy is taken.
Reproduces ==
    phase = "installed" =>
        \A record \in emitted :
            source = {record} /\ model.strategy = record.strategy /\ "accounts" \notin asked
                => ToKdl(model) = record

\* "A bare system-model can be ingested (packages) and decorated interactively
\* into a full install-model."
IngestedPackagesKept ==
    phase = "installed" =>
        \A d \in source : d.form = "system" /\ d.packages # Absent => d.packages \subseteq model.packages

=============================================================================
