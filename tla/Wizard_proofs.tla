---------------------------- MODULE Wizard_proofs ----------------------------
(***************************************************************************)
(* Every installation that the wizard ends in is complete and bootable,    *)
(* walked through every step once, and leaves a record that leads to the   *)
(* same installation again, for any selections, strategies and documents.  *)
(***************************************************************************)
EXTENDS Wizard, TLAPS

-----------------------------------------------------------------------------
(***************************************************************************)
(* The inductive invariant.                                                *)
(***************************************************************************)

\* The first n steps have been performed.
Done(n) == n <= Len(visited)

\* The walk: the steps performed are the first of Steps, and the next one is
\* active; the summary is available when it is active and not before.
WalkInv ==
    /\ visited \in Seq(ToSet(Steps)) /\ Len(visited) <= 6
    /\ \A i \in 1..Len(visited) : visited[i] = Steps[i]
    /\ phase = "steps" =>
         /\ ~ Done(6)
         /\ active = Steps[Len(visited) + 1]
         /\ available = IF active = "summary" THEN ToSet(Steps) ELSE ToSet(Steps) \ {"summary"}
    /\ phase = "installed" => Done(6)

\* What a step leaves in the model is still there after the later ones, and a
\* model that names a selection is never without its mandatory packages.
ModelInv ==
    /\ model \in ModelType
    /\ phase \in {"steps", "installed"} =>
         /\ Done(1) => model.plan = model.strategy /\ model.strategy \in Strategy
         /\ Done(2) => model.locale # ""
         /\ Done(3) => model.timezone # ""
         /\ Done(4) => model.selection # ""
         /\ Done(5) => model.root # None /\ model.user # None
         /\ Done(6) => FsPackages[model.strategy] \subseteq model.packages
    /\ model.selection # "" => Mandatory(model.selection) \subseteq model.packages

RecordType ==
    [form : {"install"}, strategy : Strategy, locale : LocaleName \ {""},
     timezone : TimezoneName \ {""}, selection : SelectionName \ {""},
     packages : SUBSET PackageName, root : AccountName \cup {Absent}, user : AccountName \cup {Absent}]

\* The record of an installation names all that was decided, and its packages are
\* all that the installation needs.
Complete(r) ==
    /\ r \in RecordType
    /\ r.root # "" /\ r.root # None /\ r.user # "" /\ r.user # None
    /\ Mandatory(r.selection) \cup FsPackages[r.strategy] \subseteq r.packages

RecordInv ==
    /\ \A r \in emitted : Complete(r)
    /\ onDisk \in Documents \/ onDisk = None \/ Complete(onDisk)

\* A model that was imported from a record holds what the record says.
Follows(m, r) ==
    /\ m.imported
    /\ m.locale = r.locale /\ m.timezone = r.timezone /\ m.selection = r.selection
    /\ m.packages = r.packages
    /\ "accounts" \notin asked => m.root = Given(r.root, None) /\ m.user = Given(r.user, None)

ReproducesInv ==
    /\ phase = "steps" => \A r \in emitted : source = {r} => Follows(model, r)
    /\ Reproduces

WalkTypeOK ==
    /\ phase \in {"start", "steps", "installed", "aborted"}
    /\ active \in ToSet(Steps)
    /\ available \subseteq ToSet(Steps)
    /\ viable \subseteq Strategy
    /\ asked \subseteq {"strategy", "locale", "timezone", "desktop", "accounts"}
    /\ runs \in 0..MaxRuns

IInv == WalkTypeOK /\ WalkInv /\ ModelInv /\ RecordInv /\ ReproducesInv
-----------------------------------------------------------------------------
(***************************************************************************)
(* Selections and documents.                                               *)
(***************************************************************************)

\* A selection installs everything that a selection it reaches does.
LEMMA ClosureMonotone ==
    ASSUME NEW a, NEW b \in Closure(a)
    PROVE  Closure(b) \subseteq Closure(a)
<1> SUFFICES ASSUME NEW s \in Closure(b),
                    NEW S \in SUBSET Selection, ClosedUnderDepends(S), Implicit \cup {a} \subseteq S
             PROVE  s \in Selection /\ s \in S
  BY DEF Closure
<1>1. b \in S
  BY DEF Closure
<1> QED
  BY <1>1 DEF Closure

\* What is picked in the desktop step has its mandatory packages.
LEMMA OfferedCarriesMandatory ==
    ASSUME NEW d \in Selection \ Hidden
    PROVE  Mandatory(d) \subseteq Resolve(d)
<1>1. Closure(MandatoryRoot(d)) \subseteq Closure(d)
  BY OfferedReachMandatory, ClosureMonotone
<1> QED
  BY <1>1 DEF Mandatory, Resolve

\* Only packages are resolved.
LEMMA ResolveTyped == \A name : Resolve(name) \in SUBSET PackageName
<1> SUFFICES ASSUME NEW name, NEW p \in Resolve(name) PROVE p \in PackageName
  OBVIOUS
<1>1. PICK s \in Closure(name) : p \in PackagesOf[s]
  BY DEF Resolve
<1>2. s \in Selection
  BY DEF Closure
<1> QED
  BY <1>1, <1>2, WizardAssumption DEF PackageName

LEMMA MandatoryTyped == \A name : Mandatory(name) \in SUBSET PackageName
  BY ResolveTyped DEF Mandatory

\* What the wizard can read.
Readable(doc) == doc \in Documents \/ Complete(doc)

\* What a readable document gives for a field is in the field's type, or absent.
LEMMA ReadableTyped ==
    ASSUME NEW doc, Readable(doc)
    PROVE  /\ doc.strategy \in StrategyName \cup {Absent}
           /\ doc.locale \in LocaleName \cup {Absent}
           /\ doc.timezone \in TimezoneName \cup {Absent}
           /\ doc.selection \in SelectionName \cup {Absent}
           /\ doc.packages = Absent \/ doc.packages \in SUBSET PackageName
           /\ doc.root \in AccountName \cup {Absent}
           /\ doc.user \in AccountName \cup {Absent}
<1>1. CASE doc \in Documents
  BY <1>1 DEF StrategyName, LocaleName, TimezoneName, SelectionName, PackageName, AccountName, Named
<1>2. CASE Complete(doc)
  BY <1>2 DEF Complete, RecordType, StrategyName
<1> QED
  BY <1>1, <1>2 DEF Readable

LEMMA DefaultTyped == DefaultModel \in ModelType
  BY WizardAssumption DEF DefaultModel, ModelType, LocaleName, TimezoneName

LEMMA ApplyInstallTyped ==
    ASSUME NEW m \in ModelType, NEW doc, Readable(doc)
    PROVE  ApplyInstallModel(m, doc) \in ModelType
<1> DEFINE strategies == StrategyName \cup {""}
           plans      == Strategy \cup {None}
           locales    == LocaleName \cup {""}
           timezones  == TimezoneName \cup {""}
           selections == SelectionName \cup {""}
           sets       == SUBSET PackageName
           accounts   == AccountName \cup {None}
<1>1. ModelType = [imported : BOOLEAN, strategy : strategies, plan : plans, locale : locales,
                   timezone : timezones, selection : selections, packages : sets,
                   root : accounts, user : accounts]
  BY DEF ModelType
<1>2. /\ m.strategy \in strategies /\ m.locale \in locales /\ m.timezone \in timezones
      /\ m.selection \in selections /\ m.packages \in sets
      /\ m.root \in accounts /\ m.user \in accounts
  BY <1>1
<1>3. /\ Given(doc.strategy, m.strategy) \in strategies
      /\ Given(doc.locale, m.locale) \in locales
      /\ Given(doc.timezone, m.timezone) \in timezones
      /\ Given(doc.selection, m.selection) \in selections
      /\ Given(doc.packages, m.packages) \in sets
      /\ Given(doc.root, m.root) \in accounts
      /\ Given(doc.user, m.user) \in accounts
  BY <1>2, ReadableTyped DEF Given
<1> HIDE DEF strategies, plans, locales, timezones, selections, sets, accounts
<1> QED
  BY <1>1, <1>3 DEF ApplyInstallModel

LEMMA ApplySystemTyped ==
    ASSUME NEW m \in ModelType, NEW doc, Readable(doc)
    PROVE  ApplySystemModel(m, doc) \in ModelType
<1>1. Given(doc.packages, m.packages) \in SUBSET PackageName
  BY ReadableTyped DEF Given, ModelType
<1> QED
  BY <1>1 DEF ApplySystemModel, ModelType

\* An import is typed, marked as one, and not without its mandatory packages.
LEMMA ImportedTyped ==
    ASSUME NEW m \in ModelType
    PROVE  /\ Imported(m) \in ModelType
           /\ Imported(m).imported
           /\ Imported(m).selection = m.selection
           /\ Mandatory(m.selection) \subseteq Imported(m).packages
<1>1. m.packages \cup Mandatory(m.selection) \in SUBSET PackageName
  BY MandatoryTyped DEF ModelType
<1> QED
  BY <1>1 DEF Imported, ModelType

LEMMA FsTyped ==
    ASSUME NEW m \in ModelType, m.strategy \in Strategy
    PROVE  /\ WithFsPackages(m) \in ModelType
           /\ WithFsPackages(m) = [m EXCEPT !.packages = m.packages \cup FsPackages[m.strategy]]
           /\ WithFsPackages(m).packages = m.packages \cup FsPackages[m.strategy]
<1>1. m.packages \cup FsPackages[m.strategy] \in SUBSET PackageName
  BY WizardAssumption DEF ModelType, PackageName
<1> QED
  BY <1>1 DEF WithFsPackages, ModelType

\* A record that was imported is all there: nothing is left to the defaults.
LEMMA RecordImported ==
    ASSUME NEW r, Complete(r)
    PROVE  LET m == Imported(ApplyInstallModel(DefaultModel, r)) IN
           /\ m.imported /\ m.locale = r.locale /\ m.timezone = r.timezone
           /\ m.selection = r.selection /\ m.packages = r.packages
           /\ m.root = Given(r.root, None) /\ m.user = Given(r.user, None)
<1> DEFINE a == ApplyInstallModel(DefaultModel, r)
<1>1. /\ r.locale # Absent /\ r.timezone # Absent /\ r.selection # Absent
      /\ r.packages \in SUBSET PackageName /\ r.packages # Absent
      /\ Mandatory(r.selection) \subseteq r.packages
  BY WizardAssumption DEF Complete, RecordType, LocaleName, TimezoneName, SelectionName, Named
<1>2. /\ a.locale = r.locale /\ a.timezone = r.timezone /\ a.selection = r.selection
      /\ a.packages = r.packages
      /\ a.root = Given(r.root, None) /\ a.user = Given(r.user, None)
  BY <1>1 DEF ApplyInstallModel, DefaultModel, Given
<1>3. a \in ModelType
  BY DefaultTyped, ApplyInstallTyped DEF Readable
<1> HIDE DEF a
<1>4. r.packages \cup Mandatory(r.selection) = r.packages
  BY <1>1
<1>5. a.packages \cup Mandatory(a.selection) = r.packages
  BY <1>2, <1>4
<1>6. /\ Imported(a).imported /\ Imported(a).locale = a.locale /\ Imported(a).timezone = a.timezone
      /\ Imported(a).selection = a.selection
      /\ Imported(a).packages = a.packages \cup Mandatory(a.selection)
      /\ Imported(a).root = a.root /\ Imported(a).user = a.user
  BY <1>3 DEF Imported, ModelType
<1>7. Imported(a).packages = r.packages
  BY <1>5, <1>6
<1> QED
  BY <1>2, <1>6, <1>7 DEF a

\* A model in which everything has been decided.
Decided(m) ==
    /\ m \in ModelType
    /\ m.plan = m.strategy /\ m.strategy \in Strategy
    /\ m.locale # "" /\ m.timezone # "" /\ m.selection # ""
    /\ m.root # None /\ m.user # None
    /\ Mandatory(m.selection) \subseteq m.packages

\* Its record is complete.
LEMMA DecidedRecord ==
    ASSUME NEW m, Decided(m)
    PROVE  Complete(ToKdl(WithFsPackages(m)))
<1> DEFINE n == WithFsPackages(m)
           r == ToKdl(n)
<1>1. /\ n \in ModelType /\ n.packages = m.packages \cup FsPackages[m.strategy]
      /\ n.strategy = m.strategy /\ n.locale = m.locale /\ n.timezone = m.timezone
      /\ n.selection = m.selection /\ n.root = m.root /\ n.user = m.user
  <2>1. m \in ModelType /\ m.strategy \in Strategy
    BY DEF Decided
  <2>2. n \in ModelType /\ n = [m EXCEPT !.packages = m.packages \cup FsPackages[m.strategy]]
    BY <2>1, FsTyped
  <2> QED
    BY <2>1, <2>2 DEF ModelType
<1> HIDE DEF n
<1>2. /\ n.strategy \in Strategy /\ n.strategy # "" /\ n.strategy # None
      /\ n.locale \in LocaleName \ {""} /\ n.locale # None
      /\ n.timezone \in TimezoneName \ {""} /\ n.timezone # None
      /\ n.selection \in SelectionName \ {""} /\ n.selection # None
      /\ n.root \in AccountName /\ n.user \in AccountName
      /\ n.packages \in SUBSET PackageName
  BY <1>1, WizardAssumption, ZenonT(40) DEF Decided, ModelType
<1>3. /\ r.form = "install" /\ r.strategy = n.strategy /\ r.locale = n.locale
      /\ r.timezone = n.timezone /\ r.selection = n.selection /\ r.packages = n.packages
      /\ r.root = Recorded(n.root) /\ r.user = Recorded(n.user)
  BY <1>2 DEF ToKdl, Recorded
<1>4. /\ r.root \in AccountName \cup {Absent} /\ r.user \in AccountName \cup {Absent}
      /\ r.root # "" /\ r.root # None /\ r.user # "" /\ r.user # None
  BY <1>2, <1>3, WizardAssumption DEF Recorded
<1>5. r \in RecordType
  <2> DEFINE locales    == LocaleName \ {""}
             timezones  == TimezoneName \ {""}
             selections == SelectionName \ {""}
             accounts   == AccountName \cup {Absent}
  <2>1. RecordType = [form : {"install"}, strategy : Strategy, locale : locales,
                      timezone : timezones, selection : selections,
                      packages : SUBSET PackageName, root : accounts, user : accounts]
    BY DEF RecordType
  <2>2. /\ r.strategy \in Strategy /\ r.locale \in locales /\ r.timezone \in timezones
        /\ r.selection \in selections /\ r.packages \in SUBSET PackageName
        /\ r.root \in accounts /\ r.user \in accounts
    BY <1>2, <1>3, <1>4
  <2> HIDE DEF locales, timezones, selections, accounts
  <2> QED
    BY <2>1, <2>2, <1>3 DEF ToKdl
<1>6. Mandatory(r.selection) \cup FsPackages[r.strategy] \subseteq r.packages
  BY <1>1, <1>3 DEF Decided
<1> QED
  BY <1>4, <1>5, <1>6 DEF Complete, n

-----------------------------------------------------------------------------
(***************************************************************************)
(* The walk.                                                               *)
(***************************************************************************)

LEMMA StepsAre ==
    /\ Len(Steps) = 6 /\ DOMAIN Steps = 1..6
    /\ Steps[1] = "storage" /\ Steps[2] = "locale" /\ Steps[3] = "timezone"
    /\ Steps[4] = "desktop" /\ Steps[5] = "accounts" /\ Steps[6] = "summary"
    /\ ToSet(Steps) = {"storage", "locale", "timezone", "desktop", "accounts", "summary"}
<1>1. /\ Len(Steps) = 6 /\ DOMAIN Steps = 1..6
      /\ Steps[1] = "storage" /\ Steps[2] = "locale" /\ Steps[3] = "timezone"
      /\ Steps[4] = "desktop" /\ Steps[5] = "accounts" /\ Steps[6] = "summary"
  BY DEF Steps
<1>2. 1..6 = {1, 2, 3, 4, 5, 6}
  OBVIOUS
<1>3. ToSet(Steps) = {"storage", "locale", "timezone", "desktop", "accounts", "summary"}
  BY <1>1, <1>2 DEF ToSet
<1> QED
  BY <1>1, <1>3

\* No step is listed twice, and its position is where it is.
LEMMA PositionIs == \A k \in 1..6 : Position(Steps[k]) = k
<1> SUFFICES ASSUME NEW k \in 1..6 PROVE Position(Steps[k]) = k
  OBVIOUS
<1>1. \A i \in 1..6 : Steps[i] = Steps[k] => i = k
  BY StepsAre
<1> QED
  BY <1>1, StepsAre DEF Position

\* Every step but the last is followed by the next one in the list.
LEMMA AdvanceTo ==
    ASSUME NEW k \in 1..5, active = Steps[k], available = ToSet(Steps) \ {"summary"}, Advance
    PROVE  /\ active' = Steps[k + 1]
           /\ available' = IF active' = "summary" THEN ToSet(Steps) ELSE ToSet(Steps) \ {"summary"}
<1>1. Following(active) = {i \in 1..6 : i > k /\ Steps[i] # "summary" /\ Steps[i] \in ToSet(Steps)}
  BY StepsAre, PositionIs DEF Following
<1>2. Following(active) = {i \in 1..6 : i > k /\ i # 6}
  BY <1>1, StepsAre
<1>3. CASE k = 5
  <2>1. Following(active) = {}
    BY <1>2, <1>3
  <2> QED
    BY <1>3, <2>1, StepsAre DEF Advance
<1>4. CASE k \in 1..4
  <2>1. k + 1 \in Following(active) /\ \A i \in Following(active) : k + 1 <= i
    BY <1>2, <1>4
  <2>2. \A i \in Following(active) : (\A j \in Following(active) : i <= j) => i = k + 1
    BY <1>2, <2>1
  <2>3. FirstOf(Following(active)) = k + 1
    BY <2>1, <2>2 DEF FirstOf
  <2>4. active' = Steps[k + 1] /\ available' = available
    BY <2>1, <2>3 DEF Advance
  <2>5. Steps[k + 1] # "summary"
    BY <1>4, StepsAre
  <2> QED
    BY <2>4, <2>5
<1> QED
  BY <1>3, <1>4

\* The n-th step, performed: the walk goes on.
LEMMA StepWalks ==
    ASSUME WalkTypeOK, WalkInv, NEW k \in 1..5, Perform(Steps[k]), Advance
    PROVE  /\ WalkInv'
           /\ Len(visited) = k - 1 /\ Len(visited') = k
           /\ phase' = "steps" /\ active' \in ToSet(Steps) /\ available' \subseteq ToSet(Steps)
<1> DEFINE n == Len(visited)
<1>1. phase = "steps" /\ active = Steps[k] /\ phase' = "steps"
  BY DEF Perform, Advance
<1>2. n \in 0..5 /\ active = Steps[n + 1] /\ visited \in Seq(ToSet(Steps))
  <2>1. visited \in Seq(ToSet(Steps)) /\ ~ (6 <= n) /\ active = Steps[n + 1]
    BY <1>1 DEF WalkInv, Done
  <2>2. n \in Nat
    BY <2>1
  <2> HIDE DEF n
  <2> QED
    BY <2>1, <2>2
<1>3. n = k - 1
  <2>1. ASSUME NEW i \in 1..6, active = Steps[i] PROVE i = k
    <3>1. k \in 1..6
      OBVIOUS
    <3>2. Position(Steps[i]) = i /\ Position(Steps[k]) = k
      BY <3>1, PositionIs
    <3> QED
      BY <1>1, <2>1, <3>2
  <2> HIDE DEF n
  <2>2. PICK i \in 1..6 : i = n + 1
    BY <1>2
  <2>3. i = k
    BY <1>2, <2>1, <2>2
  <2> QED
    BY <1>2, <2>2, <2>3
<1>4. active # "summary" /\ active \in ToSet(Steps)
  BY <1>1, StepsAre
<1>5. available = ToSet(Steps) \ {"summary"}
  BY <1>1, <1>4 DEF WalkInv
<1>6. /\ active' = Steps[k + 1]
      /\ available' = IF active' = "summary" THEN ToSet(Steps) ELSE ToSet(Steps) \ {"summary"}
  BY <1>1, <1>5, AdvanceTo
<1>7. visited' = Append(visited, active)
  BY DEF Advance
<1>8. /\ visited' \in Seq(ToSet(Steps)) /\ Len(visited') = k
      /\ \A i \in 1..(k - 1) : visited'[i] = visited[i]
      /\ visited'[k] = Steps[k]
  BY <1>1, <1>2, <1>3, <1>4, <1>7
<1>9. \A i \in 1..k : visited'[i] = Steps[i]
  <2>1. \A i \in 1..(k - 1) : visited[i] = Steps[i]
    BY <1>3 DEF WalkInv
  <2>2. \A i \in 1..k : i \in 1..(k - 1) \/ i = k
    OBVIOUS
  <2> QED
    BY <1>8, <2>1, <2>2
<1>10. active' \in ToSet(Steps)
  BY <1>6, StepsAre
<1>11. available' \subseteq ToSet(Steps)
  BY <1>6
<1>12. WalkInv'
  BY <1>1, <1>6, <1>8, <1>9 DEF WalkInv, Done
<1> QED
  BY <1>1, <1>3, <1>8, <1>10, <1>11, <1>12

-----------------------------------------------------------------------------
(***************************************************************************)
(* The invariant holds, and is kept.                                       *)
(***************************************************************************)

LEMMA InvariantEntered == Init => IInv
<1> SUFFICES ASSUME Init PROVE IInv
  OBVIOUS
<1>1. WalkTypeOK
  <2>1. MaxRuns \in Nat
    BY WizardAssumption
  <2> QED
    BY <2>1, StepsAre DEF Init, WalkTypeOK
<1>2. visited = <<>> /\ phase = "start" /\ model = DefaultModel /\ emitted = {}
  BY DEF Init
<1>3. WalkInv
  BY <1>2 DEF WalkInv
<1>4. ModelInv
  <2>1. model.selection = ""
    BY <1>2 DEF DefaultModel
  <2> QED
    BY <1>2, <2>1, DefaultTyped DEF ModelInv
<1>5. RecordInv
  BY DEF Init, RecordInv
<1>6. ReproducesInv
  BY <1>2 DEF ReproducesInv, Reproduces
<1> QED
  BY <1>1, <1>3, <1>4, <1>5, <1>6 DEF IInv

\* A run begins with what was imported and the walk's first step.
LEMMA StartKeeps ==
    ASSUME IInv, Start
    PROVE  IInv'
<1>1. PICK install \in {d \in Documents \cup emitted : d.form = "install"} \cup {None},
           system \in {d \in Documents : d.form = "system"} \cup {None} :
        LET first  == IF install = None THEN DefaultModel ELSE ApplyInstallModel(DefaultModel, install)
            second == IF system = None THEN first ELSE ApplySystemModel(first, system)
        IN  /\ source' = {install, system} \ {None}
            /\ model' = IF source' = {} THEN DefaultModel ELSE Imported(second)
  BY DEF Start
<1> DEFINE first  == IF install = None THEN DefaultModel ELSE ApplyInstallModel(DefaultModel, install)
           second == IF system = None THEN first ELSE ApplySystemModel(first, system)
<1>2. /\ source' = {install, system} \ {None}
      /\ model' = IF source' = {} THEN DefaultModel ELSE Imported(second)
  BY <1>1
<1>3. /\ phase' = "steps" /\ active' = "storage" /\ available' = ToSet(Steps) \ {"summary"}
      /\ viable' \in Viable /\ asked' = {} /\ visited' = <<>>
      /\ onDisk' = onDisk /\ emitted' = emitted /\ runs < MaxRuns /\ runs' = runs + 1
  BY DEF Start
<1>4. first \in ModelType
  <2>1. install # None => Readable(install)
    BY DEF IInv, RecordInv, Readable
  <2> QED
    BY <2>1, DefaultTyped, ApplyInstallTyped
<1>5. second \in ModelType
  <2>1. system # None => Readable(system)
    BY DEF Readable
  <2> HIDE DEF first
  <2> QED
    BY <1>4, <2>1, ApplySystemTyped
<1>6. WalkTypeOK'
  <2>1. runs' \in 0..MaxRuns
    <3>1. MaxRuns \in Nat /\ runs \in 0..MaxRuns
      BY WizardAssumption DEF IInv, WalkTypeOK
    <3> QED
      BY <1>3, <3>1
  <2> QED
    BY <1>3, <2>1, StepsAre, WizardAssumption DEF WalkTypeOK
<1>7. WalkInv'
  BY <1>3, StepsAre DEF WalkInv, Done
<1>8. ModelInv'
  <2>1. ~ Done(1)' /\ ~ Done(2)' /\ ~ Done(3)' /\ ~ Done(4)' /\ ~ Done(5)' /\ ~ Done(6)'
    BY <1>3 DEF Done
  <2>2. model' \in ModelType /\ (model'.selection # "" => Mandatory(model'.selection) \subseteq model'.packages)
    <3>1. CASE source' = {}
      BY <1>2, <3>1, DefaultTyped DEF DefaultModel
    <3>2. CASE source' # {}
      <4> HIDE DEF second
      <4>1. model' = Imported(second)
        BY <1>2, <3>2
      <4> QED
        BY <1>5, <4>1, ImportedTyped
    <3> QED
      BY <3>1, <3>2
  <2> QED
    BY <2>1, <2>2 DEF ModelInv
<1>9. RecordInv'
  BY <1>3 DEF IInv, RecordInv
<1>10. ReproducesInv'
  <2> SUFFICES ASSUME NEW r \in emitted, source' = {r} PROVE Follows(model, r)'
    BY <1>3 DEF ReproducesInv, Reproduces
  <2>1. Complete(r) /\ r.form = "install"
    BY DEF IInv, RecordInv, Complete, RecordType
  <2>2. install = r /\ system = None /\ r # None
    <3>1. r \in {install, system} /\ r # None
      BY <1>2
    <3>2. system # None => system.form = "system" /\ system \in source'
      BY <1>2
    <3>3. system = None
      BY <2>1, <3>2
    <3> QED
      BY <3>1, <3>3
  <2>3. model' = Imported(ApplyInstallModel(DefaultModel, r))
    BY <1>2, <2>2
  <2> QED
    BY <2>1, <2>3, RecordImported DEF Follows
<1> QED
  BY <1>6, <1>7, <1>8, <1>9, <1>10 DEF IInv

\* A step keeps the rest of the invariant, if it fills in what it is there for and
\* leaves a model that follows the record it came from.
LEMMA StepKeeps ==
    ASSUME IInv, NEW k \in 1..5, Perform(Steps[k]), Advance,
           asked' \subseteq {"strategy", "locale", "timezone", "desktop", "accounts"},
           ModelInv',
           \A r \in emitted : source' = {r} => Follows(model, r)'
    PROVE  IInv'
<1>1. /\ WalkInv' /\ phase' = "steps"
      /\ active' \in ToSet(Steps) /\ available' \subseteq ToSet(Steps)
  BY StepWalks DEF IInv
<1>2. viable' = viable /\ onDisk' = onDisk /\ emitted' = emitted /\ runs' = runs
  BY DEF Advance
<1>3. WalkTypeOK'
  BY <1>1, <1>2 DEF IInv, WalkTypeOK
<1>4. RecordInv'
  BY <1>2 DEF IInv, RecordInv
<1>5. ReproducesInv'
  BY <1>1, <1>2 DEF ReproducesInv, Reproduces
<1> QED
  BY <1>1, <1>3, <1>4, <1>5 DEF IInv

\* How far the walk has come, before and after the k-th step.
LEMMA Progress ==
    ASSUME IInv, NEW k \in 1..5, Perform(Steps[k]), Advance
    PROVE  /\ phase = "steps" /\ phase' = "steps"
           /\ \A n \in 1..6 : (Done(n) <=> n < k) /\ (Done(n)' <=> n <= k)
<1>1. Len(visited) = k - 1 /\ Len(visited') = k /\ phase' = "steps"
  BY StepWalks DEF IInv
<1> QED
  BY <1>1 DEF Done, Perform

LEMMA PartitionKeeps ==
    ASSUME IInv, Partition
    PROVE  IInv'
<1>1. Perform(Steps[1]) /\ Advance /\ source' = source /\ asked' = asked \cup {"strategy"}
  BY StepsAre DEF Partition
<1>2. PICK s \in viable : model' = [model EXCEPT !.strategy = s, !.plan = s]
  BY DEF Partition
<1>3. s \in Strategy /\ model \in ModelType
  BY DEF IInv, WalkTypeOK, ModelInv
<1>4. /\ model' \in ModelType /\ model'.strategy = s /\ model'.plan = s
      /\ model'.imported = model.imported /\ model'.locale = model.locale
      /\ model'.timezone = model.timezone /\ model'.selection = model.selection
      /\ model'.packages = model.packages /\ model'.root = model.root /\ model'.user = model.user
  BY <1>2, <1>3 DEF ModelType, StrategyName
<1>5. /\ phase = "steps"
      /\ \A n \in 1..6 : (Done(n) <=> n < 1) /\ (Done(n)' <=> n <= 1)
  BY <1>1, Progress
<1>6. ModelInv'
  <2>1. ~ Done(2)' /\ ~ Done(3)' /\ ~ Done(4)' /\ ~ Done(5)' /\ ~ Done(6)'
    BY <1>5
  <2>2. model.selection # "" => Mandatory(model.selection) \subseteq model.packages
    BY DEF IInv, ModelInv
  <2>3. model'.selection # "" => Mandatory(model'.selection) \subseteq model'.packages
    BY <1>4, <2>2
  <2> QED
    BY <1>3, <1>4, <2>1, <2>3 DEF ModelInv
<1>7. ASSUME NEW r \in emitted, source' = {r} PROVE Follows(model, r)'
  <2>1. Follows(model, r)
    BY <1>1, <1>5, <1>7 DEF IInv, ReproducesInv
  <2> QED
    BY <1>1, <1>4, <2>1 DEF Follows
<1>8. asked' \subseteq {"strategy", "locale", "timezone", "desktop", "accounts"}
  BY <1>1 DEF IInv, WalkTypeOK
<1>9. Perform(Steps[1]) /\ Advance
  BY <1>1
<1> QED
  BY <1>6, <1>7, <1>8, <1>9, StepKeeps

LEMMA RefreshKeeps ==
    ASSUME IInv, Refresh
    PROVE  IInv'
<1> DEFINE found == Imported(FromKdl(onDisk))
<1>1. /\ Perform(Steps[1]) /\ Advance /\ onDisk # None /\ source' = {onDisk} /\ asked' = {"strategy"}
  BY StepsAre DEF Refresh
<1>2. PICK s \in viable : model' = [found EXCEPT !.strategy = s, !.plan = s]
  BY DEF Refresh
<1>3. s \in Strategy
  BY DEF IInv, WalkTypeOK
<1>4. Readable(onDisk)
  BY <1>1 DEF IInv, RecordInv, Readable
<1>5. FromKdl(onDisk) \in ModelType
  BY <1>4, DefaultTyped, ApplyInstallTyped, ApplySystemTyped DEF FromKdl
<1>6. found \in ModelType /\ found.imported /\ Mandatory(found.selection) \subseteq found.packages
  BY <1>5, ImportedTyped
<1> HIDE DEF found
<1>7. /\ model' \in ModelType /\ model'.strategy = s /\ model'.plan = s
      /\ model'.imported = found.imported /\ model'.locale = found.locale
      /\ model'.timezone = found.timezone /\ model'.selection = found.selection
      /\ model'.packages = found.packages /\ model'.root = found.root /\ model'.user = found.user
  BY <1>2, <1>3, <1>6 DEF ModelType, StrategyName
<1>8. \A n \in 1..6 : (Done(n)' <=> n <= 1)
  BY <1>1, Progress
<1>9. ModelInv'
  <2>1. ~ Done(2)' /\ ~ Done(3)' /\ ~ Done(4)' /\ ~ Done(5)' /\ ~ Done(6)'
    BY <1>8
  <2>2. model'.selection # "" => Mandatory(model'.selection) \subseteq model'.packages
    BY <1>6, <1>7
  <2> QED
    BY <1>3, <1>7, <2>1, <2>2 DEF ModelInv
<1>10. ASSUME NEW r \in emitted, source' = {r} PROVE Follows(model, r)'
  <2>1. onDisk = r
    BY <1>1, <1>10
  <2>2. Complete(r) /\ r.form = "install"
    BY DEF IInv, RecordInv, Complete, RecordType
  <2>3. found = Imported(ApplyInstallModel(DefaultModel, r))
    BY <2>1, <2>2 DEF found, FromKdl
  <2> QED
    BY <1>7, <2>2, <2>3, RecordImported DEF Follows
<1> QED
  BY <1>1, <1>9, <1>10, StepKeeps

LEMMA LocaleStepKeeps ==
    ASSUME IInv, LocaleStep
    PROVE  IInv'
<1>1. Perform(Steps[2]) /\ Advance /\ source' = source
  BY StepsAre DEF LocaleStep
<1>2. /\ phase = "steps"
      /\ \A n \in 1..6 : (Done(n) <=> n < 2) /\ (Done(n)' <=> n <= 2)
  BY <1>1, Progress
<1>3. /\ model \in ModelType /\ model.plan = model.strategy /\ model.strategy \in Strategy
      /\ model.selection # "" => Mandatory(model.selection) \subseteq model.packages
      /\ asked \subseteq {"strategy", "locale", "timezone", "desktop", "accounts"}
  <2>1. Done(1)
    BY <1>2
  <2>2. ModelInv /\ WalkTypeOK
    BY DEF IInv
  <2> QED
    BY <1>2, <2>1, <2>2 DEF ModelInv, WalkTypeOK
<1>4. /\ model' \in ModelType /\ model'.locale # ""
      /\ model'.imported = model.imported /\ model'.strategy = model.strategy
      /\ model'.plan = model.plan /\ model'.timezone = model.timezone
      /\ model'.selection = model.selection /\ model'.packages = model.packages
      /\ model'.root = model.root /\ model'.user = model.user
      /\ asked' \subseteq {"strategy", "locale", "timezone", "desktop", "accounts"}
  <2>1. CASE model.imported /\ model.locale # ""
    BY <1>3, <2>1 DEF LocaleStep
  <2>2. CASE ~ (model.imported /\ model.locale # "")
    <3>1. PICK l \in Locale : model' = [model EXCEPT !.locale = l]
      BY <2>2 DEF LocaleStep
    <3>2. asked' = asked \cup {"locale"}
      BY <2>2 DEF LocaleStep
    <3>3. l # "" /\ l \in LocaleName
      BY WizardAssumption DEF LocaleName
    <3> QED
      BY <1>3, <3>1, <3>2, <3>3 DEF ModelType
  <2> QED
    BY <2>1, <2>2
<1>5. ModelInv'
  <2>1. ~ Done(3)' /\ ~ Done(4)' /\ ~ Done(5)' /\ ~ Done(6)'
    BY <1>2
  <2>2. model'.plan = model'.strategy /\ model'.strategy \in Strategy
    BY <1>3, <1>4
  <2>3. model'.selection # "" => Mandatory(model'.selection) \subseteq model'.packages
    BY <1>3, <1>4
  <2> QED
    BY <1>4, <2>1, <2>2, <2>3 DEF ModelInv
<1>6. ASSUME NEW r \in emitted, source' = {r} PROVE Follows(model, r)'
  <2>1. Follows(model, r) /\ Complete(r)
    BY <1>1, <1>2, <1>6 DEF IInv, ReproducesInv, RecordInv
  <2>2. model.imported /\ model.locale # ""
    BY <2>1 DEF Follows, Complete, RecordType
  <2>3. model' = model /\ asked' = asked
    BY <2>2 DEF LocaleStep
  <2> QED
    BY <2>1, <2>3 DEF Follows
<1>7. Perform(Steps[2]) /\ Advance
  BY <1>1
<1>8. asked' \subseteq {"strategy", "locale", "timezone", "desktop", "accounts"}
  BY <1>4
<1> QED
  BY <1>5, <1>6, <1>7, <1>8, StepKeeps

LEMMA TimezoneStepKeeps ==
    ASSUME IInv, TimezoneStep
    PROVE  IInv'
<1>1. Perform(Steps[3]) /\ Advance /\ source' = source
  BY StepsAre DEF TimezoneStep
<1>2. /\ phase = "steps"
      /\ \A n \in 1..6 : (Done(n) <=> n < 3) /\ (Done(n)' <=> n <= 3)
  BY <1>1, Progress
<1>3. /\ model \in ModelType /\ model.plan = model.strategy /\ model.strategy \in Strategy /\ model.locale # ""
      /\ model.selection # "" => Mandatory(model.selection) \subseteq model.packages
      /\ asked \subseteq {"strategy", "locale", "timezone", "desktop", "accounts"}
  <2>1. Done(1) /\ Done(2)
    BY <1>2
  <2>2. ModelInv /\ WalkTypeOK
    BY DEF IInv
  <2> QED
    BY <1>2, <2>1, <2>2 DEF ModelInv, WalkTypeOK
<1>4. /\ model' \in ModelType /\ model'.timezone # ""
      /\ model'.imported = model.imported /\ model'.strategy = model.strategy
      /\ model'.plan = model.plan /\ model'.locale = model.locale
      /\ model'.selection = model.selection /\ model'.packages = model.packages
      /\ model'.root = model.root /\ model'.user = model.user
      /\ asked' \subseteq {"strategy", "locale", "timezone", "desktop", "accounts"}
  <2>1. CASE model.imported /\ model.timezone # ""
    BY <1>3, <2>1 DEF TimezoneStep
  <2>2. CASE ~ (model.imported /\ model.timezone # "")
    <3>1. PICK z \in Timezone : model' = [model EXCEPT !.timezone = z]
      BY <2>2 DEF TimezoneStep
    <3>2. asked' = asked \cup {"timezone"}
      BY <2>2 DEF TimezoneStep
    <3>3. z # "" /\ z \in TimezoneName
      BY WizardAssumption DEF TimezoneName
    <3> QED
      BY <1>3, <3>1, <3>2, <3>3 DEF ModelType
  <2> QED
    BY <2>1, <2>2
<1>5. ModelInv'
  <2>1. ~ Done(4)' /\ ~ Done(5)' /\ ~ Done(6)'
    BY <1>2
  <2>2. model'.plan = model'.strategy /\ model'.strategy \in Strategy /\ model'.locale # ""
    BY <1>3, <1>4
  <2>3. model'.selection # "" => Mandatory(model'.selection) \subseteq model'.packages
    BY <1>3, <1>4
  <2> QED
    BY <1>4, <2>1, <2>2, <2>3 DEF ModelInv
<1>6. ASSUME NEW r \in emitted, source' = {r} PROVE Follows(model, r)'
  <2>1. Follows(model, r) /\ Complete(r)
    BY <1>1, <1>2, <1>6 DEF IInv, ReproducesInv, RecordInv
  <2>2. model.imported /\ model.timezone # ""
    BY <2>1 DEF Follows, Complete, RecordType
  <2>3. model' = model /\ asked' = asked
    BY <2>2 DEF TimezoneStep
  <2> QED
    BY <2>1, <2>3 DEF Follows
<1>7. Perform(Steps[3]) /\ Advance
  BY <1>1
<1>8. asked' \subseteq {"strategy", "locale", "timezone", "desktop", "accounts"}
  BY <1>4
<1> QED
  BY <1>5, <1>6, <1>7, <1>8, StepKeeps

LEMMA DesktopKeeps ==
    ASSUME IInv, Desktop
    PROVE  IInv'
<1>1. Perform(Steps[4]) /\ Advance /\ source' = source
  BY StepsAre DEF Desktop
<1>2. /\ phase = "steps"
      /\ \A n \in 1..6 : (Done(n) <=> n < 4) /\ (Done(n)' <=> n <= 4)
  BY <1>1, Progress
<1>3. /\ model \in ModelType /\ model.plan = model.strategy /\ model.strategy \in Strategy
      /\ model.locale # "" /\ model.timezone # ""
      /\ model.selection # "" => Mandatory(model.selection) \subseteq model.packages
      /\ asked \subseteq {"strategy", "locale", "timezone", "desktop", "accounts"}
  <2>1. Done(1) /\ Done(2) /\ Done(3)
    BY <1>2
  <2>2. ModelInv /\ WalkTypeOK
    BY DEF IInv
  <2> QED
    BY <1>2, <2>1, <2>2 DEF ModelInv, WalkTypeOK
<1>4. /\ model' \in ModelType /\ model'.selection # ""
      /\ Mandatory(model'.selection) \subseteq model'.packages
      /\ model'.strategy = model.strategy /\ model'.plan = model.plan
      /\ model'.locale = model.locale /\ model'.timezone = model.timezone
      /\ asked' \subseteq {"strategy", "locale", "timezone", "desktop", "accounts"}
  <2>1. CASE model.imported /\ model.selection # ""
    BY <1>3, <2>1 DEF Desktop
  <2>2. CASE ~ (model.imported /\ model.selection # "")
    <3>1. PICK d \in Selection \ Hidden : model' = [model EXCEPT !.selection = d, !.packages = Resolve(d)]
      BY <2>2 DEF Desktop
    <3>2. asked' = asked \cup {"desktop"}
      BY <2>2 DEF Desktop
    <3>3. d # "" /\ d \in SelectionName
      BY WizardAssumption DEF SelectionName
    <3>4. Resolve(d) \in SUBSET PackageName
      BY ResolveTyped
    <3>5. Mandatory(d) \subseteq Resolve(d)
      BY OfferedCarriesMandatory
    <3>6. /\ model' \in ModelType /\ model'.selection = d /\ model'.packages = Resolve(d)
          /\ model'.strategy = model.strategy /\ model'.plan = model.plan
          /\ model'.locale = model.locale /\ model'.timezone = model.timezone
      BY <1>3, <3>1, <3>3, <3>4 DEF ModelType
    <3>7. asked' \subseteq {"strategy", "locale", "timezone", "desktop", "accounts"}
      BY <1>3, <3>2
    <3>8. Mandatory(model'.selection) \subseteq model'.packages
      BY <3>5, <3>6
    <3> QED
      BY <3>3, <3>6, <3>7, <3>8
  <2> QED
    BY <2>1, <2>2
<1>5. ModelInv'
  <2>1. ~ Done(5)' /\ ~ Done(6)'
    BY <1>2
  <2>2. /\ model'.plan = model'.strategy /\ model'.strategy \in Strategy
        /\ model'.locale # "" /\ model'.timezone # ""
    BY <1>3, <1>4
  <2> QED
    BY <1>4, <2>1, <2>2 DEF ModelInv
<1>6. ASSUME NEW r \in emitted, source' = {r} PROVE Follows(model, r)'
  <2>1. Follows(model, r) /\ Complete(r)
    BY <1>1, <1>2, <1>6 DEF IInv, ReproducesInv, RecordInv
  <2>2. model.imported /\ model.selection # ""
    BY <2>1 DEF Follows, Complete, RecordType
  <2>3. model' = model /\ asked' = asked
    BY <2>2 DEF Desktop
  <2> QED
    BY <2>1, <2>3 DEF Follows
<1>7. Perform(Steps[4]) /\ Advance
  BY <1>1
<1>8. asked' \subseteq {"strategy", "locale", "timezone", "desktop", "accounts"}
  BY <1>4
<1> QED
  BY <1>5, <1>6, <1>7, <1>8, StepKeeps

LEMMA AccountsKeeps ==
    ASSUME IInv, Accounts
    PROVE  IInv'
<1>1. Perform(Steps[5]) /\ Advance /\ source' = source
  BY StepsAre DEF Accounts
<1>2. /\ phase = "steps"
      /\ \A n \in 1..6 : (Done(n) <=> n < 5) /\ (Done(n)' <=> n <= 5)
  BY <1>1, Progress
<1>3. /\ model \in ModelType /\ model.plan = model.strategy /\ model.strategy \in Strategy
      /\ model.locale # "" /\ model.timezone # "" /\ model.selection # ""
      /\ Mandatory(model.selection) \subseteq model.packages
      /\ asked \subseteq {"strategy", "locale", "timezone", "desktop", "accounts"}
  <2>1. Done(1) /\ Done(2) /\ Done(3) /\ Done(4)
    BY <1>2
  <2>2. ModelInv /\ WalkTypeOK
    BY DEF IInv
  <2> QED
    BY <1>2, <2>1, <2>2 DEF ModelInv, WalkTypeOK
<1>4. /\ model' \in ModelType /\ model'.root # None /\ model'.user # None
      /\ model'.imported = model.imported /\ model'.strategy = model.strategy
      /\ model'.plan = model.plan /\ model'.locale = model.locale
      /\ model'.timezone = model.timezone /\ model'.selection = model.selection
      /\ model'.packages = model.packages
      /\ \/ asked' = asked /\ model' = model
         \/ asked' = asked \cup {"accounts"}
  <2>1. CASE HasAccounts /\ UNCHANGED <<model, asked>>
    BY <1>3, <2>1 DEF HasAccounts
  <2>2. CASE /\ \E r, u \in Account : model' = [model EXCEPT !.root = r, !.user = u]
             /\ asked' = asked \cup {"accounts"}
    <3>1. PICK r \in Account, u \in Account : model' = [model EXCEPT !.root = r, !.user = u]
      BY <2>2
    <3>2. r # None /\ u # None /\ r \in AccountName /\ u \in AccountName
      BY WizardAssumption DEF AccountName
    <3>3. /\ model' \in ModelType /\ model'.root = r /\ model'.user = u
          /\ model'.imported = model.imported /\ model'.strategy = model.strategy
          /\ model'.plan = model.plan /\ model'.locale = model.locale
          /\ model'.timezone = model.timezone /\ model'.selection = model.selection
          /\ model'.packages = model.packages
      BY <1>3, <3>1, <3>2 DEF ModelType
    <3> QED
      BY <2>2, <3>2, <3>3
  <2> QED
    BY <2>1, <2>2 DEF Accounts
<1>5. ModelInv'
  <2>1. ~ Done(6)'
    BY <1>2
  <2>2. /\ model'.plan = model'.strategy /\ model'.strategy \in Strategy
        /\ model'.locale # "" /\ model'.timezone # "" /\ model'.selection # ""
        /\ Mandatory(model'.selection) \subseteq model'.packages
    BY <1>3, <1>4
  <2> QED
    BY <1>4, <2>1, <2>2 DEF ModelInv
<1>6. ASSUME NEW r \in emitted, source' = {r} PROVE Follows(model, r)'
  <2>1. Follows(model, r)
    BY <1>1, <1>2, <1>6 DEF IInv, ReproducesInv
  <2>2. "accounts" \notin asked' => asked' = asked /\ model' = model
    BY <1>4
  <2> QED
    BY <1>4, <2>1, <2>2 DEF Follows
<1>7. Perform(Steps[5]) /\ Advance
  BY <1>1
<1>8. asked' \subseteq {"strategy", "locale", "timezone", "desktop", "accounts"}
  BY <1>3, <1>4
<1> QED
  BY <1>5, <1>6, <1>7, <1>8, StepKeeps

\* At the summary everything has been decided.
LEMMA DecidedAtSummary ==
    ASSUME IInv, Perform("summary")
    PROVE  Decided(model) /\ phase = "steps" /\ Len(visited) = 5
<1>1. phase = "steps" /\ active = "summary"
  BY DEF Perform
<1> DEFINE n == Len(visited)
<1>2. n \in 0..5 /\ active = Steps[n + 1]
  <2>1. visited \in Seq(ToSet(Steps)) /\ ~ (6 <= n) /\ active = Steps[n + 1]
    BY <1>1 DEF IInv, WalkInv, Done
  <2>2. n \in Nat
    BY <2>1
  <2> HIDE DEF n
  <2> QED
    BY <2>1, <2>2
<1>3. n = 5
  <2> HIDE DEF n
  <2>1. PICK i \in 1..6 : i = n + 1
    BY <1>2
  <2>2. Steps[i] = "summary" /\ Steps[6] = "summary"
    BY <1>1, <1>2, <2>1, StepsAre
  <2>3. Position("summary") = i /\ Position("summary") = 6
    BY <2>2, PositionIs
  <2> QED
    BY <1>2, <2>1, <2>3
<1>4. Done(1) /\ Done(2) /\ Done(3) /\ Done(4) /\ Done(5)
  BY <1>3 DEF Done
<1> QED
  BY <1>1, <1>3, <1>4 DEF IInv, ModelInv, Decided

\* Two records that say the same are the same.
LEMMA RecordsEqual ==
    ASSUME NEW r \in RecordType, NEW s \in RecordType,
           r.strategy = s.strategy, r.locale = s.locale, r.timezone = s.timezone,
           r.selection = s.selection, r.packages = s.packages, r.root = s.root, r.user = s.user
    PROVE  r = s
<1> DEFINE locales    == LocaleName \ {""}
           timezones  == TimezoneName \ {""}
           selections == SelectionName \ {""}
           sets       == SUBSET PackageName
           accounts   == AccountName \cup {Absent}
<1>1. RecordType = [form : {"install"}, strategy : Strategy, locale : locales,
                    timezone : timezones, selection : selections,
                    packages : sets, root : accounts, user : accounts]
  BY DEF RecordType
<1> HIDE DEF locales, timezones, selections, sets, accounts
<1>2. r.form = "install" /\ s.form = "install"
  BY <1>1
<1> QED
  BY <1>1, <1>2

\* What was imported from a record and decided as it says is recorded as it was.
LEMMA RecordReproduced ==
    ASSUME NEW m, Decided(m), NEW r, Complete(r), Follows(m, r),
           "accounts" \notin asked, m.strategy = r.strategy
    PROVE  ToKdl(WithFsPackages(m)) = r
<1> DEFINE n == WithFsPackages(m)
           s == ToKdl(n)
<1>1. Complete(s)
  BY DecidedRecord
<1>2. m \in ModelType /\ m.strategy \in Strategy
  BY DEF Decided
<1>3. n = [m EXCEPT !.packages = m.packages \cup FsPackages[m.strategy]]
  BY <1>2, FsTyped
<1>4. /\ n.packages = m.packages \cup FsPackages[m.strategy]
      /\ n.strategy = m.strategy /\ n.locale = m.locale /\ n.timezone = m.timezone
      /\ n.selection = m.selection /\ n.root = m.root /\ n.user = m.user
  BY <1>2, <1>3 DEF ModelType
<1> HIDE DEF n
<1>5. /\ s.strategy = Recorded(n.strategy) /\ s.locale = Recorded(n.locale)
      /\ s.timezone = Recorded(n.timezone) /\ s.selection = Recorded(n.selection)
      /\ s.packages = n.packages /\ s.root = Recorded(n.root) /\ s.user = Recorded(n.user)
  BY DEF ToKdl
<1>6. /\ r.strategy \in Strategy /\ r.locale \in LocaleName \ {""}
      /\ r.timezone \in TimezoneName \ {""} /\ r.selection \in SelectionName \ {""}
      /\ FsPackages[r.strategy] \subseteq r.packages
      /\ r.root # "" /\ r.user # ""
      /\ r \in RecordType
  BY DEF Complete, RecordType
<1>7. /\ r.strategy \notin {"", None} /\ r.locale \notin {"", None}
      /\ r.timezone \notin {"", None} /\ r.selection \notin {"", None}
  BY <1>6, WizardAssumption
<1>8. /\ s.strategy = r.strategy /\ s.locale = r.locale
      /\ s.timezone = r.timezone /\ s.selection = r.selection
  BY <1>4, <1>5, <1>7 DEF Follows, Recorded
<1>9. s.packages = r.packages
  <2>1. m.packages = r.packages /\ FsPackages[m.strategy] \subseteq r.packages
    BY <1>6 DEF Follows
  <2> QED
    BY <1>4, <1>5, <2>1
<1>10. s.root = r.root /\ s.user = r.user
  <2>1. /\ m.root # None /\ m.root = Given(r.root, None)
        /\ m.user # None /\ m.user = Given(r.user, None)
    BY DEF Decided, Follows
  <2>2. m.root = r.root /\ m.user = r.user
    BY <2>1 DEF Given
  <2>3. r.root \notin {"", None} /\ r.user \notin {"", None}
    BY <1>6, <2>1, <2>2
  <2> QED
    BY <1>4, <1>5, <2>2, <2>3 DEF Recorded
<1>11. s \in RecordType
  BY <1>1 DEF Complete
<1> HIDE DEF s
<1>12. s = r
  BY <1>6, <1>8, <1>9, <1>10, <1>11, RecordsEqual
<1> QED
  BY <1>12 DEF s, n

\* What is appended comes last.
LEMMA Appended ==
    ASSUME NEW T, NEW s \in Seq(T), NEW e \in T
    PROVE  /\ Append(s, e) \in Seq(T) /\ Len(Append(s, e)) = Len(s) + 1
           /\ \A i \in 1..Len(s) : Append(s, e)[i] = s[i]
           /\ Append(s, e)[Len(s) + 1] = e
  OBVIOUS

LEMMA InstallKeeps ==
    ASSUME IInv, Install
    PROVE  IInv'
<1>1. Decided(model) /\ phase = "steps" /\ Len(visited) = 5
  BY DecidedAtSummary DEF Install
<1>2. /\ model' = WithFsPackages(model) /\ phase' = "installed" /\ onDisk' = ToKdl(model')
      /\ emitted' = emitted \cup {onDisk'} /\ visited' = Append(visited, "summary")
      /\ UNCHANGED <<active, available, viable, source, asked, runs>>
  BY DEF Install
<1>3. Complete(onDisk')
  BY <1>1, <1>2, DecidedRecord
<1>4. WalkTypeOK'
  BY <1>2 DEF IInv, WalkTypeOK
<1>5. WalkInv'
  <2>1. /\ visited \in Seq(ToSet(Steps)) /\ Len(visited) = 5
        /\ \A i \in 1..5 : visited[i] = Steps[i]
    BY <1>1 DEF IInv, WalkInv
  <2>2. "summary" \in ToSet(Steps)
    BY StepsAre
  <2>3. /\ visited' \in Seq(ToSet(Steps)) /\ Len(visited') = 6
        /\ \A i \in 1..5 : visited'[i] = visited[i]
        /\ visited'[6] = "summary"
    <3>1. visited' = Append(visited, "summary")
      BY <1>2
    <3> DEFINE all == ToSet(Steps)
    <3>2. visited \in Seq(all) /\ "summary" \in all
      BY <2>1, <2>2
    <3> HIDE DEF all
    <3>3. /\ visited' \in Seq(all) /\ Len(visited') = Len(visited) + 1
          /\ \A i \in 1..Len(visited) : visited'[i] = visited[i]
          /\ visited'[Len(visited) + 1] = "summary"
      BY <3>1, <3>2, Appended
    <3>4. Len(visited) = 5
      BY <2>1
    <3>5. Len(visited) + 1 = 6
      BY <3>4
    <3>6. visited' \in Seq(ToSet(Steps))
      BY <3>3 DEF all
    <3> QED
      BY <3>3, <3>4, <3>5, <3>6
  <2>4. \A i \in 1..6 : i \in 1..5 \/ i = 6
    OBVIOUS
  <2>5. \A i \in 1..6 : visited'[i] = Steps[i]
    BY <2>1, <2>3, <2>4, StepsAre
  <2> QED
    BY <1>2, <2>3, <2>5 DEF WalkInv, Done
<1>6. ModelInv'
  <2>1. /\ model \in ModelType /\ model.strategy \in Strategy /\ model.plan = model.strategy
        /\ model.locale # "" /\ model.timezone # "" /\ model.selection # ""
        /\ model.root # None /\ model.user # None
        /\ Mandatory(model.selection) \subseteq model.packages
    BY <1>1 DEF Decided
  <2>2. /\ model' \in ModelType
        /\ model' = [model EXCEPT !.packages = model.packages \cup FsPackages[model.strategy]]
    BY <1>2, <2>1, FsTyped
  <2>3. /\ model'.packages = model.packages \cup FsPackages[model.strategy]
        /\ model'.strategy = model.strategy /\ model'.plan = model.plan
        /\ model'.locale = model.locale /\ model'.timezone = model.timezone
        /\ model'.selection = model.selection
        /\ model'.root = model.root /\ model'.user = model.user
    BY <2>1, <2>2 DEF ModelType
  <2>4. /\ Mandatory(model'.selection) \subseteq model'.packages
        /\ FsPackages[model'.strategy] \subseteq model'.packages
    BY <2>1, <2>3
  <2>5. /\ model'.plan = model'.strategy /\ model'.strategy \in Strategy
        /\ model'.locale # "" /\ model'.timezone # "" /\ model'.selection # ""
        /\ model'.root # None /\ model'.user # None
    BY <2>1, <2>3
  <2> QED
    BY <2>2, <2>4, <2>5 DEF ModelInv
<1>7. RecordInv'
  BY <1>2, <1>3 DEF IInv, RecordInv
<1>8. Reproduces'
  <2> SUFFICES ASSUME NEW r \in emitted', source' = {r}, model'.strategy = r.strategy,
                      "accounts" \notin asked'
               PROVE  ToKdl(model') = r
    BY DEF Reproduces
  <2>1. CASE r = onDisk'
    BY <1>2, <2>1
  <2>2. CASE r \in emitted
    <3>1. Complete(r) /\ Follows(model, r)
      BY <1>1, <1>2, <2>2 DEF IInv, RecordInv, ReproducesInv
    <3>2. model'.strategy = model.strategy
      <4>1. model \in ModelType /\ model.strategy \in Strategy
        BY <1>1 DEF Decided
      <4>2. model' = [model EXCEPT !.packages = model.packages \cup FsPackages[model.strategy]]
        BY <1>2, <4>1, FsTyped
      <4> QED
        BY <4>1, <4>2 DEF ModelType
    <3> QED
      BY <1>1, <1>2, <3>1, <3>2, RecordReproduced
  <2> QED
    BY <1>2, <2>1, <2>2
<1> QED
  BY <1>2, <1>4, <1>5, <1>6, <1>7, <1>8 DEF IInv, ReproducesInv

LEMMA InstallFailsKeeps ==
    ASSUME IInv, InstallFails
    PROVE  IInv'
<1>1. Decided(model)
  BY DecidedAtSummary DEF InstallFails
<1>2. /\ phase' = "aborted" /\ onDisk' \in {onDisk, None, ToKdl(WithFsPackages(model))}
      /\ UNCHANGED <<model, active, available, viable, source, asked, visited, emitted, runs>>
  BY DEF InstallFails
<1>3. Complete(ToKdl(WithFsPackages(model)))
  BY <1>1, DecidedRecord
<1>4. RecordInv'
  BY <1>2, <1>3 DEF IInv, RecordInv
<1>5. WalkTypeOK' /\ WalkInv'
  BY <1>2 DEF IInv, WalkTypeOK, WalkInv
<1>6. ModelInv'
  BY <1>2 DEF IInv, ModelInv
<1> QED
  BY <1>2, <1>4, <1>5, <1>6 DEF IInv, ReproducesInv, Reproduces

LEMMA AbortKeeps ==
    ASSUME IInv, Abort
    PROVE  IInv'
<1>1. /\ phase' = "aborted"
      /\ UNCHANGED <<model, active, available, viable, onDisk, source, asked, visited, emitted, runs>>
  BY DEF Abort
<1>2. WalkTypeOK' /\ WalkInv'
  BY <1>1 DEF IInv, WalkTypeOK, WalkInv
<1>3. ModelInv' /\ RecordInv'
  BY <1>1 DEF IInv, ModelInv, RecordInv
<1> QED
  BY <1>1, <1>2, <1>3 DEF IInv, ReproducesInv, Reproduces

LEMMA StutterKeeps ==
    ASSUME IInv, UNCHANGED vars
    PROVE  IInv'
<1>1. UNCHANGED <<phase, model, active, available, viable, onDisk, source, asked, visited, emitted, runs>>
  BY DEF vars
<1>2. WalkTypeOK' /\ WalkInv'
  BY <1>1 DEF IInv, WalkTypeOK, WalkInv, Done
<1>3. ModelInv' /\ RecordInv'
  BY <1>1 DEF IInv, ModelInv, RecordInv, Done
<1>4. ReproducesInv'
  BY <1>1 DEF IInv, ReproducesInv, Reproduces, Follows
<1> QED
  BY <1>2, <1>3, <1>4 DEF IInv

-----------------------------------------------------------------------------
(***************************************************************************)
(* The theorems.                                                           *)
(***************************************************************************)

\* The walk, the model it fills in and the records it leaves stay in step with
\* each other, whatever is imported, picked, aborted or failed, run after run.
THEOREM Invariant == Spec => []IInv
<1>1. IInv /\ [Next]_vars => IInv'
  <2> SUFFICES ASSUME IInv, [Next]_vars PROVE IInv'
    OBVIOUS
  <2>1. CASE Start
    BY <2>1, StartKeeps
  <2>2. CASE Partition
    BY <2>2, PartitionKeeps
  <2>3. CASE Refresh
    BY <2>3, RefreshKeeps
  <2>4. CASE LocaleStep
    BY <2>4, LocaleStepKeeps
  <2>5. CASE TimezoneStep
    BY <2>5, TimezoneStepKeeps
  <2>6. CASE Desktop
    BY <2>6, DesktopKeeps
  <2>7. CASE Accounts
    BY <2>7, AccountsKeeps
  <2>8. CASE Install
    BY <2>8, InstallKeeps
  <2>9. CASE InstallFails
    BY <2>9, InstallFailsKeeps
  <2>10. CASE Abort
    BY <2>10, AbortKeeps
  <2>11. CASE UNCHANGED vars
    BY <2>11, StutterKeeps
  <2> QED
    BY <2>1, <2>2, <2>3, <2>4, <2>5, <2>6, <2>7, <2>8, <2>9, <2>10, <2>11 DEF Next
<1> QED
  BY <1>1, InvariantEntered, PTL DEF Spec

\* "An imported model never installs less than a bootable system", and no import
\* lets the walk skip a question whose answer the installation needs: what is
\* installed is well typed, complete and has its mandatory packages and the tools
\* of its root filesystem, whatever the documents say.
THEOREM ModelOKAlways == Spec => []ModelOK
<1>1. IInv => ModelOK
  <2> SUFFICES ASSUME IInv PROVE ModelOK
    OBVIOUS
  <2>1. TypeOK
    BY StepsAre DEF IInv, WalkTypeOK, WalkInv, ModelInv, TypeOK
  <2>2. ASSUME phase = "installed"
        PROVE  Done(1) /\ Done(2) /\ Done(3) /\ Done(4) /\ Done(5) /\ Done(6)
    <3>1. 6 <= Len(visited) /\ Len(visited) \in Nat
      BY <2>2 DEF IInv, WalkInv, Done
    <3> QED
      BY <3>1 DEF Done
  <2>3. Bootable
    BY <2>2 DEF IInv, ModelInv, Bootable
  <2>4. NothingMissing
    BY <2>2 DEF IInv, ModelInv, NothingMissing
  <2> QED
    BY <2>1, <2>3, <2>4 DEF ModelOK
<1> QED
  BY <1>1, Invariant, PTL

\* The installer performs every step once, in order, and the summary last: the
\* navigation of run_internal neither skips a step nor comes back to one.
THEOREM EveryStepOnceAlways == Spec => []EveryStepOnce
<1>1. IInv => EveryStepOnce
  <2> SUFFICES ASSUME IInv PROVE EveryStepOnce
    OBVIOUS
  <2> DEFINE n == Len(visited)
  <2>1. /\ visited \in Seq(ToSet(Steps)) /\ n \in Nat /\ n <= 6
        /\ \A i \in 1..n : visited[i] = Steps[i]
    BY DEF IInv, WalkInv
  <2>2. phase = "installed" => visited = Steps
    <3> SUFFICES ASSUME phase = "installed" PROVE visited = Steps
      OBVIOUS
    <3>1. 6 <= n
      BY DEF IInv, WalkInv, Done
    <3>2. n = 6
      <4> HIDE DEF n
      <4> QED
        BY <2>1, <3>1
    <3>3. \A i \in 1..6 : visited[i] = Steps[i]
      BY <2>1, <3>2
    <3>4. Steps \in Seq(ToSet(Steps))
      BY StepsAre DEF Steps
    <3> QED
      BY <2>1, <3>2, <3>3, <3>4, StepsAre
  <2>3. phase = "steps" => active \in available /\ ~ Contains(visited, active)
    <3> SUFFICES ASSUME phase = "steps"
                 PROVE  active \in available /\ ~ Contains(visited, active)
      OBVIOUS
    <3>1. /\ active \in ToSet(Steps)
          /\ available = IF active = "summary" THEN ToSet(Steps) ELSE ToSet(Steps) \ {"summary"}
          /\ active = Steps[n + 1] /\ ~ (6 <= n)
      BY DEF IInv, WalkTypeOK, WalkInv, Done
    <3>2. active \in available
      BY <3>1
    <3>3. ASSUME NEW i \in 1..n, visited[i] = active PROVE FALSE
      <4>1. Steps[i] = active
        BY <2>1, <3>3
      <4> HIDE DEF n
      <4>2. PICK j \in 1..6 : j = n + 1
        BY <2>1, <3>1
      <4>3. i \in 1..6
        BY <2>1
      <4>4. Position(active) = i /\ Position(active) = j
        BY <3>1, <4>1, <4>2, <4>3, PositionIs
      <4> QED
        BY <2>1, <4>2, <4>4
    <3> QED
      BY <3>2, <3>3 DEF Contains
  <2> QED
    BY <2>2, <2>3 DEF EveryStepOnce
<1> QED
  BY <1>1, Invariant, PTL

\* "Re-importing it reproduces the installation": for any selections, strategies
\* and documents, the record of an installation leads to the very same record.
THEOREM ReproducesAlways == Spec => []Reproduces
<1>1. IInv => Reproduces
  BY DEF IInv, ReproducesInv
<1> QED
  BY <1>1, Invariant, PTL


=============================================================================
