----------------------------- MODULE Documents -----------------------------
(***************************************************************************)
(* The two KDL documents of an installation, node by node: the installer's *)
(* install-model.kdl and moss' system-model.kdl nested in it.  An          *)
(* installation writes both; moss and the administrator change them; the   *)
(* next installation reads them again, from the command line or from the   *)
(* disk.                                                                   *)
(*                                                                         *)
(* Init, Next, Spec, TypeOK and vars bear the component's name, so that a  *)
(* module of proofs can extend this module beside StorageStep.             *)
(***************************************************************************)
EXTENDS Integers, Sequences, SequencesExt, Positions

CONSTANTS
    Text,       \* what a string may be, the empty one included
    Empty,      \* the empty string
    Absent,     \* no such argument or property, or one that is no string
    Package,    \* package names
    Mandatory,  \* desktop |-> the packages an import must have
    DefaultOf,  \* field |-> its value in Model::default
    Collected,  \* the models a user can put together in the steps
    MaxEdits    \* bound on changes made to the documents

Field == {"strategy", "disk", "locale", "timezone", "desktop"}

UserType == [name : Text, realname : Text, hash : Text]

ModelType ==
    [text : [Field -> Text], packages : Seq(Package), root : Text \cup {Absent},
     user : UserType \cup {Absent}, imported : BOOLEAN]

ASSUME DocumentsAssumption ==
    /\ Empty \in Text /\ Absent \notin Text \cup UserType
    /\ Mandatory \in [Text -> SUBSET Package]
    /\ \A desktop \in Text : IsFiniteSet(Mandatory[desktop])
    /\ DefaultOf \in [Field -> Text]
    \* Only the locale and the timezone have a value before the steps have run.
    /\ \A field \in {"strategy", "disk", "desktop"} : DefaultOf[field] = Empty
    /\ Collected \subseteq ModelType
    /\ MaxEdits \in Nat

VARIABLES
    model,   \* the model of the running CLI
    record,  \* install-model.kdl on the disk, <<>> if there is none
    live,    \* system-model.kdl on the disk, <<>> if there is none
    given,   \* the documents the model was imported from: [install, system]
    fresh,   \* the documents are as the last installation wrote them
    edits    \* changes to them so far

documentsVars == <<model, record, live, given, fresh, edits>>

-----------------------------------------------------------------------------
(***************************************************************************)
(* KDL: a document is a sequence of nodes.                                 *)
(***************************************************************************)
NoProps == [k \in {} |-> Absent]
Leaf(name, arg) == [name |-> name, arg |-> arg, props |-> NoProps, kids |-> <<>>]
Block(name, kids) == [name |-> name, arg |-> Absent, props |-> NoProps, kids |-> kids]
Account(name, props) == [name |-> name, arg |-> Absent, props |-> props, kids |-> <<>>]

Places(nodes, name) == {i \in DOMAIN nodes : nodes[i].name = name}
Named(nodes, name) == Pick(nodes, Places(nodes, name))
Has(nodes, name) == Places(nodes, name) # {}

\* KdlDocument::get: the first node of that name.
KidsOf(nodes, name) == IF Has(nodes, name) THEN nodes[First(Places(nodes, name))].kids ELSE <<>>

Prop(node, key) == IF key \in DOMAIN node.props THEN node.props[key] ELSE Absent

Names(nodes) == [i \in DOMAIN nodes |-> nodes[i].name]

-----------------------------------------------------------------------------
(***************************************************************************)
(* Writing.                                                                *)
(***************************************************************************)
DefaultModel ==
    [text |-> DefaultOf, packages |-> <<>>, root |-> Absent, user |-> Absent, imported |-> FALSE]

\* One stream, in the form that moss completes itself.
RepositoriesNode ==
    Block("repositories", <<Block("unstable", <<Leaf("base-uri", Absent), Leaf("version", Absent)>>)>>)

PackagesNode(packages) == Block("packages", [i \in DOMAIN packages |-> Leaf(packages[i], Absent)])

SystemModelDocument(m) == <<RepositoriesNode, PackagesNode(m.packages)>>

FieldOrder == <<"strategy", "disk", "locale", "timezone", "desktop">>

FieldNodes(m) ==
    Pick([i \in DOMAIN FieldOrder |-> Leaf(FieldOrder[i], m.text[FieldOrder[i]])],
         {i \in DOMAIN FieldOrder : m.text[FieldOrder[i]] # Empty})

\* variant: the real name is not recorded
AccountNodesNameless(m) ==
    (IF m.root = Absent THEN <<>> ELSE <<Account("root", [hash |-> m.root])>>)
      \o (IF m.user = Absent THEN <<>>
          ELSE <<Account("user", [name |-> m.user.name, hash |-> m.user.hash])>>)

AccountNodes(m) ==
    (IF m.root = Absent THEN <<>> ELSE <<Account("root", [hash |-> m.root])>>)
      \o (IF m.user = Absent THEN <<>> ELSE <<Account("user", m.user)>>)

\* to_kdl; the date of installation, which nothing reads, is left out.
ToKdl(m) ==
    <<Block("install-model",
            FieldNodes(m)
              \o (IF AccountNodes(m) = <<>> THEN <<>> ELSE <<Block("accounts", AccountNodes(m))>>)
              \o <<Block("system-model", SystemModelDocument(m))>>)>>

-----------------------------------------------------------------------------
(***************************************************************************)
(* Reading.                                                                *)
(***************************************************************************)

\* A user needs a name and a password; a root without one is taken as it is.
ApplyAccount(m, node) ==
    CASE node.name = "root" -> [m EXCEPT !.root = Prop(node, "hash")]
      [] node.name = "user" /\ Prop(node, "name") # Absent /\ Prop(node, "hash") # Absent ->
            [m EXCEPT !.user = [name |-> Prop(node, "name"), hash |-> Prop(node, "hash"),
                realname |-> IF Prop(node, "realname") = Absent THEN Empty ELSE Prop(node, "realname")]]
      [] OTHER -> m

ApplyAccounts(m, nodes) ==
    LET after[k \in 0..Len(nodes)] == IF k = 0 THEN m ELSE ApplyAccount(after[k - 1], nodes[k])
    IN  after[Len(nodes)]

\* variant: an argument that is no string is not ignored
ApplyAnyField(m, node) ==
    CASE node.name \in Field -> [m EXCEPT !.text[node.name] = node.arg]
      [] node.name = "accounts" -> ApplyAccounts(m, node.kids)
      [] OTHER -> m

\* variant: the desktop is assigned to the strategy, too
ApplyFieldTwice(m, node) ==
    CASE node.name = "desktop" /\ node.arg # Absent ->
            [m EXCEPT !.text.desktop = node.arg, !.text.strategy = node.arg]
      [] node.name \in Field \ {"desktop"} /\ node.arg # Absent -> [m EXCEPT !.text[node.name] = node.arg]
      [] node.name = "accounts" -> ApplyAccounts(m, node.kids)
      [] OTHER -> m

\* apply_installer_field: of several nodes of a name the last one counts.
ApplyField(m, node) ==
    CASE node.name \in Field /\ node.arg # Absent -> [m EXCEPT !.text[node.name] = node.arg]
      [] node.name = "accounts" -> ApplyAccounts(m, node.kids)
      [] OTHER -> m

ApplyFields(m, nodes) ==
    LET after[k \in 0..Len(nodes)] == IF k = 0 THEN m ELSE ApplyField(after[k - 1], nodes[k])
    IN  after[Len(nodes)]

ApplyPackages(m, nodes) ==
    IF Has(nodes, "packages") THEN [m EXCEPT !.packages = Names(KidsOf(nodes, "packages"))] ELSE m

\* variant: the nested system-model is not looked at
ApplyFieldsOnly(m, doc) == ApplyFields(m, KidsOf(doc, "install-model"))

ApplyInstallModel(m, doc) ==
    LET kids == KidsOf(doc, "install-model")
    IN  ApplyPackages(ApplyFields(m, kids), KidsOf(kids, "system-model"))

ApplySystemModel(m, doc) == ApplyPackages(m, doc)

IsInstallModel(doc) == Has(doc, "install-model")

FromKdl(doc) ==
    IF IsInstallModel(doc) THEN ApplyInstallModel(DefaultModel, doc)
    ELSE ApplySystemModel(DefaultModel, doc)

\* ensure_mandatory, and the same lines after a refresh: a set, in its order.
EnsureMandatory(m) ==
    [m EXCEPT !.imported = TRUE, !.packages = SetToSeq(ToSet(@) \cup Mandatory[m.text.desktop])]

-----------------------------------------------------------------------------
(***************************************************************************)
(* The life of the documents.                                              *)
(***************************************************************************)
Nothing == [install |-> <<>>, system |-> <<>>]

DocumentsInit ==
    /\ model = DefaultModel
    /\ record = <<>>
    /\ live = <<>>
    /\ given = Nothing
    /\ fresh = TRUE
    /\ edits = 0

\* The steps have collected a model.
Collect ==
    /\ \E m \in Collected : model' = m
    /\ given' = Nothing
    /\ UNCHANGED <<record, live, fresh, edits>>

\* What the steps ask for is there.
Complete(m) == m.text.locale # Empty /\ m.text.timezone # Empty

\* The summary has both documents written.
Write ==
    /\ Complete(model)
    /\ record' = ToKdl(model)
    /\ live' = SystemModelDocument(model)
    /\ fresh' = TRUE
    /\ UNCHANGED <<model, given, edits>>

Edited ==
    /\ edits < MaxEdits
    /\ edits' = edits + 1
    /\ fresh' = FALSE
    /\ UNCHANGED <<model, given>>

Fields == KidsOf(record, "install-model")

\* The administrator removes a node of the record, or all of it.
RemoveNode(i) ==
    /\ Edited
    /\ record' = <<Block("install-model", RemoveAt(Fields, i))>>
    /\ UNCHANGED live

RemoveRecord == Edited /\ record # <<>> /\ record' = <<>> /\ UNCHANGED live

\* Or adds one at the end, with a string or something else, be there one or not.
AddNode(field, arg) ==
    /\ Edited
    /\ record # <<>>
    /\ record' = <<Block("install-model", Append(Fields, Leaf(field, arg)))>>
    /\ UNCHANGED live

\* moss adds or removes packages of the installed system.
ChangePackages(packages) ==
    /\ Edited
    /\ live # <<>>
    /\ live' = Append(Pick(live, DOMAIN live \ Places(live, "packages")), PackagesNode(packages))
    /\ UNCHANGED record

\* variant: the system-model is applied before the install-model
ImportSystemFirst(install, system) ==
    /\ install # <<>> \/ system # <<>>
    /\ install # <<>> => IsInstallModel(install)
    /\ system # <<>> => ~IsInstallModel(system)
    /\ model' = EnsureMandatory(ApplyInstallModel(ApplySystemModel(DefaultModel, system), install))
    /\ given' = [install |-> install, system |-> system]
    /\ UNCHANGED <<record, live, fresh, edits>>

\* Args::model: documents of the right form, or the CLI exits.
Import(install, system) ==
    /\ install # <<>> \/ system # <<>>
    /\ install # <<>> => IsInstallModel(install)
    /\ system # <<>> => ~IsInstallModel(system)
    /\ model' = EnsureMandatory(ApplySystemModel(ApplyInstallModel(DefaultModel, install), system))
    /\ given' = [install |-> install, system |-> system]
    /\ UNCHANGED <<record, live, fresh, edits>>

\* What discover_models hands out of a partition: the record, or else the
\* system-model.
Discovered == IF record # <<>> THEN record ELSE live

ImportDiscovered ==
    /\ Discovered # <<>>
    /\ model' = EnsureMandatory(FromKdl(Discovered))
    /\ given' = IF record # <<>> THEN [install |-> record, system |-> <<>>]
                ELSE [install |-> <<>>, system |-> live]
    /\ UNCHANGED <<record, live, fresh, edits>>

DocumentsNext ==
    \/ Collect \/ Write
    \/ \E i \in DOMAIN Fields : RemoveNode(i)
    \/ RemoveRecord
    \/ \E field \in Field, arg \in Text \cup {Absent} : AddNode(field, arg)
    \/ \E packages \in {<<p>> : p \in Package} \cup {<<>>} : ChangePackages(packages)
    \/ \E install \in {<<>>, record, live}, system \in {<<>>, record, live} : Import(install, system)
    \/ ImportDiscovered

DocumentsSpec == DocumentsInit /\ [][DocumentsNext]_documentsVars

-----------------------------------------------------------------------------
(***************************************************************************)
(* Properties.                                                             *)
(***************************************************************************)
DocumentsTypeOK ==
    /\ model \in ModelType
    /\ Len(record) <= 1 /\ (record # <<>> => IsInstallModel(record))
    /\ fresh \in BOOLEAN
    /\ edits \in 0..MaxEdits

\* "Re-importing it reproduces the installation": whatever documents a model came
\* from, what is written for it reads as the same model, order of the packages,
\* empty real names and missing accounts included.
RoundTrip == Complete(model) => FromKdl(ToKdl(model)) = [model EXCEPT !.imported = FALSE]

\* The record and the system-model of an installation agree on the packages:
\* importing the two, in either way, is importing the record.
DocumentsAgree ==
    record # <<>> /\ fresh =>
        /\ ApplySystemModel(FromKdl(record), live) = FromKdl(record)
        /\ FromKdl(live).packages = FromKdl(record).packages

\* A state is well typed, and each of its documents can stand for the model.
DocumentsOK == DocumentsTypeOK /\ RoundTrip /\ DocumentsAgree

\* "fields come from the install record", "packages come from the live
\* system-model": of an import of both, if the system-model lists packages.
MergePrefersLive ==
    given.install # <<>> /\ given.system # <<>> =>
        LET alone == FromKdl(given.install)
        IN  /\ model.text = alone.text /\ model.root = alone.root /\ model.user = alone.user
            /\ Has(given.system, "packages") =>
                  ToSet(model.packages) =
                      ToSet(Names(KidsOf(given.system, "packages"))) \cup Mandatory[model.text.desktop]

\* "Parse tolerantly": a node that is removed, added or spoilt changes the import
\* of its own field and of nothing else.
NodesOf(doc, field) == Named(KidsOf(doc, "install-model"), field)

EditsAreLocal ==
    [][record # <<>> /\ record' # <<>> /\ edits' > edits =>
          \A field \in Field :
              NodesOf(record, field) = NodesOf(record', field)
                  => FromKdl(record').text[field] = FromKdl(record).text[field]]_documentsVars

=============================================================================
