----------------------------- MODULE Navigation -----------------------------
(***************************************************************************)
(* The installer crate's Installer: a builder that collects step ids,      *)
(* loads the plugins registered under them and connects to the backend,    *)
(* and then a cursor that a frontend moves over the steps, of which it     *)
(* makes some available and others not, in any order it likes.             *)
(*                                                                         *)
(* Init, Next, Spec, TypeOK and vars bear the component's name, so that a  *)
(* module of proofs can extend this module beside Selections.              *)
(***************************************************************************)
EXTENDS Integers, Sequences, SequencesExt

CONSTANTS
    Id,          \* the ids a frontend may name
    Registered,  \* those a plugin is registered under
    NoStep       \* None, in place of an id

ASSUME NavigationAssumption == Registered \subseteq Id /\ NoStep \notin Id

VARIABLES
    phase,      \* builder, ready, failed (build returned an error) or gone
    order,      \* step_ids of the builder, step_order of the installer
    steps,      \* the ids of the loaded steps
    available,  \* available_steps
    active,     \* active_step
    answer      \* what the last call returned

navigationVars == <<phase, order, steps, available, active, answer>>

NavigationInit ==
    /\ phase = "builder"
    /\ order = <<>>
    /\ steps = {}
    /\ available = {}
    /\ active = NoStep
    /\ answer = "ok"

-----------------------------------------------------------------------------
(***************************************************************************)
(* The builder.                                                            *)
(***************************************************************************)

\* add_step.  A frontend adds a step once; the builder would take it twice.
AddStep(id) ==
    /\ phase = "builder"
    /\ id \notin ToSet(order)
    /\ order' = Append(order, id)
    /\ UNCHANGED <<phase, steps, available, active, answer>>

\* active_step: any id, whether or not it was added.
StartAt(id) ==
    /\ phase = "builder"
    /\ active' = id
    /\ UNCHANGED <<phase, order, steps, available, answer>>

\* build: every step is loaded and the first is made available; an id without a
\* plugin, or a backend that does not answer, is an error.
Build ==
    /\ phase = "builder"
    /\ \/ /\ ToSet(order) \subseteq Registered
          /\ phase' = "ready"
          /\ steps' = ToSet(order)
          /\ available' = IF order = <<>> THEN {} ELSE {Head(order)}
          /\ answer' = "ok"
       \/ /\ phase' = "failed"
          /\ answer' = IF ToSet(order) \subseteq Registered THEN "backend" ELSE "load"
          /\ UNCHANGED <<steps, available>>
    /\ UNCHANGED <<order, active>>

-----------------------------------------------------------------------------
(***************************************************************************)
(* Looking for the next and the previous step of a step.                   *)
(***************************************************************************)

Nearest(S) == CHOOSE i \in S : \A j \in S : i <= j
Furthest(S) == CHOOSE i \in S : \A j \in S : i >= j

\* variant: a step that is not available is as good as another
LaterAny(id) == {j \in DOMAIN order : \E i \in DOMAIN order : order[i] = id /\ i < j}

\* The places of the available steps after, and before, a step of the order; none
\* if the step is not in the order.
Later(id) ==
    {j \in DOMAIN order : order[j] \in available /\ \E i \in DOMAIN order : order[i] = id /\ i < j}

Earlier(id) ==
    {j \in DOMAIN order : order[j] \in available /\ \E i \in DOMAIN order : order[i] = id /\ j < i}

\* next_available_step_id
NextOf(id) == IF Later(id) = {} THEN NoStep ELSE order[Nearest(Later(id))]

\* variant: the search does not run backwards
PreviousFromFront(id) == IF Earlier(id) = {} THEN NoStep ELSE order[Nearest(Earlier(id))]

\* previous_available_step_id
PreviousOf(id) == IF Earlier(id) = {} THEN NoStep ELSE order[Furthest(Earlier(id))]

-----------------------------------------------------------------------------
(***************************************************************************)
(* The calls of a frontend.                                                *)
(***************************************************************************)

Answers(result) == answer' = result /\ UNCHANGED <<phase, order, steps>>

\* set_active_step: unchecked.
SetActiveStep(id) ==
    /\ phase = "ready"
    /\ active' = id
    /\ Answers("ok")
    /\ UNCHANGED available

\* variant: an id that no step was loaded for is made available, too
MakeAnyAvailable(id) ==
    /\ phase = "ready"
    /\ available' = available \cup {id}
    /\ Answers("ok")
    /\ UNCHANGED active

MakeStepAvailable(id) ==
    /\ phase = "ready"
    /\ IF id \in steps
       THEN available' = available \cup {id} /\ Answers("ok")
       ELSE Answers("not found") /\ UNCHANGED available
    /\ UNCHANGED active

MakeStepUnavailable(id) ==
    /\ phase = "ready"
    /\ available' = available \ {id}
    /\ Answers("ok")
    /\ UNCHANGED active

GotoStep(id) ==
    /\ phase = "ready"
    /\ IF id \in available
       THEN active' = id /\ Answers("ok")
       ELSE /\ Answers(IF id \in steps THEN "unavailable" ELSE "not found")
            /\ UNCHANGED active
    /\ UNCHANGED available

NextStep ==
    /\ phase = "ready"
    /\ IF NextOf(active) # NoStep
       THEN active' = NextOf(active) /\ Answers("ok")
       ELSE UNCHANGED active /\ Answers("no next")
    /\ UNCHANGED available

PreviousStep ==
    /\ phase = "ready"
    /\ IF PreviousOf(active) # NoStep
       THEN active' = PreviousOf(active) /\ Answers("ok")
       ELSE UNCHANGED active /\ Answers("no previous")
    /\ UNCHANGED available

\* shutdown takes the installer away from the frontend.
Shutdown ==
    /\ phase = "ready"
    /\ phase' = "gone"
    /\ \E result \in {"ok", "backend"} : answer' = result
    /\ UNCHANGED <<order, steps, available, active>>

NavigationNext ==
    \/ \E id \in Id : AddStep(id) \/ StartAt(id)
    \/ Build
    \/ \E id \in Id :
          SetActiveStep(id) \/ MakeStepAvailable(id) \/ MakeStepUnavailable(id) \/ GotoStep(id)
    \/ NextStep \/ PreviousStep
    \/ Shutdown

NavigationSpec == NavigationInit /\ [][NavigationNext]_navigationVars

-----------------------------------------------------------------------------
(***************************************************************************)
(* Properties.                                                             *)
(***************************************************************************)

NavigationTypeOK ==
    /\ phase \in {"builder", "ready", "failed", "gone"}
    /\ order \in Seq(Id)
    /\ steps \subseteq Registered
    /\ available \subseteq Id
    /\ active \in Id \cup {NoStep}
    /\ answer \in {"ok", "load", "backend", "not found", "unavailable", "no next", "no previous"}

\* What can be made available, and so be entered by goto_step, is a loaded step
\* with a place in the order: active_step has something to perform and next_step
\* leads on from it, whatever the frontend asked for.
Navigable == available \subseteq steps /\ steps \subseteq ToSet(order)

\* A step back from the next step is where the user was, and a step forth from the
\* previous one, whatever has been made available or unavailable meanwhile.
BackAndForth ==
    \A id, other \in available : NextOf(id) = other <=> PreviousOf(other) = id

\* "Navigate to the next available step": next_step and previous_step stay where
\* they are if there is no available step on that side, and otherwise enter the
\* one with no other available step in between.
Between(low, high) == {order[k] : k \in {j \in DOMAIN order : low < j /\ j < high}}

Moves(back) ==
    IF active' = active
    THEN answer' # "ok"
    ELSE \E i, j \in DOMAIN order :
            /\ order[i] = active /\ order[j] = active'
            /\ active' \in available
            /\ IF back THEN j < i /\ Between(j, i) \cap available = {}
                       ELSE i < j /\ Between(i, j) \cap available = {}

NothingSkipped == [][(NextStep => Moves(FALSE)) /\ (PreviousStep => Moves(TRUE))]_navigationVars

=============================================================================
