----------------------------- MODULE Selections -----------------------------
(***************************************************************************)
(* resolve: the loop that turns the name of a package selection into the   *)
(* packages to install.  The selections to visit are on a stack, to which  *)
(* those a visited one depends on are added; a visit needs the definition  *)
(* of the selection.  Wizard uses what the loop computes, the closure.     *)
(***************************************************************************)
EXTENDS Integers, Sequences, SequencesExt

CONSTANTS
    Selection,     \* the embedded selections
    Name,          \* names that may be asked for or depended on
    Hidden,        \* the selections that are not offered
    Implicit,      \* those that are always installed, as a sequence
    Headless,      \* the selection whose mandatory part is Base ("server")
    Base, Common,  \* "base" and "desktop-common"
    Package,
    PackagesOf,    \* selection |-> its own packages
    Definitions    \* the possible functions: selection |-> what it depends on, in order

ASSUME SelectionsAssumption ==
    /\ Selection \subseteq Name
    /\ Implicit \in Seq(Selection)
    /\ {Base, Common, Headless} \cup Hidden \subseteq Selection
    /\ PackagesOf \in [Selection -> SUBSET Package]
    /\ Definitions \subseteq [Selection -> Seq(Name)]

VARIABLES
    depends,   \* the definitions that are compiled in
    name,      \* the argument
    pending,   \* the stack
    visited,
    packages,
    outcome    \* running, resolved, unknown

vars == <<depends, name, pending, visited, packages, outcome>>

TypeOK ==
    /\ depends \in [Selection -> Seq(Name)]
    /\ name \in Name
    /\ pending \in Seq(Name)
    /\ visited \subseteq Name
    /\ packages \subseteq Package
    /\ outcome \in {"running", "resolved", "unknown"}

Init ==
    /\ depends \in Definitions
    /\ name \in Name
    /\ pending = Append(Implicit, name)
    /\ visited = {}
    /\ packages = {}
    /\ outcome = "running"

-----------------------------------------------------------------------------
Running == outcome = "running" /\ pending # <<>>

Current == Last(pending)

\* variant: the name is looked at and left on the stack
SkipAndKeep ==
    /\ Running /\ Current \in visited
    /\ UNCHANGED vars

\* A name that has been visited is dropped.
Skip ==
    /\ Running /\ Current \in visited
    /\ pending' = Front(pending)
    /\ UNCHANGED <<depends, name, visited, packages, outcome>>

\* variant: the dependencies replace the rest of the stack
VisitForgetting ==
    /\ Running /\ Current \notin visited /\ Current \in Selection
    /\ visited' = visited \cup {Current}
    /\ packages' = packages \cup PackagesOf[Current]
    /\ pending' = depends[Current]
    /\ UNCHANGED <<depends, name, outcome>>

\* variant: what is installed is extended by the names depended on
VisitMixingUp ==
    /\ Running /\ Current \notin visited /\ Current \in Selection
    /\ visited' = visited \cup {Current}
    /\ packages' = packages \cup Range(depends[Current])
    /\ pending' = Front(pending) \o depends[Current]
    /\ UNCHANGED <<depends, name, outcome>>

\* A selection adds its packages, and what it depends on to the stack.
Visit ==
    /\ Running /\ Current \notin visited /\ Current \in Selection
    /\ visited' = visited \cup {Current}
    /\ packages' = packages \cup PackagesOf[Current]
    /\ pending' = Front(pending) \o depends[Current]
    /\ UNCHANGED <<depends, name, outcome>>

\* "unknown selection: ..."
Fail ==
    /\ Running /\ Current \notin visited /\ Current \notin Selection
    /\ visited' = visited \cup {Current}
    /\ pending' = Front(pending)
    /\ outcome' = "unknown"
    /\ UNCHANGED <<depends, name, packages>>

Return ==
    /\ outcome = "running" /\ pending = <<>>
    /\ outcome' = "resolved"
    /\ UNCHANGED <<depends, name, pending, visited, packages>>

Next == Skip \/ Visit \/ Fail \/ Return

Spec == Init /\ [][Next]_vars

FairSpec == Spec /\ WF_vars(Next)

-----------------------------------------------------------------------------
(***************************************************************************)
(* What the loop is to compute, without a stack.                           *)
(***************************************************************************)

Roots(n) == Range(Implicit) \cup {n}

ClosedUnderDepends(S) == \A s \in S \cap Selection : Range(depends[s]) \subseteq S

\* The names that the implicit selections and n reach.
Closure(n) == {x \in Name : \A S \in SUBSET Name : Roots(n) \subseteq S /\ ClosedUnderDepends(S) => x \in S}

PackagesIn(S) == UNION {PackagesOf[s] : s \in S \cap Selection}

\* resolve returns the packages of exactly the selections it reaches, whatever
\* the order and the cycles of the definitions, and refuses exactly when one of
\* the names it reaches has no definition.
ResolvesClosure ==
    /\ outcome = "resolved" =>
         visited = Closure(name) /\ visited \subseteq Selection /\ packages = PackagesIn(Closure(name))
    /\ outcome = "unknown" => ~ (Closure(name) \subseteq Selection)

\* The invariant of the loop: whatever is still to be reached is below a name on
\* the stack, and nothing is visited or on the stack that need not be.
LoopInv ==
    /\ TypeOK
    /\ visited \cup Range(pending) \subseteq Closure(name)
    /\ Roots(name) \subseteq visited \cup Range(pending)
    /\ \A s \in visited \cap Selection : Range(depends[s]) \subseteq visited \cup Range(pending)
    /\ packages = PackagesIn(visited)
    /\ outcome = "resolved" => pending = <<>>
    /\ outcome = "unknown" <=> ~ (visited \subseteq Selection)

\* variant: the branches are swapped
MandatoryRootSwapped(n) == IF n = Headless THEN Common ELSE Base

\* mandatory: the selection that is resolved to find what an import must carry.
MandatoryRoot(n) == IF n = Headless THEN Base ELSE Common

Offered == Selection \ Hidden

\* In the definitions the server reaches, through what it depends on, the base,
\* and every other selection that is offered the common part of the desktops: no
\* set that is closed under dependence holds the one without the other.
ASSUME OfferedReachMandatory ==
    \A definitions \in Definitions, n \in Offered, S \in SUBSET Name :
        n \in S /\ (\A s \in S \cap Selection : Range(definitions[s]) \subseteq S)
            => IF n = Headless THEN Base \in S ELSE Common \in S

\* Picking an offered selection installs at least what mandatory adds to an
\* imported model of that selection: a fresh installation is never poorer than
\* an imported one.
MandatoryCarried ==
    outcome = "resolved" /\ name \in Offered => Closure(MandatoryRoot(name)) \subseteq visited

\* resolve returns, even if definitions depend on each other in a circle.
Returns == <>(outcome # "running")
=============================================================================
