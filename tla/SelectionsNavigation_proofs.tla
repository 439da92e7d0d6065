-------------------- MODULE SelectionsNavigation_proofs --------------------
(***************************************************************************)
(* Two parts of the program that know nothing of each other: the loop of   *)
(* resolve computes the dependency closure, for every set of definitions,  *)
(* and the navigation keeps its promises, for every order of steps.        *)
(***************************************************************************)
EXTENDS Selections, Navigation, SequenceTheorems, WellFoundedInduction, TLAPS

\* Taking the top off a stack keeps every other element.
LEMMA Popped ==
    ASSUME NEW T, NEW s \in Seq(T), s # <<>>
    PROVE  /\ Last(s) \in T
           /\ Front(s) \in Seq(T)
           /\ Range(s) = Range(Front(s)) \cup {Last(s)}
<1> DEFINE n == Len(s)
           f == Front(s)
<1>1. n \in Nat \ {0} /\ DOMAIN s = 1..n /\ \A i \in 1..n : s[i] \in T
  OBVIOUS
<1>2. f \in Seq(T) /\ Len(f) = n - 1 /\ \A i \in 1..(n - 1) : f[i] = s[i]
  BY <1>1 DEF Front
<1>3. Last(s) = s[n]
  BY DEF Last
<1>4. Range(s) = Range(f) \cup {Last(s)}
  <2>1. Range(s) = {s[i] : i \in 1..n} /\ Range(f) = {f[i] : i \in 1..(n - 1)}
    BY <1>1, <1>2 DEF Range
  <2> HIDE DEF n, f
  <2>2. \A i \in 1..n : i \in 1..(n - 1) \/ i = n
    BY <1>1
  <2>3. \A i \in 1..(n - 1) : i \in 1..n
    BY <1>1
  <2> QED
    BY <1>1, <1>2, <1>3, <2>1, <2>2, <2>3
<1> QED
  BY <1>1, <1>2, <1>3, <1>4

\* The closure holds its roots and what its members depend on, and nothing that
\* some other set like that does without.
LEMMA ClosureLeast ==
    ASSUME TypeOK
    PROVE  /\ Roots(name) \subseteq Closure(name)
           /\ ClosedUnderDepends(Closure(name))
           /\ \A S \in SUBSET Name : Roots(name) \subseteq S /\ ClosedUnderDepends(S) => Closure(name) \subseteq S
<1>1. Roots(name) \subseteq Name
  BY SelectionsAssumption DEF TypeOK, Roots, Range
<1>2. \A s \in Selection : Range(depends[s]) \subseteq Name
  BY DEF TypeOK, Range
<1>3. Roots(name) \subseteq Closure(name)
  BY <1>1 DEF Closure
<1>4. ClosedUnderDepends(Closure(name))
  <2> SUFFICES ASSUME NEW s \in Closure(name) \cap Selection, NEW x \in Range(depends[s])
               PROVE  x \in Closure(name)
    BY DEF ClosedUnderDepends
  <2>1. x \in Name
    BY <1>2
  <2>2. ASSUME NEW S \in SUBSET Name, Roots(name) \subseteq S, ClosedUnderDepends(S) PROVE x \in S
    <3>1. s \in S \cap Selection
      BY <2>2 DEF Closure
    <3> QED
      BY <2>2, <3>1 DEF ClosedUnderDepends
  <2> QED
    BY <2>1, <2>2 DEF Closure
<1> QED
  BY <1>3, <1>4 DEF Closure

\* The invariant holds when the loop is entered.
LEMMA LoopEntered == Init => LoopInv
<1> SUFFICES ASSUME Init PROVE LoopInv
  OBVIOUS
<1> USE SelectionsAssumption
<1>1. Implicit \in Seq(Name) /\ name \in Name
  BY DEF Init
<1>2. TypeOK
  BY <1>1 DEF Init, TypeOK
<1>3. Range(pending) = Roots(name)
  <2>1. pending \in Seq(Name) /\ Len(pending) = Len(Implicit) + 1
    BY <1>1 DEF Init
  <2>2. pending[Len(Implicit) + 1] = name /\ \A i \in 1..Len(Implicit) : pending[i] = Implicit[i]
    BY <1>1 DEF Init
  <2> QED
    BY <1>1, <2>1, <2>2 DEF Range, Roots
<1>4. packages = PackagesIn(visited)
  BY DEF Init, PackagesIn
<1> QED
  BY <1>2, <1>3, <1>4, ClosureLeast DEF Init, LoopInv

\* Every step of the loop keeps it.
LEMMA LoopKept == LoopInv /\ [Next]_vars => LoopInv'
<1> SUFFICES ASSUME LoopInv, [Next]_vars PROVE LoopInv'
  OBVIOUS
<1> USE SelectionsAssumption
<1> DEFINE rest == Front(pending)
<1>1. TypeOK
  BY DEF LoopInv
<1>2. /\ Roots(name) \subseteq Closure(name)
      /\ ClosedUnderDepends(Closure(name))
  BY <1>1, ClosureLeast
<1>3. ASSUME Running
      PROVE  /\ Current \in Name /\ rest \in Seq(Name)
             /\ Range(pending) = Range(rest) \cup {Current}
             /\ \A s \in Selection : /\ rest \o depends[s] \in Seq(Name)
                                     /\ Range(rest \o depends[s]) = Range(rest) \cup Range(depends[s])
  <2>1. pending \in Seq(Name) /\ pending # <<>> /\ \A s \in Selection : depends[s] \in Seq(Name)
    BY <1>1, <1>3 DEF Running, TypeOK
  <2>2. Last(pending) \in Name /\ rest \in Seq(Name) /\ Range(pending) = Range(rest) \cup {Last(pending)}
    BY <2>1, Popped
  <2> HIDE DEF rest
  <2>3. \A s \in Selection : /\ rest \o depends[s] \in Seq(Name)
                             /\ Range(rest \o depends[s]) = Range(rest) \cup Range(depends[s])
    BY <2>1, <2>2, ConcatProperties, RangeConcatenation
  <2> QED
    BY <2>2, <2>3 DEF Current
<1> HIDE DEF rest
<1>4. depends' = depends /\ name' = name
  BY DEF Next, vars, Skip, Visit, Fail, Return
<1>5. Closure(name)' = Closure(name) /\ Roots(name)' = Roots(name)
  BY <1>4 DEF Closure, Roots, ClosedUnderDepends
<1>6. CASE Skip
  <2>1. Running /\ Current \in visited /\ pending' = rest
    BY <1>6 DEF Skip, rest
  <2>2. visited \cup Range(pending) = visited \cup Range(rest)
    BY <1>3, <2>1
  <2>3. UNCHANGED <<visited, packages, outcome>>
    BY <1>6 DEF Skip
  <2>4. TypeOK'
    BY <1>1, <1>3, <1>4, <2>1, <2>3 DEF TypeOK
  <2>5. outcome # "resolved"
    BY <2>1 DEF Running
  <2>6. PackagesIn(visited)' = PackagesIn(visited)
    BY <2>3 DEF PackagesIn
  <2> QED
    BY <1>4, <1>5, <2>1, <2>2, <2>3, <2>4, <2>5, <2>6 DEF LoopInv
<1>7. CASE Visit
  <2>1. /\ Running /\ Current \notin visited /\ Current \in Selection
        /\ visited' = visited \cup {Current}
        /\ packages' = packages \cup PackagesOf[Current]
        /\ pending' = rest \o depends[Current]
        /\ outcome' = outcome
    BY <1>7 DEF Visit, rest
  <2>2. outcome = "running"
    BY <2>1 DEF Running
  <2>3. (visited \cup Range(pending))' = visited \cup Range(pending) \cup Range(depends[Current])
    BY <1>3, <2>1
  <2>4. Range(depends[Current]) \subseteq Closure(name)
    <3>1. Current \in Closure(name) \cap Selection
      BY <1>3, <2>1 DEF LoopInv
    <3> QED
      BY <1>2, <3>1 DEF ClosedUnderDepends
  <2>5. TypeOK'
    BY <1>1, <1>3, <1>4, <2>1 DEF TypeOK
  <2>6. packages' = PackagesIn(visited)'
    <3>1. packages = PackagesIn(visited)
      BY DEF LoopInv
    <3> QED
      BY <2>1, <3>1 DEF PackagesIn
  <2>7. (\A s \in visited \cap Selection : Range(depends[s]) \subseteq visited \cup Range(pending))'
    BY <1>4, <2>1, <2>3 DEF LoopInv
  <2>8. ((outcome = "resolved" => pending = <<>>) /\ (outcome = "unknown" <=> ~ (visited \subseteq Selection)))'
    BY <2>1, <2>2 DEF LoopInv
  <2>9. (visited \cup Range(pending) \subseteq Closure(name) /\ Roots(name) \subseteq visited \cup Range(pending))'
    BY <1>5, <2>3, <2>4 DEF LoopInv
  <2> QED
    BY <2>5, <2>6, <2>7, <2>8, <2>9 DEF LoopInv
<1>8. CASE Fail
  <2>1. /\ Running /\ Current \notin Selection
        /\ visited' = visited \cup {Current}
        /\ pending' = rest /\ outcome' = "unknown" /\ packages' = packages
    BY <1>8 DEF Fail, rest
  <2>2. (visited \cup Range(pending))' = visited \cup Range(pending)
    BY <1>3, <2>1
  <2>3. TypeOK'
    BY <1>1, <1>3, <1>4, <2>1 DEF TypeOK
  <2>4. PackagesIn(visited)' = PackagesIn(visited)
    BY <2>1 DEF PackagesIn
  <2>5. (\A s \in visited \cap Selection : Range(depends[s]) \subseteq visited \cup Range(pending))'
    BY <1>4, <2>1, <2>2 DEF LoopInv
  <2>6. (visited \cup Range(pending) \subseteq Closure(name) /\ Roots(name) \subseteq visited \cup Range(pending))'
    BY <1>5, <2>2 DEF LoopInv
  <2> QED
    BY <2>1, <2>3, <2>4, <2>5, <2>6 DEF LoopInv
<1>9. CASE Return
  <2>1. /\ outcome = "running" /\ pending = <<>> /\ outcome' = "resolved"
        /\ UNCHANGED <<depends, name, pending, visited, packages>>
    BY <1>9 DEF Return
  <2>2. TypeOK' /\ PackagesIn(visited)' = PackagesIn(visited)
    BY <1>1, <2>1 DEF TypeOK, PackagesIn
  <2> QED
    BY <1>5, <2>1, <2>2 DEF LoopInv
<1>10. CASE UNCHANGED vars
  BY <1>5, <1>10 DEF vars, LoopInv, TypeOK, PackagesIn
<1> QED
  BY <1>6, <1>7, <1>8, <1>9, <1>10 DEF Next

\* The invariant of the loop holds in every reachable state.
THEOREM LoopInvariant == Spec => []LoopInv
<1> QED
  BY LoopEntered, LoopKept, PTL DEF Spec

\* resolve returns the packages of exactly the selections its argument and the
\* implicit ones reach, and refuses exactly when a name it reaches is unknown,
\* for every set of definitions.
THEOREM ResolveComputesClosure == Spec => []ResolvesClosure
<1>1. LoopInv => ResolvesClosure
  <2> SUFFICES ASSUME LoopInv PROVE ResolvesClosure
    OBVIOUS
  <2>1. TypeOK
    BY DEF LoopInv
  <2>2. CASE outcome = "resolved"
    <3>1. pending = <<>> /\ Range(pending) = {}
      BY <2>2 DEF LoopInv, Range
    <3>2. visited \subseteq Closure(name) /\ Roots(name) \subseteq visited /\ visited \subseteq Selection
      BY <2>2, <3>1 DEF LoopInv
    <3>3. ClosedUnderDepends(visited)
      BY <3>1 DEF LoopInv, ClosedUnderDepends
    <3>4. visited \in SUBSET Name
      BY <2>1 DEF TypeOK
    <3>5. visited = Closure(name)
      BY <2>1, <3>2, <3>3, <3>4, ClosureLeast
    <3> QED
      BY <2>2, <3>2, <3>5 DEF LoopInv, ResolvesClosure
  <2>3. CASE outcome = "unknown"
    BY <2>3 DEF LoopInv, ResolvesClosure
  <2> QED
    BY <2>2, <2>3 DEF ResolvesClosure
<1> QED
  BY <1>1, LoopInvariant, PTL

\* Picking an offered selection installs at least what mandatory adds to an
\* imported model of that selection, for every set of definitions in which the
\* offered selections depend on their mandatory parts.
THEOREM MandatoryCarriedAlways == Spec => []MandatoryCarried
<1>1. TypeOK /\ depends \in Definitions /\ ResolvesClosure => MandatoryCarried
  <2> SUFFICES ASSUME TypeOK, depends \in Definitions, ResolvesClosure,
                      outcome = "resolved", name \in Offered
               PROVE  Closure(MandatoryRoot(name)) \subseteq visited
    BY DEF MandatoryCarried
  <2>1. visited = Closure(name)
    BY DEF ResolvesClosure
  <2>2. ASSUME NEW x \in Closure(MandatoryRoot(name)),
               NEW S \in SUBSET Name, Roots(name) \subseteq S, ClosedUnderDepends(S)
        PROVE  x \in S
    <3>1. \A s \in S \cap Selection : Range(depends[s]) \subseteq S
      BY <2>2 DEF ClosedUnderDepends
    <3>2. name \in S
      BY <2>2 DEF Roots
    <3>3. MandatoryRoot(name) \in S
      BY <3>1, <3>2, OfferedReachMandatory DEF MandatoryRoot
    <3>4. Roots(MandatoryRoot(name)) \subseteq S
      BY <2>2, <3>3 DEF Roots
    <3> QED
      BY <2>2, <3>4 DEF Closure
  <2>3. Closure(MandatoryRoot(name)) \subseteq Name
    BY DEF Closure
  <2>4. Closure(MandatoryRoot(name)) \subseteq Closure(name)
    BY <2>2, <2>3 DEF Closure
  <2> QED
    BY <2>1, <2>4
<1>2. Spec => [](depends \in Definitions)
  <2>1. Init => depends \in Definitions
    BY DEF Init
  <2>2. depends \in Definitions /\ [Next]_vars => (depends \in Definitions)'
    BY DEF Next, Skip, Visit, Fail, Return, vars
  <2> QED
    BY <2>1, <2>2, PTL DEF Spec
<1>3. LoopInv => TypeOK
  BY DEF LoopInv
<1> QED
  BY <1>1, <1>2, <1>3, LoopInvariant, ResolveComputesClosure, PTL

-----------------------------------------------------------------------------
(***************************************************************************)
(* Navigation, for any ids, plugins and order of calls.  The invariant     *)
(* adds to the two that are checked that no id has two places in the       *)
(* order, which next and previous rely on.                                 *)
(***************************************************************************)
OnceInOrder == \A i, j \in DOMAIN order : order[i] = order[j] => i = j

NavInv == NavigationTypeOK /\ Navigable /\ OnceInOrder

\* The nearest of some places is one of them, and no other is nearer.
LEMMA NearestIs ==
    ASSUME NEW S, S \subseteq Nat, S # {}
    PROVE  Nearest(S) \in S /\ \A j \in S : Nearest(S) <= j
<1>1. PICK x \in S : \A y \in S : ~(<<y, x>> \in OpToRel(<, Nat))
  BY NatLessThanWellFounded, WFMin
<1>2. ASSUME NEW y \in S PROVE x <= y
  <2>1. ~(y < x)
    BY <1>1 DEF OpToRel
  <2> QED BY <2>1
<1> QED BY <1>2 DEF Nearest

\* The furthest of some places up to n is one of them, and no other is further.
LEMMA FurthestIs ==
    ASSUME NEW n \in Nat, NEW S, S \subseteq 0..n, S # {}
    PROVE  Furthest(S) \in S /\ \A j \in S : Furthest(S) >= j
<1> DEFINE T == {n - i : i \in S}
<1>1. T \subseteq Nat /\ T # {}
  OBVIOUS
<1>2. Nearest(T) \in T /\ \A t \in T : Nearest(T) <= t
  BY <1>1, NearestIs
<1>3. PICK x \in S : Nearest(T) = n - x
  BY <1>2
<1>4. ASSUME NEW j \in S PROVE x >= j
  <2>1. n - j \in T
    OBVIOUS
  <2>2. n - x <= n - j
    BY <1>2, <1>3, <2>1
  <2> QED BY <2>2
<1> QED BY <1>4 DEF Furthest

-----------------------------------------------------------------------------

LEMMA NavInitInv == NavigationInit => NavInv
BY NavigationAssumption DEF NavigationInit, NavInv, NavigationTypeOK, Navigable, OnceInOrder, ToSet

\* Places are numbers from 1 up to the length of the order.
LEMMA PlacesAre ==
    ASSUME NavInv
    PROVE  DOMAIN order = 1..Len(order) /\ Len(order) \in Nat
<1>1. order \in Seq(Id)
  BY Zenon DEF NavInv, NavigationTypeOK
<1> QED BY <1>1

LEMMA LaterAre == ASSUME NavInv, NEW id PROVE Later(id) \subseteq Nat
<1>1. Later(id) \subseteq DOMAIN order
  BY DEF Later
<1> QED BY <1>1, PlacesAre

LEMMA EarlierAre == ASSUME NavInv, NEW id PROVE Earlier(id) \subseteq 0..Len(order)
<1>1. Earlier(id) \subseteq DOMAIN order
  BY DEF Earlier
<1> QED BY <1>1, PlacesAre

\* Where next leads: to an available step, past none.
LEMMA NextLeads ==
    ASSUME NavInv, NEW id, NextOf(id) # NoStep
    PROVE  \E i, j \in DOMAIN order :
              /\ order[i] = id /\ order[j] = NextOf(id) /\ order[j] \in available /\ i < j
              /\ \A k \in DOMAIN order : i < k /\ k < j => order[k] \notin available
<1> DEFINE S == Later(id)
<1>1. S # {} /\ NextOf(id) = order[Nearest(S)]
  BY DEF NextOf
<1>2. S \subseteq Nat
  BY LaterAre
<1>3. Nearest(S) \in S /\ \A j \in S : Nearest(S) <= j
  BY <1>1, <1>2, NearestIs
<1>4. PICK i \in DOMAIN order : order[i] = id /\ i < Nearest(S)
  BY <1>3 DEF Later
<1>5. \A k \in DOMAIN order : i < k /\ k < Nearest(S) => order[k] \notin available
  <2> SUFFICES ASSUME NEW k \in DOMAIN order, i < k, k < Nearest(S), order[k] \in available
               PROVE  FALSE
    OBVIOUS
  <2>1. k \in S
    BY <1>4 DEF Later
  <2> QED BY <2>1, <1>2, <1>3
<1>6. Nearest(S) \in DOMAIN order /\ order[Nearest(S)] \in available
  BY <1>3 DEF Later
<1> HIDE DEF S
<1> QED BY <1>1, <1>4, <1>5, <1>6

\* Where previous leads: to an available step, past none.
LEMMA PreviousLeads ==
    ASSUME NavInv, NEW id, PreviousOf(id) # NoStep
    PROVE  \E i, j \in DOMAIN order :
              /\ order[i] = id /\ order[j] = PreviousOf(id) /\ order[j] \in available /\ j < i
              /\ \A k \in DOMAIN order : j < k /\ k < i => order[k] \notin available
<1> DEFINE S == Earlier(id)
<1>1. S # {} /\ PreviousOf(id) = order[Furthest(S)]
  BY DEF PreviousOf
<1>2. S \subseteq 0..Len(order) /\ Len(order) \in Nat
  BY EarlierAre, PlacesAre
<1>3. Furthest(S) \in S /\ \A j \in S : Furthest(S) >= j
  BY <1>1, <1>2, FurthestIs
<1>4. PICK i \in DOMAIN order : order[i] = id /\ Furthest(S) < i
  BY <1>3 DEF Earlier
<1>5. \A k \in DOMAIN order : Furthest(S) < k /\ k < i => order[k] \notin available
  <2> SUFFICES ASSUME NEW k \in DOMAIN order, Furthest(S) < k, k < i, order[k] \in available
               PROVE  FALSE
    OBVIOUS
  <2>1. k \in S
    BY <1>4 DEF Earlier
  <2> QED BY <2>1, <1>2, <1>3
<1>6. Furthest(S) \in DOMAIN order /\ order[Furthest(S)] \in available
  BY <1>3 DEF Earlier
<1> HIDE DEF S
<1> QED BY <1>1, <1>4, <1>5, <1>6

\* Both ends of a step forth are no ids but places, so None is not among them.
LEMMA NoStepIsNoStep == ASSUME NavInv PROVE NoStep \notin available
BY NavigationAssumption DEF NavInv, NavigationTypeOK

LEMMA ForthThenBack ==
    ASSUME NavInv, NEW id \in available, NEW other \in available, NextOf(id) = other
    PROVE  PreviousOf(other) = id
<1>1. other # NoStep /\ id # NoStep
  BY NoStepIsNoStep
<1>2. PICK i, j \in DOMAIN order :
         /\ order[i] = id /\ order[j] = other /\ i < j
         /\ \A k \in DOMAIN order : i < k /\ k < j => order[k] \notin available
  BY <1>1, NextLeads
<1>3. i \in Earlier(other)
  BY <1>2 DEF Earlier
<1>4. PreviousOf(other) # NoStep
  <2>1. Furthest(Earlier(other)) \in Earlier(other)
    BY <1>3, FurthestIs, EarlierAre, PlacesAre
  <2> QED BY <1>3, <2>1, NoStepIsNoStep DEF PreviousOf, Earlier
<1>5. PICK m, n \in DOMAIN order :
         /\ order[m] = other /\ order[n] = PreviousOf(other) /\ order[n] \in available /\ n < m
         /\ \A k \in DOMAIN order : n < k /\ k < m => order[k] \notin available
  BY <1>4, PreviousLeads
<1>6. m = j
  BY <1>2, <1>5 DEF NavInv, OnceInOrder
<1>7. i \in Int /\ n \in Int /\ j \in Int
  BY PlacesAre
<1>8. n = i
  BY <1>2, <1>5, <1>6, <1>7
<1> QED BY <1>2, <1>5, <1>8

LEMMA BackThenForth ==
    ASSUME NavInv, NEW id \in available, NEW other \in available, PreviousOf(other) = id
    PROVE  NextOf(id) = other
<1>1. other # NoStep /\ id # NoStep
  BY NoStepIsNoStep
<1>2. PICK i, j \in DOMAIN order :
         /\ order[i] = other /\ order[j] = id /\ j < i
         /\ \A k \in DOMAIN order : j < k /\ k < i => order[k] \notin available
  BY <1>1, PreviousLeads
<1>3. i \in Later(id)
  BY <1>2 DEF Later
<1>4. NextOf(id) # NoStep
  <2>1. Nearest(Later(id)) \in Later(id)
    BY <1>3, NearestIs, LaterAre
  <2> QED BY <1>3, <2>1, NoStepIsNoStep DEF NextOf, Later
<1>5. PICK m, n \in DOMAIN order :
         /\ order[m] = id /\ order[n] = NextOf(id) /\ order[n] \in available /\ m < n
         /\ \A k \in DOMAIN order : m < k /\ k < n => order[k] \notin available
  BY <1>4, NextLeads
<1>6. m = j
  BY <1>2, <1>5 DEF NavInv, OnceInOrder
<1>7. i \in Int /\ n \in Int /\ j \in Int
  BY PlacesAre
<1>8. n = i
  BY <1>2, <1>5, <1>6, <1>7
<1> QED BY <1>2, <1>5, <1>8

\* Every call keeps the invariant.
LEMMA NavNextInv == NavInv /\ [NavigationNext]_navigationVars => NavInv'
<1> SUFFICES ASSUME NavInv, [NavigationNext]_navigationVars PROVE NavInv'
  OBVIOUS
<1> USE NavigationAssumption
<1>1. ASSUME NEW id \in Id, AddStep(id) PROVE NavInv'
  <2>1. order' = Append(order, id) /\ order \in Seq(Id)
    BY <1>1, Zenon DEF AddStep, NavInv, NavigationTypeOK
  <2>2. order' \in Seq(Id) /\ Len(order') = Len(order) + 1 /\ order'[Len(order) + 1] = id
    BY <2>1
  <2>3. \A i \in DOMAIN order : order'[i] = order[i]
    BY <2>1
  <2>4. DOMAIN order = 1..Len(order) /\ DOMAIN order' = 1..Len(order) + 1
    BY <2>1, <2>2
  <2>5. NavigationTypeOK'
    BY <1>1, <2>2 DEF AddStep, NavInv, NavigationTypeOK
  <2>6. ToSet(order) \subseteq ToSet(order')
    BY <2>1, <2>3, <2>4 DEF ToSet
  <2>7. Navigable'
    BY <1>1, <2>6 DEF AddStep, NavInv, Navigable
  <2>8. \A i \in DOMAIN order : order[i] # id
    BY <1>1 DEF AddStep, ToSet
  <2>9. OnceInOrder'
    BY <2>1, <2>2, <2>3, <2>4, <2>8 DEF OnceInOrder, NavInv
  <2> QED BY <2>5, <2>7, <2>9 DEF NavInv
<1>2. ASSUME NEW id \in Id, StartAt(id) PROVE NavInv'
  BY <1>2 DEF StartAt, NavInv, NavigationTypeOK, Navigable, OnceInOrder, ToSet
<1>3. CASE Build
  <2>1. order' = order /\ order \in Seq(Id)
    BY <1>3 DEF Build, NavInv, NavigationTypeOK
  <2>2. ToSet(order) \subseteq Id /\ (order # <<>> => Head(order) \in ToSet(order))
    BY <2>1 DEF ToSet
  <2>3. NavigationTypeOK'
    BY <1>3, <2>2 DEF Build, NavInv, NavigationTypeOK
  <2>4. Navigable'
    BY <1>3, <2>2 DEF Build, NavInv, Navigable
  <2>5. OnceInOrder'
    BY <2>1 DEF NavInv, OnceInOrder
  <2> QED BY <2>3, <2>4, <2>5 DEF NavInv
<1>4. ASSUME NEW id \in Id, SetActiveStep(id) PROVE NavInv'
  BY <1>4 DEF SetActiveStep, Answers, NavInv, NavigationTypeOK, Navigable, OnceInOrder, ToSet
<1>5. ASSUME NEW id \in Id, MakeStepAvailable(id) PROVE NavInv'
  <2>1. UNCHANGED <<phase, order, steps, active>> /\ answer' \in {"ok", "not found"}
    BY <1>5 DEF MakeStepAvailable, Answers
  <2>2. available' \subseteq available \cup steps
    BY <1>5 DEF MakeStepAvailable, Answers
  <2> QED BY <2>1, <2>2 DEF NavInv, NavigationTypeOK, Navigable, OnceInOrder, ToSet
<1>6. ASSUME NEW id \in Id, MakeStepUnavailable(id) PROVE NavInv'
  BY <1>6 DEF MakeStepUnavailable, Answers, NavInv, NavigationTypeOK, Navigable, OnceInOrder, ToSet
<1>7. ASSUME NEW id \in Id, GotoStep(id) PROVE NavInv'
  BY <1>7 DEF GotoStep, Answers, NavInv, NavigationTypeOK, Navigable, OnceInOrder, ToSet
<1>8. CASE NextStep
  <2>1. NextOf(active) = NoStep \/ NextOf(active) \in available
    BY NextLeads
  <2> QED BY <1>8, <2>1 DEF NextStep, Answers, NavInv, NavigationTypeOK, Navigable, OnceInOrder, ToSet
<1>9. CASE PreviousStep
  <2>1. PreviousOf(active) = NoStep \/ PreviousOf(active) \in available
    BY PreviousLeads
  <2> QED BY <1>9, <2>1 DEF PreviousStep, Answers, NavInv, NavigationTypeOK, Navigable, OnceInOrder, ToSet
<1>10. CASE Shutdown
  BY <1>10 DEF Shutdown, NavInv, NavigationTypeOK, Navigable, OnceInOrder, ToSet
<1>11. CASE UNCHANGED navigationVars
  BY <1>11 DEF navigationVars, NavInv, NavigationTypeOK, Navigable, OnceInOrder, ToSet
<1> QED BY <1>1, <1>2, <1>3, <1>4, <1>5, <1>6, <1>7, <1>8, <1>9, <1>10, <1>11 DEF NavigationNext

\* In every reachable state the navigation is well typed and no id has two places.
THEOREM NavInvariant == NavigationSpec => []NavInv
<1>1. NavInv /\ [NavigationNext]_navigationVars => NavInv'
  BY NavNextInv
<1> QED BY NavInitInv, <1>1, PTL DEF NavigationSpec

\* Every available step is loaded and has its place in the order.
THEOREM NavigableAlways == NavigationSpec => [](NavigationTypeOK /\ Navigable)
<1>1. NavInv => NavigationTypeOK /\ Navigable
  BY DEF NavInv
<1> QED BY NavInvariant, <1>1, PTL

\* next_step and previous_step undo each other between available steps, whatever
\* has been made available or unavailable, and in whatever order.
THEOREM BackAndForthAlways == NavigationSpec => []BackAndForth
<1>1. NavInv => BackAndForth
  BY ForthThenBack, BackThenForth DEF BackAndForth
<1> QED BY NavInvariant, <1>1, PTL

\* next_step and previous_step never pass over an available step, never enter one
\* that is not available, and stay only where they report that there is none.
THEOREM NothingSkippedEver == NavigationSpec => NothingSkipped
<1>1. ASSUME NavInv, NextStep PROVE Moves(FALSE)
  <2>1. CASE NextOf(active) = NoStep
    BY <1>1, <2>1 DEF NextStep, Moves, Answers
  <2>2. CASE NextOf(active) # NoStep
    <3>1. PICK i, j \in DOMAIN order :
             /\ order[i] = active /\ order[j] = NextOf(active) /\ order[j] \in available /\ i < j
             /\ \A k \in DOMAIN order : i < k /\ k < j => order[k] \notin available
      BY <1>1, <2>2, NextLeads
    <3>2. active' = NextOf(active)
      BY <1>1, <2>2 DEF NextStep
    <3>3. i # j /\ i \in Int /\ j \in Int
      BY <1>1, <3>1, PlacesAre
    <3>4. active' # active
      BY <1>1, <3>1, <3>2, <3>3 DEF NavInv, OnceInOrder
    <3>5. Between(i, j) \cap available = {}
      BY <3>1 DEF Between
    <3> QED BY <3>1, <3>2, <3>4, <3>5 DEF Moves
  <2> QED BY <2>1, <2>2
<1>2. ASSUME NavInv, PreviousStep PROVE Moves(TRUE)
  <2>1. CASE PreviousOf(active) = NoStep
    BY <1>2, <2>1 DEF PreviousStep, Moves, Answers
  <2>2. CASE PreviousOf(active) # NoStep
    <3>1. PICK i, j \in DOMAIN order :
             /\ order[i] = active /\ order[j] = PreviousOf(active) /\ order[j] \in available /\ j < i
             /\ \A k \in DOMAIN order : j < k /\ k < i => order[k] \notin available
      BY <1>2, <2>2, PreviousLeads
    <3>2. active' = PreviousOf(active)
      BY <1>2, <2>2 DEF PreviousStep
    <3>3. i # j /\ i \in Int /\ j \in Int
      BY <1>2, <3>1, PlacesAre
    <3>4. active' # active
      BY <1>2, <3>1, <3>2, <3>3 DEF NavInv, OnceInOrder
    <3>5. Between(j, i) \cap available = {}
      BY <3>1 DEF Between
    <3> QED BY <3>1, <3>2, <3>4, <3>5 DEF Moves
  <2> QED BY <2>1, <2>2
<1>3. NavInv /\ [NavigationNext]_navigationVars => [(NextStep => Moves(FALSE)) /\ (PreviousStep => Moves(TRUE))]_navigationVars
  BY <1>1, <1>2
<1> QED BY NavInvariant, <1>3, PTL DEF NavigationSpec, NothingSkipped

=============================================================================
