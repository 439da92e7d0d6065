------------------------ MODULE Provisioning_proofs ------------------------
(***************************************************************************)
(* ApplyStrategy keeps its promises for any disks, drives, strategies and  *)
(* planner, wherever it fails and however drives come and go.  The         *)
(* invariant ties together the control point of the call, the plan it has  *)
(* made, and what its writes have left on the drives.                      *)
(***************************************************************************)
EXTENDS Provisioning, FiniteSetTheorems, TLAPS

AllParts == UNION {PartsOf(l) : l \in TableType}

HardwareInv ==
    /\ behind \in [Disk -> Drive \cup {NoDrive}]
    /\ \A d, e \in Disk : behind[d] = behind[e] /\ behind[d] # NoDrive => d = e
    /\ table \in [Drive -> TableType]
    /\ made \in [Drive -> SUBSET AllParts]
    /\ before \in [Drive -> TableType]
    /\ swaps \in 0..MaxSwaps

RequestInv ==
    /\ request \in [strategy : Strategy \cup {Unknown}, disks : Selections \cup {<<>>}]
    /\ Cardinality(shown) <= 1
    /\ selected \in UNION {[S -> Drive] : S \in SUBSET Disk}

\* A plan for the selected disks, as the planner makes them.
FitsView(p) ==
    /\ DOMAIN p.layouts \in SUBSET (DOMAIN selected) \ {{}}
    /\ \A d \in DOMAIN p.layouts : p.layouts[d] \in Layout
    /\ Len(p.formats) \in Nat /\ DOMAIN p.formats = 1..Len(p.formats)
    /\ \A i \in DOMAIN p.formats :
          /\ p.formats[i].disk \in DOMAIN p.layouts
          /\ p.formats[i].part \in PartsOf(p.layouts[p.formats[i].disk])

\* There is no plan, or one; nothing is simulated or written without.
PlanInv ==
    /\ plan = {} \/ \E p : plan = {p} /\ FitsView(p)
    /\ simulated \subseteq PlanDisks
    /\ rewritten \subseteq PlanDisks
    /\ next \in Nat \ {0}

\* Every requested path has been found, and none is named twice.
AllFound ==
    /\ DOMAIN selected = Requested(request.disks)
    /\ Len(request.disks) = Cardinality(DOMAIN selected)

CallInv ==
    /\ client \in {"choosing", "shown", "applying", "applied", "failed"}
    /\ call \in {"idle", "select", "plan", "simulate", "write", "format"}
    /\ client = "applying" <=> call # "idle"
    /\ client \in {"choosing", "shown"} \/ call \in {"select", "plan"} =>
          /\ table = before /\ plan = {} /\ simulated = {} /\ rewritten = {} /\ next = 1
    /\ call \in {"plan", "simulate", "write", "format"} => AllFound
    /\ call = "plan" => request.strategy # Unknown
    /\ call \in {"simulate", "write", "format"} \/ client = "applied" => plan # {}
    /\ call = "simulate" => rewritten = {} /\ table = before
    /\ call \in {"simulate", "write"} => next = 1
    /\ call \in {"write", "format"} \/ client = "applied" => simulated = PlanDisks
    /\ call = "format" => rewritten = PlanDisks /\ next <= Len(Formats)
    /\ client = "applied" => rewritten = PlanDisks /\ next > Len(Formats)
    /\ table # before => plan # {} /\ simulated = PlanDisks /\ AllFound

\* As long as no drive moves, the disks are those selected, only they have
\* changed, and what has been written is still there.
DoneInv ==
    swaps = 0 =>
        /\ \A d \in DOMAIN selected : selected[d] = behind[d]
        /\ \A h \in Drive : table[h] # before[h] => \E d \in DOMAIN selected : selected[d] = h
        /\ call \in {"write", "format"} \/ client = "applied" =>
              /\ \A d \in rewritten : table[behind[d]] = ThePlan.layouts[d]
              /\ \A i \in 1..(next - 1) : i <= Len(Formats) =>
                    Formats[i].part \in made[behind[Formats[i].disk]]

IInv == HardwareInv /\ RequestInv /\ PlanInv /\ CallInv /\ DoneInv

-----------------------------------------------------------------------------

\* "Requested and discovered disks differ": the paths asked for and the devices
\* found are compared by their number only, and that is enough.
LEMMA CountsAgree ==
    ASSUME NEW disks \in Seq(Disk), Selects(disks)
    PROVE  /\ Requested(disks) \cap Discovered = Requested(disks)
           /\ Cardinality(Requested(disks)) = Len(disks)
           /\ Requested(disks) \subseteq Discovered
<1> DEFINE R == Requested(disks)
           n == Len(disks)
<1>1. n \in Nat /\ DOMAIN disks = 1..n
  OBVIOUS
<1>2. IsFiniteSet(1..n) /\ Cardinality(1..n) = n
  <2>1. IsFiniteSet(1..n) /\ Cardinality(1..n) = IF 1 > n THEN 0 ELSE n - 1 + 1
    BY <1>1, FS_Interval
  <2> QED BY <1>1, <2>1
<1>3. disks \in Surjection(1..n, R)
  BY <1>1 DEF Surjection, Requested
<1>4. IsFiniteSet(R) /\ Cardinality(R) <= n
  BY <1>2, <1>3, FS_Surjection
<1>5. /\ IsFiniteSet(R \cap Discovered) /\ Cardinality(R \cap Discovered) <= Cardinality(R)
      /\ Cardinality(R) = Cardinality(R \cap Discovered) => R = R \cap Discovered
  BY <1>4, FS_Subset
<1>6. Cardinality(R \cap Discovered) = n
  BY DEF Selects
<1>7. Cardinality(R) \in Nat
  BY <1>4, FS_CardinalityType
<1> HIDE DEF R, n
<1>8. Cardinality(R) = n
  BY <1>1, <1>4, <1>5, <1>6, <1>7
<1>9. R = R \cap Discovered
  BY <1>5, <1>6, <1>8
<1> QED BY <1>8, <1>9 DEF R, n

LEMMA OnePlan ==
    ASSUME NEW p, plan = {p}
    PROVE  ThePlan = p /\ PlanDisks = DOMAIN p.layouts /\ Formats = p.formats
BY DEF ThePlan, PlanDisks, Formats

LEMMA InitInv == Init => IInv
<1> SUFFICES ASSUME Init PROVE IInv
  OBVIOUS
<1>1. HardwareInv
  BY PlannerAssumption DEF Init, HardwareInv, TableType
<1>2. RequestInv
  <2>1. selected \in [{} -> Drive]
    BY DEF Init, NoView
  <2> QED BY <2>1, FS_EmptySet DEF Init, RequestInv, NoRequest
<1>3. PlanInv
  BY DEF Init, PlanInv, PlanDisks
<1>4. CallInv
  BY DEF Init, CallInv
<1>5. DoneInv
  BY DEF Init, DoneInv, NoView
<1> QED BY <1>1, <1>2, <1>3, <1>4, <1>5 DEF IInv

-----------------------------------------------------------------------------
(***************************************************************************)
(* What each part of the invariant needs of a step that leaves it alone.   *)
(***************************************************************************)

LEMMA DoneFrame ==
    ASSUME DoneInv, UNCHANGED <<behind, table, made, before, swaps, selected, plan, rewritten, next>>,
           call' \in {"write", "format"} \/ client' = "applied" =>
               call \in {"write", "format"} \/ client = "applied"
    PROVE  DoneInv'
BY DEF DoneInv, ThePlan, Formats

LEMMA PlanFrame ==
    ASSUME PlanInv, UNCHANGED <<plan, simulated, rewritten, next>>,
           UNCHANGED selected \/ plan = {}
    PROVE  PlanInv'
BY DEF PlanInv, FitsView, PlanDisks

LEMMA HardwareFrame ==
    ASSUME HardwareInv, UNCHANGED <<behind, table, made, before, swaps>>
    PROVE  HardwareInv'
BY DEF HardwareInv

LEMMA RequestFrame ==
    ASSUME RequestInv, UNCHANGED <<request, shown, selected>>
    PROVE  RequestInv'
BY DEF RequestInv

-----------------------------------------------------------------------------

LEMMA ClientStep ==
    ASSUME IInv, TryStrategy \/ Decline \/ Confirm \/ ApplyBlindly \/ StartOver
    PROVE  IInv'
<1>1. CASE TryStrategy
  <2>1. PICK s \in Strategy, disks \in Selections : \E p \in PlansOf(s, View(disks)) :
           shown' = {p} /\ request' = [strategy |-> s, disks |-> disks]
    BY <1>1 DEF TryStrategy
  <2>2. client = "choosing" /\ client' = "shown" /\ UNCHANGED <<hardware, swaps, backend, before>>
    BY <1>1 DEF TryStrategy
  <2>3. HardwareInv'
    BY <2>2, HardwareFrame DEF IInv, hardware
  <2>4. RequestInv'
    <3>1. PICK p : shown' = {p}
      BY <2>1
    <3>2. Cardinality(shown') = 1
      BY <3>1, FS_Singleton
    <3>3. request' \in [strategy : Strategy \cup {Unknown}, disks : Selections \cup {<<>>}]
      BY <2>1
    <3> QED BY <2>2, <3>2, <3>3 DEF IInv, RequestInv, backend
  <2>5. PlanInv'
    BY <2>2, PlanFrame DEF IInv, backend
  <2>6. CallInv'
    BY <2>2 DEF IInv, CallInv, backend, hardware
  <2>7. DoneInv'
    BY <2>2, DoneFrame DEF IInv, CallInv, backend, hardware
  <2> QED BY <2>3, <2>4, <2>5, <2>6, <2>7 DEF IInv
<1>2. CASE Decline
  <2>1. client = "shown" /\ client' = "failed" /\ UNCHANGED <<hardware, swaps, request, shown, backend, before>>
    BY <1>2 DEF Decline
  <2>2. HardwareInv'
    BY <2>1, HardwareFrame DEF IInv, hardware
  <2>3. RequestInv'
    BY <2>1, RequestFrame DEF IInv, backend
  <2>4. PlanInv'
    BY <2>1, PlanFrame DEF IInv, backend
  <2>5. CallInv'
    BY <2>1 DEF IInv, CallInv, backend, hardware
  <2>6. DoneInv'
    BY <2>1, DoneFrame DEF IInv, backend, hardware
  <2> QED BY <2>2, <2>3, <2>4, <2>5, <2>6 DEF IInv
<1>3. CASE Confirm \/ ApplyBlindly
  <2>1. client \in {"choosing", "shown"} /\ CallApply
    BY <1>3 DEF Confirm, ApplyBlindly
  <2>2. /\ client' = "applying" /\ call' = "select" /\ before' = table
        /\ UNCHANGED <<behind, table, made, swaps, shown, selected, plan, simulated, rewritten, next>>
    BY <2>1 DEF CallApply, hardware
  <2>3. table = before /\ plan = {} /\ simulated = {} /\ rewritten = {} /\ next = 1
    BY <2>1 DEF IInv, CallInv
  <2>4. HardwareInv'
    BY <2>2, <2>3, HardwareFrame DEF IInv
  <2>5. RequestInv'
    <3>1. request' \in [strategy : Strategy \cup {Unknown}, disks : Selections \cup {<<>>}]
      BY <1>3 DEF IInv, RequestInv, Confirm, ApplyBlindly
    <3> QED BY <2>2, <3>1 DEF IInv, RequestInv
  <2>6. PlanInv'
    BY <2>2, PlanFrame DEF IInv
  <2>7. CallInv'
    BY <2>2, <2>3 DEF CallInv
  <2>8. DoneInv'
    BY <2>2, <2>3, DoneFrame DEF IInv
  <2> QED BY <2>4, <2>5, <2>6, <2>7, <2>8 DEF IInv
<1>4. CASE StartOver
  <2>1. /\ client \in {"applied", "failed"} /\ client' = "choosing" /\ request' = NoRequest /\ shown' = {}
        /\ selected' = NoView /\ plan' = {} /\ simulated' = {} /\ rewritten' = {} /\ next' = 1
        /\ before' = table /\ UNCHANGED <<behind, table, made, swaps, call>>
    BY <1>4 DEF StartOver, hardware
  <2>2. HardwareInv'
    BY <2>1 DEF IInv, HardwareInv
  <2>3. RequestInv'
    <3>1. selected' \in [{} -> Drive]
      BY <2>1 DEF NoView
    <3> QED BY <2>1, <3>1, FS_EmptySet DEF RequestInv, NoRequest
  <2>4. PlanInv'
    BY <2>1 DEF PlanInv, PlanDisks
  <2>5. CallInv'
    BY <2>1 DEF IInv, CallInv
  <2>6. DoneInv'
    BY <2>1 DEF IInv, CallInv, DoneInv, NoView
  <2> QED BY <2>2, <2>3, <2>4, <2>5, <2>6 DEF IInv
<1> QED BY <1>1, <1>2, <1>3, <1>4

LEMMA SelectStep == ASSUME IInv, SelectDevices PROVE IInv'
<1>1. /\ call = "select" /\ plan = {} /\ simulated = {} /\ rewritten = {} /\ next = 1 /\ table = before
      /\ UNCHANGED <<behind, table, made, swaps, request, shown, plan, simulated, rewritten, next, before>>
  BY DEF SelectDevices, IInv, CallInv, hardware
<1>2. HardwareInv'
  BY <1>1, HardwareFrame DEF IInv
<1>3. PlanInv'
  BY <1>1, PlanFrame DEF IInv
<1>4. CASE request.strategy # Unknown /\ Selects(request.disks)
  <2> DEFINE disks == request.disks
  <2>1. call' = "plan" /\ selected' = View(disks) /\ client' = client
    BY <1>4 DEF SelectDevices
  <2>2. disks \in Seq(Disk)
    <3>1. disks \in Selections \cup {<<>>}
      BY DEF IInv, RequestInv
    <3>2. \A x \in Selections : x \in Seq(Disk)
      BY PlannerAssumption, Zenon
    <3>3. <<>> \in Seq(Disk)
      OBVIOUS
    <3> QED BY <3>1, <3>2, <3>3, Zenon
  <2> HIDE DEF disks
  <2>3. Requested(disks) \cap Discovered = Requested(disks) /\ Requested(disks) \subseteq Discovered
        /\ Cardinality(Requested(disks)) = Len(disks)
    BY <1>4, <2>2, CountsAgree DEF disks
  <2>4. selected' = [d \in Requested(disks) |-> behind[d]]
    BY <2>1, <2>3 DEF View
  <2>5. \A d \in Requested(disks) : d \in Disk /\ behind[d] \in Drive
    BY <2>3 DEF Discovered, IInv, HardwareInv
  <2>6. selected' \in [Requested(disks) -> Drive] /\ Requested(disks) \in SUBSET Disk
    BY <2>4, <2>5
  <2>7. RequestInv'
    BY <1>1, <2>6 DEF IInv, RequestInv
  <2>8. CallInv'
    <3>1. AllFound'
      BY <1>1, <2>3, <2>4 DEF AllFound, disks
    <3> QED BY <1>1, <1>4, <2>1, <3>1 DEF IInv, CallInv
  <2>9. DoneInv'
    BY <1>1, <2>1, <2>4 DEF IInv, CallInv, DoneInv
  <2> QED BY <1>2, <1>3, <2>7, <2>8, <2>9 DEF IInv
<1>5. CASE ~(request.strategy # Unknown /\ Selects(request.disks))
  <2>1. call' = "idle" /\ client' = "failed" /\ UNCHANGED selected
    BY <1>5 DEF SelectDevices, Fail
  <2>2. RequestInv'
    BY <1>1, <2>1, RequestFrame DEF IInv
  <2>3. CallInv'
    BY <1>1, <2>1 DEF CallInv
  <2>4. DoneInv'
    BY <1>1, <2>1, DoneFrame DEF IInv
  <2> QED BY <1>2, <1>3, <2>2, <2>3, <2>4 DEF IInv
<1> QED BY <1>4, <1>5

LEMMA PlanStep == ASSUME IInv, MakePlan PROVE IInv'
<1> DEFINE plans == PlansOf(request.strategy, selected)
<1>1. /\ call = "plan" /\ client = "applying"
      /\ plan = {} /\ simulated = {} /\ rewritten = {} /\ next = 1 /\ table = before
      /\ request.strategy # Unknown /\ AllFound
      /\ UNCHANGED <<behind, table, made, swaps, request, shown, selected, simulated, rewritten, next, before>>
  BY DEF MakePlan, IInv, CallInv, hardware
<1>2. HardwareInv' /\ RequestInv'
  BY <1>1, HardwareFrame, RequestFrame DEF IInv
<1>3. DoneInv'
  BY <1>1 DEF IInv, DoneInv, MakePlan, Fail
<1>4. AllFound'
  BY <1>1 DEF AllFound
<1>5. CASE Cardinality(plans) = 1
  <2>1. call' = "simulate" /\ plan' = plans /\ client' = client
    BY <1>5 DEF MakePlan
  <2>2. PICK S \in SUBSET Disk : selected \in [S -> Drive]
    BY DEF IInv, RequestInv
  <2>3. request.strategy \in Strategy
    BY <1>1 DEF IInv, RequestInv
  <2>4. IsFiniteSet(plans)
    BY <2>2, <2>3, PlannerAssumption
  <2>5. PICK p : plans = {p}
    BY <1>5, <2>4, FS_Singleton
  <2>6. FitsView(p)
    <3>1. p \in PlansOf(request.strategy, selected) /\ DOMAIN selected = S
      BY <2>2, <2>5
    <3>2. /\ DOMAIN p.layouts \in SUBSET S \ {{}}
          /\ \A e \in DOMAIN p.layouts : p.layouts[e] \in Layout
          /\ Len(p.formats) \in Nat /\ DOMAIN p.formats = 1..Len(p.formats)
          /\ \A i \in DOMAIN p.formats :
                /\ p.formats[i].disk \in DOMAIN p.layouts
                /\ p.formats[i].part \in PartsOf(p.layouts[p.formats[i].disk])
      BY <2>2, <2>3, <3>1, PlannerAssumption, ZenonT(30)
    <3> QED BY <3>1, <3>2 DEF FitsView
  <2>7. PlanInv'
    <3>1. FitsView(p)'
      BY <1>1, <2>6 DEF FitsView
    <3>2. plan' = {p} /\ simulated' = {} /\ rewritten' = {} /\ next' = 1
      BY <1>1, <2>1, <2>5
    <3> QED BY <3>1, <3>2 DEF PlanInv
  <2>8. CallInv'
    BY <1>1, <1>4, <2>1, <2>5 DEF CallInv
  <2> QED BY <1>2, <1>3, <2>7, <2>8 DEF IInv
<1>6. CASE Cardinality(plans) # 1
  <2>1. call' = "idle" /\ client' = "failed" /\ UNCHANGED plan
    BY <1>6 DEF MakePlan, Fail
  <2>2. PlanInv'
    BY <1>1, <2>1, PlanFrame DEF IInv
  <2>3. CallInv'
    BY <1>1, <2>1 DEF CallInv
  <2> QED BY <1>2, <1>3, <2>2, <2>3 DEF IInv
<1> QED BY <1>5, <1>6

LEMMA SimulateStep == ASSUME IInv, NEW d \in Disk, Simulate(d) PROVE IInv'
<1>1. /\ call = "simulate" /\ client = "applying" /\ d \in PlanDisks \ simulated
      /\ plan # {} /\ rewritten = {} /\ next = 1 /\ AllFound
      /\ UNCHANGED <<behind, table, made, swaps, request, shown, selected, plan, rewritten, next, before>>
  BY DEF Simulate, IInv, CallInv, hardware
<1>2. table = before
  BY <1>1 DEF IInv, CallInv
<1>3. HardwareInv' /\ RequestInv'
  BY <1>1, HardwareFrame, RequestFrame DEF IInv
<1>4. AllFound' /\ PlanDisks' = PlanDisks
  BY <1>1 DEF AllFound, PlanDisks
<1>5. simulated' = simulated \cup {d} \/ UNCHANGED simulated
  BY DEF Simulate
<1>6. PlanInv'
  BY <1>1, <1>4, <1>5 DEF IInv, PlanInv, FitsView
<1>7. CASE Fail /\ UNCHANGED simulated
  <2>1. CallInv'
    BY <1>1, <1>2, <1>7 DEF Fail, CallInv
  <2>2. DoneInv'
    BY <1>1, <1>7, DoneFrame DEF IInv, Fail
  <2> QED BY <1>3, <1>6, <2>1, <2>2 DEF IInv
<1>8. CASE /\ simulated' = simulated \cup {d}
           /\ call' = IF simulated' = PlanDisks THEN "write" ELSE "simulate"
           /\ UNCHANGED client
  <2>1. CallInv'
    BY <1>1, <1>2, <1>4, <1>8 DEF CallInv
  <2>2. DoneInv'
    BY <1>1, <1>2, <1>8 DEF IInv, DoneInv
  <2> QED BY <1>3, <1>6, <2>1, <2>2 DEF IInv
<1> QED BY <1>7, <1>8 DEF Simulate

LEMMA WriteStep == ASSUME IInv, NEW d \in Disk, WriteTable(d) PROVE IInv'
<1> DEFINE h == behind[d]
<1>1. /\ call = "write" /\ client = "applying" /\ d \in PlanDisks \ rewritten /\ next = 1
      /\ plan # {} /\ simulated = PlanDisks /\ AllFound
      /\ UNCHANGED <<behind, swaps, request, shown, selected, plan, simulated, next, before>>
  BY DEF WriteTable, IInv, CallInv
<1>2. PICK p : plan = {p} /\ FitsView(p)
  BY <1>1 DEF IInv, PlanInv
<1>3. ThePlan = p /\ PlanDisks = DOMAIN p.layouts /\ Formats = p.formats /\ Len(p.formats) \in Nat
  BY <1>2, OnePlan DEF FitsView
<1>4. AllFound' /\ ThePlan' = ThePlan /\ PlanDisks' = PlanDisks /\ Formats' = Formats
  BY <1>1 DEF AllFound, ThePlan, PlanDisks, Formats
<1>5. p.layouts[d] \in TableType /\ "torn" \in TableType /\ d \in DOMAIN selected
  BY <1>1, <1>2, <1>3 DEF FitsView, TableType
<1>6. \A e \in PlanDisks : e \in Disk
  BY <1>2, <1>3 DEF FitsView, IInv, RequestInv
<1>7. RequestInv'
  BY <1>1, RequestFrame DEF IInv
<1>8. rewritten' = rewritten \cup {d} \/ UNCHANGED rewritten
  BY DEF WriteTable
<1>9. PlanInv'
  BY <1>1, <1>4, <1>8 DEF IInv, PlanInv, FitsView
<1>10. table \in [Drive -> TableType] /\ made \in [Drive -> SUBSET AllParts] /\ behind \in [Disk -> Drive \cup {NoDrive}]
  BY DEF IInv, HardwareInv
<1>11. ASSUME h # NoDrive, NEW t \in TableType,
              table' = [table EXCEPT ![h] = t], made' = [made EXCEPT ![h] = {}]
       PROVE  /\ h \in Drive /\ HardwareInv' /\ table'[h] = t
              /\ \A g \in Drive : g # h => table'[g] = table[g]
  <2>1. h \in Drive
    BY <1>10, <1>11
  <2>2. table' \in [Drive -> TableType] /\ made' \in [Drive -> SUBSET AllParts]
    BY <1>10, <1>11, <2>1
  <2>3. HardwareInv'
    BY <1>1, <2>2 DEF IInv, HardwareInv
  <2> QED BY <1>10, <1>11, <2>1, <2>3
<1>12. CASE /\ h # NoDrive
            /\ table' = [table EXCEPT ![h] = ThePlan.layouts[d]]
            /\ made' = [made EXCEPT ![h] = {}]
            /\ rewritten' = rewritten \cup {d}
            /\ IF rewritten' = PlanDisks THEN Continue(1) ELSE UNCHANGED <<call, client>>
  <2>1. /\ h \in Drive /\ HardwareInv' /\ table'[h] = p.layouts[d]
        /\ \A g \in Drive : g # h => table'[g] = table[g]
    BY <1>3, <1>5, <1>11, <1>12
  <2>2. \/ rewritten' = PlanDisks /\ Len(Formats) < 1 /\ call' = "idle" /\ client' = "applied"
        \/ rewritten' = PlanDisks /\ Len(Formats) >= 1 /\ call' = "format" /\ client' = client
        \/ call' = "write" /\ client' = client
    BY <1>1, <1>3, <1>12 DEF Continue
  <2>3. CallInv'
    BY <1>1, <1>3, <1>4, <2>2 DEF CallInv
  <2>4. DoneInv'
    <3> SUFFICES ASSUME swaps = 0 PROVE DoneInv'
      BY <1>1 DEF DoneInv
    <3>1. \A e \in DOMAIN selected : selected[e] = behind[e]
      BY DEF IInv, DoneInv
    <3>2. \A g \in Drive : table'[g] # before[g] => \E e \in DOMAIN selected : selected[e] = g
      <4> SUFFICES ASSUME NEW g \in Drive, table'[g] # before[g]
                   PROVE  \E e \in DOMAIN selected : selected[e] = g
        OBVIOUS
      <4>1. CASE g = h
        BY <1>5, <3>1, <4>1
      <4>2. CASE g # h
        BY <2>1, <4>2 DEF IInv, DoneInv
      <4> QED BY <4>1, <4>2
    <3>3. \A e \in rewritten' : table'[behind[e]] = p.layouts[e]
      <4> SUFFICES ASSUME NEW e \in rewritten' PROVE table'[behind[e]] = p.layouts[e]
        OBVIOUS
      <4>1. CASE e = d
        BY <2>1, <4>1
      <4>2. CASE e # d
        <5>1. e \in rewritten /\ e \in Disk /\ table[behind[e]] = p.layouts[e]
          BY <1>1, <1>3, <1>6, <1>12, <4>2 DEF IInv, DoneInv, PlanInv
        <5>2. behind[e] # h
          BY <1>12, <4>2, <5>1 DEF IInv, HardwareInv
        <5>3. table'[behind[e]] = table[behind[e]]
          BY <1>10, <1>12, <2>1, <5>1, <5>2
        <5> QED BY <5>1, <5>3
      <4> QED BY <4>1, <4>2
    <3>4. \A i \in 1..(next' - 1) : FALSE
      BY <1>1
    <3> QED BY <1>1, <1>3, <1>4, <3>1, <3>2, <3>3, <3>4 DEF DoneInv
  <2> QED BY <1>7, <1>9, <2>1, <2>3, <2>4 DEF IInv
<1>13. CASE /\ h # NoDrive
            /\ table' = [table EXCEPT ![h] = "torn"]
            /\ made' = [made EXCEPT ![h] = {}]
            /\ Fail
            /\ UNCHANGED rewritten
  <2>1. /\ h \in Drive /\ HardwareInv'
        /\ \A g \in Drive : g # h => table'[g] = table[g]
    BY <1>5, <1>11, <1>13
  <2>2. call' = "idle" /\ client' = "failed"
    BY <1>13 DEF Fail
  <2>3. CallInv'
    BY <1>1, <1>4, <2>2 DEF CallInv
  <2>4. DoneInv'
    BY <1>1, <1>5, <2>1, <2>2 DEF IInv, DoneInv
  <2> QED BY <1>7, <1>9, <2>1, <2>3, <2>4 DEF IInv
<1>14. CASE Fail /\ UNCHANGED <<table, made, rewritten>>
  <2>1. call' = "idle" /\ client' = "failed"
    BY <1>14 DEF Fail
  <2>2. HardwareInv'
    BY <1>1, <1>14, HardwareFrame DEF IInv
  <2>3. CallInv'
    BY <1>1, <1>4, <1>14, <2>1 DEF CallInv
  <2>4. DoneInv'
    BY <1>1, <1>14, <2>1, DoneFrame DEF IInv
  <2> QED BY <1>7, <1>9, <2>2, <2>3, <2>4 DEF IInv
<1> QED BY <1>12, <1>13, <1>14 DEF WriteTable

LEMMA FormatStep == ASSUME IInv, Format PROVE IInv'
<1>1. /\ call = "format" /\ client = "applying" /\ plan # {} /\ AllFound
      /\ simulated = PlanDisks /\ rewritten = PlanDisks /\ next <= Len(Formats)
      /\ next \in Nat \ {0}
      /\ UNCHANGED <<behind, table, swaps, request, shown, selected, plan, simulated, rewritten, before>>
  BY DEF Format, IInv, CallInv, PlanInv
<1>2. PICK p : plan = {p} /\ FitsView(p)
  BY <1>1 DEF IInv, PlanInv
<1>3. ThePlan = p /\ PlanDisks = DOMAIN p.layouts /\ Formats = p.formats /\ Len(p.formats) \in Nat
  BY <1>2, OnePlan DEF FitsView
<1>4. AllFound' /\ ThePlan' = ThePlan /\ PlanDisks' = PlanDisks /\ Formats' = Formats
  BY <1>1 DEF AllFound, ThePlan, PlanDisks, Formats
<1>5. RequestInv'
  BY <1>1, RequestFrame DEF IInv
<1>6. table \in [Drive -> TableType] /\ made \in [Drive -> SUBSET AllParts] /\ behind \in [Disk -> Drive \cup {NoDrive}]
  BY DEF IInv, HardwareInv
<1>7. CASE Fail /\ UNCHANGED <<made, next>>
  <2>1. call' = "idle" /\ client' = "failed"
    BY <1>7 DEF Fail
  <2>2. HardwareInv'
    BY <1>1, <1>7, HardwareFrame DEF IInv
  <2>3. PlanInv'
    BY <1>1, <1>7, PlanFrame DEF IInv
  <2>4. CallInv'
    BY <1>1, <1>4, <2>1 DEF CallInv
  <2>5. DoneInv'
    BY <1>1, <1>7, <2>1, DoneFrame DEF IInv
  <2> QED BY <1>5, <2>2, <2>3, <2>4, <2>5 DEF IInv
<1>8. ASSUME NEW f, f = Formats[next], NEW h, h = behind[f.disk],
             h # NoDrive, f.part \in PartsOf(table[h]),
             made' = [made EXCEPT ![h] = @ \cup {f.part}], MoveOn
      PROVE  IInv'
  <2>1. f.disk \in PlanDisks /\ f.disk \in Disk
    <3>1. next \in DOMAIN p.formats
      BY <1>1, <1>2, <1>3 DEF FitsView
    <3>2. f.disk \in DOMAIN p.layouts
      BY <1>2, <1>3, <1>8, <3>1 DEF FitsView
    <3> QED BY <1>2, <1>3, <3>2 DEF FitsView, IInv, RequestInv
  <2>2. h \in Drive
    BY <1>6, <1>8, <2>1
  <2>3. f.part \in AllParts
    BY <1>6, <1>8, <2>2 DEF AllParts
  <2>4. /\ made' \in [Drive -> SUBSET AllParts] /\ f.part \in made'[h]
        /\ \A g \in Drive : made[g] \subseteq made'[g]
    BY <1>6, <1>8, <2>2, <2>3
  <2>5. HardwareInv'
    BY <1>1, <2>4 DEF IInv, HardwareInv
  <2>6. next' = next + 1
    BY <1>8 DEF MoveOn
  <2>7. PlanInv'
    <3>1. FitsView(p)'
      BY <1>1, <1>2 DEF FitsView
    <3>2. next' \in Nat \ {0}
      BY <1>1, <2>6
    <3> QED BY <1>1, <1>2, <1>4, <3>1, <3>2 DEF PlanInv
  <2>8. \/ next + 1 > Len(Formats) /\ call' = "idle" /\ client' = "applied"
        \/ next + 1 <= Len(Formats) /\ call' = "format" /\ client' = client
    BY <1>1, <1>3, <1>8 DEF MoveOn, Continue
  <2>9. CallInv'
    BY <1>1, <1>4, <2>6, <2>8 DEF CallInv
  <2>10. DoneInv'
    <3> SUFFICES ASSUME swaps = 0 PROVE DoneInv'
      BY <1>1 DEF DoneInv
    <3>1. /\ \A e \in DOMAIN selected : selected[e] = behind[e]
          /\ \A g \in Drive : table[g] # before[g] => \E e \in DOMAIN selected : selected[e] = g
          /\ \A e \in rewritten : table[behind[e]] = ThePlan.layouts[e]
      BY <1>1 DEF IInv, DoneInv
    <3>2. ASSUME NEW i \in 1..(next' - 1), i <= Len(Formats)
          PROVE  Formats[i].part \in made'[behind[Formats[i].disk]]
      <4>1. CASE i = next
        BY <1>8, <2>4, <4>1
      <4>2. CASE i # next
        <5>1. i \in 1..(next - 1) /\ i \in DOMAIN p.formats
          BY <1>1, <1>2, <1>3, <2>6, <3>2, <4>2 DEF FitsView
        <5>2. Formats[i].part \in made[behind[Formats[i].disk]]
          BY <1>1, <3>2, <5>1 DEF IInv, DoneInv
        <5>3. behind[Formats[i].disk] \in Drive
          <6>1. Formats[i].disk \in rewritten /\ Formats[i].disk \in DOMAIN selected
            BY <1>1, <1>2, <1>3, <5>1 DEF FitsView
          <6>2. selected[Formats[i].disk] \in Drive
            BY <6>1 DEF IInv, RequestInv
          <6> QED BY <3>1, <6>1, <6>2
        <5> QED BY <2>4, <5>2, <5>3
      <4> QED BY <4>1, <4>2
    <3> QED BY <1>1, <1>4, <3>1, <3>2 DEF DoneInv
  <2> QED BY <1>5, <2>5, <2>7, <2>9, <2>10 DEF IInv
<1> QED BY <1>7, <1>8 DEF Format

LEMMA NextInv == IInv /\ [Next]_vars => IInv'
<1> SUFFICES ASSUME IInv, [Next]_vars PROVE IInv'
  OBVIOUS
<1>1. CASE TryStrategy \/ Decline \/ Confirm \/ ApplyBlindly \/ StartOver
  BY <1>1, ClientStep
<1>2. CASE ApplyStrategy
  BY <1>2, SelectStep, PlanStep, SimulateStep, WriteStep, FormatStep DEF ApplyStrategy
<1>3. CASE Hotplug
  <2>1. /\ swaps' = swaps + 1 /\ swaps < MaxSwaps
        /\ UNCHANGED <<table, made, before, client, request, shown, call, selected, plan, simulated, rewritten, next>>
    BY <1>3 DEF Hotplug, backend
  <2>2. PICK d \in Disk, g \in Drive \cup {NoDrive} :
           /\ \A e \in Disk : g # NoDrive => behind[e] # g
           /\ behind' = [behind EXCEPT ![d] = g]
    BY <1>3 DEF Hotplug
  <2>3. swaps' \in 0..MaxSwaps /\ swaps' # 0
    BY <2>1, PlannerAssumption DEF IInv, HardwareInv
  <2>4. HardwareInv'
    BY <2>1, <2>2, <2>3 DEF IInv, HardwareInv
  <2>5. RequestInv'
    BY <2>1, RequestFrame DEF IInv
  <2>6. PlanInv'
    BY <2>1, PlanFrame DEF IInv
  <2>7. CallInv'
    BY <2>1 DEF IInv, CallInv, AllFound, PlanDisks, Formats, ThePlan
  <2>8. DoneInv'
    BY <2>3 DEF DoneInv
  <2> QED BY <2>4, <2>5, <2>6, <2>7, <2>8 DEF IInv
<1>4. CASE UNCHANGED vars
  <2>1. UNCHANGED <<behind, table, made, swaps, client, request, shown, call, selected, plan, simulated, rewritten, next, before>>
    BY <1>4 DEF vars, hardware, backend
  <2>2. HardwareInv' /\ RequestInv' /\ PlanInv'
    BY <2>1, HardwareFrame, RequestFrame, PlanFrame DEF IInv
  <2>3. CallInv'
    BY <2>1 DEF IInv, CallInv, AllFound, PlanDisks, Formats, ThePlan
  <2>4. DoneInv'
    BY <2>1, DoneFrame DEF IInv
  <2> QED BY <2>2, <2>3, <2>4 DEF IInv
<1> QED BY <1>1, <1>2, <1>3, <1>4 DEF Next

-----------------------------------------------------------------------------
(***************************************************************************)
(* What follows from the invariant.                                        *)
(***************************************************************************)

\* In every reachable state the call, its plan and the drives agree.
THEOREM Invariant == Spec => []IInv
<1>1. Init => IInv
  BY InitInv
<1>2. IInv /\ [Next]_vars => IInv'
  BY NextInv
<1> QED BY <1>1, <1>2, PTL DEF Spec

\* Every reachable state is well typed: there is at most one plan, and what is
\* simulated and written belongs to it.
THEOREM TypeCorrect == Spec => []TypeOK
<1>1. IInv => TypeOK
  <2> SUFFICES ASSUME IInv PROVE TypeOK
    OBVIOUS
  <2>1. Cardinality(plan) <= 1
    <3>1. plan = {} \/ \E p : plan = {p}
      BY DEF IInv, PlanInv
    <3>2. Cardinality(plan) = 0 \/ Cardinality(plan) = 1
      BY <3>1, FS_EmptySet, FS_Singleton
    <3> QED BY <3>2
  <2>2. /\ client \in {"choosing", "shown", "applying", "applied", "failed"}
        /\ call \in {"idle", "select", "plan", "simulate", "write", "format"}
    BY DEF IInv, CallInv
  <2>3. simulated \subseteq PlanDisks /\ rewritten \subseteq PlanDisks /\ next \in Nat
    BY DEF IInv, PlanInv
  <2> QED BY <2>1, <2>2, <2>3 DEF IInv, HardwareInv, RequestInv, AllParts, TypeOK
<1> QED BY <1>1, Invariant, PTL

\* No drive is touched while a disk of the plan has not passed its simulation,
\* or once one has failed it.
THEOREM NoWriteBeforeValidationAlways == Spec => []NoWriteBeforeValidation
<1>1. IInv => NoWriteBeforeValidation
  BY DEF IInv, CallInv, NoWriteBeforeValidation
<1> QED BY <1>1, Invariant, PTL

\* A drive changes only when every requested path was found, none named twice,
\* and it was behind one of them.
THEOREM OnlyRequestedDrivesAlways == Spec => []OnlyRequestedDrives
<1>1. IInv => OnlyRequestedDrives
  BY DEF IInv, CallInv, DoneInv, AllFound, OnlyRequestedDrives
<1> QED BY <1>1, Invariant, PTL

\* What is reported as applied is on the drives: every table planned, and every
\* filesystem made after its table.
THEOREM AppliedIsThereAlways == Spec => []AppliedIsThere
<1>1. IInv => AppliedIsThere
  <2> SUFFICES ASSUME IInv, client = "applied", swaps = 0, NEW d \in PlanDisks
               PROVE  /\ table[behind[d]] = ThePlan.layouts[d]
                      /\ \A i \in DOMAIN Formats :
                            Formats[i].disk = d => Formats[i].part \in made[behind[d]]
    BY DEF AppliedIsThere
  <2>1. plan # {} /\ rewritten = PlanDisks /\ next > Len(Formats) /\ next \in Nat \ {0}
    BY DEF IInv, CallInv, PlanInv
  <2>2. PICK p : plan = {p} /\ FitsView(p)
    BY <2>1 DEF IInv, PlanInv
  <2>3. Formats = p.formats /\ Len(p.formats) \in Nat /\ DOMAIN p.formats = 1..Len(p.formats)
    BY <2>2, OnePlan DEF FitsView
  <2>4. \A i \in DOMAIN Formats : i \in 1..(next - 1) /\ i <= Len(Formats)
    BY <2>1, <2>3
  <2> QED BY <2>1, <2>4 DEF IInv, DoneInv
<1> QED BY <1>1, Invariant, PTL

=============================================================================
