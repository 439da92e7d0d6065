--------------------------- MODULE Backend_proofs ---------------------------
(***************************************************************************)
(* Theorems about Backend, for any calls, partitions and filesystems, any  *)
(* number of restarts and whatever calls run side by side.  What has to do *)
(* with calls and the process comes first, then the mounts of the probe    *)
(* and the target directory, then what calls see and write through them.   *)
(***************************************************************************)
EXTENDS Backend, FiniteSetTheorems, SequenceTheorems, TLAPS

MountType == [dev : Partition, at : Directory]

\* The table and its history are what they should be.
MountsType ==
    /\ table \in Seq(MountType)
    /\ crossed \subseteq Call \X (Partition \cup {None})
    /\ stays \in [Directory -> Nat]

\* The calls that have reached the backend.
Born == {c \in Call : pc[c] # "unborn"}

\* Each kind of call has control points of its own, and a partition where it
\* needs one.
KindInv ==
    \A c \in Call :
        /\ pc[c] = "unborn" => kind[c] = "discover"
        /\ pc[c] = "arrived" => client[c]
        /\ pc[c] \in {"probe", "read", "unprobe"} => kind[c] = "discover"
        /\ pc[c] \in {"mount", "work", "unmount"} => kind[c] \in Writing
        /\ pc[c] \in {"read", "unprobe"} => dev[c] \in Partition
        /\ kind[c] \in Writing => dev[c] \in Partition

\* What a partition carries, it has carried.
ContentsInv == \A p \in Partition : contents[p] \in had[p]

BaseInv ==
    /\ TypeOK
    /\ IsFiniteSet(Born)
    /\ KindInv
    /\ ContentsInv
    /\ NoCallerAbandoned

\* The mounts at a directory, and the calls that have one there.
MountsOf(at) == {i \in DOMAIN table : table[i].at = at}
HoldersOf(at) == {c \in Call : pc[c] \in Holding(at)}

\* A call that uses its directory, and in whose way no other has come, has its own
\* partition on top.
HoldInv ==
    \A c \in Call, at \in Directory :
        pc[c] = Use(at) /\ <<c, dev[c]>> \notin crossed => Top(at) = {dev[c]}

\* Only writing calls write, each on its own root.
HomeInv ==
    \A c \in Call, p \in Partition : c \in had[p] =>
        /\ kind[c] \in Writing
        /\ <<c, dev[c]>> \notin crossed => p = dev[c]

\* A writing call has written once it unmounts and when it answers.
WrittenInv ==
    \A c \in Call :
        /\ kind[c] \in Writing
        /\ pc[c] \in {"unmount", "answered"}
        /\ <<c, dev[c]>> \notin crossed
        => c \in had[dev[c]]

MountInv ==
    /\ MountsOwned
    /\ HoldInv
    /\ HomeInv
    /\ WrittenInv
    /\ Attributed

IInv == BaseInv /\ MountInv

-----------------------------------------------------------------------------
(***************************************************************************)
(* The mount table.                                                        *)
(***************************************************************************)

\* Table s is table t with entry e behind it.
Extends(s, t, e) ==
    \E n \in Nat :
        /\ DOMAIN s = DOMAIN t \cup {n}
        /\ \A i \in DOMAIN t : s[i] = t[i] /\ i \in Nat /\ i < n
        /\ s[n] = e

\* mount(8) adds an entry at the end.
LEMMA AttachTable ==
    ASSUME NEW S, NEW t \in Seq(S), NEW e \in S
    PROVE  /\ Attach(t, e) \in Seq(S)
           /\ Extends(Attach(t, e), t, e)
<1>1. Len(t) \in Nat /\ DOMAIN t = 1..Len(t)
  BY LenProperties
<1>2. /\ Append(t, e) \in Seq(S)
      /\ Len(Append(t, e)) = Len(t) + 1
      /\ \A i \in 1..Len(t) : Append(t, e)[i] = t[i]
      /\ Append(t, e)[Len(t) + 1] = e
  BY AppendProperties
<1>3. DOMAIN Append(t, e) = 1..(Len(t) + 1)
  BY <1>2, LenProperties
<1>4. /\ 1..(Len(t) + 1) = 1..Len(t) \cup {Len(t) + 1}
      /\ \A i \in 1..Len(t) : i \in Nat /\ i < Len(t) + 1
      /\ Len(t) + 1 \in Nat
  BY <1>1
<1> DEFINE n == Len(t) + 1
<1>5. /\ DOMAIN Attach(t, e) = DOMAIN t \cup {n}
      /\ \A i \in DOMAIN t : Attach(t, e)[i] = t[i] /\ i \in Nat /\ i < n
      /\ Attach(t, e)[n] = e /\ n \in Nat
  BY <1>1, <1>2, <1>3, <1>4 DEF Attach
<1>. HIDE DEF n
<1>. QED
  BY <1>2, <1>5 DEF Attach, Extends

\* Where an entry was before entry i was taken out, and where it is after.
Was(i, k) == IF k < i THEN k ELSE k + 1
Is(i, j) == IF j < i THEN j ELSE j - 1

\* umount(8) takes one entry out and keeps the order of the others.
LEMMA DetachTable ==
    ASSUME NEW S, NEW t \in Seq(S), NEW i \in DOMAIN t
    PROVE  /\ Detach(t, i) \in Seq(S)
           /\ \A k \in DOMAIN Detach(t, i) :
                 Was(i, k) \in DOMAIN t \ {i} /\ Detach(t, i)[k] = t[Was(i, k)]
           /\ \A k, l \in DOMAIN Detach(t, i) : k < l => Was(i, k) < Was(i, l)
           /\ \A k, l \in DOMAIN Detach(t, i) : Was(i, k) = Was(i, l) => k = l
           /\ \A j \in DOMAIN t \ {i} : Is(i, j) \in DOMAIN Detach(t, i) /\ Was(i, Is(i, j)) = j
<1> DEFINE a == SubSeq(t, 1, i - 1)
           b == SubSeq(t, i + 1, Len(t))
<1>1. Len(t) \in Nat /\ DOMAIN t = 1..Len(t) /\ i \in 1..Len(t) /\ \A k \in 1..Len(t) : t[k] \in S
  BY LenProperties, ElementOfSeq
<1>2. a \in Seq(S) /\ Len(a) = i - 1 /\ \A k \in 1..(i - 1) : a[k] = t[k]
  <2>1. 1 \in Nat /\ i - 1 \in Nat /\ \A k \in 1..(i - 1) : t[k] \in S
    BY <1>1
  <2>2. /\ a \in Seq(S)
        /\ Len(a) = IF 1 <= i - 1 THEN i - 1 - 1 + 1 ELSE 0
        /\ \A k \in 1..(i - 1 - 1 + 1) : a[k] = t[1 + k - 1]
    BY <1>1, <2>1, SubSeqProperties
  <2>. HIDE DEF a
  <2>. QED
    BY <1>1, <2>1, <2>2
<1>3. /\ b \in Seq(S) /\ Len(b) = Len(t) - i
      /\ \A k \in 1..(Len(t) - i) : b[k] = t[i + k]
  <2>1. i + 1 \in Int /\ Len(t) \in Int /\ \A k \in (i + 1)..Len(t) : t[k] \in S
    BY <1>1
  <2>2. /\ b \in Seq(S)
        /\ Len(b) = IF i + 1 <= Len(t) THEN Len(t) - (i + 1) + 1 ELSE 0
        /\ \A k \in 1..(Len(t) - (i + 1) + 1) : b[k] = t[i + 1 + k - 1]
    BY <1>1, <2>1, SubSeqProperties
  <2>. HIDE DEF b
  <2>3. Len(b) = Len(t) - i /\ Len(t) - (i + 1) + 1 = Len(t) - i
    BY <1>1, <2>2
  <2>4. \A k \in 1..(Len(t) - i) : i + 1 + k - 1 = i + k
    BY <1>1
  <2>. QED
    BY <2>2, <2>3, <2>4
<1>4. Detach(t, i) = a \o b
  BY DEF Detach, RemoveAt
<1>. HIDE DEF a, b
<1>5. /\ a \o b \in Seq(S)
      /\ DOMAIN (a \o b) = 1..(Len(t) - 1)
      /\ \A k \in 1..(Len(t) - 1) : (a \o b)[k] = IF k < i THEN a[k] ELSE b[k - (i - 1)]
  <2>1. /\ a \o b \in Seq(S)
        /\ Len(a \o b) = Len(a) + Len(b)
        /\ \A k \in 1..(Len(a) + Len(b)) :
              (a \o b)[k] = IF k <= Len(a) THEN a[k] ELSE b[k - Len(a)]
    BY <1>2, <1>3, ConcatProperties
  <2>2. Len(a) + Len(b) = Len(t) - 1
    BY <1>1, <1>2, <1>3
  <2>3. \A k \in 1..(Len(t) - 1) : k <= i - 1 <=> k < i
    BY <1>1
  <2>. QED
    BY <1>2, <2>1, <2>2, <2>3, LenProperties
<1>6. ASSUME NEW k \in 1..(Len(t) - 1)
      PROVE  Was(i, k) \in (1..Len(t)) \ {i} /\ (a \o b)[k] = t[Was(i, k)]
  <2>1. CASE k < i
    <3>1. k \in 1..(i - 1) /\ k \in 1..Len(t) /\ k # i
      BY <1>1, <2>1
    <3>2. (a \o b)[k] = t[k]
      BY <1>2, <1>5, <2>1, <3>1
    <3>. QED
      BY <2>1, <3>1, <3>2 DEF Was
  <2>2. CASE ~(k < i)
    <3>1. k - (i - 1) \in 1..(Len(t) - i) /\ i + (k - (i - 1)) = k + 1
      BY <1>1, <2>2
    <3>2. (a \o b)[k] = t[k + 1]
      BY <1>3, <1>5, <2>2, <3>1
    <3>. QED
      BY <1>1, <2>2, <3>2 DEF Was
  <2>. QED
    BY <2>1, <2>2
<1>7. \A k, l \in 1..(Len(t) - 1) : /\ k < l => Was(i, k) < Was(i, l)
                                    /\ Was(i, k) = Was(i, l) => k = l
  BY <1>1 DEF Was
<1>8. \A j \in (1..Len(t)) \ {i} : Is(i, j) \in 1..(Len(t) - 1) /\ Was(i, Is(i, j)) = j
  BY <1>1 DEF Was, Is
<1>. QED
  BY <1>1, <1>4, <1>5, <1>6, <1>7, <1>8

\* The entries of the table are mounts of partitions at the two directories.
LEMMA Entries ==
    ASSUME TypeOK
    PROVE  /\ table \in Seq(MountType)
           /\ Len(table) \in Nat /\ DOMAIN table = 1..Len(table)
           /\ \A i \in DOMAIN table :
                 table[i] \in MountType /\ table[i].dev \in Partition /\ table[i].at \in Directory
<1>1. table \in Seq(MountType)
  BY DEF TypeOK, MountType
<1>2. Len(table) \in Nat /\ DOMAIN table = 1..Len(table)
  BY <1>1, LenProperties
<1>3. \A i \in DOMAIN table : table[i] \in MountType
  BY <1>1, <1>2, ElementOfSeq
<1>. QED
  BY <1>1, <1>2, <1>3 DEF MountType

\* What is crossed are calls with their partitions.
LEMMA CrossesType ==
    ASSUME TypeOK, NEW c, NEW at, Crosses(c, at)
    PROVE  crossed' \subseteq Call \X (Partition \cup {None})
  BY DEF TypeOK, Crosses

\* What mount(8) and umount(8) do keeps the table and its history typed.
LEMMA MountingType ==
    ASSUME TypeOK, NEW c, NEW d \in Partition, NEW at \in Directory, MountsAt(c, d, at)
    PROVE  MountsType'
<1> DEFINE e == [dev |-> d, at |-> at]
<1>1. e \in MountType /\ table \in Seq(MountType)
  BY DEF MountType, TypeOK
<1>2. table' = Attach(table, e)
  BY DEF MountsAt
<1>. HIDE DEF e
<1>3. table' \in Seq(MountType)
  BY <1>1, <1>2, AttachTable
<1>. QED
  BY <1>3, CrossesType DEF MountsAt, MountsType, TypeOK

LEMMA UnmountsType ==
    ASSUME TypeOK, NEW c, NEW at \in Directory, Unmounts(c, at)
    PROVE  MountsType'
<1>1. MountsType
  BY DEF TypeOK, MountType, MountsType
<1>2. CASE stays' = [stays EXCEPT ![at] = @ + 1] /\ UNCHANGED <<table, crossed>>
  BY <1>1, <1>2 DEF MountsType
<1>3. CASE /\ \E i \in DOMAIN table : Detaches(table, i, at) /\ table' = Detach(table, i)
           /\ Crosses(c, at)
           /\ UNCHANGED stays
  <2>1. table' \in Seq(MountType)
    BY <1>1, <1>3, DetachTable DEF MountsType
  <2>. QED
    BY <1>1, <1>3, <2>1, CrossesType DEF MountsType
<1>. QED
  BY <1>2, <1>3 DEF Unmounts

-----------------------------------------------------------------------------
(***************************************************************************)
(* What holds of every backend.                                            *)
(***************************************************************************)

\* A step of a call from one control point to another keeps control typed.
LEMMA MovesType ==
    ASSUME TypeOK, NEW c \in Call, NEW from, NEW to \in Step, Moves(c, from, to)
    PROVE  /\ kind' \in [Call -> Kind]
           /\ pc' \in [Call -> Step]
           /\ client' \in [Call -> BOOLEAN]
           /\ process' \in {"serving", "stopping", "exited"}
           /\ asked' \in BOOLEAN
           /\ starts' \in 1..MaxStarts
  BY DEF TypeOK, Moves, proc

LEMMA TopType ==
    ASSUME TypeOK, NEW at
    PROVE  Top(at) \subseteq Partition
  BY Entries DEF Top

\* Control points are where they should be.
LEMMA Points ==
    /\ \A s \in {"unborn", "arrived", "probe", "read", "unprobe", "mount", "work", "unmount",
                 "answered", "failed", "refused", "panicked", "cancelled", "dead"} : s \in Step
    /\ \A s \in Step : s \in Ended <=>
          s \notin {"unborn", "arrived", "probe", "read", "unprobe", "mount", "work", "unmount"}
  BY DEF Step, Ended

LEMMA InitType ==
    ASSUME Init
    PROVE  TypeOK
<1>1. MountsType
  BY EmptySeq DEF Init, MountsType
<1>2. 1 \in 1..MaxStarts
  BY BackendAssumption
<1>3. contents \in [Partition -> Partition \cup Call \cup {None}]
  BY DEF Init
<1>4. had \in [Partition -> SUBSET (Partition \cup Call \cup {None})]
  BY <1>3 DEF Init
<1>. QED
  BY <1>1, <1>2, <1>3, <1>4, Points DEF Init, TypeOK, MountType, MountsType, Kind

\* Every step of a discovery keeps the state typed.
LEMMA DiscoverType ==
    ASSUME TypeOK, KindInv, NEW c \in Call, Discover(c)
    PROVE  TypeOK'
<1>. USE Points
<1>1. MountsType /\ \A i \in DOMAIN table : table[i] \in MountType
  BY Entries DEF TypeOK, MountType, MountsType
<1>2. CASE BeginDiscover(c)
  <2>1. Mounted \subseteq Partition
    BY <1>1 DEF Mounted, MountType
  <2>2. /\ mountedAt' \in [Call -> SUBSET Partition]
        /\ todo' \in [Call -> SUBSET Partition]
    <3>1. CASE UNCHANGED <<mountedAt, todo>>
      BY <3>1 DEF TypeOK
    <3>2. ASSUME NEW seen \in {Mounted, {}},
                 mountedAt' = [mountedAt EXCEPT ![c] = seen], todo' = [todo EXCEPT ![c] = Partition]
          PROVE  mountedAt' \in [Call -> SUBSET Partition] /\ todo' \in [Call -> SUBSET Partition]
      <4>1. seen \in SUBSET Partition
        BY <2>1
      <4>. QED
        BY <3>2, <4>1 DEF TypeOK
    <3>. QED
      BY <1>2, <3>1, <3>2 DEF BeginDiscover
  <2>3. \E to \in Step : Moves(c, "arrived", to)
    BY <1>2 DEF BeginDiscover
  <2>. QED
    BY <1>2, <2>2, <2>3, MovesType DEF BeginDiscover, TypeOK, mounts, data
<1>3. CASE Probe(c)
  <2>1. PICK p \in todo[c] :
          /\ todo' = [todo EXCEPT ![c] = @ \ {p}]
          /\ \/ Moves(c, "probe", "probe") /\ UNCHANGED <<mounts, dev>>
             \/ /\ Moves(c, "probe", "read")
                /\ dev' = [dev EXCEPT ![c] = p]
                /\ MountsAt(c, p, "probe")
          /\ UNCHANGED <<data, mountedAt, found>>
    BY <1>3 DEF Probe
  <2>2. p \in Partition
    BY DEF TypeOK
  <2>3. MountsType' /\ dev' \in [Call -> Partition \cup {None}]
    <3>1. CASE MountsAt(c, p, "probe") /\ dev' = [dev EXCEPT ![c] = p]
      <4>1. MountsType'
        BY <2>2, <3>1, MountingType DEF Directory
      <4>. QED
        BY <2>2, <3>1, <4>1 DEF TypeOK
    <3>2. CASE UNCHANGED <<mounts, dev>>
      BY <1>1, <3>2 DEF mounts, MountsType, TypeOK
    <3>. QED
      BY <2>1, <3>1, <3>2
  <2>4. todo' \in [Call -> SUBSET Partition]
    BY <2>1 DEF TypeOK
  <2>5. \E to \in Step : Moves(c, "probe", to)
    BY <2>1
  <2>. QED
    BY <2>1, <2>3, <2>4, <2>5, MovesType DEF TypeOK, data, MountType, MountsType
<1>4. CASE Read(c)
  <2>1. pc[c] = "read" /\ dev[c] \in Partition
    BY <1>4 DEF Read, Moves, KindInv
  <2>2. \A p \in Partition : contents[p] # None => contents[p] \in Partition \cup Call
    BY DEF TypeOK
  <2>3. \A p \in Top("probe") : p \in Partition
    BY TopType
  <2> DEFINE new == {<<dev[c], contents[p]>> : p \in {q \in Top("probe") : contents[q] # None}}
  <2>4. new \subseteq Partition \X (Partition \cup Call)
    BY <2>1, <2>2, <2>3
  <2>5. found' = [found EXCEPT ![c] = @ \cup new]
    BY <1>4 DEF Read
  <2>. HIDE DEF new
  <2>6. found' \in [Call -> SUBSET (Partition \X (Partition \cup Call))]
    BY <2>4, <2>5 DEF TypeOK
  <2>. QED
    BY <1>4, <2>6, MovesType DEF Read, TypeOK, mounts, data
<1>5. CASE Unprobe(c)
  <2>1. MountsType'
    BY <1>5, UnmountsType DEF Unprobe, Directory
  <2>2. dev' \in [Call -> Partition \cup {None}]
    BY <1>5 DEF Unprobe, TypeOK
  <2>. QED
    BY <1>5, <2>1, <2>2, MovesType DEF Unprobe, TypeOK, data, MountType, MountsType
<1>6. CASE EndDiscover(c)
  BY <1>6, MovesType DEF EndDiscover, TypeOK, mounts, data
<1>. QED
  BY <1>2, <1>3, <1>4, <1>5, <1>6 DEF Discover

\* What is written is a call's model.
LEMMA LandsType ==
    ASSUME TypeOK, NEW c \in Call, Lands(c)
    PROVE  /\ contents' \in [Partition -> Partition \cup Call \cup {None}]
           /\ had' \in [Partition -> SUBSET (Partition \cup Call \cup {None})]
<1>1. contents' \in [Partition -> Partition \cup Call \cup {None}]
  BY DEF TypeOK, Lands
<1>. QED
  BY <1>1 DEF TypeOK, Lands

\* Every step of a writing call keeps the state typed.
LEMMA WriteType ==
    ASSUME TypeOK, KindInv, NEW c \in Call, Write(c)
    PROVE  TypeOK'
<1>. USE Points
<1>1. CASE BeginWriting(c)
  BY <1>1, MovesType DEF BeginWriting, TypeOK, mounts, data
<1>2. CASE MountTarget(c)
  <2>1. CASE Moves(c, "mount", "work") /\ MountsAt(c, dev[c], "target")
    <3>1. dev[c] \in Partition
      BY <2>1 DEF KindInv, Moves
    <3>2. MountsType'
      BY <2>1, <3>1, MountingType DEF Directory
    <3>. QED
      BY <1>2, <2>1, <3>2, MovesType DEF MountTarget, TypeOK, data, MountType, MountsType
  <2>2. CASE Moves(c, "mount", "failed") /\ UNCHANGED mounts
    BY <1>2, <2>2, MovesType DEF MountTarget, TypeOK, mounts, data
  <2>. QED
    BY <1>2, <2>1, <2>2 DEF MountTarget
<1>3. CASE Work(c)
  BY <1>3, MovesType, LandsType DEF Work, TypeOK, mounts, data
<1>4. CASE WorkFails(c)
  <2>1. MountsType'
    BY <1>4, UnmountsType DEF WorkFails, Directory
  <2>2. /\ contents' \in [Partition -> Partition \cup Call \cup {None}]
        /\ had' \in [Partition -> SUBSET (Partition \cup Call \cup {None})]
    BY <1>4, LandsType DEF WorkFails, TypeOK, data
  <2>. QED
    BY <1>4, <2>1, <2>2, MovesType DEF WorkFails, TypeOK, MountType, MountsType
<1>5. CASE UnmountTarget(c)
  <2>1. MountsType'
    BY <1>5, UnmountsType DEF UnmountTarget, Directory
  <2>2. \E to \in Step : Moves(c, "unmount", to)
    BY <1>5 DEF UnmountTarget
  <2>. QED
    BY <1>5, <2>1, <2>2, MovesType DEF UnmountTarget, TypeOK, data, MountType, MountsType
<1>. QED
  BY <1>1, <1>2, <1>3, <1>4, <1>5 DEF Write

\* Every step keeps the state typed.
LEMMA TypeStep ==
    ASSUME TypeOK, IsFiniteSet(Born), KindInv, [Next]_vars
    PROVE  TypeOK'
<1>. USE Points
<1>1. ASSUME NEW c \in Call, NEW k \in Kind, NEW root \in Partition \cup {None}, Arrive(c, k, root)
      PROVE  TypeOK'
  BY <1>1 DEF Arrive, TypeOK, mounts, data, proc
<1>2. ASSUME NEW c \in Call, RefuseUnidentified(c)
      PROVE  TypeOK'
  BY <1>2 DEF RefuseUnidentified, TypeOK, mounts, data, proc
<1>3. ASSUME NEW c \in Call, Leave(c)
      PROVE  TypeOK'
  BY <1>3 DEF Leave, TypeOK, mounts, data, proc
<1>4. ASSUME NEW c \in Call, Shutdown(c)
      PROVE  TypeOK'
  BY <1>4, ZenonT(40) DEF Shutdown, TypeOK, mounts, data
<1>5. CASE Signal
  BY <1>5 DEF Signal, TypeOK, mounts, data, call
<1>6. CASE SignalHandler
  BY <1>6 DEF SignalHandler, TypeOK, mounts, data, call
<1>7. CASE Exit
  <2>1. HoldersOf("target") \subseteq Born
    BY DEF HoldersOf, Holding, Born
  <2>2. Cardinality(HoldersOf("target")) \in Nat
    BY <2>1, FS_Subset, FS_CardinalityType
  <2>3. stays' \in [Directory -> Nat]
    <3>1. stays' = [stays EXCEPT !["target"] = @ + Cardinality(HoldersOf("target"))]
      BY <1>7 DEF Exit, HoldersOf
    <3>2. stays["target"] + Cardinality(HoldersOf("target")) \in Nat
      BY <2>2 DEF TypeOK, Directory
    <3>. QED
      BY <3>1, <3>2 DEF TypeOK
  <2>4. pc' \in [Call -> Step]
    BY <1>7 DEF Exit, TypeOK
  <2>. QED
    BY <1>7, <2>3, <2>4 DEF Exit, TypeOK, data
<1>8. CASE Start
  <2>1. starts' \in 1..MaxStarts
    BY <1>8, BackendAssumption DEF Start, TypeOK
  <2>. QED
    BY <1>8, <2>1 DEF Start, TypeOK, mounts, data, call
<1>9. CASE UNCHANGED vars
  BY <1>9 DEF vars, mounts, data, call, proc, TypeOK
<1>. QED
  BY <1>1, <1>2, <1>3, <1>4, <1>5, <1>6, <1>7, <1>8, <1>9, DiscoverType, WriteType DEF Next

\* A step gives birth to one call at most.
LEMMA BornStep ==
    ASSUME TypeOK, IsFiniteSet(Born), [Next]_vars
    PROVE  IsFiniteSet(Born')
<1>. USE DEF Born
<1>1. ASSUME NEW c \in Call, \A b \in Call \ {c} : pc'[b] = pc[b]
      PROVE  IsFiniteSet(Born')
  <2>1. Born' \subseteq Born \cup {c}
    BY <1>1
  <2>2. IsFiniteSet(Born \cup {c})
    BY FS_AddElement
  <2>. QED
    BY <2>1, <2>2, FS_Subset
<1>2. ASSUME \A b \in Call : pc'[b] # pc[b] => pc[b] # "unborn"
      PROVE  IsFiniteSet(Born')
  <2>1. Born' \subseteq Born
    BY <1>2
  <2>. QED
    BY <2>1, FS_Subset
<1>3. ASSUME NEW c \in Call, NEW from, NEW to, Moves(c, from, to)
      PROVE  \A b \in Call \ {c} : pc'[b] = pc[b]
  BY <1>3 DEF Moves, TypeOK
<1>4. ASSUME NEW c \in Call, Discover(c) \/ Write(c)
      PROVE  \A b \in Call \ {c} : pc'[b] = pc[b]
  BY <1>4, <1>3 DEF Discover, BeginDiscover, Probe, Read, Unprobe, EndDiscover,
                    Write, BeginWriting, MountTarget, Work, WorkFails, UnmountTarget
<1>5. ASSUME NEW c \in Call,
             \/ \E k \in Kind, root \in Partition \cup {None} : Arrive(c, k, root)
             \/ RefuseUnidentified(c) \/ Leave(c) \/ Shutdown(c)
      PROVE  \A b \in Call \ {c} : pc'[b] = pc[b]
  BY <1>5 DEF TypeOK, Arrive, RefuseUnidentified, Leave, Shutdown
<1>6. CASE Exit
  BY <1>2, <1>6 DEF Exit, Active, TypeOK
<1>7. CASE Signal \/ SignalHandler \/ Start \/ UNCHANGED vars
  BY <1>2, <1>7 DEF Signal, SignalHandler, Start, vars, call
<1>. QED
  BY <1>1, <1>4, <1>5, <1>6, <1>7 DEF Next

\* Each call stays at the control points of its kind.
LEMMA KindStep ==
    ASSUME TypeOK, KindInv, [Next]_vars
    PROVE  KindInv'
<1>. USE Points DEF Writing
<1>1. ASSUME NEW c \in Call, NEW k \in Kind, NEW root \in Partition \cup {None}, Arrive(c, k, root)
      PROVE  KindInv'
  <2>1. /\ kind' = [kind EXCEPT ![c] = k] /\ pc' = [pc EXCEPT ![c] = "arrived"]
        /\ client' = [client EXCEPT ![c] = TRUE] /\ dev' = [dev EXCEPT ![c] = root]
        /\ k \in Writing => root \in Partition
    BY <1>1 DEF Arrive
  <2>. QED
    BY <2>1 DEF KindInv, TypeOK
<1>2. ASSUME NEW c \in Call, RefuseUnidentified(c)
      PROVE  KindInv'
  BY <1>2 DEF RefuseUnidentified, KindInv, TypeOK
<1>3. ASSUME NEW c \in Call, Leave(c)
      PROVE  KindInv'
  BY <1>3 DEF Leave, KindInv, TypeOK
<1>4. ASSUME NEW c \in Call, Shutdown(c)
      PROVE  KindInv'
  BY <1>4 DEF Shutdown, KindInv, TypeOK
<1>5. CASE Exit
  <2>1. /\ \A b \in Call : pc'[b] = IF Active(b) THEN "dead" ELSE pc[b]
        /\ UNCHANGED <<kind, client, dev>>
    BY <1>5 DEF Exit
  <2>2. \A b \in Call : pc'[b] = pc[b] \/ pc'[b] = "dead"
    BY <2>1
  <2>. QED
    BY <2>1, <2>2 DEF KindInv
<1>6. CASE Signal \/ SignalHandler \/ Start \/ UNCHANGED vars
  BY <1>6 DEF Signal, SignalHandler, Start, vars, call, KindInv
<1>7. ASSUME NEW c \in Call, NEW from \in Step, NEW to \in Step, Moves(c, from, to),
             UNCHANGED dev, to \notin {"unborn", "arrived"},
             to \in {"probe", "read", "unprobe"} => kind[c] = "discover",
             to \in {"mount", "work", "unmount"} => kind[c] \in Writing,
             to \in {"read", "unprobe"} => dev[c] \in Partition
      PROVE  KindInv'
  <2>1. /\ UNCHANGED <<kind, dev>>
        /\ \A b \in Call : pc'[b] = IF b = c THEN to ELSE pc[b]
        /\ \A b \in Call : b # c => client'[b] = client[b]
    BY <1>7 DEF Moves, TypeOK
  <2>. QED
    BY <1>7, <2>1 DEF KindInv
<1>8. ASSUME NEW c \in Call, Discover(c)
      PROVE  KindInv'
  <2>1. CASE BeginDiscover(c) \/ Read(c) \/ EndDiscover(c)
    BY <1>7, <2>1 DEF BeginDiscover, Read, EndDiscover, Moves, KindInv
  <2>2. CASE Probe(c)
    <3>1. /\ pc[c] = "probe"
          /\ \/ Moves(c, "probe", "probe") /\ UNCHANGED dev
             \/ \E p \in Partition : Moves(c, "probe", "read") /\ dev' = [dev EXCEPT ![c] = p]
      BY <2>2 DEF Probe, Moves, TypeOK
    <3>2. kind[c] = "discover"
      BY <3>1 DEF KindInv
    <3>3. CASE Moves(c, "probe", "probe") /\ UNCHANGED dev
      BY <1>7, <3>2, <3>3
    <3>4. ASSUME NEW p \in Partition, Moves(c, "probe", "read"), dev' = [dev EXCEPT ![c] = p]
          PROVE  KindInv'
      <4>1. /\ UNCHANGED kind
            /\ \A b \in Call : /\ pc'[b] = IF b = c THEN "read" ELSE pc[b]
                               /\ dev'[b] = IF b = c THEN p ELSE dev[b]
                               /\ b # c => client'[b] = client[b]
        BY <3>4 DEF Moves, TypeOK
      <4>. QED
        BY <3>2, <4>1 DEF KindInv
    <3>. QED
      BY <3>1, <3>3, <3>4
  <2>3. CASE Unprobe(c)
    <3>1. /\ UNCHANGED kind
          /\ pc[c] = "unprobe"
          /\ \A b \in Call : /\ pc'[b] = IF b = c THEN "probe" ELSE pc[b]
                             /\ b # c => client'[b] = client[b] /\ dev'[b] = dev[b]
      BY <2>3 DEF Unprobe, Moves, TypeOK
    <3>. QED
      BY <3>1 DEF KindInv
  <2>. QED
    BY <1>8, <2>1, <2>2, <2>3 DEF Discover
<1>9. ASSUME NEW c \in Call, Write(c)
      PROVE  KindInv'
  <2>1. UNCHANGED dev
    BY <1>9 DEF Write, BeginWriting, MountTarget, Work, WorkFails, UnmountTarget
  <2>2. \E from, to \in Step :
          /\ Moves(c, from, to)
          /\ to \in {"mount", "work", "unmount", "failed", "answered"}
          /\ to \in {"mount", "work", "unmount"} => kind[c] \in Writing
    BY <1>9 DEF Write, BeginWriting, MountTarget, Work, WorkFails, UnmountTarget, Moves, KindInv
  <2>. QED
    BY <1>7, <2>1, <2>2
<1>. QED
  BY <1>1, <1>2, <1>3, <1>4, <1>5, <1>6, <1>8, <1>9 DEF Next

\* What lands on a partition is among what it has carried.
LEMMA ContentsStep ==
    ASSUME TypeOK, ContentsInv, [Next]_vars
    PROVE  /\ ContentsInv'
           /\ \A p \in Partition : had[p] \subseteq had'[p]
<1>1. ASSUME NEW c \in Call, Lands(c)
      PROVE  ContentsInv' /\ \A p \in Partition : had[p] \subseteq had'[p]
  BY <1>1 DEF Lands, ContentsInv
<1>2. UNCHANGED data \/ \E c \in Call : Lands(c)
  BY DEF Next, Arrive, RefuseUnidentified, Leave, Shutdown, Signal, SignalHandler, Exit, Start, vars,
         Discover, BeginDiscover, Probe, Read, Unprobe, EndDiscover,
         Write, BeginWriting, MountTarget, Work, WorkFails, UnmountTarget
<1>. QED
  BY <1>1, <1>2 DEF data, ContentsInv

\* Only an installation that nobody follows dies with the process.
LEMMA DeathStep ==
    ASSUME TypeOK, KindInv, NoCallerAbandoned, [Next]_vars
    PROVE  NoCallerAbandoned'
<1>. USE DEF NoCallerAbandoned
<1>1. CASE Exit
  <2>1. \A c \in Call : pc'[c] = IF Active(c) THEN "dead" ELSE pc[c]
    BY <1>1 DEF Exit
  <2>2. \A c \in Call : Active(c) => kind[c] = "install" /\ ~client[c]
    <3>1. SUFFICES ASSUME NEW c \in Call, Active(c)
                   PROVE  kind[c] = "install" /\ ~client[c]
      OBVIOUS
    <3>2. ~client[c] /\ kind[c] \notin {"discover", "write"}
      BY <1>1, <3>1 DEF Exit, WaitedFor, Alive
    <3>3. kind[c] # "shutdown"
      BY <3>1, <3>2, Points DEF KindInv, Active, TypeOK, Writing
    <3>. QED
      BY <3>2, <3>3 DEF TypeOK, Kind
  <2>. QED
    BY <1>1, <2>1, <2>2 DEF Exit
<1>2. CASE Signal \/ SignalHandler \/ Start \/ UNCHANGED vars
  BY <1>2 DEF Signal, SignalHandler, Start, vars, call
<1>3. ASSUME NEW c \in Call,
             /\ pc[c] \notin {"dead"} /\ pc'[c] # "dead"
             /\ \A b \in Call : b # c => pc'[b] = pc[b] /\ kind'[b] = kind[b] /\ client'[b] = client[b]
      PROVE  NoCallerAbandoned'
  BY <1>3
<1>4. ASSUME NEW c \in Call,
             \/ \E k \in Kind, root \in Partition \cup {None} : Arrive(c, k, root)
             \/ RefuseUnidentified(c) \/ Leave(c) \/ Shutdown(c)
      PROVE  NoCallerAbandoned'
  <2>1. pc[c] # "dead" /\ pc'[c] # "dead"
    BY <1>4, Points DEF Arrive, RefuseUnidentified, Leave, Shutdown, Active, TypeOK, Ended
  <2>2. \A b \in Call : b # c => pc'[b] = pc[b] /\ kind'[b] = kind[b] /\ client'[b] = client[b]
    BY <1>4 DEF Arrive, RefuseUnidentified, Leave, Shutdown, TypeOK
  <2>. QED
    BY <1>3, <2>1, <2>2
<1>5. ASSUME NEW c \in Call, NEW from, NEW to, Moves(c, from, to), from # "dead", to # "dead"
      PROVE  NoCallerAbandoned'
  BY <1>3, <1>5 DEF Moves, TypeOK
<1>6. ASSUME NEW c \in Call, Discover(c) \/ Write(c)
      PROVE  NoCallerAbandoned'
  BY <1>5, <1>6 DEF Discover, BeginDiscover, Probe, Read, Unprobe, EndDiscover,
                    Write, BeginWriting, MountTarget, Work, WorkFails, UnmountTarget
<1>. QED
  BY <1>1, <1>2, <1>4, <1>6 DEF Next

-----------------------------------------------------------------------------
(***************************************************************************)
(* What mounting and unmounting at one directory does to each of the two.  *)
(***************************************************************************)

\* The mount directories do not cover one another, and calls use each at control
\* points of its own.
LEMMA Apart ==
    /\ \A p, q \in Directory : Covers(p, q) <=> p = q
    /\ \A p, q \in Directory : p # q => Holding(p) \cap Holding(q) = {}
    /\ \A p \in Directory : Use(p) \in Holding(p)
  BY BackendAssumption DEF Covers, Directory, Holding, Use

\* What is on top of a directory is the last of its mounts.
LEMMA TopIsLast ==
    ASSUME NEW t \in Seq(MountType), NEW at \in Directory, NEW i \in DOMAIN t
    PROVE  Serves(t, i, at) <=> t[i].at = at /\ \A j \in DOMAIN t : j > i => t[j].at # at
<1>1. \A j \in DOMAIN t : t[j].at \in Directory
  <2>1. Len(t) \in Nat /\ DOMAIN t = 1..Len(t)
    BY LenProperties
  <2>2. \A j \in DOMAIN t : t[j] \in MountType
    BY <2>1, ElementOfSeq
  <2>. QED
    BY <2>2 DEF MountType
<1>. QED
  BY <1>1, Apart DEF Serves

\* The calls at work are among those born, so they can be counted, and so can the
\* mounts.
LEMMA Countable ==
    ASSUME TypeOK, IsFiniteSet(Born), NEW at \in Directory
    PROVE  /\ IsFiniteSet(HoldersOf(at)) /\ Cardinality(HoldersOf(at)) \in Nat
           /\ IsFiniteSet(MountsOf(at)) /\ Cardinality(MountsOf(at)) \in Nat
<1>1. HoldersOf(at) \subseteq Born
  BY DEF HoldersOf, Holding, Born
<1>2. MountsOf(at) \subseteq 1..Len(table) /\ Len(table) \in Nat
  BY Entries DEF MountsOf
<1>3. IsFiniteSet(1..Len(table))
  BY <1>2, FS_Interval
<1>. QED
  BY <1>1, <1>2, <1>3, FS_Subset, FS_CardinalityType

\* A mount is on top of its directory, one more than before, and changes nothing at
\* the other.
LEMMA Attached ==
    ASSUME TypeOK, NEW e \in MountType, table' = Attach(table, e)
    PROVE  /\ Top(e.at)' = {e.dev}
           /\ \E n : n \notin MountsOf(e.at) /\ MountsOf(e.at)' = MountsOf(e.at) \cup {n}
           /\ \A o \in Directory : o # e.at => Top(o)' = Top(o) /\ MountsOf(o)' = MountsOf(o)
<1>1. table \in Seq(MountType) /\ e.at \in Directory
  BY Entries DEF MountType
<1>2. PICK n \in Nat :
          /\ DOMAIN table' = DOMAIN table \cup {n}
          /\ \A i \in DOMAIN table : table'[i] = table[i] /\ i \in Nat /\ i < n
          /\ table'[n] = e
  <2>1. Extends(table', table, e)
    BY <1>1, AttachTable
  <2>. QED
    BY <2>1 DEF Extends
<1>3. n \notin DOMAIN table /\ table' \in Seq(MountType)
  BY <1>1, <1>2, AttachTable
<1>4. Top(e.at)' = {e.dev}
  <2>1. Serves(table', n, e.at)
    BY <1>1, <1>2, <1>3, TopIsLast
  <2>2. \A i \in DOMAIN table' : Serves(table', i, e.at) => i = n
    BY <1>1, <1>2, <1>3, TopIsLast
  <2>. QED
    BY <1>2, <2>1, <2>2 DEF Top
<1>5. n \notin MountsOf(e.at) /\ MountsOf(e.at)' = MountsOf(e.at) \cup {n}
  BY <1>2, <1>3 DEF MountsOf
<1>6. ASSUME NEW o \in Directory, o # e.at
      PROVE  Top(o)' = Top(o) /\ MountsOf(o)' = MountsOf(o)
  <2>1. \A i \in DOMAIN table' : Serves(table', i, o) <=> i \in DOMAIN table /\ Serves(table, i, o)
    BY <1>1, <1>2, <1>3, <1>6, TopIsLast
  <2>2. MountsOf(o)' = MountsOf(o)
    BY <1>2, <1>3, <1>6 DEF MountsOf
  <2>. QED
    BY <1>2, <2>1, <2>2 DEF Top
<1>. QED
  BY <1>4, <1>5, <1>6

\* An umount takes one mount of its directory, and changes nothing at the other.
LEMMA Detached ==
    ASSUME TypeOK, NEW at \in Directory, NEW i \in DOMAIN table, Detaches(table, i, at),
           table' = Detach(table, i)
    PROVE  /\ i \in MountsOf(at)
           /\ \A o \in Directory : Cardinality(MountsOf(o)') = Cardinality(MountsOf(o) \ {i})
           /\ \A o \in Directory : o # at => Top(o)' = Top(o) /\ i \notin MountsOf(o)
<1>1. table \in Seq(MountType) /\ table[i].at = at
  BY Entries DEF Detaches
<1>2. /\ table' \in Seq(MountType)
      /\ \A k \in DOMAIN table' : Was(i, k) \in DOMAIN table \ {i} /\ table'[k] = table[Was(i, k)]
      /\ \A k, l \in DOMAIN table' : k < l => Was(i, k) < Was(i, l)
      /\ \A k, l \in DOMAIN table' : Was(i, k) = Was(i, l) => k = l
      /\ \A j \in DOMAIN table \ {i} : Is(i, j) \in DOMAIN table' /\ Was(i, Is(i, j)) = j
  BY <1>1, DetachTable
<1>3. DOMAIN table \subseteq Int /\ DOMAIN table' \subseteq Int
  BY <1>1, <1>2, LenProperties
<1>4. ASSUME NEW o \in Directory
      PROVE  Cardinality(MountsOf(o)') = Cardinality(MountsOf(o) \ {i})
  <2> DEFINE f == [k \in MountsOf(o)' |-> Was(i, k)]
  <2>1. \A k \in MountsOf(o)' : Was(i, k) \in MountsOf(o) \ {i}
    BY <1>2 DEF MountsOf
  <2>2. \A k, l \in MountsOf(o)' : f[k] = f[l] => k = l
    BY <1>2 DEF MountsOf
  <2>3. \A j \in MountsOf(o) \ {i} : Is(i, j) \in MountsOf(o)' /\ f[Is(i, j)] = j
    BY <1>2 DEF MountsOf
  <2>4. f \in [MountsOf(o)' -> MountsOf(o) \ {i}]
    BY <2>1
  <2>. HIDE DEF f
  <2>5. f \in Bijection(MountsOf(o)', MountsOf(o) \ {i})
    BY <2>2, <2>3, <2>4 DEF Bijection, Injection, IsInjective, Surjection
  <2>6. IsFiniteSet(MountsOf(o)')
    <3>1. Len(table') \in Nat /\ MountsOf(o)' \subseteq 1..Len(table')
      BY <1>2, LenProperties DEF MountsOf
    <3>2. IsFiniteSet(1..Len(table'))
      BY <3>1, FS_Interval
    <3>. QED
      BY <3>1, <3>2, FS_Subset
  <2>. QED
    BY <2>5, <2>6, FS_Bijection DEF ExistsBijection
<1>5. ASSUME NEW o \in Directory, o # at
      PROVE  Top(o)' = Top(o)
  <2>1. ASSUME NEW k \in DOMAIN table'
        PROVE  Serves(table', k, o) <=> Serves(table, Was(i, k), o)
    <3>1. Was(i, k) \in DOMAIN table
      BY <1>2
    <3>2. /\ Serves(table', k, o) <=>
                table'[k].at = o /\ \A l \in DOMAIN table' : l > k => table'[l].at # o
          /\ Serves(table, Was(i, k), o) <=>
                table[Was(i, k)].at = o /\ \A j \in DOMAIN table : j > Was(i, k) => table[j].at # o
      BY <1>1, <1>2, <3>1, TopIsLast
    <3>3. ASSUME NEW l \in DOMAIN table', l > k, table'[l].at = o
          PROVE  Was(i, l) \in DOMAIN table /\ Was(i, l) > Was(i, k) /\ table[Was(i, l)].at = o
      BY <1>2, <1>3, <3>1, <3>3
    <3>4. ASSUME NEW j \in DOMAIN table, j > Was(i, k), table[j].at = o
          PROVE  Is(i, j) \in DOMAIN table' /\ Is(i, j) > k /\ table'[Is(i, j)].at = o
      <4>1. j # i
        BY <1>1, <1>5, <3>4
      <4>2. Is(i, j) \in DOMAIN table' /\ Was(i, Is(i, j)) = j
        BY <1>2, <4>1
      <4>3. ~(Is(i, j) < k) /\ Is(i, j) # k
        BY <1>2, <1>3, <3>1, <3>4, <4>2
      <4>. QED
        BY <1>2, <1>3, <3>4, <4>2, <4>3
    <3>. QED
      BY <1>2, <3>2, <3>3, <3>4
  <2>2. \A j \in DOMAIN table : Serves(table, j, o) =>
           j # i /\ Is(i, j) \in DOMAIN table' /\ Was(i, Is(i, j)) = j
    BY <1>1, <1>2, <1>5, TopIsLast
  <2>3. Top(o)' \subseteq Top(o)
    BY <1>2, <2>1 DEF Top
  <2>4. Top(o) \subseteq Top(o)'
    BY <1>2, <2>1, <2>2 DEF Top
  <2>. QED
    BY <2>3, <2>4
<1>. QED
  BY <1>1, <1>4, <1>5 DEF MountsOf

-----------------------------------------------------------------------------
(***************************************************************************)
(* What a step does to the mounts.                                         *)
(***************************************************************************)

\* Only call c moves.
Alone(c) == \A b \in Call \ {c} : pc'[b] = pc[b] /\ dev'[b] = dev[b]

\* No mount is made or undone, and no call comes to one or goes from one.
Quiet ==
    /\ UNCHANGED mounts
    /\ \A c \in Call, at \in Directory :
          /\ pc'[c] \in Holding(at) <=> pc[c] \in Holding(at)
          /\ pc'[c] = Use(at) => pc[c] = Use(at)
          /\ pc[c] \in Holding(at) => dev'[c] = dev[c]

\* Call c mounts d and goes on to use it.
Takes(c, d, at) ==
    /\ MountsAt(c, d, at)
    /\ Alone(c)
    /\ \A o \in Directory : pc[c] \notin Holding(o)
    /\ pc'[c] = Use(at) /\ dev'[c] = d

\* Call c unmounts and has nothing mounted any more.
Gives(c, at) ==
    /\ Unmounts(c, at)
    /\ Alone(c)
    /\ pc[c] \in Holding(at)
    /\ \A o \in Directory : pc'[c] \notin Holding(o)

\* Every step is one of these, or the end of the process.
LEMMA MountSteps ==
    ASSUME TypeOK, KindInv, [Next]_vars
    PROVE  \/ Quiet
           \/ \E c \in Call, d \in Partition, at \in Directory : Takes(c, d, at)
           \/ \E c \in Call, at \in Directory : Gives(c, at)
           \/ Exit
<1>. USE DEF Directory, Holding, Use
<1>1. ASSUME NEW c \in Call, NEW from, NEW to, Moves(c, from, to)
      PROVE  pc[c] = from /\ pc'[c] = to /\ \A b \in Call \ {c} : pc'[b] = pc[b]
  BY <1>1 DEF Moves, TypeOK
<1>2. ASSUME NEW c \in Call, NEW from, NEW to, Moves(c, from, to), UNCHANGED <<mounts, dev>>,
             \A at \in Directory : to \in Holding(at) <=> from \in Holding(at),
             \A at \in Directory : to = Use(at) => from = Use(at)
      PROVE  Quiet
  BY <1>1, <1>2 DEF Quiet
<1>3. ASSUME NEW c \in Call, NEW k \in Kind, NEW root \in Partition \cup {None}, Arrive(c, k, root)
      PROVE  Quiet
  <2>1. /\ UNCHANGED mounts /\ pc[c] = "unborn"
        /\ \A b \in Call : /\ pc'[b] = IF b = c THEN "arrived" ELSE pc[b]
                           /\ b # c => dev'[b] = dev[b]
    BY <1>3 DEF Arrive, TypeOK
  <2>. QED
    BY <2>1 DEF Quiet
<1>4. ASSUME NEW c \in Call, RefuseUnidentified(c) \/ Leave(c) \/ Shutdown(c)
      PROVE  Quiet
  <2>1. /\ UNCHANGED <<mounts, dev>>
        /\ \A b \in Call : \/ pc'[b] = pc[b]
                           \/ /\ pc[b] \in {"unborn", "arrived"}
                              /\ pc'[b] \in {"refused", "cancelled", "answered", "panicked"}
    BY <1>4 DEF RefuseUnidentified, Leave, Shutdown, TypeOK
  <2>. QED
    BY <2>1 DEF Quiet
<1>5. CASE Signal \/ SignalHandler \/ Start \/ UNCHANGED vars
  BY <1>5 DEF Signal, SignalHandler, Start, vars, call, Quiet
<1>6. ASSUME NEW c \in Call, BeginDiscover(c) \/ Read(c) \/ EndDiscover(c) \/ BeginWriting(c) \/ Work(c)
      PROVE  Quiet
  BY <1>2, <1>6 DEF BeginDiscover, Read, EndDiscover, BeginWriting, Work
<1>7. ASSUME NEW c \in Call, Probe(c)
      PROVE  Quiet \/ \E p \in Partition : Takes(c, p, "probe")
  <2>1. \/ Moves(c, "probe", "probe") /\ UNCHANGED <<mounts, dev>>
        \/ \E p \in Partition : /\ Moves(c, "probe", "read")
                                /\ dev' = [dev EXCEPT ![c] = p]
                                /\ MountsAt(c, p, "probe")
    BY <1>7 DEF Probe, TypeOK
  <2>2. ASSUME NEW p \in Partition, Moves(c, "probe", "read"), dev' = [dev EXCEPT ![c] = p],
               MountsAt(c, p, "probe")
        PROVE  Takes(c, p, "probe")
    BY <1>1, <2>2 DEF Takes, Alone, TypeOK
  <2>. QED
    BY <1>2, <2>1, <2>2
<1>8. ASSUME NEW c \in Call, MountTarget(c)
      PROVE  Quiet \/ \E p \in Partition : Takes(c, p, "target")
  <2>1. UNCHANGED dev
    BY <1>8 DEF MountTarget
  <2>2. CASE Moves(c, "mount", "work") /\ MountsAt(c, dev[c], "target")
    <3>1. dev[c] \in Partition
      BY <2>2 DEF Moves, KindInv
    <3>2. Takes(c, dev[c], "target")
      BY <1>1, <2>1, <2>2 DEF Takes, Alone
    <3>. QED
      BY <3>1, <3>2
  <2>3. CASE Moves(c, "mount", "failed") /\ UNCHANGED mounts
    BY <1>2, <2>1, <2>3
  <2>. QED
    BY <1>8, <2>2, <2>3 DEF MountTarget
<1>9. ASSUME NEW c \in Call, Unprobe(c)
      PROVE  Gives(c, "probe")
  <2>1. \A b \in Call \ {c} : dev'[b] = dev[b]
    BY <1>9 DEF Unprobe, TypeOK
  <2>. QED
    BY <1>1, <1>9, <2>1 DEF Unprobe, Gives, Alone
<1>10. ASSUME NEW c \in Call, WorkFails(c) \/ UnmountTarget(c)
       PROVE  Gives(c, "target")
  <2>1. UNCHANGED dev /\ Unmounts(c, "target")
    BY <1>10 DEF WorkFails, UnmountTarget
  <2>2. \E from \in {"work", "unmount"}, to \in {"failed", "answered"} : Moves(c, from, to)
    BY <1>10 DEF WorkFails, UnmountTarget
  <2>. QED
    BY <1>1, <2>1, <2>2 DEF Gives, Alone
<1>11. ASSUME NEW c \in Call, Discover(c)
       PROVE  \/ Quiet \/ \E d \in Partition, at \in Directory : Takes(c, d, at)
              \/ \E at \in Directory : Gives(c, at)
  BY <1>6, <1>7, <1>9, <1>11 DEF Discover
<1>12. ASSUME NEW c \in Call, Write(c)
       PROVE  \/ Quiet \/ \E d \in Partition, at \in Directory : Takes(c, d, at)
              \/ \E at \in Directory : Gives(c, at)
  BY <1>6, <1>8, <1>10, <1>12 DEF Write
<1>. QED
  BY <1>3, <1>4, <1>5, <1>11, <1>12 DEF Next

\* What is crossed stays crossed.
LEMMA CrossedGrows ==
    ASSUME TypeOK, KindInv, [Next]_vars
    PROVE  crossed \subseteq crossed'
<1>1. Quiet => crossed \subseteq crossed'
  BY DEF Quiet, mounts
<1>2. \A c, d, at : Takes(c, d, at) => crossed \subseteq crossed'
  BY DEF Takes, MountsAt, Crosses
<1>3. \A c, at : Gives(c, at) => crossed \subseteq crossed'
  BY DEF Gives, Unmounts, Crosses
<1>4. Exit => crossed \subseteq crossed'
  BY DEF Exit
<1>. QED
  BY <1>1, <1>2, <1>3, <1>4, MountSteps

\* Every mount is accounted for after a step if it was before.
LEMMA OwnedStep ==
    ASSUME TypeOK, IsFiniteSet(Born), KindInv, MountsOwned, [Next]_vars
    PROVE  MountsOwned'
<1>0. /\ \A at \in Directory : Cardinality(MountsOf(at)) = Cardinality(HoldersOf(at)) + stays[at]
      /\ MountsOwned' <=>
            \A at \in Directory : Cardinality(MountsOf(at)') = Cardinality(HoldersOf(at)') + stays'[at]
      /\ \A at \in Directory : stays[at] \in Nat
  BY DEF MountsOwned, MountsOf, HoldersOf, TypeOK
<1>1. CASE Quiet
  <2>1. \A at \in Directory : MountsOf(at)' = MountsOf(at) /\ HoldersOf(at)' = HoldersOf(at)
    BY <1>1 DEF Quiet, mounts, MountsOf, HoldersOf
  <2>. QED
    BY <1>0, <1>1, <2>1 DEF Quiet, mounts
<1>2. ASSUME NEW c \in Call, NEW d \in Partition, NEW at \in Directory, Takes(c, d, at)
      PROVE  MountsOwned'
  <2> DEFINE e == [dev |-> d, at |-> at]
  <2>1. e \in MountType /\ e.at = at /\ table' = Attach(table, e) /\ UNCHANGED stays
    BY <1>2 DEF MountType, Takes, MountsAt
  <2>. HIDE DEF e
  <2>2. c \notin HoldersOf(at) /\ HoldersOf(at)' = HoldersOf(at) \cup {c}
    BY <1>2, Apart DEF Takes, Alone, HoldersOf
  <2>3. Cardinality(HoldersOf(at)') = Cardinality(HoldersOf(at)) + 1
    BY <2>2, Countable, FS_AddElement
  <2>4. PICK n : n \notin MountsOf(at) /\ MountsOf(at)' = MountsOf(at) \cup {n}
    BY <2>1, Attached
  <2>5. Cardinality(MountsOf(at)') = Cardinality(MountsOf(at)) + 1
    BY <2>4, Countable, FS_AddElement
  <2>6. ASSUME NEW o \in Directory, o # at
        PROVE  MountsOf(o)' = MountsOf(o) /\ HoldersOf(o)' = HoldersOf(o)
    <3>1. pc'[c] \notin Holding(o) /\ pc[c] \notin Holding(o)
      BY <1>2, <2>6, Apart DEF Takes
    <3>2. HoldersOf(o)' = HoldersOf(o)
      BY <1>2, <3>1 DEF Takes, Alone, HoldersOf
    <3>. QED
      BY <2>1, <2>6, <3>2, Attached
  <2>7. /\ Cardinality(MountsOf(at)) \in Nat /\ Cardinality(HoldersOf(at)) \in Nat
    BY Countable
  <2>8. Cardinality(MountsOf(at)') = Cardinality(HoldersOf(at)') + stays[at]
    BY <1>0, <2>3, <2>5, <2>7
  <2>. QED
    BY <1>0, <2>1, <2>6, <2>8
<1>3. ASSUME NEW c \in Call, NEW at \in Directory, Gives(c, at)
      PROVE  MountsOwned'
  <2>1. c \in HoldersOf(at) /\ HoldersOf(at)' = HoldersOf(at) \ {c}
    BY <1>3 DEF Gives, Alone, HoldersOf
  <2>2. Cardinality(HoldersOf(at)') = Cardinality(HoldersOf(at)) - 1
    BY <2>1, Countable, FS_RemoveElement
  <2>3. ASSUME NEW o \in Directory, o # at
        PROVE  HoldersOf(o)' = HoldersOf(o)
    <3>1. pc[c] \notin Holding(o) /\ pc'[c] \notin Holding(o)
      BY <1>3, <2>3, Apart DEF Gives
    <3>. QED
      BY <1>3, <3>1 DEF Gives, Alone, HoldersOf
  <2>4. /\ Cardinality(MountsOf(at)) \in Nat /\ Cardinality(HoldersOf(at)) \in Nat
    BY Countable
  <2>5. CASE stays' = [stays EXCEPT ![at] = @ + 1] /\ UNCHANGED <<table, crossed>>
    <3>1. stays'[at] = stays[at] + 1 /\ \A o \in Directory : o # at => stays'[o] = stays[o]
      BY <2>5 DEF TypeOK
    <3>2. \A o \in Directory : MountsOf(o)' = MountsOf(o)
      BY <2>5 DEF MountsOf
    <3>3. Cardinality(MountsOf(at)') = Cardinality(HoldersOf(at)') + stays'[at]
      BY <1>0, <2>2, <2>4, <3>1, <3>2
    <3>. QED
      BY <1>0, <2>3, <3>1, <3>2, <3>3
  <2>6. CASE /\ \E i \in DOMAIN table : Detaches(table, i, at) /\ table' = Detach(table, i)
             /\ UNCHANGED stays
    <3>1. PICK i \in DOMAIN table : Detaches(table, i, at) /\ table' = Detach(table, i)
      BY <2>6
    <3>2. i \in MountsOf(at) /\ Cardinality(MountsOf(at)') = Cardinality(MountsOf(at) \ {i})
      BY <3>1, Detached
    <3>3. Cardinality(MountsOf(at)') = Cardinality(MountsOf(at)) - 1
      BY <3>2, Countable, FS_RemoveElement
    <3>4. Cardinality(MountsOf(at)') = Cardinality(HoldersOf(at)') + stays'[at]
      BY <1>0, <2>2, <2>4, <2>6, <3>3
    <3>5. ASSUME NEW o \in Directory, o # at
          PROVE  Cardinality(MountsOf(o)') = Cardinality(MountsOf(o))
      <4>1. /\ Cardinality(MountsOf(o)') = Cardinality(MountsOf(o) \ {i})
            /\ i \notin MountsOf(o)
        BY <3>1, <3>5, Detached
      <4>2. MountsOf(o) \ {i} = MountsOf(o)
        BY <4>1
      <4>. QED
        BY <4>1, <4>2
    <3>. QED
      BY <1>0, <2>3, <2>6, <3>4, <3>5
  <2>. QED
    BY <1>3, <2>5, <2>6 DEF Gives, Unmounts
<1>4. CASE Exit
  <2>1. /\ UNCHANGED table
        /\ \A b \in Call : pc'[b] = IF Active(b) THEN "dead" ELSE pc[b]
        /\ stays'["target"] = stays["target"] + Cardinality(HoldersOf("target"))
        /\ stays'["probe"] = stays["probe"]
    BY <1>4 DEF Exit, HoldersOf, TypeOK, Directory
  <2>2. \A b \in Call : pc[b] \notin Holding("probe")
    BY <1>4 DEF Exit, WaitedFor, Holding, KindInv, Alive, Active, Ended
  <2>3. \A b \in Call : pc'[b] \notin Holding("probe") \cup Holding("target")
    BY <2>1 DEF Holding, Active, Ended
  <2>4. HoldersOf("probe") = {} /\ HoldersOf("probe")' = {} /\ HoldersOf("target")' = {}
    BY <2>2, <2>3 DEF HoldersOf
  <2>5. Cardinality({}) = 0
    BY FS_EmptySet
  <2>6. \A at \in Directory : MountsOf(at)' = MountsOf(at)
    BY <2>1 DEF MountsOf
  <2>7. Cardinality(HoldersOf("target")) \in Nat
    BY Countable DEF Directory
  <2>8. /\ Cardinality(MountsOf("probe")') = Cardinality(HoldersOf("probe")') + stays'["probe"]
        /\ Cardinality(MountsOf("target")') = Cardinality(HoldersOf("target")') + stays'["target"]
    BY <1>0, <2>1, <2>4, <2>5, <2>6, <2>7 DEF Directory
  <2>. QED
    BY <1>0, <2>8 DEF Directory
<1>. QED
  BY <1>1, <1>2, <1>3, <1>4, MountSteps

\* A call that uses its directory sees its own partition until another comes in its
\* way.
LEMMA HoldStep ==
    ASSUME TypeOK, KindInv, HoldInv, [Next]_vars
    PROVE  HoldInv'
<1>1. SUFFICES ASSUME NEW b \in Call, NEW o \in Directory,
                      pc'[b] = Use(o), <<b, dev'[b]>> \notin crossed'
               PROVE  Top(o)' = {dev'[b]}
  BY DEF HoldInv, Use
<1>2. <<b, dev'[b]>> \notin crossed
  BY <1>1, CrossedGrows
<1>3. ASSUME pc[b] = Use(o), dev'[b] = dev[b], Top(o)' = Top(o)
      PROVE  Top(o)' = {dev'[b]}
  BY <1>2, <1>3 DEF HoldInv
<1>4. CASE Quiet
  <2>1. pc[b] = Use(o) /\ dev'[b] = dev[b]
    BY <1>1, <1>4, Apart DEF Quiet
  <2>2. Top(o)' = Top(o)
    BY <1>4 DEF Quiet, mounts, Top
  <2>. QED
    BY <1>3, <2>1, <2>2
<1>5. ASSUME NEW c \in Call, NEW d \in Partition, NEW at \in Directory, Takes(c, d, at)
      PROVE  Top(o)' = {dev'[b]}
  <2> DEFINE e == [dev |-> d, at |-> at]
  <2>1. e \in MountType /\ e.at = at /\ e.dev = d /\ table' = Attach(table, e)
    BY <1>5 DEF MountType, Takes, MountsAt
  <2>. HIDE DEF e
  <2>2. Top(at)' = {d} /\ \A q \in Directory : q # at => Top(q)' = Top(q)
    BY <2>1, Attached
  <2>3. CASE b = c
    <3>1. o = at /\ dev'[b] = d
      BY <1>1, <1>5, <2>3 DEF Takes, Use, Directory
    <3>. QED
      BY <2>2, <3>1
  <2>4. CASE b # c
    <3>1. pc[b] = Use(o) /\ dev'[b] = dev[b]
      BY <1>1, <1>5, <2>4 DEF Takes, Alone
    <3>2. o # at
      BY <1>1, <1>5, <2>4, <3>1 DEF Takes, MountsAt, Crosses
    <3>. QED
      BY <1>3, <2>2, <3>1, <3>2
  <2>. QED
    BY <2>3, <2>4
<1>6. ASSUME NEW c \in Call, NEW at \in Directory, Gives(c, at)
      PROVE  Top(o)' = {dev'[b]}
  <2>1. b # c /\ pc[b] = Use(o) /\ dev'[b] = dev[b]
    BY <1>1, <1>6, Apart DEF Gives, Alone
  <2>2. CASE UNCHANGED table
    BY <1>3, <2>1, <2>2 DEF Top
  <2>3. CASE /\ \E i \in DOMAIN table : Detaches(table, i, at) /\ table' = Detach(table, i)
             /\ Crosses(c, at)
    <3>1. o # at
      BY <1>1, <2>1, <2>3 DEF Crosses
    <3>2. Top(o)' = Top(o)
      BY <2>3, <3>1, Detached
    <3>. QED
      BY <1>3, <2>1, <3>2
  <2>. QED
    BY <1>6, <2>2, <2>3 DEF Gives, Unmounts
<1>7. CASE Exit
  <2>1. pc'[b] = IF Active(b) THEN "dead" ELSE pc[b]
    BY <1>7 DEF Exit
  <2>. QED
    BY <1>1, <2>1 DEF Use, Active, Ended
<1>. QED
  BY <1>4, <1>5, <1>6, <1>7, MountSteps

-----------------------------------------------------------------------------
(***************************************************************************)
(* What calls report.                                                      *)
(***************************************************************************)

\* A writing call keeps its kind and its root.
LEMMA WriterStays ==
    ASSUME TypeOK, KindInv, [Next]_vars, NEW c \in Call, kind[c] \in Writing
    PROVE  kind'[c] = kind[c] /\ dev'[c] = dev[c]
<1>. USE DEF Writing
<1>1. ASSUME NEW b \in Call, NEW k \in Kind, NEW root \in Partition \cup {None}, Arrive(b, k, root)
      PROVE  kind'[c] = kind[c] /\ dev'[c] = dev[c]
  <2>1. c # b
    BY <1>1 DEF Arrive, KindInv
  <2>. QED
    BY <1>1, <2>1 DEF Arrive, TypeOK
<1>2. ASSUME NEW b \in Call, RefuseUnidentified(b) \/ Leave(b) \/ Shutdown(b)
      PROVE  kind'[c] = kind[c] /\ dev'[c] = dev[c]
  BY <1>2 DEF RefuseUnidentified, Leave, Shutdown
<1>3. ASSUME NEW b \in Call, Write(b)
      PROVE  kind'[c] = kind[c] /\ dev'[c] = dev[c]
  BY <1>3 DEF Write, BeginWriting, MountTarget, Work, WorkFails, UnmountTarget, Moves
<1>4. ASSUME NEW b \in Call, Discover(b)
      PROVE  kind'[c] = kind[c] /\ dev'[c] = dev[c]
  <2>1. UNCHANGED kind
    BY <1>4 DEF Discover, BeginDiscover, Probe, Read, Unprobe, EndDiscover, Moves
  <2>2. kind[b] = "discover"
    BY <1>4 DEF Discover, BeginDiscover, Probe, Read, Unprobe, EndDiscover, Moves, KindInv
  <2>3. \A a \in Call : a # b => dev'[a] = dev[a]
    BY <1>4 DEF Discover, BeginDiscover, Probe, Read, Unprobe, EndDiscover, TypeOK
  <2>. QED
    BY <2>1, <2>2, <2>3
<1>5. CASE Signal \/ SignalHandler \/ Exit \/ Start \/ UNCHANGED vars
  BY <1>5 DEF Signal, SignalHandler, Exit, Start, vars, call
<1>. QED
  BY <1>1, <1>2, <1>3, <1>4, <1>5 DEF Next

\* What a step writes, it writes for one call that is at work.
LEMMA WhoWrites ==
    ASSUME TypeOK, KindInv, [Next]_vars
    PROVE  UNCHANGED data \/ \E c \in Call : pc[c] = "work" /\ kind[c] \in Writing /\ Lands(c)
  BY DEF Next, Arrive, RefuseUnidentified, Leave, Shutdown, Signal, SignalHandler, Exit, Start, vars,
         Discover, BeginDiscover, Probe, Read, Unprobe, EndDiscover,
         Write, BeginWriting, MountTarget, Work, WorkFails, UnmountTarget, Moves, KindInv

\* Calls write on their own roots only.
LEMMA HomeStep ==
    ASSUME TypeOK, KindInv, ContentsInv, HoldInv, HomeInv, [Next]_vars
    PROVE  HomeInv'
<1>1. SUFFICES ASSUME NEW b \in Call, NEW p \in Partition, b \in had'[p]
               PROVE  kind'[b] \in Writing /\ (<<b, dev'[b]>> \notin crossed' => p = dev'[b])
  BY DEF HomeInv, Writing
<1>2. SUFFICES kind[b] \in Writing /\ (<<b, dev[b]>> \notin crossed => p = dev[b])
  BY WriterStays, CrossedGrows
<1>3. CASE b \in had[p]
  BY <1>3 DEF HomeInv
<1>4. CASE b \notin had[p]
  <2>1. PICK c \in Call : pc[c] = "work" /\ kind[c] \in Writing /\ Lands(c)
    BY <1>1, <1>4, WhoWrites DEF data
  <2>2. contents[p] \in had[p] /\ had'[p] = had[p] \cup {contents'[p]}
    BY <2>1 DEF ContentsInv, Lands
  <2>3. b = c /\ p \in Top("target")
    BY <1>1, <1>4, <2>1, <2>2 DEF Lands
  <2>4. <<c, dev[c]>> \notin crossed => Top("target") = {dev[c]}
    BY <2>1 DEF HoldInv, Use, Directory
  <2>. QED
    BY <2>1, <2>3, <2>4
<1>. QED
  BY <1>3, <1>4

\* A writing call has written to its root before it unmounts it.
LEMMA WrittenStep ==
    ASSUME TypeOK, KindInv, HoldInv, ContentsInv, WrittenInv, [Next]_vars
    PROVE  WrittenInv'
<1>1. \A p \in Partition : had[p] \subseteq had'[p]
  BY ContentsStep
<1>2. ASSUME \A c \in Call : pc'[c] \in {"unmount", "answered"} /\ kind'[c] \in Writing =>
                /\ pc[c] \in {"unmount", "answered"}
                /\ kind'[c] = kind[c] /\ dev'[c] = dev[c]
      PROVE  WrittenInv'
  <2>1. SUFFICES ASSUME NEW c \in Call, kind'[c] \in Writing, pc'[c] \in {"unmount", "answered"},
                        <<c, dev'[c]>> \notin crossed'
                 PROVE  c \in had'[dev'[c]]
    BY DEF WrittenInv
  <2>2. c \in had[dev[c]] /\ dev[c] \in Partition /\ dev'[c] = dev[c]
    BY <1>2, <2>1, CrossedGrows DEF WrittenInv, KindInv
  <2>. QED
    BY <1>1, <2>2
<1>3. ASSUME NEW c \in Call, NEW k \in Kind, NEW root \in Partition \cup {None}, Arrive(c, k, root)
      PROVE  WrittenInv'
  BY <1>2, <1>3 DEF Arrive, TypeOK
<1>4. ASSUME NEW c \in Call, RefuseUnidentified(c) \/ Leave(c) \/ Shutdown(c)
      PROVE  WrittenInv'
  BY <1>2, <1>4 DEF RefuseUnidentified, Leave, Shutdown, TypeOK, Writing
<1>5. ASSUME NEW c \in Call, Discover(c)
      PROVE  WrittenInv'
  <2>1. \E from, to : Moves(c, from, to) /\ from \in {"arrived", "probe", "read", "unprobe"}
    BY <1>5 DEF Discover, BeginDiscover, Probe, Read, Unprobe, EndDiscover
  <2>2. kind[c] = "discover"
    BY <1>5 DEF Discover, BeginDiscover, Probe, Read, Unprobe, EndDiscover, Moves, KindInv
  <2>3. \A b \in Call : b # c => dev'[b] = dev[b]
    BY <1>5 DEF Discover, BeginDiscover, Probe, Read, Unprobe, EndDiscover, TypeOK
  <2>. QED
    BY <1>2, <2>1, <2>2, <2>3 DEF Moves, TypeOK, Writing
<1>6. ASSUME NEW c \in Call, Write(c)
      PROVE  WrittenInv'
  <2>1. UNCHANGED dev
    BY <1>6 DEF Write, BeginWriting, MountTarget, Work, WorkFails, UnmountTarget
  <2>2. ASSUME NEW from, NEW to, Moves(c, from, to),
               to \in {"unmount", "answered"} => from = "unmount"
        PROVE  WrittenInv'
    BY <1>2, <2>1, <2>2 DEF Moves, TypeOK
  <2>3. CASE Work(c)
    <3>1. pc[c] = "work" /\ dev[c] \in Partition /\ UNCHANGED mounts
      BY <2>3 DEF Work, Moves, KindInv
    <3>2. <<c, dev[c]>> \notin crossed => dev[c] \in Top("target")
      BY <3>1 DEF HoldInv, Use, Directory
    <3>3. <<c, dev[c]>> \notin crossed => c \in had'[dev[c]]
      BY <2>3, <3>1, <3>2 DEF Work, Lands
    <3>4. UNCHANGED kind /\ \A b \in Call : b # c => pc'[b] = pc[b]
      BY <2>3 DEF Work, Moves, TypeOK
    <3>5. SUFFICES ASSUME NEW b \in Call, kind'[b] \in Writing, pc'[b] \in {"unmount", "answered"},
                          <<b, dev'[b]>> \notin crossed'
                   PROVE  b \in had'[dev'[b]]
      BY DEF WrittenInv
    <3>6. CASE b = c
      BY <2>1, <3>1, <3>3, <3>5, <3>6 DEF mounts
    <3>7. CASE b # c
      <4>1. b \in had[dev[b]] /\ dev[b] \in Partition
        BY <2>1, <3>1, <3>4, <3>5, <3>7 DEF WrittenInv, KindInv, mounts
      <4>. QED
        BY <1>1, <2>1, <4>1
    <3>. QED
      BY <3>6, <3>7
  <2>4. CASE BeginWriting(c) \/ MountTarget(c) \/ WorkFails(c) \/ UnmountTarget(c)
    BY <2>2, <2>4 DEF BeginWriting, MountTarget, WorkFails, UnmountTarget
  <2>. QED
    BY <1>6, <2>3, <2>4 DEF Write
<1>7. CASE Exit
  BY <1>2, <1>7 DEF Exit
<1>8. CASE Signal \/ SignalHandler \/ Start \/ UNCHANGED vars
  BY <1>2, <1>8 DEF Signal, SignalHandler, Start, vars, call
<1>. QED
  BY <1>3, <1>4, <1>5, <1>6, <1>7, <1>8 DEF Next

\* A discovery reports what the partition it names has carried.
LEMMA AttributedStep ==
    ASSUME TypeOK, KindInv, HoldInv, ContentsInv, Attributed, [Next]_vars
    PROVE  Attributed'
<1>1. \A p \in Partition : had[p] \subseteq had'[p]
  BY ContentsStep
<1>2. ASSUME NEW c \in Call, NEW x \in found[c], <<c, x[1]>> \notin crossed'
      PROVE  x[2] \in had'[x[1]]
  <2>1. x \in Partition \X (Partition \cup Call)
    BY DEF TypeOK
  <2>2. <<c, x[1]>> \notin crossed
    BY <1>2, CrossedGrows
  <2>. QED
    BY <1>1, <2>1, <2>2 DEF Attributed
<1>3. ASSUME UNCHANGED found
      PROVE  Attributed'
  BY <1>2, <1>3 DEF Attributed
<1>4. ASSUME NEW c \in Call, Read(c)
      PROVE  Attributed'
  <2>1. pc[c] = "read" /\ dev[c] \in Partition /\ UNCHANGED crossed
    BY <1>4 DEF Read, Moves, KindInv, mounts
  <2>2. <<c, dev[c]>> \notin crossed => Top("probe") = {dev[c]}
    BY <2>1 DEF HoldInv, Use, Directory
  <2> DEFINE new == {<<dev[c], contents[p]>> : p \in {q \in Top("probe") : contents[q] # None}}
  <2>3. \A x \in new : x[1] = dev[c] /\ \E p \in Top("probe") : x[2] = contents[p]
    OBVIOUS
  <2>4. found' = [found EXCEPT ![c] = @ \cup new]
    BY <1>4 DEF Read
  <2>. HIDE DEF new
  <2>5. contents[dev[c]] \in had'[dev[c]]
    BY <1>1, <2>1 DEF ContentsInv
  <2>6. SUFFICES ASSUME NEW b \in Call, NEW x \in found'[b], <<b, x[1]>> \notin crossed'
                 PROVE  x[2] \in had'[x[1]]
    BY DEF Attributed
  <2>7. x \in found[b] \/ (b = c /\ x \in new)
    BY <2>4 DEF TypeOK
  <2>8. CASE b = c /\ x \in new
    BY <2>1, <2>2, <2>3, <2>5, <2>6, <2>8
  <2>. QED
    BY <1>2, <2>6, <2>7, <2>8
<1>5. ASSUME NEW c \in Call, Discover(c)
      PROVE  UNCHANGED found \/ Read(c)
  BY <1>5 DEF Discover, BeginDiscover, Probe, Unprobe, EndDiscover
<1>6. UNCHANGED found \/ \E c \in Call : Read(c)
  BY <1>5 DEF Next, Arrive, RefuseUnidentified, Leave, Shutdown, Signal, SignalHandler, Exit, Start,
              vars, call, Write, BeginWriting, MountTarget, Work, WorkFails, UnmountTarget
<1>. QED
  BY <1>3, <1>4, <1>6

-----------------------------------------------------------------------------
(***************************************************************************)
(* Theorems.                                                               *)
(***************************************************************************)

\* Calls and process are consistent at the start.
LEMMA BaseInit ==
    ASSUME Init
    PROVE  BaseInv
<1>1. TypeOK
  BY InitType
<1>2. IsFiniteSet(Born)
  <2>1. Born = {}
    BY DEF Init, Born
  <2>. QED
    BY <2>1, FS_EmptySet
<1>3. KindInv /\ ContentsInv /\ NoCallerAbandoned
  BY DEF Init, KindInv, ContentsInv, NoCallerAbandoned, Writing
<1>. QED
  BY <1>1, <1>2, <1>3 DEF BaseInv

\* And every step keeps it.
LEMMA BaseStep ==
    ASSUME BaseInv, [Next]_vars
    PROVE  BaseInv'
<1>1. TypeOK' /\ IsFiniteSet(Born') /\ KindInv' /\ ContentsInv' /\ NoCallerAbandoned'
  BY TypeStep, BornStep, KindStep, ContentsStep, DeathStep DEF BaseInv
<1>. QED
  BY <1>1 DEF BaseInv

\* Control, contents and the end of the process are consistent in every state.
THEOREM BaseInvariant == Spec => []BaseInv
<1>1. Init => BaseInv
  BY BaseInit
<1>2. BaseInv /\ [Next]_vars => BaseInv'
  BY BaseStep
<1>. QED
  BY <1>1, <1>2, PTL DEF Spec

\* Every state is well typed, for any calls, partitions and restarts.
THEOREM TypeCorrect == Spec => []TypeOK
<1>1. BaseInv => TypeOK
  BY DEF BaseInv
<1>. QED
  BY <1>1, BaseInvariant, PTL

\* main never exits on a caller that still waits: what dies with the process is an
\* installation whose client has gone, however calls interleave.
THEOREM NoCallerAbandonedAlways == Spec => []NoCallerAbandoned
<1>1. BaseInv => NoCallerAbandoned
  BY DEF BaseInv
<1>. QED
  BY <1>1, BaseInvariant, PTL

\* There are no mounts at the start.
LEMMA MountInit ==
    ASSUME Init
    PROVE  MountInv
<1>1. DOMAIN table = {}
  BY DEF Init
<1>2. MountsOwned
  <2>1. \A at \in Directory : {i \in DOMAIN table : table[i].at = at} = {}
    BY <1>1
  <2>2. \A at \in Directory : {c \in Call : pc[c] \in Holding(at)} = {}
    BY DEF Init, Holding
  <2>3. \A at \in Directory : stays[at] = 0
    BY DEF Init
  <2>4. Cardinality({}) = 0
    BY FS_EmptySet
  <2>5. SUFFICES ASSUME NEW at \in Directory
                 PROVE  Cardinality({i \in DOMAIN table : table[i].at = at})
                           = Cardinality({c \in Call : pc[c] \in Holding(at)}) + stays[at]
    BY DEF MountsOwned
  <2>6. /\ Cardinality({i \in DOMAIN table : table[i].at = at}) = 0
        /\ Cardinality({c \in Call : pc[c] \in Holding(at)}) = 0
    BY <2>1, <2>2, <2>4
  <2>. QED
    BY <2>3, <2>6
<1>3. HoldInv
  BY DEF Init, HoldInv, Use
<1>4. HomeInv
  BY BackendAssumption DEF Init, HomeInv
<1>5. WrittenInv /\ Attributed
  BY DEF Init, WrittenInv, Attributed, Writing
<1>. QED
  BY <1>2, <1>3, <1>4, <1>5 DEF MountInv

\* Every step keeps the mounts accounted for, and what calls see and write through
\* them.
LEMMA MountStep ==
    ASSUME BaseInv, MountInv, [Next]_vars
    PROVE  MountInv'
<1>1. MountsOwned'
  BY OwnedStep DEF BaseInv, MountInv
<1>2. HoldInv'
  BY HoldStep DEF BaseInv, MountInv
<1>3. HomeInv' /\ WrittenInv' /\ Attributed'
  BY HomeStep, WrittenStep, AttributedStep DEF BaseInv, MountInv
<1>. QED
  BY <1>1, <1>2, <1>3 DEF MountInv

\* The inductive invariant: calls, process, mounts and what has been read and
\* written agree, whatever runs side by side.
THEOREM Invariant == Spec => []IInv
<1>1. Init => IInv
  BY BaseInit, MountInit DEF IInv
<1>2. IInv /\ [Next]_vars => IInv'
  BY BaseStep, MountStep DEF IInv
<1>. QED
  BY <1>1, <1>2, PTL DEF Spec

\* Whatever fails and however calls interleave, each mount at the two directories
\* belongs to a call at work, to an umount that failed, or to an installation that
\* died with the process.
THEOREM MountsOKAlways == Spec => []MountsOK
<1>1. IInv => MountsOK
  BY DEF IInv, BaseInv, MountInv, MountsOK
<1>. QED
  BY <1>1, Invariant, PTL

\* A discovery reports a model only under a partition that has carried it, whatever
\* is left mounted below, if nobody mounts or unmounts there while it reads.
THEOREM AttributedAlways == Spec => []Attributed
<1>1. IInv => Attributed
  BY DEF IInv, MountInv
<1>. QED
  BY <1>1, Invariant, PTL

\* A writing call that is answered has written to its own root and to nothing else,
\* if nobody mounts or unmounts there while it writes, and a call that is waited for
\* is answered.
THEOREM CallersServedAlways == Spec => []CallersServed
<1>1. IInv => CallersServed
  BY DEF IInv, BaseInv, MountInv, WrittenInv, HomeInv, CallersServed, SuccessIsOnDisk, WritesAtHome
<1>. QED
  BY <1>1, Invariant, PTL

=============================================================================
