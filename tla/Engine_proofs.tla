---------------------------- MODULE Engine_proofs ----------------------------
(***************************************************************************)
(* As long as no command fails unseen, the previous installer writes to    *)
(* the partitions it was told to and to no others, undoes its own mounts   *)
(* and no others, and installs what it says it has, on any machine, for    *)
(* any directories to bind and any number of runs.                         *)
(***************************************************************************)
EXTENDS Engine, SequenceTheorems, TLAPS

-----------------------------------------------------------------------------
(***************************************************************************)
(* The inductive invariant.                                                *)
(***************************************************************************)

\* The answers are partitions, and the root is no boot partition.
ChoiceInv ==
    choice # NoChoice =>
        /\ choice.esp \in Partition
        /\ choice.xbootldr \in Partition \cup {None}
        /\ choice.root \in Partition /\ KindOf[choice.root] = "regular"
        /\ choice.type \in FsType

\* Boot partitions keep their filesystems, and are alone in having them.
KindInv ==
    \A p \in Partition :
        /\ fs[p] = BootType <=> KindOf[p] # "regular"
        /\ probed[p] = BootType <=> KindOf[p] # "regular"

BaseInv == TypeOK /\ ChoiceInv /\ KindInv

Mounts(c) == PartitionMounts(c) \o BindMounts

Task ==
    {"format", "mount", "umount", "sync", "repo", "packages", "rootpw", "user", "userpw",
     "locale", "timezone", "machineid", "fstab"}

StepType == [do : Task, dev : Partition \cup {Tmpfs, None}, at : Paths]

\* s is what is left of all after n of it.
Left(s, all, n) ==
    /\ s \in Seq(StepType)
    /\ Len(s) = Len(all) - n
    /\ \A i \in 1..Len(s) : s[i] = all[n + i]

\* Table t is the table b with the first k mounts of the choice c on top.
Grown(t, b, c, k) ==
    /\ Len(t) = Len(b) + k
    /\ \A i \in 1..Len(b) : t[i] = b[i]
    /\ \A i \in 1..k : t[Len(b) + i] = [dev |-> Mounts(c)[i].dev, at |-> Mounts(c)[i].at]

\* The mounts that the first n steps have made, and that n cleanups have left.
Made(n) ==
    IF n = 0 THEN 0
    ELSE IF n <= Len(Mounts(choice)) + 1 THEN n - 1 ELSE Len(Mounts(choice))

Kept(n) == IF n = 0 THEN Len(Mounts(choice)) ELSE Len(Mounts(choice)) + 1 - n

\* What the j-th step after the mounts leaves on the root.
Product(j) == IF Setup[j].do = "packages" THEN "os" ELSE Setup[j].do

BootPartition == IF choice.xbootldr = None THEN choice.esp ELSE choice.xbootldr

\* What the first n steps have done to the disks, if mkfs could touch the root.
Achieved(n) ==
    /\ n >= 1 => fs[choice.root] = choice.type
    /\ \A j \in 1..Len(Setup) : n >= 1 + Len(Mounts(choice)) + j => Product(j) \in files[choice.root]
    /\ n >= 3 + Len(Mounts(choice)) => "boot" \in files[BootPartition]

\* n steps have been executed.
RunAt(n) ==
    /\ n \in 0..Len(StepsOf(choice))
    /\ Left(steps, StepsOf(choice), n)
    /\ silent = 0 => Grown(table, base, choice, Made(n)) /\ (RootFree => Achieved(n))

\* n cleanups have been executed.
CleanAt(n) ==
    /\ n \in 0..Len(CleanupsOf(choice))
    /\ Left(cleanups, CleanupsOf(choice), n)
    /\ silent = 0 => Grown(table, base, choice, Kept(n)) /\ (RootFree => Installed)

RunInv ==
    /\ phase \in {"running", "cleaning", "success"} => choice # NoChoice
    /\ phase = "asking" => table = base /\ silent = 0
    /\ phase = "running" => cleanups = CleanupsOf(choice) /\ \E n \in Nat : RunAt(n)
    /\ phase = "cleaning" => \E n \in Nat : CleanAt(n)
    /\ MountsUndone
    /\ SuccessInstalls

IInv == BaseInv /\ RunInv
-----------------------------------------------------------------------------
(***************************************************************************)
(* The lists of steps and cleanups.                                        *)
(***************************************************************************)

\* A choice of partitions.
Chosen(c) == c.esp \in Partition /\ c.root \in Partition /\ c.xbootldr \in Partition \cup {None}

\* Sequence r, of elements of T, is s with t behind it.
Joined(r, s, t, T) ==
    /\ r \in Seq(T) /\ Len(r) = Len(s) + Len(t)
    /\ \A i \in 1..Len(s) : r[i] = s[i]
    /\ \A i \in 1..Len(t) : r[Len(s) + i] = t[i]

\* One sequence after another.
LEMMA Concatenated ==
    ASSUME NEW T, NEW s \in Seq(T), NEW t \in Seq(T)
    PROVE  Joined(s \o t, s, t, T)
<1>1. /\ s \o t \in Seq(T) /\ Len(s \o t) = Len(s) + Len(t)
      /\ \A i \in 1..(Len(s) + Len(t)) : (s \o t)[i] = IF i <= Len(s) THEN s[i] ELSE t[i - Len(s)]
  BY ConcatProperties
<1>2. Len(s) \in Nat /\ Len(t) \in Nat
  OBVIOUS
<1> DEFINE u == s \o t
           m == Len(s)
           n == Len(t)
<1>3. \A i \in 1..(m + n) : u[i] = IF i <= m THEN s[i] ELSE t[i - m]
  BY <1>1
<1>4. m \in Nat /\ n \in Nat
  BY <1>2
<1> HIDE DEF u, m, n
<1>5. \A i \in 1..m : u[i] = s[i]
  BY <1>3, <1>4
<1>6. ASSUME NEW i \in 1..n PROVE u[m + i] = t[i]
  <2>1. PICK k \in 1..(m + n) : k = m + i /\ ~ (k <= m) /\ k - m = i
    BY <1>4
  <2>2. u[k] = t[i]
    BY <1>3, <2>1
  <2> QED
    BY <2>1, <2>2
<1> QED
  BY <1>1, <1>5, <1>6 DEF u, m, n, Joined

LEMMA MountTyped ==
    ASSUME NEW dev \in Partition \cup {Tmpfs}, NEW at \in Paths
    PROVE  Mount(dev, at) \in StepType
  BY DEF Mount, StepType, Task

LEMMA BindsAre ==
    /\ BindMounts \in Seq(StepType) /\ Len(BindMounts) = Len(Binds)
    /\ \A i \in 1..Len(Binds) :
          /\ BindMounts[i] = Mount(Tmpfs, Binds[i])
          /\ ~ Covers(Binds[i], Root) /\ ~ Covers(Binds[i], "/efi") /\ ~ Covers(Binds[i], "/boot")
<1>1. Binds \in Seq(STRING) /\ DOMAIN Binds = 1..Len(Binds) /\ Len(Binds) \in Nat
  BY EngineAssumption
<1>2. \A i \in 1..Len(Binds) : Binds[i] \in Paths
  BY <1>1 DEF Paths
<1>3. \A i \in 1..Len(Binds) : Mount(Tmpfs, Binds[i]) \in StepType
  BY <1>2, MountTyped
<1>4. BindMounts = [i \in 1..Len(Binds) |-> Mount(Tmpfs, Binds[i])]
  BY <1>1 DEF BindMounts
<1>5. BindMounts \in Seq(StepType) /\ Len(BindMounts) = Len(Binds)
  BY <1>1, <1>3, <1>4
<1>6. \A i \in 1..Len(Binds) :
         ~ Covers(Binds[i], Root) /\ ~ Covers(Binds[i], "/efi") /\ ~ Covers(Binds[i], "/boot")
  BY <1>1, <1>2, EngineAssumption
<1> QED
  BY <1>4, <1>5, <1>6

LEMMA PartitionsAre ==
    ASSUME NEW c, Chosen(c)
    PROVE  /\ PartitionMounts(c) \in Seq(StepType)
           /\ Len(PartitionMounts(c)) = IF c.xbootldr = None THEN 2 ELSE 3
           /\ PartitionMounts(c)[1] = Mount(c.root, Root)
           /\ PartitionMounts(c)[2] = Mount(c.esp, "/efi")
           /\ c.xbootldr # None => PartitionMounts(c)[3] = Mount(c.xbootldr, "/boot")
<1> DEFINE p == Mount(c.root, Root)
           q == Mount(c.esp, "/efi")
           r == Mount(c.xbootldr, "/boot")
<1>1. Root \in Paths /\ "/efi" \in Paths /\ "/boot" \in Paths
  BY DEF Paths
<1>2. p \in StepType /\ q \in StepType /\ (c.xbootldr # None => r \in StepType)
  BY <1>1, MountTyped DEF Chosen
<1>3. PartitionMounts(c) = <<p, q>> \o (IF c.xbootldr = None THEN <<>> ELSE <<r>>)
  BY DEF PartitionMounts
<1> HIDE DEF p, q, r
<1>4. CASE c.xbootldr = None
  BY <1>2, <1>3, <1>4 DEF p, q
<1>5. CASE c.xbootldr # None
  BY <1>2, <1>3, <1>5 DEF p, q, r
<1> QED
  BY <1>4, <1>5

\* The mounts of a choice: the root first, the ESP next and the XBOOTLDR third, if
\* there is one; no later one hides them.
LEMMA MountsAre ==
    ASSUME NEW c, Chosen(c)
    PROVE  /\ Mounts(c) \in Seq(StepType) /\ Len(Mounts(c)) \in Nat
           /\ Len(Mounts(c)) >= IF c.xbootldr = None THEN 2 ELSE 3
           /\ Mounts(c)[1] = Mount(c.root, Root)
           /\ Mounts(c)[2] = Mount(c.esp, "/efi")
           /\ c.xbootldr # None => Mounts(c)[3] = Mount(c.xbootldr, "/boot")
           /\ \A i \in 1..Len(Mounts(c)) :
                 \/ i = 1 \/ i = 2 \/ (i = 3 /\ c.xbootldr # None)
                 \/ \E j \in 1..Len(Binds) : Mounts(c)[i] = Mount(Tmpfs, Binds[j])
<1> DEFINE a == PartitionMounts(c)
           b == BindMounts
<1>1. /\ a \in Seq(StepType) /\ b \in Seq(StepType) /\ Len(b) = Len(Binds)
      /\ Len(a) = IF c.xbootldr = None THEN 2 ELSE 3
  BY PartitionsAre, BindsAre
<1>2. Mounts(c) = a \o b
  BY DEF Mounts
<1>3. a[1] = Mount(c.root, Root) /\ a[2] = Mount(c.esp, "/efi")
      /\ (c.xbootldr # None => a[3] = Mount(c.xbootldr, "/boot"))
  BY PartitionsAre
<1> HIDE DEF a, b
<1>4. a \in Seq(StepType) /\ b \in Seq(StepType) /\ Len(b) \in Nat
  BY <1>1
<1>5. /\ a \o b \in Seq(StepType) /\ Len(a \o b) = Len(a) + Len(b)
      /\ \A i \in 1..Len(a) : (a \o b)[i] = a[i]
      /\ \A i \in 1..Len(b) : (a \o b)[Len(a) + i] = b[i]
  <2>1. Joined(a \o b, a, b, StepType)
    BY <1>4, Concatenated
  <2> QED
    BY <2>1 DEF Joined
<1>6. \A i \in 1..Len(a \o b) : i \in 1..Len(a) \/ \E j \in 1..Len(b) : i = Len(a) + j
  <2> SUFFICES ASSUME NEW i \in 1..Len(a \o b), i \notin 1..Len(a)
               PROVE  \E j \in 1..Len(b) : i = Len(a) + j
    OBVIOUS
  <2>1. i - Len(a) \in 1..Len(b) /\ i = Len(a) + (i - Len(a))
    BY <1>1, <1>4, <1>5
  <2> QED
    BY <2>1
<1>7. \A i \in 1..Len(a) : i = 1 \/ i = 2 \/ (i = 3 /\ c.xbootldr # None)
  BY <1>1
<1>8. \A j \in 1..Len(b) : (a \o b)[Len(a) + j] = Mount(Tmpfs, Binds[j])
  BY <1>1, <1>5, BindsAre DEF b
<1>9. /\ Len(a \o b) \in Nat /\ Len(a \o b) >= IF c.xbootldr = None THEN 2 ELSE 3
      /\ 1 \in 1..Len(a) /\ 2 \in 1..Len(a) /\ (c.xbootldr # None => 3 \in 1..Len(a))
  BY <1>1, <1>4, <1>5
<1>10. \A i \in 1..Len(a \o b) :
         \/ i = 1 \/ i = 2 \/ (i = 3 /\ c.xbootldr # None)
         \/ \E j \in 1..Len(Binds) : (a \o b)[i] = Mount(Tmpfs, Binds[j])
  BY <1>1, <1>6, <1>7, <1>8
<1> QED
  BY <1>2, <1>3, <1>5, <1>9, <1>10

LEMMA SetupIs ==
    /\ Setup \in Seq(StepType) /\ Len(Setup) = 9
    /\ Setup[1] = Do("repo") /\ Setup[2] = Do("packages") /\ Setup[3] = Do("rootpw")
    /\ Setup[4] = Do("user") /\ Setup[5] = Do("userpw") /\ Setup[6] = Do("locale")
    /\ Setup[7] = Do("timezone") /\ Setup[8] = Do("machineid") /\ Setup[9] = Do("fstab")
<1>1. Root \in Paths
  BY DEF Paths
<1>2. \A what \in Task : Do(what) \in StepType
  BY <1>1 DEF Do, StepType
<1>3. {"repo", "packages", "rootpw", "user", "userpw", "locale", "timezone", "machineid", "fstab"} \subseteq Task
  BY DEF Task
<1> QED
  BY <1>2, <1>3 DEF Setup

\* The steps of a choice: format, the mounts, the setup.
LEMMA StepsAre ==
    ASSUME NEW c, Chosen(c)
    PROVE  /\ StepsOf(c) \in Seq(StepType) /\ Len(StepsOf(c)) = 10 + Len(Mounts(c))
           /\ StepsOf(c)[1] = [do |-> "format", dev |-> c.root, at |-> Root]
           /\ \A i \in 1..Len(Mounts(c)) : StepsOf(c)[1 + i] = Mounts(c)[i]
           /\ \A j \in 1..9 : StepsOf(c)[1 + Len(Mounts(c)) + j] = Setup[j]
<1> DEFINE f == FormatSteps(c)
           p == PartitionMounts(c)
           b == BindMounts
           m == Mounts(c)
           e == [do |-> "format", dev |-> c.root, at |-> Root]
<1>1. f \in Seq(StepType) /\ Len(f) = 1 /\ f[1] = e
  <2>1. e \in StepType
    BY DEF Chosen, StepType, Paths, Task
  <2> HIDE DEF e
  <2> QED
    BY <2>1 DEF FormatSteps, e
<1>2. p \in Seq(StepType) /\ b \in Seq(StepType) /\ Setup \in Seq(StepType) /\ Len(Setup) = 9
  BY PartitionsAre, BindsAre, SetupIs
<1>3. StepsOf(c) = f \o p \o b \o Setup /\ m = p \o b
  BY DEF StepsOf, Mounts
<1>4. m \in Seq(StepType) /\ Len(m) \in Nat
  BY MountsAre
<1> HIDE DEF f, p, b, m, e
<1>5. StepsOf(c) = f \o m \o Setup
  <2>1. f \in Seq(StepType) /\ p \in Seq(StepType) /\ b \in Seq(StepType)
    BY <1>1, <1>2
  <2>2. (f \o p) \o b = f \o (p \o b)
    BY <2>1, ConcatAssociative, SMTT(30)
  <2> QED
    BY <1>3, <2>2
<1>6. /\ f \o m \in Seq(StepType) /\ Len(f \o m) = 1 + Len(m)
      /\ (f \o m)[1] = e
      /\ \A i \in 1..Len(m) : (f \o m)[1 + i] = m[i]
  <2>1. /\ f \o m \in Seq(StepType) /\ Len(f \o m) = Len(f) + Len(m)
        /\ \A i \in 1..Len(f) : (f \o m)[i] = f[i]
        /\ \A i \in 1..Len(m) : (f \o m)[Len(f) + i] = m[i]
    <3>1. f \in Seq(StepType) /\ m \in Seq(StepType)
      BY <1>1, <1>4
    <3>2. Joined(f \o m, f, m, StepType)
      BY <3>1, Concatenated
    <3> QED
      BY <3>2 DEF Joined
  <2> QED
    BY <1>1, <2>1
<1> DEFINE g == f \o m
<1>7. g \in Seq(StepType) /\ Len(g) = 1 + Len(m) /\ g[1] = e /\ \A i \in 1..Len(m) : g[1 + i] = m[i]
  BY <1>6
<1>8. StepsOf(c) = g \o Setup
  BY <1>5
<1> HIDE DEF g
<1>9. g \in Seq(StepType) /\ Setup \in Seq(StepType)
  BY <1>2, <1>7
<1>10. /\ g \o Setup \in Seq(StepType) /\ Len(g \o Setup) = Len(g) + Len(Setup)
       /\ \A i \in 1..Len(g) : (g \o Setup)[i] = g[i]
       /\ \A i \in 1..Len(Setup) : (g \o Setup)[Len(g) + i] = Setup[i]
  <2>1. Joined(g \o Setup, g, Setup, StepType)
    BY <1>9, Concatenated
  <2> QED
    BY <2>1 DEF Joined
<1>11. Len(g \o Setup) = 10 + Len(m) /\ 1 \in 1..Len(g) /\ \A i \in 1..Len(m) : 1 + i \in 1..Len(g)
  <2>1. Len(g \o Setup) = Len(g) + Len(Setup) /\ Len(g) = 1 + Len(m)
    BY <1>7, <1>10
  <2>2. Len(Setup) = 9
    BY <1>2
  <2>3. Len(m) \in Nat
    BY <1>4
  <2> QED
    BY <2>1, <2>2, <2>3
<1>12. \A j \in 1..9 : (g \o Setup)[1 + Len(m) + j] = Setup[j]
  BY <1>2, <1>7, <1>10
<1>13. (g \o Setup)[1] = e /\ \A i \in 1..Len(m) : (g \o Setup)[1 + i] = m[i]
  BY <1>7, <1>10, <1>11
<1> QED
  BY <1>8, <1>10, <1>11, <1>12, <1>13 DEF m, e

\* The cleanups of a choice: a sync, and the mounts in the opposite order.
LEMMA CleanupsAre ==
    ASSUME NEW c, Chosen(c)
    PROVE  /\ CleanupsOf(c) \in Seq(StepType) /\ Len(CleanupsOf(c)) = 1 + Len(Mounts(c))
           /\ CleanupsOf(c)[1] = Do("sync")
           /\ \A k \in 1..Len(Mounts(c)) :
                 CleanupsOf(c)[1 + k] =
                    [do |-> "umount", dev |-> None, at |-> Mounts(c)[Len(Mounts(c)) + 1 - k].at]
<1> DEFINE m == Mounts(c)
           n == Len(m)
           u == Unmounts(c)
           v == Append(u, Do("sync"))
<1>1. m \in Seq(StepType) /\ n \in Nat /\ DOMAIN m = 1..n
  BY MountsAre
<1>2. u = [i \in 1..n |-> [do |-> "umount", dev |-> None, at |-> m[i].at]]
  BY <1>1 DEF Unmounts, Mounts
<1> HIDE DEF m
<1>3. \A i \in 1..n : m[i].at \in Paths
  <2>1. \A i \in 1..n : m[i] \in StepType
    BY <1>1, ElementOfSeq
  <2> QED
    BY <2>1 DEF StepType
<1> HIDE DEF n
<1>4. u \in Seq(StepType) /\ Len(u) = n
  BY <1>1, <1>2, <1>3 DEF StepType, Task
<1>5. Do("sync") \in StepType
  BY DEF Do, StepType, Task, Paths
<1> DEFINE w == Do("sync")
<1> HIDE DEF u, w
<1>6. /\ Append(u, w) \in Seq(StepType) /\ Len(Append(u, w)) = n + 1
      /\ \A i \in 1..n : Append(u, w)[i] = u[i]
      /\ Append(u, w)[n + 1] = w
  BY <1>1, <1>4, <1>5 DEF w
<1>7. v \in Seq(StepType) /\ Len(v) = n + 1 /\ (\A i \in 1..n : v[i] = u[i]) /\ v[n + 1] = w
  BY <1>6 DEF w
<1>8. CleanupsOf(c) = Reverse(v)
  BY DEF CleanupsOf, u
<1> HIDE DEF v
<1> DEFINE l == Len(v)
<1>9. Reverse(v) = [i \in 1..l |-> v[(l - i) + 1]]
  BY DEF Reverse
<1>10. l = n + 1
  BY <1>7
<1> HIDE DEF l
<1>11. \A i \in 1..l : (l - i) + 1 \in 1..l
  BY <1>1, <1>10
<1>12. Reverse(v) \in Seq(StepType) /\ Len(Reverse(v)) = n + 1
  <2>1. \A i \in 1..l : v[i] \in StepType
    BY <1>1, <1>7, <1>10
  <2>2. l \in Nat
    BY <1>1, <1>10
  <2>3. \A i \in 1..l : v[(l - i) + 1] \in StepType
    BY <1>11, <2>1
  <2>4. [i \in 1..l |-> v[(l - i) + 1]] \in [1..l -> StepType]
    BY <2>3
  <2>5. Reverse(v) \in [1..l -> StepType]
    BY <1>9, <2>4
  <2>6. Reverse(v) \in Seq(StepType) /\ Len(Reverse(v)) = l
    BY <2>2, <2>5
  <2> QED
    BY <1>10, <2>6
<1>13. Reverse(v)[1] = w
  <2>1. 1 \in 1..l /\ (l - 1) + 1 = n + 1
    BY <1>1, <1>10
  <2> QED
    BY <1>7, <1>9, <2>1
<1>14. ASSUME NEW k \in 1..n
       PROVE  Reverse(v)[1 + k] = [do |-> "umount", dev |-> None, at |-> m[n + 1 - k].at]
  <2>1. PICK i \in 1..l : i = 1 + k
    BY <1>1, <1>10
  <2>2. PICK j \in 1..n : j = n + 1 - k
    BY <1>1
  <2>3. (l - i) + 1 = j
    BY <1>1, <1>10, <2>1, <2>2
  <2>4. Reverse(v)[i] = v[j]
    BY <1>9, <2>3
  <2>5. v[j] = u[j]
    BY <1>7
  <2>6. u[j] = [do |-> "umount", dev |-> None, at |-> m[j].at]
    BY <1>2
  <2> QED
    BY <2>1, <2>2, <2>4, <2>5, <2>6
<1> QED
  BY <1>1, <1>8, <1>12, <1>13, <1>14 DEF m, n, w

\* What is left of a list when its head is taken.
LEMMA TakeHead ==
    ASSUME NEW all, NEW s, NEW n \in Nat, Left(s, all, n), Len(all) \in Nat, s # <<>>
    PROVE  /\ n + 1 \in 1..Len(all) /\ Head(s) = all[n + 1] /\ Left(Tail(s), all, n + 1)
<1> DEFINE l == Len(s)
           t == Tail(s)
<1>1. s \in Seq(StepType) /\ l = Len(all) - n /\ \A i \in 1..l : s[i] = all[n + i]
  BY DEF Left
<1>2. l \in Nat /\ l >= 1 /\ Head(s) = s[1]
  BY <1>1
<1>3. t \in Seq(StepType) /\ Len(t) = l - 1 /\ \A i \in 1..(l - 1) : t[i] = s[i + 1]
  BY <1>1, <1>2, HeadTailProperties
<1> HIDE DEF l, t
<1>4. n + 1 \in 1..Len(all)
  BY <1>1, <1>2
<1>5. Head(s) = all[n + 1]
  BY <1>1, <1>2
<1>6. Len(t) = Len(all) - (n + 1)
  BY <1>1, <1>3
<1>7. ASSUME NEW i \in 1..Len(t) PROVE t[i] = all[n + 1 + i]
  <2>1. PICK j \in 1..l : j = i + 1
    BY <1>2, <1>3
  <2>2. t[i] = s[j]
    BY <1>2, <1>3, <2>1
  <2>3. n + j = n + 1 + i
    BY <2>1
  <2>4. s[j] = all[n + j]
    BY <1>1
  <2> QED
    BY <2>2, <2>3, <2>4
<1> QED
  BY <1>3, <1>4, <1>5, <1>6, <1>7 DEF Left, t

-----------------------------------------------------------------------------
(***************************************************************************)
(* The mounts.                                                             *)
(***************************************************************************)

\* With none of the mounts on top, a table is what was there before.
LEMMA GrownByNone ==
    ASSUME NEW T, NEW t \in Seq(T), NEW b \in Seq(T), NEW c, Grown(t, b, c, 0)
    PROVE  t = b
<1>1. Len(t) = Len(b) + 0 /\ \A i \in 1..Len(b) : t[i] = b[i]
  BY DEF Grown
<1>2. Len(t) = Len(b) /\ \A i \in 1..Len(t) : t[i] = b[i]
  BY <1>1
<1> QED
  BY <1>2, SeqEqual

\* One more mount of the choice on top.
LEMMA AttachGrows ==
    ASSUME NEW T, NEW t \in Seq(T), NEW b \in Seq(T), NEW c, NEW k \in Nat,
           NEW e \in T, Grown(t, b, c, k),
           e = [dev |-> Mounts(c)[k + 1].dev, at |-> Mounts(c)[k + 1].at]
    PROVE  Grown(Attach(t, e), b, c, k + 1)
<1> DEFINE l == Len(b)
           a == Attach(t, e)
           mount(i) == [dev |-> Mounts(c)[i].dev, at |-> Mounts(c)[i].at]
<1>1. l \in Nat /\ Len(t) = l + k
  BY DEF Grown
<1>2. /\ Len(a) = l + k + 1 /\ a[l + k + 1] = e
      /\ \A i \in 1..(l + k) : a[i] = t[i]
  BY <1>1 DEF Attach
<1>3. /\ \A i \in 1..l : t[i] = b[i]
      /\ \A i \in 1..k : t[l + i] = mount(i)
  BY DEF Grown
<1>4. e = mount(k + 1)
  OBVIOUS
<1> HIDE DEF l, a, mount
<1>5. \A i \in 1..l : a[i] = b[i]
  BY <1>1, <1>2, <1>3
<1>6. ASSUME NEW i \in 1..(k + 1) PROVE a[l + i] = mount(i)
  <2>1. CASE i = k + 1
    <3>1. l + i = l + k + 1
      BY <1>1, <2>1
    <3> QED
      BY <1>2, <1>4, <2>1, <3>1
  <2>2. CASE i \in 1..k
    <3>1. PICK j \in 1..(l + k) : j = l + i
      BY <1>1, <2>2
    <3> QED
      BY <1>2, <1>3, <2>2, <3>1
  <2> QED
    BY <2>1, <2>2
<1>7. Len(a) = l + (k + 1)
  BY <1>1, <1>2
<1> QED
  BY <1>5, <1>6, <1>7 DEF Grown, l, a, mount

\* What is left of a table when entry i is taken out.
LEMMA DetachLeaves ==
    ASSUME NEW T, NEW t \in Seq(T), NEW i \in 1..Len(t)
    PROVE  /\ Detach(t, i) \in Seq(T) /\ Len(Detach(t, i)) = Len(t) - 1
           /\ \A j \in 1..(i - 1) : Detach(t, i)[j] = t[j]
<1> DEFINE a == SubSeq(t, 1, i - 1)
           b == SubSeq(t, i + 1, Len(t))
           n == Len(t)
<1>1. n \in Nat /\ i \in 1..n /\ \A k \in 1..n : t[k] \in T
  BY ElementOfSeq
<1>2. a \in Seq(T) /\ Len(a) = i - 1 /\ \A k \in 1..(i - 1) : a[k] = t[k]
  <2>1. 1 \in Nat /\ i - 1 \in Nat /\ \A k \in 1..(i - 1) : t[k] \in T
    BY <1>1
  <2>2. /\ a \in Seq(T)
        /\ Len(a) = IF 1 <= i - 1 THEN i - 1 - 1 + 1 ELSE 0
        /\ \A k \in 1..(i - 1 - 1 + 1) : a[k] = t[1 + k - 1]
    BY <2>1, SubSeqProperties
  <2> HIDE DEF a, n
  <2> QED
    BY <1>1, <2>1, <2>2
<1>3. b \in Seq(T) /\ Len(b) = n - i
  <2>1. i + 1 \in Int /\ n \in Int /\ \A k \in (i + 1)..n : t[k] \in T
    BY <1>1
  <2>2. b \in Seq(T) /\ Len(b) = IF i + 1 <= n THEN n - (i + 1) + 1 ELSE 0
    BY <2>1, SubSeqProperties
  <2> HIDE DEF b, n
  <2> QED
    BY <1>1, <2>2
<1>4. Detach(t, i) = a \o b
  BY DEF Detach, RemoveAt
<1> HIDE DEF a, b, n
<1>5. a \in Seq(T) /\ b \in Seq(T)
  BY <1>2, <1>3
<1>6. /\ a \o b \in Seq(T) /\ Len(a \o b) = Len(a) + Len(b)
      /\ \A k \in 1..Len(a) : (a \o b)[k] = a[k]
  <2>1. Joined(a \o b, a, b, T)
    BY <1>5, Concatenated
  <2> QED
    BY <2>1 DEF Joined
<1>7. Len(a) + Len(b) = n - 1
  BY <1>1, <1>2, <1>3
<1> QED
  BY <1>2, <1>4, <1>6, <1>7 DEF n

\* The last mount of the choice is the one that umount finds, and leaves the others.
LEMMA DetachTop ==
    ASSUME NEW T, NEW t \in Seq(T), NEW b \in Seq(T), NEW c, NEW k \in Nat, k >= 1,
           Grown(t, b, c, k)
    PROVE  /\ Len(t) \in 1..Len(t) /\ Detaches(t, Len(t), Mounts(c)[k].at)
           /\ \A i \in 1..Len(t) : Detaches(t, i, Mounts(c)[k].at) => i = Len(t)
           /\ Grown(Detach(t, Len(t)), b, c, k - 1)
<1> DEFINE n == Len(t)
           l == Len(b)
           path == Mounts(c)[k].at
           mount(i) == [dev |-> Mounts(c)[i].dev, at |-> Mounts(c)[i].at]
           d == Detach(t, n)
<1>1. n \in Nat /\ l \in Nat /\ n = l + k /\ DOMAIN t = 1..n /\ n \in 1..n
  BY DEF Grown
<1>2. /\ \A i \in 1..l : t[i] = b[i]
      /\ \A i \in 1..k : t[l + i] = mount(i)
  BY DEF Grown
<1>3. t[n].at = path
  <2>1. k \in 1..k /\ mount(k).at = path
    OBVIOUS
  <2> HIDE DEF mount, path, n, l
  <2> QED
    BY <1>1, <1>2, <2>1
<1>4. d \in Seq(T) /\ Len(d) = n - 1 /\ \A j \in 1..(n - 1) : d[j] = t[j]
  BY <1>1, DetachLeaves
<1> HIDE DEF n, l, path, mount, d
<1>5. Detaches(t, n, path)
  BY <1>1, <1>3 DEF Detaches
<1>6. ASSUME NEW i \in 1..n, Detaches(t, i, path) PROVE i = n
  <2>1. n \in DOMAIN t /\ (n > i => ~ Covers(t[n].at, path))
    BY <1>1, <1>6 DEF Detaches
  <2>2. Covers(t[n].at, path)
    BY <1>3 DEF Covers
  <2> QED
    BY <1>1, <2>1, <2>2
<1>7. Len(d) = l + (k - 1)
  BY <1>1, <1>4
<1>8. \A i \in 1..l : d[i] = b[i]
  BY <1>1, <1>2, <1>4
<1>9. ASSUME NEW i \in 1..(k - 1) PROVE d[l + i] = mount(i)
  <2>1. PICK j \in 1..(n - 1) : j = l + i
    BY <1>1
  <2>2. i \in 1..k
    OBVIOUS
  <2> QED
    BY <1>2, <1>4, <2>1, <2>2
<1>10. Grown(d, b, c, k - 1)
  BY <1>7, <1>8, <1>9 DEF Grown, l, mount
<1> QED
  BY <1>1, <1>5, <1>6, <1>10 DEF n, path, d

\* The device a lookup ends in is the one of the mount that serves the path.
LEMMA AtServed ==
    ASSUME NEW T, table \in Seq(T), NEW path, NEW i \in DOMAIN table, Serves(table, i, path)
    PROVE  At(path) = table[i].dev
<1>1. DOMAIN table \subseteq Int
  OBVIOUS
<1>2. {k \in DOMAIN table : Serves(table, k, path)} = {i}
  BY <1>1 DEF Serves
<1> DEFINE served == {k \in DOMAIN table : Serves(table, k, path)}
<1>3. served = {i} /\ served # {} /\ (CHOOSE k \in served : TRUE) = i
  BY <1>2
<1>4. At(path) = IF served = {} THEN Tmpfs ELSE table[CHOOSE k \in served : TRUE].dev
  BY DEF At
<1> HIDE DEF served
<1> QED
  BY <1>3, <1>4

\* It is that of some mount, or the tmpfs.
LEMMA AtSome ==
    ASSUME NEW D, \A i \in DOMAIN table : table[i].dev \in D, NEW path
    PROVE  At(path) \in D \cup {Tmpfs}
<1> DEFINE served == {k \in DOMAIN table : Serves(table, k, path)}
<1>1. At(path) = IF served = {} THEN Tmpfs ELSE table[CHOOSE k \in served : TRUE].dev
  BY DEF At
<1>2. served # {} => (CHOOSE k \in served : TRUE) \in served
  OBVIOUS
<1>3. served \subseteq DOMAIN table
  OBVIOUS
<1> HIDE DEF served
<1> QED
  BY <1>1, <1>2, <1>3

\* The target as the finished mounts show it, on top of whatever there was.
LEMMA TargetShown ==
    ASSUME NEW T, table \in Seq(T), NEW b \in Seq(T), NEW c, Chosen(c),
           Grown(table, b, c, Len(Mounts(c)))
    PROVE  /\ At(Root) = c.root /\ At("/efi") = c.esp
           /\ c.xbootldr # None => At("/boot") = c.xbootldr
<1> DEFINE m == Mounts(c)
           n == Len(m)
<1>1. /\ n \in Nat /\ n >= IF c.xbootldr = None THEN 2 ELSE 3
      /\ m[1] = Mount(c.root, Root) /\ m[2] = Mount(c.esp, "/efi")
      /\ c.xbootldr # None => m[3] = Mount(c.xbootldr, "/boot")
      /\ \A i \in 1..n : \/ i = 1 \/ i = 2 \/ (i = 3 /\ c.xbootldr # None)
                         \/ \E j \in 1..Len(Binds) : m[i] = Mount(Tmpfs, Binds[j])
  BY MountsAre
<1> DEFINE l == Len(b)
<1>2. /\ l \in Nat /\ DOMAIN table = 1..(l + n)
      /\ \A i \in 1..n : table[l + i] = [dev |-> m[i].dev, at |-> m[i].at]
  <2>1. /\ Len(table) = l + n /\ l \in Nat /\ DOMAIN table = 1..Len(table)
        /\ \A i \in 1..n : table[l + i] = [dev |-> m[i].dev, at |-> m[i].at]
    BY DEF Grown
  <2> HIDE DEF m, n, l
  <2> QED
    BY <2>1
<1> HIDE DEF m, n, l
<1>3. \A i \in 1..n : table[l + i].dev = m[i].dev /\ table[l + i].at = m[i].at
  <2> SUFFICES ASSUME NEW i \in 1..n PROVE table[l + i].dev = m[i].dev /\ table[l + i].at = m[i].at
    OBVIOUS
  <2>1. table[l + i] = [dev |-> m[i].dev, at |-> m[i].at]
    BY <1>2
  <2>2. PICK e : e = table[l + i]
    OBVIOUS
  <2> QED
    BY <2>1, <2>2
<1>4. \A j \in 1..Len(Binds) : /\ Mount(Tmpfs, Binds[j]).at = Binds[j]
                               /\ ~ Covers(Binds[j], Root) /\ ~ Covers(Binds[j], "/efi")
                               /\ ~ Covers(Binds[j], "/boot")
  BY BindsAre DEF Mount
<1>5. \A i \in 1..n : \/ i = 1 \/ i = 2 \/ (i = 3 /\ c.xbootldr # None)
                      \/ /\ ~ Covers(table[l + i].at, Root) /\ ~ Covers(table[l + i].at, "/efi")
                         /\ ~ Covers(table[l + i].at, "/boot")
  <2> SUFFICES ASSUME NEW i \in 1..n, ~ (i = 1 \/ i = 2 \/ (i = 3 /\ c.xbootldr # None))
               PROVE  /\ ~ Covers(table[l + i].at, Root) /\ ~ Covers(table[l + i].at, "/efi")
                      /\ ~ Covers(table[l + i].at, "/boot")
    OBVIOUS
  <2>1. PICK j \in 1..Len(Binds) : m[i] = Mount(Tmpfs, Binds[j])
    BY <1>1
  <2>2. table[l + i].at = Binds[j]
    BY <1>3, <1>4, <2>1
  <2> QED
    BY <1>4, <2>2
<1>6. /\ ~ Covers("/efi", Root) /\ ~ Covers("/boot", Root) /\ ~ Covers("/boot", "/efi")
      /\ \A p : Covers(p, p)
  BY EngineAssumption DEF Paths, Root, Covers
<1>7. /\ 1 \in 1..n /\ 2 \in 1..n /\ (c.xbootldr # None => 3 \in 1..n)
      /\ table[l + 1].at = Root /\ table[l + 1].dev = c.root
      /\ table[l + 2].at = "/efi" /\ table[l + 2].dev = c.esp
      /\ c.xbootldr # None => table[l + 3].at = "/boot" /\ table[l + 3].dev = c.xbootldr
  BY <1>1, <1>3 DEF Mount
\* A mount after the k-th of this run is one of this run, too.
<1>8. ASSUME NEW k \in 1..n, NEW j \in DOMAIN table, j > l + k
      PROVE  \E i \in 1..n : i > k /\ j = l + i
  <2>1. j - l \in 1..n /\ j - l > k /\ j = l + (j - l)
    BY <1>1, <1>2, <1>8
  <2> QED
    BY <2>1
<1>9. \A k \in 1..n : l + k \in DOMAIN table
  BY <1>1, <1>2
<1>10. Serves(table, l + 1, Root)
  <2>1. ASSUME NEW j \in DOMAIN table, j > l + 1 PROVE ~ Covers(table[j].at, Root)
    <3>1. PICK i \in 1..n : i > 1 /\ j = l + i
      BY <1>7, <1>8, <2>1
    <3> QED
      BY <1>5, <1>6, <1>7, <3>1
  <2> QED
    BY <1>6, <1>7, <2>1 DEF Serves
<1>11. Serves(table, l + 2, "/efi")
  <2>1. ASSUME NEW j \in DOMAIN table, j > l + 2 PROVE ~ Covers(table[j].at, "/efi")
    <3>1. PICK i \in 1..n : i > 2 /\ j = l + i
      BY <1>7, <1>8, <2>1
    <3> QED
      BY <1>5, <1>6, <1>7, <3>1
  <2> QED
    BY <1>6, <1>7, <2>1 DEF Serves
<1>12. ASSUME c.xbootldr # None PROVE Serves(table, l + 3, "/boot")
  <2>1. ASSUME NEW j \in DOMAIN table, j > l + 3 PROVE ~ Covers(table[j].at, "/boot")
    <3>1. PICK i \in 1..n : i > 3 /\ j = l + i
      BY <1>7, <1>8, <1>12, <2>1
    <3> QED
      BY <1>5, <3>1
  <2> QED
    BY <1>6, <1>7, <1>12, <2>1 DEF Serves
<1> QED
  BY <1>7, <1>9, <1>10, <1>11, <1>12, AtServed

-----------------------------------------------------------------------------
(***************************************************************************)
(* What a step finds.                                                      *)
(***************************************************************************)

\* The mounts there can be.
Entry == [dev : Partition \cup {Tmpfs}, at : Paths]

\* The answers are a choice of partitions, each of its kind.
LEMMA ChoiceChosen ==
    ASSUME TypeOK, ChoiceInv, choice # NoChoice
    PROVE  /\ Chosen(choice) /\ choice.root \in Partition
           /\ KindOf[choice.root] = "regular" /\ choice.type \in FsType
  BY DEF ChoiceInv, Chosen

\* The step at place n + 1 of the list.
LEMMA StepPlace ==
    ASSUME NEW c, Chosen(c), NEW n \in Nat, n + 1 \in 1..Len(StepsOf(c))
    PROVE  \/ n = 0 /\ StepsOf(c)[n + 1] = [do |-> "format", dev |-> c.root, at |-> Root]
           \/ n \in 1..Len(Mounts(c)) /\ StepsOf(c)[n + 1] = Mounts(c)[n]
           \/ \E j \in 1..9 : n = Len(Mounts(c)) + j /\ StepsOf(c)[n + 1] = Setup[j]
<1> DEFINE m == Len(Mounts(c))
           all == StepsOf(c)
<1>1. /\ m \in Nat /\ Len(all) = 10 + m
      /\ all[1] = [do |-> "format", dev |-> c.root, at |-> Root]
      /\ \A i \in 1..m : all[1 + i] = Mounts(c)[i]
      /\ \A j \in 1..9 : all[1 + m + j] = Setup[j]
  BY StepsAre, MountsAre
<1> HIDE DEF m, all
<1>2. n + 1 \in 1..(10 + m)
  BY <1>1 DEF all
<1>3. CASE n = 0
  BY <1>1, <1>3 DEF all
<1>4. CASE n \in 1..m
  <2>1. n + 1 = 1 + n
    OBVIOUS
  <2> QED
    BY <1>1, <1>4, <2>1 DEF all, m
<1>5. CASE n > m
  <2>1. PICK j \in 1..9 : n = m + j
    <3>1. m \in Nat
      BY <1>1
    <3>2. n - m \in 1..9 /\ n = m + (n - m)
      BY <1>2, <1>5, <3>1
    <3> QED
      BY <3>2
  <2>2. n + 1 = 1 + m + j
    BY <1>1, <2>1
  <2>3. all[n + 1] = Setup[j]
    BY <1>1, <2>2
  <2> QED
    BY <2>1, <2>3 DEF all, m
<1>6. n = 0 \/ n \in 1..m \/ n > m
  BY <1>1
<1> QED
  BY <1>3, <1>4, <1>5, <1>6

\* The mounts are mounts, of partitions or of the running system.
LEMMA MountsTyped ==
    ASSUME TypeOK, ChoiceInv, choice # NoChoice, NEW i \in 1..Len(Mounts(choice))
    PROVE  /\ Mounts(choice)[i].do = "mount"
           /\ [dev |-> Mounts(choice)[i].dev, at |-> Mounts(choice)[i].at] \in Entry
<1> DEFINE m == Mounts(choice)
           D == Partition \cup {Tmpfs}
<1>1. /\ choice.root \in D /\ choice.esp \in D /\ Tmpfs \in D
      /\ choice.xbootldr # None => choice.xbootldr \in D
      /\ Chosen(choice)
  BY ChoiceChosen DEF Chosen
<1>2. /\ m \in Seq(StepType)
      /\ m[1] = Mount(choice.root, Root)
      /\ m[2] = Mount(choice.esp, "/efi")
      /\ choice.xbootldr # None => m[3] = Mount(choice.xbootldr, "/boot")
      /\ \A k \in 1..Len(m) :
            \/ k = 1 \/ k = 2 \/ (k = 3 /\ choice.xbootldr # None)
            \/ \E j \in 1..Len(Binds) : m[k] = Mount(Tmpfs, Binds[j])
  BY <1>1, MountsAre
<1> HIDE DEF m, D
<1>3. PICK d \in D : \E at : m[i] = Mount(d, at)
  BY <1>1, <1>2 DEF m
<1>4. m[i] \in StepType
  BY <1>2, ElementOfSeq DEF m
<1>5. m[i].do = "mount" /\ m[i].dev \in D
  BY <1>3 DEF Mount
<1>6. m[i].at \in Paths
  BY <1>4 DEF StepType
<1> QED
  BY <1>5, <1>6 DEF Entry, m, D

\* What the steps after the mounts do: one thing each.
LEMMA SetupTasks ==
    /\ \A j \in 1..9 : Setup[j].do \notin {"format", "mount"}
    /\ \A j \in 1..9 : Setup[j].do = "repo" => j = 1
    /\ \A j \in 1..9 : Setup[j].do = "packages" <=> j = 2
    /\ \A j \in 1..9 : Setup[j] = Do(Setup[j].do)
  BY SetupIs DEF Do

\* The step that is executed, at its place.
LEMMA Executed ==
    ASSUME IInv, NEW s, Executes(s)
    PROVE  /\ Chosen(choice) /\ choice # NoChoice /\ cleanups = CleanupsOf(choice)
           /\ \E n \in Nat :
                 /\ RunAt(n) /\ n + 1 \in 1..Len(StepsOf(choice))
                 /\ s = StepsOf(choice)[n + 1]
                 /\ Left(steps', StepsOf(choice), n + 1)
<1>1. phase = "running" /\ steps # <<>> /\ s = Head(steps) /\ steps' = Tail(steps)
  BY DEF Executes
<1>2. choice # NoChoice /\ cleanups = CleanupsOf(choice) /\ \E n \in Nat : RunAt(n)
  BY <1>1 DEF IInv, RunInv
<1>3. Chosen(choice)
  BY <1>2, ChoiceChosen DEF IInv, BaseInv
<1>4. PICK n \in Nat : RunAt(n)
  BY <1>2
<1>5. Left(steps, StepsOf(choice), n)
  BY <1>4 DEF RunAt
<1>6. Len(StepsOf(choice)) \in Nat
  BY <1>3, StepsAre, MountsAre
<1>7. /\ n + 1 \in 1..Len(StepsOf(choice)) /\ Head(steps) = StepsOf(choice)[n + 1]
      /\ Left(Tail(steps), StepsOf(choice), n + 1)
  BY <1>1, <1>5, <1>6, TakeHead
<1> QED
  BY <1>1, <1>2, <1>3, <1>4, <1>7

\* A step brings the run one step further.
LEMMA Advances ==
    ASSUME IInv, NEW s, Executes(s), NEW n \in Nat, n + 1 \in 1..Len(StepsOf(choice)),
           Left(steps', StepsOf(choice), n + 1),
           silent' = 0 => /\ Grown(table', base, choice, Made(n + 1))
                          /\ RootFree => Achieved(n + 1)'
    PROVE  RunInv'
<1>1. /\ phase = "running" /\ phase' = "running" /\ choice' = choice /\ cleanups' = cleanups
      /\ base' = base
  BY DEF Executes
<1>2. choice # NoChoice /\ cleanups = CleanupsOf(choice)
  BY Executed
<1>3. Made(n + 1)' = Made(n + 1)
  BY <1>1 DEF Made
<1>4. RunAt(n + 1)'
  BY <1>1, <1>3 DEF RunAt, RootFree
<1>5. n + 1 \in Nat
  OBVIOUS
<1>6. choice' # NoChoice /\ cleanups' = CleanupsOf(choice')
  BY <1>1, <1>2
<1> QED
  BY <1>1, <1>4, <1>5, <1>6 DEF RunInv, MountsUndone, SuccessInstalls

\* What a step must keep of the machine.
LEMMA BaseKept ==
    ASSUME BaseInv,
           table' \in Seq(Entry), fs' \in [Partition -> FsType \cup {BootType, NoType}],
           files' \in [Partition \cup {Tmpfs} -> SUBSET Artifact],
           kind' \in FsType \cup {NoType}, silent' \in 0..MaxSilent,
           phase' \in {"asking", "running", "cleaning", "success", "failed", "refused", "cancelled"},
           UNCHANGED <<probed, choice, base, runs>>,
           \A p \in Partition : fs'[p] = BootType <=> fs[p] = BootType
    PROVE  BaseInv'
<1>2. TypeOK'
  BY DEF BaseInv, TypeOK, Entry
<1>3. ChoiceInv'
  BY DEF BaseInv, ChoiceInv
<1>4. KindInv'
  BY DEF BaseInv, KindInv
<1> QED
  BY <1>2, <1>3, <1>4 DEF BaseInv

-----------------------------------------------------------------------------
(***************************************************************************)
(* The steps.                                                              *)
(***************************************************************************)

\* A failure unseen is counted.
LEMMA SilenceCounted ==
    ASSUME TypeOK, FailsSilently
    PROVE  silent' \in 0..MaxSilent /\ silent' # 0 /\ UNCHANGED machine
<1>1. silent \in 0..MaxSilent /\ silent' = silent + 1 /\ silent < MaxSilent
  BY DEF TypeOK, FailsSilently
<1>2. MaxSilent \in Nat
  BY EngineAssumption
<1> QED
  BY <1>1, <1>2 DEF FailsSilently

\* The machine as it is is one a step may leave.
LEMMA MachineKept ==
    ASSUME IInv
    PROVE  /\ table \in Seq(Entry) /\ fs \in [Partition -> FsType \cup {BootType, NoType}]
           /\ files \in [Partition \cup {Tmpfs} -> SUBSET Artifact]
           /\ kind \in FsType \cup {NoType} /\ silent \in 0..MaxSilent
  BY DEF IInv, BaseInv, TypeOK, Entry

\* A format step is the first one, and of the root.
LEMMA FormatPlace ==
    ASSUME IInv, NEW s, s.do = "format", Executes(s)
    PROVE  /\ s = [do |-> "format", dev |-> choice.root, at |-> Root]
           /\ \E n \in Nat : /\ n = 0 /\ RunAt(n) /\ n + 1 \in 1..Len(StepsOf(choice))
                            /\ Left(steps', StepsOf(choice), n + 1)
<1>2. PICK n \in Nat : /\ RunAt(n) /\ n + 1 \in 1..Len(StepsOf(choice))
                       /\ s = StepsOf(choice)[n + 1]
                       /\ Left(steps', StepsOf(choice), n + 1)
  BY Executed
<1>3. TypeOK /\ ChoiceInv /\ KindInv /\ choice # NoChoice /\ Chosen(choice)
  BY Executed DEF IInv, BaseInv
<1>4. \A i \in 1..Len(Mounts(choice)) : Mounts(choice)[i].do = "mount"
  BY <1>3, MountsTyped
<1>5. n = 0 /\ s = [do |-> "format", dev |-> choice.root, at |-> Root]
  <2>1. \/ n = 0 /\ s = [do |-> "format", dev |-> choice.root, at |-> Root]
        \/ n \in 1..Len(Mounts(choice)) /\ s = Mounts(choice)[n]
        \/ \E j \in 1..9 : n = Len(Mounts(choice)) + j /\ s = Setup[j]
    BY <1>2, <1>3, StepPlace
  <2> QED
    BY <1>4, <2>1, SetupTasks
<1> QED
  BY <1>2, <1>5

LEMMA FormatSafe ==
    ASSUME IInv, FormatPartition
    PROVE  IInv'
<1>1. PICK s : s.do = "format" /\ Executes(s) /\
         (\/ /\ ~InUse(s.dev)
             /\ fs' = [fs EXCEPT ![s.dev] = choice.type]
             /\ files' = [files EXCEPT ![s.dev] = {}]
             /\ UNCHANGED <<table, kind, silent>>
          \/ InUse(s.dev) /\ UNCHANGED <<machine, silent>>
          \/ FailsSilently)
  BY DEF FormatPartition
<1>2. PICK n \in Nat : /\ n = 0 /\ RunAt(n) /\ n + 1 \in 1..Len(StepsOf(choice))
                       /\ Left(steps', StepsOf(choice), n + 1)
  BY <1>1, FormatPlace
<1>3. TypeOK /\ ChoiceInv /\ KindInv /\ choice # NoChoice /\ Chosen(choice)
  BY <1>1, Executed DEF IInv, BaseInv
<1>5. n = 0 /\ s = [do |-> "format", dev |-> choice.root, at |-> Root]
  BY <1>1, <1>2, FormatPlace
<1> DEFINE r == choice.root
<1>6. s.dev = r
  BY <1>5
<1>7. /\ r \in Partition /\ KindOf[r] = "regular"
      /\ choice.type \in FsType /\ choice.type # BootType
  BY <1>3, ChoiceChosen, EngineAssumption
<1>8. fs[r] # BootType
  BY <1>3, <1>7 DEF KindInv
<1>9. /\ table \in Seq(Entry) /\ fs \in [Partition -> FsType \cup {BootType, NoType}]
      /\ files \in [Partition \cup {Tmpfs} -> SUBSET Artifact]
      /\ kind \in FsType \cup {NoType} /\ silent \in 0..MaxSilent
  BY MachineKept
<1> HIDE DEF r
<1>10. /\ fs' \in [Partition -> FsType \cup {BootType, NoType}]
       /\ files' \in [Partition \cup {Tmpfs} -> SUBSET Artifact]
       /\ \A p \in Partition : fs'[p] = BootType <=> fs[p] = BootType
  <2>1. CASE /\ fs' = [fs EXCEPT ![r] = choice.type]
             /\ files' = [files EXCEPT ![r] = {}]
    BY <1>7, <1>8, <1>9, <2>1
  <2>2. CASE fs' = fs /\ files' = files
    BY <1>9, <2>2
  <2> QED
    BY <1>1, <1>3, <1>6, <2>1, <2>2, SilenceCounted DEF machine
<1>11. table' = table /\ kind' = kind /\ silent' \in 0..MaxSilent
  BY <1>1, <1>3, <1>9, SilenceCounted DEF machine
<1>12. BaseInv'
  <2>1. phase' = "running" /\ UNCHANGED <<probed, choice, base, runs>>
    BY <1>1 DEF Executes
  <2> QED
    BY <1>9, <1>10, <1>11, <2>1, BaseKept DEF IInv
<1>13. ASSUME silent' = 0
       PROVE  /\ Grown(table', base, choice, Made(n + 1))
              /\ RootFree => Achieved(n + 1)'
  <2>1. silent = 0 /\ \/ fs' = [fs EXCEPT ![r] = choice.type] /\ ~InUse(r)
                      \/ InUse(r)
    BY <1>1, <1>3, <1>6, <1>13, SilenceCounted
  <2>2. Len(Mounts(choice)) \in Nat /\ Len(Mounts(choice)) >= 2
    BY <1>3, MountsAre
  <2>3. Made(n) = 0 /\ Made(n + 1) = 0
    BY <1>5, <2>2 DEF Made
  <2>4. Grown(table, base, choice, 0)
    BY <1>2, <2>1, <2>3 DEF RunAt
  <2>5. ASSUME RootFree PROVE Achieved(n + 1)'
    <3>1. table = base
      BY <1>3, <2>4, GrownByNone DEF TypeOK
    <3>2. ~InUse(r)
      BY <2>5, <3>1 DEF InUse, RootFree, r
    <3>3. fs' = [fs EXCEPT ![r] = choice.type]
      BY <2>1, <3>2
    <3>4. fs'[choice.root] = choice.type
      BY <1>7, <1>9, <3>3 DEF r
    <3>5. choice' = choice
      BY <1>1 DEF Executes
    <3>6. ~ (n + 1 >= 3 + Len(Mounts(choice)))
          /\ \A j \in 1..9 : ~ (n + 1 >= 1 + Len(Mounts(choice)) + j)
      BY <1>5, <2>2
    <3> QED
      BY <3>4, <3>5, <3>6, SetupIs DEF Achieved
  <2> QED
    BY <1>11, <2>3, <2>4, <2>5
<1>14. RunInv'
  BY <1>1, <1>2, <1>13, Advances
<1> QED
  BY <1>12, <1>14 DEF IInv
LEMMA MountSafe ==
    ASSUME IInv, MountPartition
    PROVE  IInv'
<1>1. PICK s : s.do = "mount" /\ Executes(s) /\
         (\/ /\ table' = Attach(table, [dev |-> s.dev, at |-> s.at])
             /\ UNCHANGED <<fs, files, kind, silent>>
          \/ FailsSilently)
  BY DEF MountPartition
<1>2. PICK n \in Nat : /\ RunAt(n) /\ n + 1 \in 1..Len(StepsOf(choice))
                       /\ s = StepsOf(choice)[n + 1]
                       /\ Left(steps', StepsOf(choice), n + 1)
  BY <1>1, Executed
<1>3. TypeOK /\ ChoiceInv /\ KindInv /\ choice # NoChoice /\ Chosen(choice)
  BY <1>1, Executed DEF IInv, BaseInv
<1>4. n \in 1..Len(Mounts(choice)) /\ s = Mounts(choice)[n]
  <2>1. \/ n = 0 /\ s = [do |-> "format", dev |-> choice.root, at |-> Root]
        \/ n \in 1..Len(Mounts(choice)) /\ s = Mounts(choice)[n]
        \/ \E j \in 1..9 : n = Len(Mounts(choice)) + j /\ s = Setup[j]
    BY <1>2, <1>3, StepPlace
  <2> QED
    BY <1>1, <2>1, SetupTasks
<1> DEFINE e == [dev |-> s.dev, at |-> s.at]
           m == Mounts(choice)
<1>5. e \in Entry /\ e = [dev |-> m[n].dev, at |-> m[n].at]
  BY <1>3, <1>4, MountsTyped
<1>6. /\ table \in Seq(Entry) /\ fs \in [Partition -> FsType \cup {BootType, NoType}]
      /\ files \in [Partition \cup {Tmpfs} -> SUBSET Artifact]
      /\ kind \in FsType \cup {NoType} /\ silent \in 0..MaxSilent
  BY MachineKept
<1>7. /\ table' = Attach(table, e) \/ table' = table
      /\ UNCHANGED <<fs, files, kind>> /\ silent' \in 0..MaxSilent
      /\ silent' = 0 => table' = Attach(table, e) /\ silent = 0
  BY <1>1, <1>3, <1>6, SilenceCounted DEF machine
<1> HIDE DEF e, m
<1>8. table' \in Seq(Entry)
  BY <1>5, <1>6, <1>7, SMTT(30) DEF Attach
<1>9. BaseInv'
  <2>1. phase' = "running" /\ UNCHANGED <<probed, choice, base, runs>>
    BY <1>1 DEF Executes
  <2> QED
    BY <1>6, <1>7, <1>8, <2>1, BaseKept DEF IInv
<1>10. ASSUME silent' = 0
       PROVE  /\ Grown(table', base, choice, Made(n + 1))
              /\ RootFree => Achieved(n + 1)'
  <2>1. silent = 0 /\ table' = Attach(table, e)
    BY <1>7, <1>10
  <2>2. Len(m) \in Nat /\ Len(m) >= 2
    BY <1>3, MountsAre DEF m
  <2>3. n \in 1..Len(m)
    BY <1>4 DEF m
  <2>4. PICK k \in Nat : k + 1 = n
    BY <2>3
  <2>5. Made(n) = k /\ Made(n + 1) = k + 1
    BY <2>2, <2>3, <2>4 DEF Made, m
  <2>6. Grown(table, base, choice, k) /\ (RootFree => Achieved(n))
    BY <1>2, <2>1, <2>5 DEF RunAt
  <2>7. base \in Seq([dev : Partition \cup {Tmpfs}, at : Paths])
    BY <1>3 DEF TypeOK
  <2>8. Grown(Attach(table, e), base, choice, k + 1)
    <3> DEFINE T == [dev : Partition \cup {Tmpfs}, at : Paths]
    <3>1. table \in Seq(T) /\ base \in Seq(T)
      BY <1>3 DEF TypeOK
    <3>2. e \in T
      <4>1. e.dev \in Partition \cup {Tmpfs} /\ e.at \in Paths
        BY <1>5 DEF Entry
      <4> QED
        BY <4>1 DEF e
    <3>3. e = [dev |-> Mounts(choice)[k + 1].dev, at |-> Mounts(choice)[k + 1].at]
      BY <1>5, <2>4 DEF m
    <3> HIDE DEF T
    <3> QED
      BY <2>6, <3>1, <3>2, <3>3, AttachGrows
  <2>9. ASSUME RootFree PROVE Achieved(n + 1)'
    <3>1. fs[choice.root] = choice.type
      BY <2>3, <2>6, <2>9 DEF Achieved
    <3>2. choice' = choice /\ fs' = fs
      BY <1>1, <1>7 DEF Executes
    <3>3. ~ (n + 1 >= 3 + Len(m)) /\ \A j \in 1..9 : ~ (n + 1 >= 1 + Len(m) + j)
      BY <2>2, <2>3
    <3> QED
      BY <3>1, <3>2, <3>3, SetupIs DEF Achieved, m
  <2> QED
    BY <2>1, <2>5, <2>8, <2>9
<1>11. RunInv'
  BY <1>1, <1>2, <1>10, Advances
<1> QED
  BY <1>9, <1>11 DEF IInv

\* Where a task comes among the steps after the mounts.
LEMMA SetupPlace ==
    /\ \A i, j \in 1..9 : Setup[i].do = Setup[j].do => i = j
    /\ \A what \in {"repo", "rootpw", "user", "userpw", "locale", "timezone", "machineid", "fstab"} :
          \E j \in 1..9 : Setup[j].do = what /\ Product(j) = what /\ j # 2
    /\ Setup[2].do = "packages" /\ Product(2) = "os"
<1>1. /\ Setup[1].do = "repo" /\ Setup[2].do = "packages" /\ Setup[3].do = "rootpw"
      /\ Setup[4].do = "user" /\ Setup[5].do = "userpw" /\ Setup[6].do = "locale"
      /\ Setup[7].do = "timezone" /\ Setup[8].do = "machineid" /\ Setup[9].do = "fstab"
  BY SetupIs DEF Do
<1>2. \A j \in 1..9 : Product(j) = IF j = 2 THEN "os" ELSE Setup[j].do
  BY <1>1 DEF Product
<1>3. \A i, j \in 1..9 : Setup[i].do = Setup[j].do => i = j
  BY <1>1
<1>4. ASSUME NEW what \in {"repo", "rootpw", "user", "userpw", "locale", "timezone", "machineid", "fstab"}
      PROVE  \E j \in 1..9 : Setup[j].do = what /\ Product(j) = what /\ j # 2
  BY <1>1, <1>2
<1> QED
  BY <1>1, <1>2, <1>3, <1>4

\* The target is what the mounts of the choice show.
Shown ==
    /\ At(Root) = choice.root
    /\ choice.xbootldr = None => At("/efi") = choice.esp
    /\ choice.xbootldr # None => At("/boot") = choice.xbootldr

\* What the j-th step after the mounts does to the machine.
Filled(j) ==
    /\ UNCHANGED <<table, fs>>
    /\ files' \in [Partition \cup {Tmpfs} -> SUBSET Artifact]
    /\ kind' \in FsType \cup {NoType}
    /\ silent' \in 0..MaxSilent /\ (silent' = 0 => silent = 0)
    /\ \A d \in Partition \cup {Tmpfs} : files[d] \subseteq files'[d]
    /\ silent' = 0 /\ Shown =>
          /\ Product(j) \in files'[choice.root]
          /\ j = 2 => "boot" \in files'[BootPartition]

\* A step after the mounts finds all of them made.
LEMMA SetupAt ==
    ASSUME IInv, NEW j \in 1..9, NEW what, what = Setup[j].do, Executes(Do(what))
    PROVE  /\ Chosen(choice)
           /\ \E n \in Nat : /\ RunAt(n) /\ n = Len(Mounts(choice)) + j
                            /\ n + 1 \in 1..Len(StepsOf(choice))
                            /\ Left(steps', StepsOf(choice), n + 1)
           /\ silent = 0 => Grown(table, base, choice, Len(Mounts(choice))) /\ Shown
<1> DEFINE s == Do(what)
<1>0. Executes(s) /\ s.do = what /\ \A i \in 1..9 : Setup[i].do = what => i = j
  BY SetupPlace DEF Do
<1> HIDE DEF s
<1> DEFINE m == Len(Mounts(choice))
<1>1. PICK n \in Nat : /\ RunAt(n) /\ n + 1 \in 1..Len(StepsOf(choice))
                       /\ s = StepsOf(choice)[n + 1]
                       /\ Left(steps', StepsOf(choice), n + 1)
  BY <1>0, Executed
<1>2. TypeOK /\ ChoiceInv /\ KindInv /\ choice # NoChoice /\ Chosen(choice)
  BY <1>0, Executed DEF IInv, BaseInv
<1>3. n = m + j
  <2>1. \/ n = 0 /\ s = [do |-> "format", dev |-> choice.root, at |-> Root]
        \/ n \in 1..m /\ s = Mounts(choice)[n]
        \/ \E i \in 1..9 : n = m + i /\ s = Setup[i]
    BY <1>1, <1>2, StepPlace
  <2>2. s.do \notin {"format", "mount"}
    BY <1>0, SetupTasks
  <2>3. \A i \in 1..m : Mounts(choice)[i].do = "mount"
    BY <1>2, MountsTyped
  <2> HIDE DEF m
  <2>4. PICK i \in 1..9 : n = m + i /\ s = Setup[i]
    BY <2>1, <2>2, <2>3
  <2>5. i = j
    BY <1>0, <2>4
  <2> QED
    BY <2>4, <2>5
<1>4. m \in Nat /\ m >= 2
  BY <1>2, MountsAre
<1>5. Made(n) = m
  <2> HIDE DEF m
  <2> QED
    BY <1>3, <1>4 DEF Made, m
<1>6. ASSUME silent = 0 PROVE Grown(table, base, choice, m) /\ Shown
  <2>1. Grown(table, base, choice, m)
    BY <1>1, <1>5, <1>6 DEF RunAt
  <2>2. table \in Seq(Entry) /\ base \in Seq(Entry)
    BY <1>2 DEF TypeOK, Entry
  <2> QED
    BY <1>2, <2>1, <2>2, TargetShown DEF Shown
<1> QED
  BY <1>1, <1>2, <1>3, <1>6

\* A step after the mounts: what it leaves, it leaves on what the target shows.
LEMMA SetupSafe ==
    ASSUME IInv, NEW j \in 1..9, NEW what, what = Setup[j].do, Executes(Do(what)), Filled(j)
    PROVE  IInv'
<1> DEFINE s == Do(what)
<1>0. Executes(s)
  OBVIOUS
<1> HIDE DEF s
<1> DEFINE m == Len(Mounts(choice))
<1>1. PICK n \in Nat : /\ RunAt(n) /\ n = m + j /\ n + 1 \in 1..Len(StepsOf(choice))
                       /\ Left(steps', StepsOf(choice), n + 1)
  BY SetupAt
<1>2. TypeOK /\ ChoiceInv /\ KindInv /\ choice # NoChoice /\ Chosen(choice)
  BY <1>0, Executed DEF IInv, BaseInv
<1>3. n = m + j
  BY <1>1
<1>4. BaseInv'
  <2>1. phase' = "running" /\ UNCHANGED <<probed, choice, base, runs>>
    BY <1>0 DEF Executes
  <2>2. table' \in Seq(Entry) /\ fs' \in [Partition -> FsType \cup {BootType, NoType}]
    BY MachineKept DEF Filled
  <2> QED
    BY <2>1, <2>2, BaseKept DEF IInv, Filled
<1>5. m \in Nat /\ m >= 2
  BY <1>2, MountsAre
<1>6. Made(n) = m /\ Made(n + 1) = m
  <2> HIDE DEF m
  <2> QED
    BY <1>3, <1>5 DEF Made, m
<1>7. ASSUME silent' = 0
      PROVE  /\ Grown(table', base, choice, Made(n + 1))
             /\ RootFree => Achieved(n + 1)'
  <2>1. Grown(table, base, choice, m) /\ (RootFree => Achieved(n))
    BY <1>1, <1>6, <1>7 DEF RunAt, Filled
  <2>2. ASSUME RootFree PROVE Achieved(n + 1)'
    <3>1. Shown
      BY <1>7, SetupAt DEF Filled
    <3>2. Product(j) \in files'[choice.root] /\ (j = 2 => "boot" \in files'[BootPartition])
      BY <1>7, <3>1 DEF Filled
    <3>3. choice' = choice /\ BootPartition' = BootPartition
      BY <1>0 DEF Executes, BootPartition
    <3>4. choice.root \in Partition /\ BootPartition \in Partition
      BY <1>2 DEF Chosen, BootPartition
    <3>5. /\ fs[choice.root] = choice.type
          /\ \A i \in 1..9 : n >= 1 + m + i => Product(i) \in files[choice.root]
          /\ n >= 3 + m => "boot" \in files[BootPartition]
      BY <1>3, <1>5, <2>1, <2>2, SetupIs DEF Achieved
    <3>6. \A i \in 1..9 : n + 1 >= 1 + m + i => i = j \/ n >= 1 + m + i
      BY <1>3, <1>5
    <3>7. n + 1 >= 3 + m => j = 2 \/ n >= 3 + m
      BY <1>3, <1>5
    <3>8. \A i \in 1..9 : n + 1 >= 1 + m + i => Product(i) \in files'[choice.root]
      BY <3>2, <3>4, <3>5, <3>6 DEF Filled
    <3>9. n + 1 >= 3 + m => "boot" \in files'[BootPartition]
      BY <3>2, <3>4, <3>5, <3>7 DEF Filled
    <3>10. fs'[choice.root] = choice.type
      BY <3>5 DEF Filled
    <3> QED
      BY <3>3, <3>8, <3>9, <3>10, SetupIs DEF Achieved
  <2> QED
    BY <1>6, <2>1, <2>2 DEF Filled
<1>8. RunInv'
  BY <1>0, <1>1, <1>7, Advances
<1> QED
  BY <1>4, <1>8 DEF IInv

\* What a lookup ends in carries files.
LEMMA FilesAt ==
    ASSUME IInv, NEW path
    PROVE  files \in [Partition \cup {Tmpfs} -> SUBSET Artifact] /\ At(path) \in Partition \cup {Tmpfs}
<1> DEFINE D == Partition \cup {Tmpfs}
<1>1. table \in Seq([dev : D, at : Paths]) /\ files \in [D -> SUBSET Artifact]
  BY DEF IInv, BaseInv, TypeOK
<1> HIDE DEF D
<1>2. \A i \in DOMAIN table : table[i].dev \in D
  <2>1. \A i \in 1..Len(table) : table[i] \in [dev : D, at : Paths]
    BY <1>1, ElementOfSeq
  <2> QED
    BY <1>1, <2>1
<1> QED
  BY <1>1, <1>2, AtSome DEF D

\* What is left on the target is added to what is there.
LEMMA LeavesSafe ==
    ASSUME IInv, NEW added \in SUBSET Artifact, Leaves(added, Root)
    PROVE  /\ UNCHANGED <<table, fs>>
           /\ files' \in [Partition \cup {Tmpfs} -> SUBSET Artifact]
           /\ \A d \in Partition \cup {Tmpfs} : files[d] \subseteq files'[d]
           /\ added \subseteq files'[At(Root)]
<1> DEFINE D == Partition \cup {Tmpfs}
           a == At(Root)
<1>1. files \in [D -> SUBSET Artifact] /\ a \in D
  BY FilesAt
<1>4. files' = [files EXCEPT ![a] = @ \cup added] /\ UNCHANGED <<table, fs>>
  BY DEF Leaves
<1> HIDE DEF a
<1> QED
  BY <1>1, <1>4 DEF a

\* A step of one of the programs run in the target, or of the installer itself.
LEMMA LeavingSafe ==
    ASSUME IInv,
           NEW what \in {"repo", "rootpw", "user", "userpw", "locale", "timezone", "machineid", "fstab"},
           Executes(Do(what)), Leaves({what}, Root), kind' \in FsType \cup {NoType}, UNCHANGED silent
    PROVE  IInv'
<1>1. PICK j \in 1..9 : Setup[j].do = what /\ Product(j) = what /\ j # 2
  BY SetupPlace
<1>2. {what} \in SUBSET Artifact
  BY DEF Artifact
<1>3. /\ UNCHANGED <<table, fs>>
      /\ files' \in [Partition \cup {Tmpfs} -> SUBSET Artifact]
      /\ \A d \in Partition \cup {Tmpfs} : files[d] \subseteq files'[d]
      /\ {what} \subseteq files'[At(Root)]
  BY <1>2, LeavesSafe
<1>4. silent' \in 0..MaxSilent /\ (silent' = 0 => silent = 0)
  BY MachineKept
<1>5. Shown => Product(j) \in files'[choice.root] /\ j # 2
  BY <1>1, <1>3 DEF Shown
<1>6. Filled(j)
  BY <1>3, <1>4, <1>5 DEF Filled
<1> QED
  BY <1>1, <1>6, SetupSafe

\* A step whose command fails unseen.
LEMMA SilentSafe ==
    ASSUME IInv, NEW what \in {"rootpw", "user", "userpw", "machineid"},
           Executes(Do(what)), FailsSilently
    PROVE  IInv'
<1>1. PICK j \in 1..9 : Setup[j].do = what
  BY SetupPlace
<1>2. silent' \in 0..MaxSilent /\ silent' # 0 /\ UNCHANGED <<table, fs, files, kind>>
  BY SilenceCounted DEF IInv, BaseInv, machine
<1>3. Filled(j)
  BY <1>2, MachineKept DEF Filled
<1> QED
  BY <1>1, <1>3, SetupSafe

LEMMA RepoSafe ==
    ASSUME IInv, AddRepo
    PROVE  IInv'
<1>1. Executes(Do("repo")) /\ Leaves({"repo"}, Root) /\ UNCHANGED <<kind, silent>>
  BY DEF AddRepo
<1> QED
  BY <1>1, LeavingSafe, MachineKept

LEMMA PackagesSafe ==
    ASSUME IInv, InstallPackages
    PROVE  IInv'
<1> DEFINE D == Partition \cup {Tmpfs}
           a == At(Root)
           boot == At(IF choice.xbootldr = None THEN "/efi" ELSE "/boot")
<1>1. /\ Executes(Do("packages")) /\ UNCHANGED <<table, fs, kind, silent>>
      /\ files' = [d \in DOMAIN files |-> files[d] \cup (IF d = a THEN {"os"} ELSE {})
                                                    \cup (IF d = boot THEN {"boot"} ELSE {})]
  BY DEF InstallPackages
<1>4. files \in [D -> SUBSET Artifact] /\ a \in D /\ boot \in D
  BY FilesAt
<1>5. (choice.xbootldr = None => boot = At("/efi")) /\ (choice.xbootldr # None => boot = At("/boot"))
  OBVIOUS
<1> HIDE DEF D, a, boot
<1>6. {"os", "boot"} \subseteq Artifact
  BY DEF Artifact
<1>7. /\ files' \in [D -> SUBSET Artifact]
      /\ \A d \in D : files[d] \subseteq files'[d]
      /\ "os" \in files'[a] /\ "boot" \in files'[boot]
  BY <1>1, <1>4, <1>6
<1>9. 2 \in 1..9 /\ Product(2) = "os" /\ Setup[2].do = "packages"
  BY SetupPlace
<1>10. kind' \in FsType \cup {NoType} /\ silent' \in 0..MaxSilent /\ silent' = silent
  BY <1>1, MachineKept
<1>11. ASSUME Shown PROVE "os" \in files'[choice.root] /\ "boot" \in files'[BootPartition]
  <2>1. a = choice.root
    BY <1>11 DEF a, Shown
  <2>2. boot = BootPartition
    BY <1>5, <1>11 DEF BootPartition, Shown
  <2> QED
    BY <1>7, <2>1, <2>2
<1>12. Filled(2)
  BY <1>1, <1>7, <1>9, <1>10, <1>11 DEF Filled, D
<1> QED
  BY <1>1, <1>9, <1>12, SetupSafe

LEMMA AccountsSafe ==
    ASSUME IInv, NEW what \in {"rootpw", "user", "userpw", "machineid"}, Accounts(what)
    PROVE  IInv'
<1>1. Executes(Do(what)) /\ ((Leaves({what}, Root) /\ UNCHANGED <<kind, silent>>) \/ FailsSilently)
  BY DEF Accounts
<1>2. CASE Leaves({what}, Root) /\ UNCHANGED <<kind, silent>>
  BY <1>1, <1>2, LeavingSafe, MachineKept
<1>3. CASE FailsSilently
  BY <1>1, <1>3, SilentSafe
<1> QED
  BY <1>1, <1>2, <1>3

LEMMA RegionSafe ==
    ASSUME IInv, NEW what \in {"locale", "timezone"}, SetRegion(what)
    PROVE  IInv'
<1>1. Executes(Do(what)) /\ Leaves({what}, Root) /\ UNCHANGED <<kind, silent>>
  BY DEF SetRegion
<1> QED
  BY <1>1, LeavingSafe, MachineKept

\* The root is no boot partition, and so the fstab names a filesystem it can have.
LEMMA FstabSafe ==
    ASSUME IInv, EmitFstab
    PROVE  IInv'
<1>1. Executes(Do("fstab")) /\ Leaves({"fstab"}, Root) /\ UNCHANGED silent /\ kind' = probed[choice.root]
  BY DEF EmitFstab
<1>2. TypeOK /\ ChoiceInv /\ KindInv /\ choice # NoChoice
  BY <1>1, Executed DEF IInv, BaseInv
<1>3. choice.root \in Partition /\ KindOf[choice.root] = "regular"
  BY <1>2, ChoiceChosen
<1>4. probed[choice.root] # BootType /\ probed[choice.root] \in FsType \cup {BootType, NoType}
  BY <1>2, <1>3 DEF KindInv, TypeOK
<1>5. kind' \in FsType \cup {NoType}
  BY <1>1, <1>4
<1> QED
  BY <1>1, <1>5, LeavingSafe
-----------------------------------------------------------------------------
(***************************************************************************)
(* The questions, and the cleanups.                                        *)
(***************************************************************************)

LEMMA InitSafe ==
    ASSUME Init
    PROVE  IInv
<1>1. TypeOK
  <2>1. 0 \in 0..MaxRuns /\ 0 \in 0..MaxSilent
    BY EngineAssumption
  <2>2. NoChoice \in [esp : Partition \cup {None}, xbootldr : Partition \cup {None},
                      root : Partition \cup {None}, type : FsType \cup {NoType}]
    BY DEF NoChoice
  <2>3. <<>> \in Seq([dev : Partition \cup {Tmpfs}, at : Paths])
    OBVIOUS
  <2> QED
    BY <2>1, <2>2, <2>3 DEF Init, TypeOK, Artifact
<1>2. ChoiceInv /\ KindInv
  BY DEF Init, ChoiceInv, KindInv
<1>3. RunInv
  BY DEF Init, RunInv, MountsUndone, SuccessInstalls
<1> QED
  BY <1>1, <1>2, <1>3 DEF IInv, BaseInv

LEMMA StartSafe ==
    ASSUME IInv, Start
    PROVE  IInv'
<1>1. TypeOK /\ ChoiceInv /\ KindInv
  BY DEF IInv, BaseInv
<1>2. /\ runs < MaxRuns /\ runs' = runs + 1 /\ probed' = fs /\ phase' = "asking"
      /\ choice' = NoChoice /\ base' = table /\ silent' = 0
      /\ UNCHANGED <<table, fs, files, kind>>
  BY DEF Start, machine
<1>3. TypeOK'
  <2>1. runs' \in 0..MaxRuns /\ silent' \in 0..MaxSilent
    BY <1>1, <1>2, EngineAssumption DEF TypeOK
  <2>2. NoChoice \in [esp : Partition \cup {None}, xbootldr : Partition \cup {None},
                      root : Partition \cup {None}, type : FsType \cup {NoType}]
    BY DEF NoChoice
  <2> QED
    BY <1>1, <1>2, <2>1, <2>2 DEF TypeOK
<1>4. ChoiceInv' /\ KindInv'
  BY <1>1, <1>2 DEF ChoiceInv, KindInv
<1>5. RunInv'
  BY <1>2 DEF RunInv, MountsUndone, SuccessInstalls
<1> QED
  BY <1>3, <1>4, <1>5 DEF IInv, BaseInv

\* The program ends without having done any more, but not as a success.
LEMMA EndSafe ==
    ASSUME IInv, phase' \in {"cancelled", "failed", "refused"},
           UNCHANGED <<machine, probed, choice, base, runs, silent>>
    PROVE  IInv'
<1>1. BaseInv'
  <2>1. UNCHANGED <<table, fs, files, kind>>
    BY DEF machine
  <2>2. \A p \in Partition : fs'[p] = BootType <=> fs[p] = BootType
    BY <2>1
  <2> QED
    BY <2>1, <2>2, MachineKept, BaseKept DEF IInv
<1>2. RunInv'
  BY DEF RunInv, MountsUndone, SuccessInstalls
<1> QED
  BY <1>1, <1>2 DEF IInv

LEMMA AnswerSafe ==
    ASSUME IInv, Answer
    PROVE  IInv'
<1>1. TypeOK /\ ChoiceInv /\ KindInv
  BY DEF IInv, BaseInv
<1>2. phase = "asking" /\ UNCHANGED <<machine, probed, phase, base, runs, silent>>
  BY DEF Answer
<1>3. PICK nodes \in SUBSET Live, skipped \in SUBSET Disk :
         \E boot \in BootPartitions(Offered(nodes, skipped)),
            root \in SystemPartitions(Offered(nodes, skipped)), type \in FsType :
               choice' = [esp |-> boot.esp, xbootldr |-> boot.xbootldr, root |-> root, type |-> type]
  BY DEF Answer
<1> DEFINE offered == Offered(nodes, skipped)
<1>4. PICK boot \in BootPartitions(offered), root \in SystemPartitions(offered), type \in FsType :
         choice' = [esp |-> boot.esp, xbootldr |-> boot.xbootldr, root |-> root, type |-> type]
  BY <1>3
<1>5. offered \subseteq Partition
  BY DEF Offered
<1> HIDE DEF offered
<1>6. /\ boot.esp \in Partition /\ boot.xbootldr \in Partition \cup {None}
      /\ root \in Partition /\ KindOf[root] = "regular"
  BY <1>5 DEF BootPartitions, SystemPartitions
<1>7. TypeOK'
  <2>1. choice' \in [esp : Partition \cup {None}, xbootldr : Partition \cup {None},
                     root : Partition \cup {None}, type : FsType \cup {NoType}]
    BY <1>4, <1>6
  <2> QED
    BY <1>1, <1>2, <2>1 DEF TypeOK, machine
<1>8. ChoiceInv'
  BY <1>4, <1>6 DEF ChoiceInv
<1>9. KindInv'
  BY <1>1, <1>2 DEF KindInv, machine
<1>10. RunInv'
  BY <1>2 DEF IInv, RunInv, MountsUndone, SuccessInstalls, machine
<1> QED
  BY <1>7, <1>8, <1>9, <1>10 DEF IInv, BaseInv

\* The whole of a list is left before any of it is taken.
LEMMA AllLeft ==
    ASSUME NEW s \in Seq(StepType)
    PROVE  Left(s, s, 0)
<1>1. Len(s) = Len(s) - 0 /\ \A i \in 1..Len(s) : s[i] = s[0 + i]
  OBVIOUS
<1> QED
  BY <1>1 DEF Left

LEMMA ConfirmSafe ==
    ASSUME IInv, Confirm
    PROVE  IInv'
<1>1. phase = "asking" /\ choice # NoChoice /\ UNCHANGED <<machine, probed, choice, base, runs, silent>>
  BY DEF Confirm
<1>2. CASE phase' = "refused"
  BY <1>1, <1>2, EndSafe
<1>3. CASE phase' = "running" /\ steps' = StepsOf(choice) /\ cleanups' = CleanupsOf(choice)
  <2>1. UNCHANGED <<table, fs, files, kind>>
    BY <1>1 DEF machine
  <2>2. BaseInv'
    BY <1>1, <1>3, <2>1, MachineKept, BaseKept DEF IInv
  <2>3. Chosen(choice)
    BY <1>1, ChoiceChosen DEF IInv, BaseInv
  <2>4. StepsOf(choice) \in Seq(StepType) /\ Len(StepsOf(choice)) \in Nat
    <3>1. StepsOf(choice) \in Seq(StepType)
      BY <2>3, StepsAre
    <3> QED
      BY <3>1
  <2>5. Left(steps', StepsOf(choice), 0)
    BY <1>3, <2>4, AllLeft
  <2>6. table = base /\ silent = 0 /\ table \in Seq(Entry)
    BY <1>1, MachineKept DEF IInv, RunInv
  <2>7. Grown(table', base', choice', 0)
    BY <1>1, <2>1, <2>6 DEF Grown
  <2>8. Made(0)' = 0
    BY DEF Made
  <2>9. Achieved(0)'
    <3>1. Len(Mounts(choice)) \in Nat
      BY <2>3, MountsAre
    <3>2. /\ ~ (0 >= 1) /\ ~ (0 >= 3 + Len(Mounts(choice)))
          /\ \A j \in 1..9 : ~ (0 >= 1 + Len(Mounts(choice)) + j)
      BY <3>1
    <3> QED
      BY <1>1, <3>2, SetupIs DEF Achieved
  <2>10. RunAt(0)'
    BY <1>1, <2>4, <2>5, <2>7, <2>8, <2>9 DEF RunAt
  <2>11. 0 \in Nat /\ choice' # NoChoice /\ cleanups' = CleanupsOf(choice')
    BY <1>1, <1>3
  <2>12. RunInv'
    BY <1>3, <2>10, <2>11 DEF RunInv, MountsUndone, SuccessInstalls
  <2> QED
    BY <2>2, <2>12 DEF IInv
<1> QED
  BY <1>1, <1>2, <1>3 DEF Confirm
LEMMA StepsDoneSafe ==
    ASSUME IInv, StepsDone
    PROVE  IInv'
<1>1. /\ phase = "running" /\ steps = <<>> /\ phase' = "cleaning"
      /\ UNCHANGED <<machine, probed, choice, steps, cleanups, base, runs, silent>>
  BY DEF StepsDone
<1>2. UNCHANGED <<table, fs, files, kind>>
  BY <1>1 DEF machine
<1>3. BaseInv'
  BY <1>1, <1>2, MachineKept, BaseKept DEF IInv
<1>4. choice # NoChoice /\ cleanups = CleanupsOf(choice) /\ Chosen(choice)
  BY <1>1, ChoiceChosen DEF IInv, BaseInv, RunInv
<1>5. PICK n \in Nat : RunAt(n)
  BY <1>1 DEF IInv, RunInv
<1> DEFINE m == Len(Mounts(choice))
<1>6. m \in Nat /\ m >= 2 /\ Len(StepsOf(choice)) = 10 + m
  <2>1. Len(Mounts(choice)) \in Nat
        /\ Len(Mounts(choice)) >= IF choice.xbootldr = None THEN 2 ELSE 3
    BY <1>4, MountsAre
  <2>2. Len(StepsOf(choice)) = 10 + Len(Mounts(choice))
    BY <1>4, StepsAre
  <2> HIDE DEF m
  <2> QED
    BY <2>1, <2>2 DEF m
<1>7. Len(steps) = Len(StepsOf(choice)) - n /\ Len(steps) = 0
  BY <1>1, <1>5 DEF RunAt, Left
<1> HIDE DEF m
<1>8. n = 10 + m
  BY <1>6, <1>7
<1>9. Made(n) = m
  BY <1>6, <1>8 DEF Made, m
<1>10. Kept(0)' = m
  BY <1>1 DEF Kept, m
<1>11. silent = 0 => Grown(table, base, choice, m) /\ (RootFree => Achieved(n))
  BY <1>5, <1>9 DEF RunAt
<1>12. ASSUME Achieved(n) PROVE Installed
  <2>1. n >= 1 /\ n >= 3 + m /\ \A j \in 1..9 : n >= 1 + m + j
    BY <1>6, <1>8
  <2>2. /\ fs[choice.root] = choice.type
        /\ \A j \in 1..9 : Product(j) \in files[choice.root]
        /\ "boot" \in files[BootPartition]
    BY <1>12, <2>1, SetupIs DEF Achieved, m
  <2>3. \A what \in Required : \E j \in 1..9 : Product(j) = what
    <3>1. \A what \in Required :
             what \in {"repo", "rootpw", "user", "userpw", "locale", "timezone", "machineid", "fstab"}
             \/ what = "os"
      BY DEF Required, Artifact
    <3>2. Product(2) = "os" /\ 2 \in 1..9
      BY SetupPlace
    <3> QED
      BY <3>1, <3>2, SetupPlace
  <2>4. Required \subseteq files[choice.root]
    BY <2>2, <2>3
  <2> QED
    BY <2>2, <2>4 DEF Installed, BootPartition
<1>13. CleanupsOf(choice) \in Seq(StepType)
  BY <1>4, CleanupsAre
<1>14. Len(CleanupsOf(choice)) \in Nat
  BY <1>13
<1>15. Left(cleanups, CleanupsOf(choice), 0)
  BY <1>4, <1>13, AllLeft
<1>16. Installed' = Installed
  BY <1>1, <1>2 DEF Installed
<1>17. CleanAt(0)'
  BY <1>1, <1>2, <1>10, <1>11, <1>12, <1>14, <1>15, <1>16 DEF CleanAt, RootFree
<1>18. 0 \in Nat
  OBVIOUS
<1>19. RunInv'
  BY <1>1, <1>4, <1>17, <1>18 DEF RunInv, MountsUndone, SuccessInstalls
<1> QED
  BY <1>3, <1>19 DEF IInv

\* A cleanup undoes the last mount of this run that is left.
LEMMA CleanupSafe ==
    ASSUME IInv, Cleanup
    PROVE  IInv'
<1>1. /\ phase = "cleaning" /\ cleanups # <<>> /\ cleanups' = Tail(cleanups)
      /\ UNCHANGED <<probed, choice, phase, steps, base, runs>>
      /\ IF Head(cleanups).do = "sync" THEN UNCHANGED <<machine, silent>>
         ELSE Unmount(Head(cleanups).at)
  BY DEF Cleanup
<1>2. choice # NoChoice /\ Chosen(choice) /\ TypeOK
  BY <1>1, ChoiceChosen DEF IInv, BaseInv, RunInv
<1>3. PICK n \in Nat : CleanAt(n)
  BY <1>1 DEF IInv, RunInv
<1> DEFINE all == CleanupsOf(choice)
           m == Len(Mounts(choice))
           T == [dev : Partition \cup {Tmpfs}, at : Paths]
           path == Head(cleanups).at
<1>4. m \in Nat /\ m >= 2
  BY <1>2, MountsAre
<1>5. /\ Len(all) = 1 + m /\ all[1] = Do("sync")
      /\ \A k \in 1..m :
            all[1 + k] = [do |-> "umount", dev |-> None, at |-> Mounts(choice)[m + 1 - k].at]
  BY <1>2, CleanupsAre
<1>6. /\ n + 1 \in 1..Len(all) /\ Head(cleanups) = all[n + 1]
      /\ Left(Tail(cleanups), all, n + 1)
  <2>1. Left(cleanups, all, n)
    BY <1>3 DEF CleanAt
  <2>2. Len(all) \in Nat
    BY <1>4, <1>5
  <2> QED
    BY <1>1, <2>1, <2>2, TakeHead
<1>7. table \in Seq(Entry) /\ table \in Seq(T) /\ base \in Seq(T)
  BY <1>2, MachineKept DEF TypeOK
<1>8. /\ UNCHANGED <<fs, files, kind>> /\ silent' \in 0..MaxSilent
      /\ \/ table' = table
         \/ \E i \in DOMAIN table : table' = Detach(table, i)
  <2>1. silent \in 0..MaxSilent
    BY MachineKept
  <2> QED
    BY <1>1, <1>2, <2>1, SilenceCounted DEF Unmount, machine
<1>9. table' \in Seq(Entry)
  <2>1. ASSUME NEW i \in DOMAIN table PROVE Detach(table, i) \in Seq(Entry)
    <3>1. i \in 1..Len(table)
      BY <1>7
    <3> QED
      BY <1>7, <3>1, DetachLeaves
  <2> QED
    BY <1>7, <1>8, <2>1
<1>10. BaseInv'
  <2>1. phase' = "cleaning"
    BY <1>1
  <2> QED
    BY <1>1, <1>8, <1>9, <2>1, MachineKept, BaseKept DEF IInv
<1> HIDE DEF all, m, T, path
<1>11. silent = 0 => Grown(table, base, choice, Kept(n)) /\ (RootFree => Installed)
  BY <1>3 DEF CleanAt
<1>12. ASSUME silent' = 0
       PROVE  silent = 0 /\ Grown(table', base, choice, Kept(n + 1))
  <2>1. CASE n = 0
    <3>1. Head(cleanups).do = "sync"
      BY <1>5, <1>6, <2>1 DEF Do
    <3>2. UNCHANGED <<table, silent>>
      BY <1>1, <3>1 DEF machine
    <3>3. Kept(n) = m /\ Kept(n + 1) = m
      BY <1>4, <2>1 DEF Kept, m
    <3> QED
      BY <1>11, <1>12, <3>2, <3>3
  <2>2. CASE n # 0
    <3>1. n \in 1..m /\ n + 1 = 1 + n
      BY <1>4, <1>5, <1>6, <2>2
    <3>2. Head(cleanups) = [do |-> "umount", dev |-> None, at |-> Mounts(choice)[m + 1 - n].at]
      BY <1>5, <1>6, <3>1
    <3>3. PICK k \in Nat : k >= 1 /\ k = m + 1 - n
      BY <1>4, <3>1
    <3>4. Kept(n) = k /\ Kept(n + 1) = k - 1
      BY <1>4, <2>2, <3>1, <3>3 DEF Kept, m
    <3>5. path = Mounts(choice)[k].at /\ Unmount(path)
      BY <1>1, <3>2, <3>3 DEF path
    <3>6. ~ FailsSilently
      BY <1>2, <1>12, SilenceCounted
    <3>7. silent' = silent
      BY <3>5, <3>6 DEF Unmount
    <3>8. Grown(table, base, choice, k)
      BY <1>11, <1>12, <3>4, <3>7
    <3>9. /\ Len(table) \in 1..Len(table) /\ Detaches(table, Len(table), path)
          /\ \A i \in 1..Len(table) : Detaches(table, i, path) => i = Len(table)
          /\ Grown(Detach(table, Len(table)), base, choice, k - 1)
      BY <1>7, <3>3, <3>5, <3>8, DetachTop
    <3>10. DOMAIN table = 1..Len(table)
      BY <1>7
    <3>11. PICK i \in DOMAIN table : Detaches(table, i, path) /\ table' = Detach(table, i)
      BY <3>5, <3>6, <3>9, <3>10 DEF Unmount
    <3>12. i = Len(table)
      BY <3>9, <3>10, <3>11
    <3> QED
      BY <1>12, <3>4, <3>7, <3>9, <3>11, <3>12
  <2> QED
    BY <2>1, <2>2
<1>13. Installed' = Installed
  BY <1>1, <1>8 DEF Installed
<1>14. Kept(n + 1)' = Kept(n + 1)
  BY <1>1 DEF Kept
<1>15. n + 1 \in 0..Len(all)
  BY <1>6
<1>16. CleanAt(n + 1)'
  BY <1>1, <1>6, <1>11, <1>12, <1>13, <1>14, <1>15 DEF CleanAt, RootFree, all
<1>17. n + 1 \in Nat
  OBVIOUS
<1>18. RunInv'
  BY <1>1, <1>2, <1>16, <1>17 DEF RunInv, MountsUndone, SuccessInstalls
<1> QED
  BY <1>10, <1>18 DEF IInv

\* No cleanup is left, and so no mount of this run.
LEMMA CongratulateSafe ==
    ASSUME IInv, Congratulate
    PROVE  IInv'
<1>1. /\ phase = "cleaning" /\ cleanups = <<>> /\ phase' = "success"
      /\ UNCHANGED <<machine, probed, choice, steps, cleanups, base, runs, silent>>
  BY DEF Congratulate
<1>2. UNCHANGED <<table, fs, files, kind>>
  BY <1>1 DEF machine
<1>3. BaseInv'
  BY <1>1, <1>2, MachineKept, BaseKept DEF IInv
<1>4. choice # NoChoice /\ Chosen(choice) /\ TypeOK
  BY <1>1, ChoiceChosen DEF IInv, BaseInv, RunInv
<1>5. PICK n \in Nat : CleanAt(n)
  BY <1>1 DEF IInv, RunInv
<1> DEFINE m == Len(Mounts(choice))
           T == [dev : Partition \cup {Tmpfs}, at : Paths]
<1>6. m \in Nat /\ m >= 2 /\ Len(CleanupsOf(choice)) = 1 + m
  BY <1>4, MountsAre, CleanupsAre
<1>7. Len(cleanups) = Len(CleanupsOf(choice)) - n /\ Len(cleanups) = 0
  BY <1>1, <1>5 DEF CleanAt, Left
<1>8. table \in Seq(T) /\ base \in Seq(T)
  BY <1>4 DEF TypeOK
<1> HIDE DEF m, T
<1>9. n = 1 + m
  BY <1>6, <1>7
<1>10. Kept(n) = 0
  BY <1>6, <1>9 DEF Kept, m
<1>11. silent = 0 => Grown(table, base, choice, 0) /\ (RootFree => Installed)
  BY <1>5, <1>10 DEF CleanAt
<1>12. ASSUME silent = 0 PROVE table = base
  BY <1>8, <1>11, <1>12, GrownByNone
<1>13. MountsUndone'
  BY <1>1, <1>2, <1>12 DEF MountsUndone
<1>14. SuccessInstalls'
  BY <1>1, <1>2, <1>11 DEF SuccessInstalls, RootFree, Installed
<1>15. RunInv'
  BY <1>1, <1>4, <1>13, <1>14 DEF RunInv
<1> QED
  BY <1>3, <1>15 DEF IInv

LEMMA StutterSafe ==
    ASSUME IInv, UNCHANGED vars
    PROVE  IInv'
<1>1. UNCHANGED <<table, fs, files, kind, probed, choice, phase, steps, cleanups, base, runs, silent>>
  BY DEF vars, machine, program
<1>2. TypeOK' /\ ChoiceInv' /\ KindInv'
  BY <1>1 DEF IInv, BaseInv, TypeOK, ChoiceInv, KindInv
<1>3. ASSUME NEW n \in Nat PROVE RunAt(n)' = RunAt(n) /\ CleanAt(n)' = CleanAt(n)
  BY <1>1 DEF RunAt, CleanAt, Achieved, Made, Kept, RootFree, Installed, BootPartition
<1>4. MountsUndone' /\ SuccessInstalls'
  BY <1>1 DEF IInv, RunInv, MountsUndone, SuccessInstalls, RootFree, Installed
<1>5. RunInv'
  BY <1>1, <1>3, <1>4 DEF IInv, RunInv
<1> QED
  BY <1>2, <1>5 DEF IInv, BaseInv

-----------------------------------------------------------------------------
(***************************************************************************)
(* The theorems.                                                           *)
(***************************************************************************)

\* In every state the answers are partitions of their kinds, and a run is at a place
\* of its list of steps or cleanups with the mounts and the files that place stands
\* for.
THEOREM Invariant == Spec => []IInv
<1>1. Init => IInv
  BY InitSafe
<1>2. IInv /\ [Next]_vars => IInv'
  <2> SUFFICES ASSUME IInv, [Next]_vars PROVE IInv'
    OBVIOUS
  <2>1. CASE Start
    BY <2>1, StartSafe
  <2>2. CASE GiveUp
    BY <2>2, EndSafe DEF GiveUp
  <2>3. CASE Answer
    BY <2>3, AnswerSafe
  <2>4. CASE Confirm
    BY <2>4, ConfirmSafe
  <2>5. CASE Step
    <3>1. CASE FormatPartition
      BY <3>1, FormatSafe
    <3>2. CASE MountPartition
      BY <3>2, MountSafe
    <3>3. CASE AddRepo
      BY <3>3, RepoSafe
    <3>4. CASE InstallPackages
      BY <3>4, PackagesSafe
    <3>5. CASE \E what \in {"rootpw", "user", "userpw", "machineid"} : Accounts(what)
      BY <3>5, AccountsSafe
    <3>6. CASE \E what \in {"locale", "timezone"} : SetRegion(what)
      BY <3>6, RegionSafe
    <3>7. CASE EmitFstab
      BY <3>7, FstabSafe
    <3> QED
      BY <2>5, <3>1, <3>2, <3>3, <3>4, <3>5, <3>6, <3>7 DEF Step
  <2>6. CASE StepFails
    BY <2>6, EndSafe DEF StepFails
  <2>7. CASE StepsDone
    BY <2>7, StepsDoneSafe
  <2>8. CASE Cleanup
    BY <2>8, CleanupSafe
  <2>9. CASE Congratulate
    BY <2>9, CongratulateSafe
  <2>10. CASE UNCHANGED vars
    BY <2>10, StutterSafe
  <2> QED
    BY <2>1, <2>2, <2>3, <2>4, <2>5, <2>6, <2>7, <2>8, <2>9, <2>10 DEF Next
<1> QED
  BY <1>1, <1>2, PTL DEF Spec

\* The state is well typed.
THEOREM TypeCorrect == Spec => []TypeOK
<1>1. IInv => TypeOK
  BY DEF IInv, BaseInv
<1> QED
  BY <1>1, Invariant, PTL

\* What a run has mounted below /tmp/lichen, or found there.
Known == Answered \cup {Tmpfs} \cup {base[i].dev : i \in DOMAIN base}

\* As long as a run lasts nothing else is mounted, whatever fails unseen.
KnownInv == phase \in {"running", "cleaning"} => table \in Seq([dev : Known, at : Paths])

\* A step mounts a partition of the choice, or a directory of the running system.
LEMMA MountKnown ==
    ASSUME IInv, NEW s, s.do = "mount", Executes(s)
    PROVE  [dev |-> s.dev, at |-> s.at] \in [dev : Known, at : Paths]
<1>1. PICK n \in Nat : n + 1 \in 1..Len(StepsOf(choice)) /\ s = StepsOf(choice)[n + 1]
  BY Executed
<1>2. Chosen(choice)
  BY Executed
<1>3. n \in 1..Len(Mounts(choice)) /\ s = Mounts(choice)[n]
  <2>1. \/ n = 0 /\ s = [do |-> "format", dev |-> choice.root, at |-> Root]
        \/ n \in 1..Len(Mounts(choice)) /\ s = Mounts(choice)[n]
        \/ \E j \in 1..9 : n = Len(Mounts(choice)) + j /\ s = Setup[j]
    BY <1>1, <1>2, StepPlace
  <2> QED
    BY <2>1, SetupTasks
<1>4. \/ s = Mount(choice.root, Root) \/ s = Mount(choice.esp, "/efi")
      \/ s = Mount(choice.xbootldr, "/boot")
      \/ \E j \in 1..Len(Binds) : s = Mount(Tmpfs, Binds[j])
  BY <1>2, <1>3, MountsAre
<1>5. s.at \in Paths
  <2>1. Mounts(choice) \in Seq(StepType)
    BY <1>2, MountsAre
  <2>2. s \in StepType
    BY <1>3, <2>1, ElementOfSeq
  <2> QED
    BY <2>2 DEF StepType
<1>6. s.dev \in Answered \cup {Tmpfs}
  BY <1>4 DEF Mount, Answered
<1> QED
  BY <1>5, <1>6 DEF Known

\* Each step keeps it: a mount adds one of these, an umount adds none.
LEMMA KnownKept ==
    ASSUME IInv, KnownInv, [Next]_vars
    PROVE  KnownInv'
<1> DEFINE E == [dev : Known, at : Paths]
<1>1. TypeOK
  BY DEF IInv, BaseInv
<1>2. CASE Start \/ GiveUp \/ Answer \/ StepFails \/ Congratulate
  BY <1>2 DEF KnownInv, Start, GiveUp, Answer, StepFails, Congratulate
<1>3. CASE Confirm
  <2>1. table' = base /\ UNCHANGED <<choice, base>>
    BY <1>3 DEF Confirm, IInv, RunInv, machine
  <2>2. base \in Seq([dev : Partition \cup {Tmpfs}, at : Paths])
    BY <1>1 DEF TypeOK
  <2>3. \A i \in 1..Len(base) : base[i] \in E
    <3> SUFFICES ASSUME NEW i \in 1..Len(base) PROVE base[i] \in E
      OBVIOUS
    <3>1. base[i] \in [dev : Partition \cup {Tmpfs}, at : Paths]
      BY <2>2, ElementOfSeq
    <3>2. i \in DOMAIN base
      BY <2>2
    <3>3. base[i].dev \in Known /\ base[i].at \in Paths
      BY <3>1, <3>2 DEF Known
    <3>4. base[i] = [dev |-> base[i].dev, at |-> base[i].at]
      BY <3>1
    <3> QED
      BY <3>3, <3>4
  <2> HIDE DEF E
  <2>4. base \in Seq(E)
    BY <2>2, <2>3
  <2>5. E' = E
    BY <2>1 DEF E, Known, Answered
  <2> QED
    BY <2>1, <2>4, <2>5 DEF KnownInv, E
<1>4. ASSUME phase \in {"running", "cleaning"}, UNCHANGED <<choice, base>>, table' \in Seq(E)
      PROVE  KnownInv'
  BY <1>4 DEF KnownInv, Known, Answered
<1>5. ASSUME phase \in {"running", "cleaning"} PROVE table \in Seq(E)
  BY <1>5 DEF KnownInv
<1> HIDE DEF E
<1>6. CASE Step
  <2>1. phase = "running" /\ UNCHANGED <<choice, base>>
    BY <1>6 DEF Step, FormatPartition, MountPartition, AddRepo, InstallPackages, Accounts,
                SetRegion, EmitFstab, Executes
  <2>2. CASE MountPartition
    <3>1. PICK s : s.do = "mount" /\ Executes(s) /\
             (table' = Attach(table, [dev |-> s.dev, at |-> s.at]) \/ table' = table)
      BY <2>2 DEF MountPartition, FailsSilently, machine
    <3>2. [dev |-> s.dev, at |-> s.at] \in E
      BY <3>1, MountKnown DEF E
    <3>3. table \in Seq(E)
      BY <1>5, <2>1
    <3>4. table' \in Seq(E)
      BY <3>1, <3>2, <3>3, SMTT(30) DEF Attach
    <3> QED
      BY <1>4, <2>1, <3>4
  <2>3. CASE ~MountPartition
    <3>1. table' = table
      BY <1>6, <2>3 DEF Step, FormatPartition, AddRepo, InstallPackages, Accounts, SetRegion,
                        EmitFstab, Leaves, FailsSilently, machine
    <3> QED
      BY <1>4, <1>5, <2>1, <3>1
  <2> QED
    BY <2>2, <2>3
<1>7. CASE Cleanup
  <2>1. phase = "cleaning" /\ UNCHANGED <<choice, base>> /\ table \in Seq(E)
    BY <1>5, <1>7 DEF Cleanup
  <2>2. table' = table \/ \E i \in DOMAIN table : table' = Detach(table, i)
    BY <1>7 DEF Cleanup, Unmount, FailsSilently, machine
  <2>3. table' \in Seq(E)
    <3>1. ASSUME NEW i \in DOMAIN table PROVE Detach(table, i) \in Seq(E)
      <4>1. i \in 1..Len(table)
        BY <2>1
      <4> QED
        BY <2>1, <4>1, DetachLeaves
    <3> QED
      BY <2>1, <2>2, <3>1
  <2> QED
    BY <1>4, <2>1, <2>3
<1>8. CASE StepsDone \/ UNCHANGED vars
  <2>1. UNCHANGED <<table, choice, base>>
    BY <1>8 DEF StepsDone, vars, machine, program
  <2>2. CASE phase \in {"running", "cleaning"}
    BY <1>4, <1>5, <2>1, <2>2
  <2>3. CASE phase \notin {"running", "cleaning"}
    <3>1. phase' \notin {"running", "cleaning"}
      BY <1>8, <2>3 DEF StepsDone, vars, program
    <3> QED
      BY <3>1 DEF KnownInv
  <2> QED
    BY <2>2, <2>3
<1> QED
  BY <1>2, <1>3, <1>6, <1>7, <1>8 DEF Next

\* Partition p is not of the choice, and no failure unseen makes a way to it.
OutOfReach(p) == p \in Partition \ Answered /\ (silent' = 0 \/ ~IsMounted(base, p))

\* Of the partitions, only those of the choice are changed, and, after a command has
\* failed unseen, those that the run found mounted.
Spared == \A p : OutOfReach(p) => fs'[p] = fs[p] /\ files'[p] = files[p]

\* A lookup below the target does not end in another partition.
LEMMA AtKnown ==
    ASSUME KnownInv, phase = "running", NEW p, p \in Partition \ Answered, ~IsMounted(base, p),
           NEW path
    PROVE  At(path) # p
<1>1. p \notin Known
  BY EngineAssumption DEF Known, IsMounted
<1>2. \A i \in DOMAIN table : table[i].dev \in Known
  <2> SUFFICES ASSUME NEW i \in DOMAIN table PROVE table[i].dev \in Known
    OBVIOUS
  <2>1. table \in Seq([dev : Known, at : Paths])
    BY DEF KnownInv
  <2>2. i \in 1..Len(table)
    BY <2>1
  <2>3. table[i] \in [dev : Known, at : Paths]
    BY <2>1, <2>2, ElementOfSeq
  <2> QED
    BY <2>3
<1>3. At(path) \in Known \cup {Tmpfs}
  BY <1>2, AtSome
<1> QED
  BY <1>1, <1>3 DEF Known

LEMMA FormatSpares ==
    ASSUME IInv, FormatPartition
    PROVE  Spared
<1>1. PICK s : s.do = "format" /\ Executes(s) /\
         (\/ /\ fs' = [fs EXCEPT ![s.dev] = choice.type]
             /\ files' = [files EXCEPT ![s.dev] = {}]
          \/ UNCHANGED machine)
  BY DEF FormatPartition, FailsSilently
<1>2. s = [do |-> "format", dev |-> choice.root, at |-> Root]
  BY <1>1, FormatPlace
<1>3. /\ fs \in [Partition -> FsType \cup {BootType, NoType}]
      /\ files \in [Partition \cup {Tmpfs} -> SUBSET Artifact]
  BY MachineKept
<1>4. s.dev = choice.root
  BY <1>2
<1> QED
  BY <1>1, <1>3, <1>4 DEF Spared, OutOfReach, Answered, machine

\* What a step after the mounts leaves, it leaves on the root, or on what serves the
\* root's directory in its place.
LEMMA LeavingSpares ==
    ASSUME IInv, KnownInv,
           NEW what \in {"repo", "rootpw", "user", "userpw", "locale", "timezone", "machineid", "fstab"},
           Executes(Do(what)), silent' = silent, Leaves({what}, Root)
    PROVE  Spared
<1>1. PICK j \in 1..9 : Setup[j].do = what
  BY SetupPlace
<1>2. silent = 0 => At(Root) = choice.root
  BY <1>1, SetupAt DEF Shown
<1>3. files \in [Partition \cup {Tmpfs} -> SUBSET Artifact]
  BY MachineKept
<1>4. phase = "running"
  BY DEF Executes
<1>5. ASSUME NEW p, OutOfReach(p) PROVE At(Root) # p
  BY <1>2, <1>4, <1>5, AtKnown DEF OutOfReach, Answered
<1>6. fs' = fs /\ files' = [files EXCEPT ![At(Root)] = @ \cup {what}]
  BY DEF Leaves
<1> QED
  BY <1>3, <1>5, <1>6 DEF Spared, OutOfReach

\* The packages go to the root and the boot entries to the boot partition.
LEMMA PackagesSpare ==
    ASSUME IInv, KnownInv, InstallPackages
    PROVE  Spared
<1>1. Executes(Do("packages")) /\ Setup[2].do = "packages" /\ 2 \in 1..9 /\ silent' = silent
  BY SetupPlace DEF InstallPackages
<1>2. silent = 0 => Shown
  BY <1>1, SetupAt
<1> DEFINE a == At(Root)
           boot == At(IF choice.xbootldr = None THEN "/efi" ELSE "/boot")
<1>3. silent = 0 => a \in Answered /\ boot \in Answered
  BY <1>2 DEF Shown, Answered
<1>4. /\ fs' = fs
      /\ files' = [d \in DOMAIN files |-> files[d] \cup (IF d = a THEN {"os"} ELSE {})
                                                    \cup (IF d = boot THEN {"boot"} ELSE {})]
  BY DEF InstallPackages
<1>5. files \in [Partition \cup {Tmpfs} -> SUBSET Artifact]
  BY MachineKept
<1>6. phase = "running"
  BY <1>1 DEF Executes
<1>7. ASSUME NEW p, OutOfReach(p) PROVE a # p /\ boot # p
  <2>1. CASE silent = 0
    BY <1>3, <1>7, <2>1 DEF OutOfReach
  <2>2. CASE silent # 0
    BY <1>1, <1>6, <1>7, <2>2, AtKnown DEF OutOfReach
  <2> QED
    BY <2>1, <2>2
<1> HIDE DEF a, boot
<1> SUFFICES ASSUME NEW p, OutOfReach(p) PROVE files'[p] = files[p]
  BY <1>4 DEF Spared
<1>8. p \in DOMAIN files /\ p # a /\ p # boot
  BY <1>5, <1>7 DEF OutOfReach
<1> QED
  BY <1>4, <1>8

\* Every step of the program spares the other partitions.
LEMMA StepSpares ==
    ASSUME IInv, KnownInv, [Next]_vars
    PROVE  Spared
<1>1. TypeOK
  BY DEF IInv, BaseInv
<1>2. CASE UNCHANGED <<fs, files>>
  BY <1>2 DEF Spared
<1>3. CASE Step
  <2>1. CASE FormatPartition
    BY <2>1, FormatSpares
  <2>2. CASE MountPartition
    BY <1>2, <2>2 DEF MountPartition, FailsSilently, machine
  <2>3. CASE AddRepo
    BY <2>3, LeavingSpares DEF AddRepo
  <2>4. CASE InstallPackages
    BY <2>4, PackagesSpare
  <2>5. CASE \E what \in {"rootpw", "user", "userpw", "machineid"} : Accounts(what)
    <3>1. PICK what \in {"rootpw", "user", "userpw", "machineid"} :
             /\ Executes(Do(what))
             /\ (Leaves({what}, Root) /\ silent' = silent) \/ UNCHANGED <<fs, files>>
      BY <2>5 DEF Accounts, FailsSilently, machine
    <3> QED
      BY <1>2, <3>1, LeavingSpares
  <2>6. CASE \E what \in {"locale", "timezone"} : SetRegion(what)
    BY <2>6, LeavingSpares DEF SetRegion
  <2>7. CASE EmitFstab
    BY <2>7, LeavingSpares DEF EmitFstab
  <2> QED
    BY <1>3, <2>1, <2>2, <2>3, <2>4, <2>5, <2>6, <2>7 DEF Step
<1>4. CASE Start \/ GiveUp \/ Answer \/ Confirm \/ StepFails \/ StepsDone \/ Congratulate
  BY <1>2, <1>4 DEF Start, GiveUp, Answer, Confirm, StepFails, StepsDone, Congratulate, machine
<1>5. CASE Cleanup
  BY <1>2, <1>5 DEF Cleanup, Unmount, FailsSilently, machine
<1>6. CASE UNCHANGED vars
  BY <1>2, <1>6 DEF vars, machine
<1> QED
  BY <1>3, <1>4, <1>5, <1>6 DEF Next

\* A run changes none but the partitions of the choice, whatever other partitions are
\* mounted at the same directories; only where a command has failed unseen can it reach
\* these, and no others even then.
THEOREM OnlyChosenWrittenAlways == Spec => OnlyChosenWritten
<1>1. Init => KnownInv
  BY DEF Init, KnownInv
<1>2. IInv /\ KnownInv /\ [Next]_vars => KnownInv'
  BY KnownKept
<1>3. IInv /\ KnownInv /\ [Next]_vars => Spared
  BY StepSpares
<1>4. Spared =>
         \A p \in Partition \ Answered :
            (silent' = 0 \/ ~IsMounted(base, p)) => fs'[p] = fs[p] /\ files'[p] = files[p]
  BY DEF Spared, OutOfReach
<1> QED
  BY <1>1, <1>2, <1>3, <1>4, Invariant, PTL DEF Spec, OnlyChosenWritten

\* A success without unseen failures leaves the mount table as the run found it.
THEOREM MountsUndoneAlways == Spec => []MountsUndone
<1>1. IInv => MountsUndone
  BY DEF IInv, RunInv
<1> QED
  BY <1>1, Invariant, PTL

\* A success without unseen failures, with a root that mkfs could touch, has formatted
\* the root as confirmed and installed everything, whatever was mounted before.
THEOREM SuccessInstallsAlways == Spec => []SuccessInstalls
<1>1. IInv => SuccessInstalls
  BY DEF IInv, RunInv
<1> QED
  BY <1>1, Invariant, PTL

=============================================================================
