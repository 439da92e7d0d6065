------------------------ MODULE InstallTarget_proofs ------------------------
(***************************************************************************)
(* Theorems about InstallTarget, for every set of devices, requests and    *)
(* mountpoints and every number of faults.                                 *)
(***************************************************************************)
EXTENDS InstallTarget, SequenceTheorems, TLAPS

-----------------------------------------------------------------------------
(***************************************************************************)
(* What resolve_mounts guarantees for every request: it keeps the types,   *)
(* names no mountpoint twice unless the request does, sorts by length, and *)
(* keeps the root.                                                         *)
(***************************************************************************)

\* Resolved mounts over devices D, mountpoints Q, types T and subvol= options S.
Resolved(D, Q, T, S) == [device : D, mountpoint : Q, fstype : T, subvol : S]

\* Probe turns a request into as many resolved mounts, at the same mountpoints.
LEMMA ProbeType ==
    ASSUME NEW D, NEW Q, NEW T, NEW S, "none" \in S,
           NEW mounts \in Seq([device : D, mountpoint : Q]),
           NEW fstype \in [D -> T]
    PROVE  /\ Probe(mounts, fstype) \in Seq(Resolved(D, Q, T, S))
           /\ Len(Probe(mounts, fstype)) = Len(mounts)
           /\ \A i \in 1..Len(mounts) :
                 Probe(mounts, fstype)[i].mountpoint = mounts[i].mountpoint
<1> DEFINE R == Probe(mounts, fstype)
<1>1. DOMAIN mounts = 1..Len(mounts) /\ Len(mounts) \in Nat
  BY LenProperties
<1>2. \A i \in 1..Len(mounts) : mounts[i] \in [device : D, mountpoint : Q]
  BY ElementOfSeq
<1>3. R = [i \in 1..Len(mounts) |->
             [device |-> mounts[i].device, mountpoint |-> mounts[i].mountpoint,
              fstype |-> fstype[mounts[i].device], subvol |-> "none"]]
  BY <1>1 DEF Probe
<1>4. \A i \in 1..Len(mounts) : R[i] \in Resolved(D, Q, T, S)
  BY <1>2, <1>3 DEF Resolved
<1>5. R \in Seq(Resolved(D, Q, T, S)) /\ Len(R) = Len(mounts)
  BY <1>1, <1>3, <1>4
<1>. QED
  BY <1>3, <1>5
\* expand_subvolumes keeps the types, keeps mountpoints distinct and the root in.
LEMMA ExpandType ==
    ASSUME NEW D, NEW Q, NEW T, NEW S, {RootSubvol, HomeSubvol} \subseteq S, Home \in Q,
           NEW mounts \in Seq(Resolved(D, Q, T, S)), Distinct(mounts)
    PROVE  /\ ExpandSubvolumes(mounts) \in Seq(Resolved(D, Q, T, S))
           /\ Distinct(ExpandSubvolumes(mounts))
           /\ HasRoot(mounts) => HasRoot(ExpandSubvolumes(mounts))
           /\ \A i \in DOMAIN ExpandSubvolumes(mounts) :
                 \/ ExpandSubvolumes(mounts)[i].mountpoint = Home
                 \/ \E j \in DOMAIN mounts :
                       ExpandSubvolumes(mounts)[i].mountpoint = mounts[j].mountpoint
<1> DEFINE X == ExpandSubvolumes(mounts)
           R == Resolved(D, Q, T, S)
           B == BtrfsRoots(mounts)
           first == CHOOSE i \in B : \A j \in B : i <= j
           moved == [mounts EXCEPT ![first].subvol = RootSubvol]
           home == [mounts[first] EXCEPT !.mountpoint = Home, !.subvol = HomeSubvol]
<1>1. DOMAIN mounts = 1..Len(mounts) /\ Len(mounts) \in Nat
  BY LenProperties
<1>2. \A i \in 1..Len(mounts) : mounts[i] \in R
  BY ElementOfSeq
<1>3. CASE B = {}
  <2>1. X = mounts
    BY <1>3 DEF ExpandSubvolumes
  <2>. QED
    BY <2>1
<1>4. CASE B # {}
  <2>1. PICK r \in B : TRUE
    BY <1>4
  <2>2. B = {r} /\ r \in 1..Len(mounts)
    BY <2>1, <1>1 DEF BtrfsRoots, Distinct
  <2>3. first = r
    BY <2>2
  <2>4. /\ moved \in Seq(R)
        /\ Len(moved) = Len(mounts)
        /\ DOMAIN moved = 1..Len(mounts)
        /\ \A i \in 1..Len(mounts) : moved[i].mountpoint = mounts[i].mountpoint
    <3>1. moved = [mounts EXCEPT ![r] = [mounts[r] EXCEPT !.subvol = RootSubvol]]
      BY <2>2, <2>3, <1>1
    <3>2. [mounts[r] EXCEPT !.subvol = RootSubvol] \in R
      BY <1>2, <2>2 DEF Resolved
    <3>3. [mounts[r] EXCEPT !.subvol = RootSubvol].mountpoint = mounts[r].mountpoint
      BY <1>2, <2>2 DEF Resolved
    <3>4. /\ moved \in Seq(R)
          /\ Len(moved) = Len(mounts)
          /\ \A j \in 1..Len(mounts) :
                moved[j] = IF j = r THEN [mounts[r] EXCEPT !.subvol = RootSubvol] ELSE mounts[j]
      BY <3>1, <3>2, <2>2, ExceptSeq
    <3>. QED
      BY <3>3, <3>4, <1>1, LenProperties
  <2>5. CASE \E i \in DOMAIN mounts : mounts[i].mountpoint = Home
    <3>1. X = moved
      BY <1>4, <2>5 DEF ExpandSubvolumes
    <3>. HIDE DEF moved
    <3>. QED
      BY <3>1, <2>4, <1>1 DEF Distinct, HasRoot
  <2>6. CASE ~\E i \in DOMAIN mounts : mounts[i].mountpoint = Home
    <3>1. X = Append(moved, home)
      BY <1>4, <2>6 DEF ExpandSubvolumes
    <3>2. home \in R /\ home.mountpoint = Home
      BY <1>2, <2>2, <2>3 DEF Resolved
    <3>. HIDE DEF moved, home
    <3>3. /\ X \in Seq(R)
          /\ Len(X) = Len(mounts) + 1
          /\ X[Len(X)] = home
          /\ \A i \in 1..Len(mounts) : X[i] = moved[i]
          /\ DOMAIN X = 1..(Len(mounts) + 1)
      BY <3>1, <3>2, <2>4, <1>1, AppendProperties, LenProperties
    <3>4. /\ \A i \in 1..Len(mounts) : X[i].mountpoint = mounts[i].mountpoint
          /\ X[Len(mounts) + 1].mountpoint = Home
      BY <3>2, <3>3, <2>4
    <3>5. \A i \in 1..(Len(mounts) + 1) : i \in 1..Len(mounts) \/ i = Len(mounts) + 1
      BY <1>1
    <3>6. \A i \in 1..Len(mounts) : mounts[i].mountpoint # Home
      BY <2>6, <1>1
    <3>7. Distinct(X)
      <4> SUFFICES ASSUME NEW i \in 1..(Len(mounts) + 1), NEW j \in 1..(Len(mounts) + 1), i # j
                   PROVE  X[i].mountpoint # X[j].mountpoint
        BY <3>3 DEF Distinct
      <4>1. CASE i \in 1..Len(mounts) /\ j \in 1..Len(mounts)
        BY <4>1, <3>4, <1>1 DEF Distinct
      <4>2. CASE i = Len(mounts) + 1
        BY <4>2, <3>4, <3>5, <3>6
      <4>3. CASE j = Len(mounts) + 1
        BY <4>3, <3>4, <3>5, <3>6
      <4>. QED
        BY <4>1, <4>2, <4>3, <3>5
    <3>8. HasRoot(mounts) => HasRoot(X)
      BY <3>3, <3>4, <1>1 DEF HasRoot
    <3>9. \A i \in DOMAIN X : \/ X[i].mountpoint = Home
                             \/ \E j \in DOMAIN mounts : X[i].mountpoint = mounts[j].mountpoint
      BY <3>3, <3>4, <3>5, <1>1
    <3>. QED
      BY <3>3, <3>7, <3>8, <3>9
  <2>. QED
    BY <2>5, <2>6
<1>. QED
  BY <1>3, <1>4

\* What a caller may rely on: typed, absolute, distinct, sorted by length, with a
\* root if the request has one, and no mountpoint but /home and the request's.
WellResolved(mounts, resolved, D, T, S) ==
    /\ resolved \in Seq(Resolved(D, Mountpoint, T, S))
    /\ Distinct(resolved)
    /\ Sorted(resolved)
    /\ HasRoot(mounts) => HasRoot(resolved)
    /\ \A i \in DOMAIN resolved :
          \/ resolved[i].mountpoint = Home
          \/ \E j \in DOMAIN mounts : resolved[i].mountpoint = mounts[j].mountpoint

\* resolve_mounts gives its callers well resolved mounts, whatever order the
\* request lists them in: a parent directory is shorter than its children, so it
\* is mounted before them.
THEOREM ResolveMountsCorrect ==
    ASSUME NEW D, NEW Q, NEW T, NEW S,
           "none" \in S, RootSubvol \in S, HomeSubvol \in S, Home \in Q,
           NEW mounts \in Seq([device : D, mountpoint : Q]), Distinct(mounts),
           NEW fstype \in [D -> T],
           NEW resolved \in Resolutions(mounts, fstype)
    PROVE  WellResolved(mounts, resolved, D, T, S)
<1> DEFINE probed == Probe(mounts, fstype)
           expanded == ExpandSubvolumes(probed)
           A == Absolute(expanded)
<1>1. /\ probed \in Seq(Resolved(D, Q, T, S))
      /\ Len(probed) = Len(mounts)
      /\ \A i \in 1..Len(mounts) : probed[i].mountpoint = mounts[i].mountpoint
  <2>1. "none" \in S
    OBVIOUS
  <2>2. probed \in Seq(Resolved(D, Q, T, S))
    BY <2>1, ProbeType
  <2>. QED
    BY <2>2, <2>1, ProbeType
<1>2. DOMAIN mounts = 1..Len(mounts) /\ DOMAIN probed = 1..Len(mounts)
  BY <1>1, LenProperties
<1>3. Distinct(probed) /\ (HasRoot(mounts) => HasRoot(probed))
  BY <1>1, <1>2 DEF Distinct, HasRoot
<1>4. /\ expanded \in Seq(Resolved(D, Q, T, S))
      /\ Distinct(expanded)
      /\ HasRoot(probed) => HasRoot(expanded)
      /\ \A i \in DOMAIN expanded :
            \/ expanded[i].mountpoint = Home
            \/ \E j \in DOMAIN probed : expanded[i].mountpoint = probed[j].mountpoint
  BY <1>1, <1>3, ExpandType
<1>5. PICK p \in SortedOrders(expanded) : resolved = [i \in DOMAIN p |-> expanded[p[i]]]
  BY DEF Resolutions
<1>6. PICK n \in 0..Len(expanded) :
         /\ p \in [1..n -> A]
         /\ \A k \in A : \E i \in 1..n : p[i] = k
         /\ \A i, j \in 1..n : i < j => SortsBefore(expanded, p[i], p[j])
  <2>1. PICK n \in 0..Len(expanded) : p \in [1..n -> A]
    BY <1>5 DEF SortedOrders
  <2>2. DOMAIN p = 1..n
    BY <2>1
  <2>3. /\ \A k \in A : \E i \in DOMAIN p : p[i] = k
        /\ \A i, j \in DOMAIN p : i < j => SortsBefore(expanded, p[i], p[j])
    <3>. HIDE DEF expanded
    <3>. QED
      BY <1>5 DEF SortedOrders
  <2>. QED
    BY <2>1, <2>2, <2>3
<1>7. Len(expanded) \in Nat /\ DOMAIN expanded = 1..Len(expanded) /\ n \in Nat
  BY <1>4, LenProperties
<1>8. resolved = [i \in 1..n |-> expanded[p[i]]]
  BY <1>5, <1>6
<1>9. \A i \in 1..n : /\ p[i] \in 1..Len(expanded)
                      /\ resolved[i] = expanded[p[i]]
                      /\ resolved[i] \in Resolved(D, Q, T, S)
                      /\ resolved[i].mountpoint \in Mountpoint
  <2> SUFFICES ASSUME NEW i \in 1..n
               PROVE  /\ p[i] \in 1..Len(expanded)
                      /\ resolved[i] = expanded[p[i]]
                      /\ resolved[i] \in Resolved(D, Q, T, S)
                      /\ resolved[i].mountpoint \in Mountpoint
    OBVIOUS
  <2>1. p[i] \in A /\ resolved[i] = expanded[p[i]]
    BY <1>6, <1>8
  <2>2. p[i] \in 1..Len(expanded) /\ expanded[p[i]].mountpoint \in Mountpoint
    BY <2>1, <1>7 DEF Absolute
  <2>3. expanded[p[i]] \in Resolved(D, Q, T, S)
    BY <2>2, <1>4, ElementOfSeq
  <2>. QED
    BY <2>1, <2>2, <2>3
<1>10. \A i \in 1..n : resolved[i] \in Resolved(D, Mountpoint, T, S)
  BY <1>9 DEF Resolved
<1>11. resolved \in Seq(Resolved(D, Mountpoint, T, S)) /\ DOMAIN resolved = 1..n
  BY <1>7, <1>8, <1>10
<1>12. \A i, j \in 1..n : i < j =>
          /\ p[i] # p[j]
          /\ Length[resolved[i].mountpoint] <= Length[resolved[j].mountpoint]
  <2> SUFFICES ASSUME NEW i \in 1..n, NEW j \in 1..n, i < j
               PROVE  /\ p[i] # p[j]
                      /\ Length[resolved[i].mountpoint] <= Length[resolved[j].mountpoint]
    OBVIOUS
  <2>1. SortsBefore(expanded, p[i], p[j])
    BY <1>6
  <2>2. /\ Length[expanded[p[i]].mountpoint] \in Nat
        /\ Length[expanded[p[j]].mountpoint] \in Nat
    BY <1>9, MountpointAssumption
  <2>3. p[i] \in Nat /\ p[j] \in Nat
    BY <1>9, <1>7
  <2>4. resolved[i] = expanded[p[i]] /\ resolved[j] = expanded[p[j]]
    BY <1>9
  <2>. HIDE DEF expanded
  <2>. QED
    BY <2>1, <2>2, <2>3, <2>4, SMTT(30) DEF SortsBefore
<1>13. Sorted(resolved)
  BY <1>11, <1>12 DEF Sorted
<1>14. Distinct(resolved)
  <2> SUFFICES ASSUME NEW i \in 1..n, NEW j \in 1..n, i # j
               PROVE  resolved[i].mountpoint # resolved[j].mountpoint
    BY <1>11 DEF Distinct
  <2>1. p[i] # p[j]
    <3>1. i < j \/ j < i
      BY <1>7
    <3>. QED
      BY <3>1, <1>12
  <2>. QED
    BY <2>1, <1>4, <1>7, <1>9 DEF Distinct
<1>15. HasRoot(mounts) => HasRoot(resolved)
  <2> SUFFICES ASSUME HasRoot(expanded)
               PROVE  HasRoot(resolved)
    BY <1>3, <1>4
  <2>1. PICK k \in DOMAIN expanded : expanded[k].mountpoint = Root
    BY DEF HasRoot
  <2>2. k \in A
    BY <2>1, MountpointAssumption DEF Absolute
  <2>3. PICK i \in 1..n : p[i] = k
    BY <2>2, <1>6
  <2>. QED
    BY <2>1, <2>3, <1>9, <1>11 DEF HasRoot
<1>16. \A i \in 1..n :
          \/ resolved[i].mountpoint = Home
          \/ \E j \in DOMAIN mounts : resolved[i].mountpoint = mounts[j].mountpoint
  <2> SUFFICES ASSUME NEW i \in 1..n, resolved[i].mountpoint # Home
               PROVE  \E j \in DOMAIN mounts : resolved[i].mountpoint = mounts[j].mountpoint
    OBVIOUS
  <2>1. PICK j \in DOMAIN probed : resolved[i].mountpoint = probed[j].mountpoint
    BY <1>4, <1>7, <1>9, SMTT(30)
  <2>. QED
    BY <2>1, <1>1, <1>2
<1>. QED
  BY <1>11, <1>13, <1>14, <1>15, <1>16 DEF WellResolved

\* expand_subvolumes takes every entry from an entry of its input, of the same
\* device, and moves the root, and nothing else, onto @.
LEMMA ExpandEntries ==
    ASSUME NEW D, NEW Q, NEW T, NEW S, {RootSubvol, HomeSubvol} \subseteq S, Home \in Q,
           NEW mounts \in Seq(Resolved(D, Q, T, S)), Distinct(mounts),
           NEW i \in DOMAIN ExpandSubvolumes(mounts)
    PROVE  LET x == ExpandSubvolumes(mounts)[i]
           IN  \E j \in DOMAIN mounts :
                  /\ x.device = mounts[j].device
                  /\ x.mountpoint = Root =>
                        /\ mounts[j].mountpoint = Root
                        /\ x.fstype = mounts[j].fstype
                        /\ x.subvol = IF x.fstype = "btrfs" THEN RootSubvol ELSE mounts[j].subvol
<1> DEFINE X == ExpandSubvolumes(mounts)
           R == Resolved(D, Q, T, S)
           B == BtrfsRoots(mounts)
           first == CHOOSE k \in B : \A l \in B : k <= l
           moved == [mounts EXCEPT ![first].subvol = RootSubvol]
           home == [mounts[first] EXCEPT !.mountpoint = Home, !.subvol = HomeSubvol]
           From(x, j) ==
              /\ x.device = mounts[j].device
              /\ x.mountpoint = Root =>
                    /\ mounts[j].mountpoint = Root
                    /\ x.fstype = mounts[j].fstype
                    /\ x.subvol = IF x.fstype = "btrfs" THEN RootSubvol ELSE mounts[j].subvol
<1>1. DOMAIN mounts = 1..Len(mounts) /\ Len(mounts) \in Nat
  BY LenProperties
<1>2. \A k \in 1..Len(mounts) : mounts[k] \in R
  BY ElementOfSeq
<1>3. CASE B = {}
  <2>1. X = mounts
    BY <1>3 DEF ExpandSubvolumes
  <2>2. From(X[i], i)
    BY <1>3, <2>1 DEF BtrfsRoots
  <2>. QED
    BY <2>1, <2>2
<1>4. CASE B # {}
  <2>1. PICK r \in B : TRUE
    BY <1>4
  <2>2. B = {r} /\ r \in 1..Len(mounts)
    BY <2>1, <1>1 DEF BtrfsRoots, Distinct
  <2>3. first = r /\ mounts[r].mountpoint = Root /\ mounts[r].fstype = "btrfs" /\ mounts[r] \in R
    BY <1>2, <2>2 DEF BtrfsRoots
  <2>4. moved = [mounts EXCEPT ![r] = [mounts[r] EXCEPT !.subvol = RootSubvol]]
    BY <2>3
  <2>5. /\ moved \in Seq(R)
        /\ Len(moved) = Len(mounts)
        /\ \A k \in 1..Len(mounts) :
              moved[k] = IF k = r THEN [mounts[r] EXCEPT !.subvol = RootSubvol] ELSE mounts[k]
    <3>1. [mounts[r] EXCEPT !.subvol = RootSubvol] \in R
      BY <2>3 DEF Resolved
    <3>. QED
      BY <2>2, <2>4, <3>1, ExceptSeq
  <2>6. \A k \in 1..Len(mounts) : From(moved[k], k)
    <3> SUFFICES ASSUME NEW k \in 1..Len(mounts) PROVE From(moved[k], k)
      OBVIOUS
    <3>1. CASE k = r
      <4>1. moved[k] = [mounts[r] EXCEPT !.subvol = RootSubvol]
        BY <2>5, <3>1
      <4>. QED
        BY <2>3, <3>1, <4>1, ZenonT(40) DEF Resolved
    <3>2. CASE k # r
      <4>1. moved[k] = mounts[k]
        BY <2>5, <3>2
      <4>2. mounts[k].mountpoint = Root => mounts[k].fstype # "btrfs"
        BY <1>1, <2>2, <3>2 DEF BtrfsRoots
      <4>. HIDE DEF moved
      <4>. QED
        BY <4>1, <4>2
    <3>. QED
      BY <3>1, <3>2
  <2>7. CASE \E k \in DOMAIN mounts : mounts[k].mountpoint = Home
    <3>1. X = moved
      BY <1>4, <2>7 DEF ExpandSubvolumes
    <3>. HIDE DEF moved, From
    <3>2. i \in 1..Len(mounts)
      BY <3>1, <2>5, LenProperties
    <3>3. From(X[i], i)
      BY <2>6, <3>1, <3>2
    <3>. QED
      BY <1>1, <3>2, <3>3 DEF From
  <2>8. CASE ~\E k \in DOMAIN mounts : mounts[k].mountpoint = Home
    <3>1. X = Append(moved, home)
      BY <1>4, <2>8 DEF ExpandSubvolumes
    <3>2. home \in R /\ home.mountpoint # Root /\ home.device = mounts[r].device
      BY <2>3 DEF Resolved, Home, Root
    <3>3. From(home, r)
      BY <3>2
    <3>. HIDE DEF moved, home, From
    <3>4. /\ DOMAIN X = 1..(Len(mounts) + 1)
          /\ X[Len(mounts) + 1] = home
          /\ \A k \in 1..Len(mounts) : X[k] = moved[k]
      BY <3>1, <3>2, <2>5, AppendProperties, LenProperties
    <3>5. i \in 1..Len(mounts) \/ i = Len(mounts) + 1
      BY <1>1, <3>4
    <3>6. \E k \in DOMAIN mounts : From(X[i], k)
      BY <1>1, <2>2, <2>6, <3>3, <3>4, <3>5
    <3>. QED
      BY <3>6 DEF From
  <2>. QED
    BY <2>7, <2>8
<1>. QED
  BY <1>3, <1>4

\* Every resolved mount is of a requested device, and the root is the requested
\* root, on @ if blkid finds btrfs there and without a subvolume if not.
TakenFrom(mounts, resolved, fstype) ==
    \A i \in DOMAIN resolved : \E j \in DOMAIN mounts :
        /\ resolved[i].device = mounts[j].device
        /\ resolved[i].mountpoint = Root =>
              /\ mounts[j].mountpoint = Root
              /\ resolved[i].fstype = fstype[mounts[j].device]
              /\ resolved[i].subvol = IF resolved[i].fstype = "btrfs" THEN RootSubvol ELSE "none"

\* resolve_mounts makes up no mount: see TakenFrom.
THEOREM ResolutionEntries ==
    ASSUME NEW D, NEW Q, NEW T, Home \in Q,
           NEW mounts \in Seq([device : D, mountpoint : Q]), Distinct(mounts),
           NEW fstype \in [D -> T],
           NEW resolved \in Resolutions(mounts, fstype)
    PROVE  TakenFrom(mounts, resolved, fstype)
<1> SUFFICES ASSUME NEW i \in DOMAIN resolved
             PROVE  \E j \in DOMAIN mounts :
                /\ resolved[i].device = mounts[j].device
                /\ resolved[i].mountpoint = Root =>
                      /\ mounts[j].mountpoint = Root
                      /\ resolved[i].fstype = fstype[mounts[j].device]
                      /\ resolved[i].subvol = IF resolved[i].fstype = "btrfs" THEN RootSubvol ELSE "none"
  BY DEF TakenFrom
<1> DEFINE S == {"none", RootSubvol, HomeSubvol}
           probed == Probe(mounts, fstype)
           expanded == ExpandSubvolumes(probed)
<1>1. DOMAIN mounts = 1..Len(mounts) /\ Len(mounts) \in Nat
  BY LenProperties
<1>2. /\ probed \in Seq(Resolved(D, Q, T, S))
      /\ Len(probed) = Len(mounts)
      /\ \A k \in 1..Len(mounts) : probed[k].mountpoint = mounts[k].mountpoint
  <2>1. "none" \in S
    OBVIOUS
  <2>. HIDE DEF S
  <2>2. probed \in Seq(Resolved(D, Q, T, S))
    BY <2>1, ProbeType
  <2>. QED
    BY <2>1, <2>2, ProbeType
<1>3. DOMAIN probed = DOMAIN mounts
  BY <1>1, <1>2, LenProperties
<1>4. Distinct(probed)
  BY <1>1, <1>2, <1>3 DEF Distinct
<1>5. \A k \in DOMAIN mounts :
         probed[k] = [device |-> mounts[k].device, mountpoint |-> mounts[k].mountpoint,
                      fstype |-> fstype[mounts[k].device], subvol |-> "none"]
  BY DEF Probe
<1>6. PICK p \in SortedOrders(expanded) : resolved = [k \in DOMAIN p |-> expanded[p[k]]]
  BY DEF Resolutions
<1>7. p[i] \in DOMAIN expanded /\ resolved[i] = expanded[p[i]]
  <2>1. PICK n \in 0..Len(expanded) : p \in [1..n -> Absolute(expanded)]
    BY <1>6 DEF SortedOrders
  <2>. HIDE DEF expanded
  <2>2. i \in 1..n
    BY <1>6, <2>1
  <2>. QED
    BY <1>6, <2>1, <2>2 DEF Absolute
<1>8. PICK j \in DOMAIN probed :
         /\ expanded[p[i]].device = probed[j].device
         /\ expanded[p[i]].mountpoint = Root =>
               /\ probed[j].mountpoint = Root
               /\ expanded[p[i]].fstype = probed[j].fstype
               /\ expanded[p[i]].subvol = IF expanded[p[i]].fstype = "btrfs" THEN RootSubvol
                                          ELSE probed[j].subvol
  <2>1. {RootSubvol, HomeSubvol} \subseteq S
    OBVIOUS
  <2>. HIDE DEF probed, S
  <2>. QED
    BY <1>2, <1>4, <1>7, <2>1, ExpandEntries
<1>9. /\ probed[j].device = mounts[j].device
      /\ probed[j].mountpoint = mounts[j].mountpoint
      /\ probed[j].fstype = fstype[mounts[j].device]
      /\ probed[j].subvol = "none"
  <2>. HIDE DEF probed
  <2>. QED
    BY <1>3, <1>5, <1>8
<1>. HIDE DEF probed, expanded
<1>. QED
  BY <1>3, <1>7, <1>8, <1>9

\* Resolving the same request again, with the same filesystems on it, gives the
\* same mounts.
LEMMA ResolutionsAgree ==
    ASSUME NEW mounts, NEW fstype,
           NEW a \in Resolutions(mounts, fstype), NEW b \in Resolutions(mounts, fstype),
           NEW i \in DOMAIN a
    PROVE  \E j \in DOMAIN b : b[j] = a[i]
<1> DEFINE expanded == ExpandSubvolumes(Probe(mounts, fstype))
<1>1. PICK p \in SortedOrders(expanded) : a = [k \in DOMAIN p |-> expanded[p[k]]]
  BY DEF Resolutions
<1>2. PICK q \in SortedOrders(expanded) : b = [k \in DOMAIN q |-> expanded[q[k]]]
  BY DEF Resolutions
<1>. HIDE DEF expanded
<1>3. p[i] \in Absolute(expanded)
  <2>1. PICK n \in 0..Len(expanded) : p \in [1..n -> Absolute(expanded)]
    BY <1>1 DEF SortedOrders
  <2>. QED
    BY <1>1, <2>1
<1>4. PICK j \in DOMAIN q : q[j] = p[i]
  BY <1>2, <1>3 DEF SortedOrders
<1>. QED
  BY <1>1, <1>2, <1>4


-----------------------------------------------------------------------------
(***************************************************************************)
(* Type correctness.                                                       *)
(***************************************************************************)

\* Writing files keeps the disks typed and makes only devices dirty.
LEMMA StoreType ==
    ASSUME TypeOK, NEW added, NEW removed, Store(added, removed),
           \A x \in added : x[2] \in Artifact
    PROVE  disk' \in [Device -> DiskType] /\ dirty' \subseteq Device
<1> DEFINE files(d) == [v \in Volume |->
              (disk[d].files[v] \ {a \in removed : Shows(Root, d, v)})
                 \cup {x[2] : x \in {y \in added : Shows(y[1], d, v)}}]
<1>1. disk' = [d \in Device |-> [disk[d] EXCEPT !.files = files(d)]]
  BY DEF Store
<1>2. ASSUME NEW d \in Device
      PROVE  [disk[d] EXCEPT !.files = files(d)] \in DiskType
  <2>1. disk[d] \in DiskType
    BY DEF TypeOK
  <2>2. ASSUME NEW v \in Volume
        PROVE  files(d)[v] \in SUBSET Artifact
    <3>1. disk[d].files[v] \in SUBSET Artifact
      BY <2>1 DEF DiskType
    <3>. QED
      BY <3>1
  <2>3. files(d) \in [Volume -> SUBSET Artifact]
    BY <2>2
  <2>. HIDE DEF files
  <2>. QED
    BY <2>1, <2>3 DEF DiskType
<1>3. dirty' \subseteq Device
  BY DEF Store, TypeOK
<1>. HIDE DEF files
<1>. QED
  BY <1>1, <1>2, <1>3

\* Taking an entry out of a mount table leaves a mount table.
LEMMA DetachType ==
    ASSUME NEW S, NEW s \in Seq(S), NEW i \in DOMAIN s
    PROVE  Detach(s, i) \in Seq(S)
<1>1. i \in 1..Len(s) /\ Len(s) \in Nat
  BY LenProperties
<1>2. SubSeq(s, 1, i - 1) \in Seq(S) /\ SubSeq(s, i + 1, Len(s)) \in Seq(S)
  BY <1>1, SubSeqProperties
<1>3. Detach(s, i) = SubSeq(s, 1, i - 1) \o SubSeq(s, i + 1, Len(s))
  BY DEF Detach, RemoveAt
<1>. QED
  BY <1>2, <1>3, ConcatProperties

\* umount(8) of any path leaves a mount table and typed control, whatever it
\* meets.
LEMMA UnmountType ==
    ASSUME TypeOK, NEW path, Unmount(path)
    PROVE  /\ table' \in Seq(MountType)
           /\ dirty' \subseteq Device
           /\ stuck' \in BOOLEAN
           /\ faults' \in 0..MaxFaults
<1>1. CASE \E i \in DOMAIN table : Detaches(table, i, path) /\ Detached(i)
  BY <1>1, DetachType DEF Detached, TypeOK
<1>2. CASE UNCHANGED <<table, dirty, stuck, faults>>
  BY <1>2 DEF TypeOK
<1>3. CASE faults < MaxFaults /\ faults' = faults + 1 /\ stuck' = TRUE /\ UNCHANGED <<table, dirty>>
  BY <1>3, InstallAssumption DEF TypeOK
<1>. QED
  BY <1>1, <1>2, <1>3 DEF Unmount

\* What resolve_mounts makes of a request is orderly, and keeps its root.
LEMMA ResolutionsOrderly ==
    ASSUME TypeOK, NEW resolved \in Resolutions(request.mounts, ProbedType)
    PROVE  /\ resolved \in Seq(ResolvedType)
           /\ Orderly(resolved)
           /\ HasRoot(request.mounts) => HasRoot(resolved)
<1> DEFINE m == request.mounts
<1>1. /\ m \in Seq([device : Device, mountpoint : Mountpoint \cup Relative])
      /\ Distinct(m)
      /\ \A i \in DOMAIN m, b \in DOMAIN Binds : ~Covers(Binds[b], m[i].mountpoint)
      /\ \A b \in DOMAIN Binds : ~Covers(Binds[b], Home)
  BY RequestAssumption DEF TypeOK, Distinct
<1>2. ProbedType \in [Device -> FsType]
  BY DEF ProbedType, TypeOK, DiskType
<1>3. "none" \in Subvol /\ RootSubvol \in Subvol /\ HomeSubvol \in Subvol
  BY DEF Subvol, Volume, RootSubvol, HomeSubvol
<1>4. Home \in Mountpoint \cup Relative
  BY MountpointAssumption
<1>. HIDE DEF m
<1>5. WellResolved(m, resolved, Device, FsType, Subvol)
  <2>1. resolved \in Resolutions(m, ProbedType)
    BY DEF m
  <2>. QED
    BY <1>1, <1>2, <1>3, <1>4, <2>1, ResolveMountsCorrect
<1>6. \A i \in DOMAIN resolved, b \in DOMAIN Binds : ~Covers(Binds[b], resolved[i].mountpoint)
  BY <1>1, <1>5 DEF WellResolved
<1>. QED
  BY <1>5, <1>6 DEF WellResolved, Orderly, Resolved, ResolvedType, m

\* Every value pc is given is a control point.
LEMMA ControlPoints ==
    /\ \A s \in TopSteps \cup ModelSteps \cup ChrootSteps \cup {"idle", "mount", "unwind"} :
          s \in Control
    /\ \A s \in Settings : After(s) \in Control
  BY DEF Control, TopSteps, ModelSteps, ChrootSteps, ConfigSteps, Settings, After

\* The schedule is a sequence of mounts that starts with the plan and ends with
\* the bind mounts.
LEMMA ScheduleType ==
    ASSUME TypeOK
    PROVE  /\ Schedule \in Seq(MountType)
           /\ Len(Schedule) = Len(plan) + 5
           /\ \A i \in 1..Len(plan) : Schedule[i] = MountEntry(plan[i])
           /\ \A i \in (Len(plan) + 1)..(Len(plan) + 5) :
                 Schedule[i] = Entry(HostFs, "none", Binds[i - Len(plan)])
<1>1. Len(plan) \in Nat /\ DOMAIN plan = 1..Len(plan)
  BY LenProperties DEF TypeOK
<1>2. Len(Binds) = 5 /\ DOMAIN Binds = 1..5 /\ \A i \in 1..5 : Binds[i] \in Mountpoint
  BY InstallAssumption DEF Binds
<1>3. Schedule = [i \in 1..(Len(plan) + 5) |->
                    IF i <= Len(plan) THEN MountEntry(plan[i])
                    ELSE Entry(HostFs, "none", Binds[i - Len(plan)])]
  BY <1>2 DEF Schedule
<1>4. ASSUME NEW i \in 1..Len(plan)
      PROVE  MountEntry(plan[i]) \in MountType
  <2>1. plan[i] \in ResolvedType
    BY ElementOfSeq DEF TypeOK
  <2>. QED
    BY <2>1 DEF MountEntry, Entry, ResolvedType, MountType
<1>5. ASSUME NEW i \in 1..5
      PROVE  Entry(HostFs, "none", Binds[i]) \in MountType
  BY <1>2 DEF Entry, MountType, Subvol
<1>6. \A i \in 1..(Len(plan) + 5) : Schedule[i] \in MountType
  BY <1>1, <1>3, <1>4, <1>5
<1>. QED
  BY <1>1, <1>3, <1>6

\* The machine before the first run is well typed.
LEMMA InitType == Init => TypeOK
<1> SUFFICES ASSUME Init PROVE TypeOK
  OBVIOUS
<1>1. \A d \in Device : Formatted("none") \in DiskType
  BY DEF Formatted, DiskType, FsType, Volume
<1>2. /\ disk \in [Device -> DiskType]
      /\ 0 \in 0..MaxFaults
      /\ pc \in Control
  BY <1>1, InstallAssumption, ControlPoints DEF Init
<1>3. <<>> \in Seq(MountType) /\ <<>> \in Seq(ResolvedType) /\ <<>> \in Seq(Mountpoint)
  BY EmptySeq
<1>. QED
  BY <1>2, <1>3 DEF Init, TypeOK

\* An answered call leaves a stage and a control point.
LEMMA ReturnType ==
    ASSUME NEW good, Return(good)
    PROVE  pc' \in Control /\ stage' \in {"idle", "formatted", "written", "installed"}
  BY ControlPoints DEF Return

\* ApplyStrategy, seen from here, formats the partitions of the layout and no
\* more.
LEMMA FormatType ==
    ASSUME TypeOK, NEW r \in Requests, Format(r)
    PROVE  TypeOK'
<1>1. \A d \in Device : Formatted(r.fstype[d]) \in DiskType
  BY RequestAssumption DEF Formatted, DiskType, Volume
<1>2. disk' \in [Device -> DiskType]
  BY <1>1 DEF Format, TypeOK
<1>. QED
  BY <1>2 DEF Format, TypeOK, ghost

\* Every call that begins or is refused starts from a typed plan.
LEMMA BeginType ==
    ASSUME TypeOK, NEW kind \in {"write", "install"}, NEW first \in Control,
           NEW mounts \in Seq(ResolvedType), Begin(kind, first, mounts)
    PROVE  TypeOK'
<1>1. <<>> \in Seq(Mountpoint)
  BY EmptySeq
<1>. QED
  BY <1>1 DEF Begin, TypeOK, machine, client

\* A call refused before it mounts anything keeps the machine as it is.
LEMMA RefuseType ==
    ASSUME TypeOK, NEW kind \in {"write", "install"}, Refuse(kind)
    PROVE  TypeOK'
<1>1. <<>> \in Seq(ResolvedType)
  BY EmptySeq
<1>. QED
  BY <1>1, ControlPoints DEF Refuse, TypeOK, machine

\* The plan of WriteSystemModel is the one root mount.
LEMMA ModelPlan ==
    ASSUME TypeOK, NEW i \in DOMAIN request.mounts,
           NEW sub \in {RootSubvol, "none"}
    PROVE  LET d == request.mounts[i].device
           IN  <<[device |-> d, mountpoint |-> Root, fstype |-> disk[d].fstype, subvol |-> sub]>>
                  \in Seq(ResolvedType)
<1> DEFINE d == request.mounts[i].device
           m == [device |-> d, mountpoint |-> Root, fstype |-> disk[d].fstype, subvol |-> sub]
<1>1. request.mounts \in Seq([device : Device, mountpoint : Mountpoint \cup Relative])
  BY RequestAssumption DEF TypeOK
<1>2. request.mounts[i] \in [device : Device, mountpoint : Mountpoint \cup Relative]
  BY <1>1, LenProperties, ElementOfSeq
<1>3. d \in Device
  BY <1>2
<1>4. disk[d].fstype \in FsType
  BY <1>3 DEF TypeOK, DiskType
<1>5. m \in ResolvedType
  BY <1>3, <1>4, MountpointAssumption DEF ResolvedType, Subvol, Volume, RootSubvol
<1>. QED
  BY <1>5

\* Both calls begin typed, whichever layout the client asks for.
LEMMA CallsType ==
    ASSUME TypeOK,
           WriteSystemModel \/ WriteSystemModelFails \/ InstallSystem \/ InstallSystemFails
    PROVE  TypeOK'
<1>1. CASE WriteSystemModel
  <2>1. PICK i \in DOMAIN request.mounts :
           LET d == request.mounts[i].device
               btrfs == disk[d].fstype = "btrfs"
           IN  Begin("write", IF btrfs THEN "mount_top" ELSE "mount_model",
                     <<[device |-> d, mountpoint |-> Root, fstype |-> disk[d].fstype,
                        subvol |-> IF btrfs THEN RootSubvol ELSE "none"]>>)
    BY <1>1 DEF WriteSystemModel
  <2>. QED
    BY <2>1, ModelPlan, BeginType, ControlPoints DEF TopSteps, ModelSteps
<1>2. CASE InstallSystem
  <2>1. PICK resolved \in Resolutions(request.mounts, ProbedType) :
           Begin("install",
                 IF \E i \in DOMAIN resolved : resolved[i].mountpoint = Root /\ resolved[i].subvol # "none"
                 THEN "mount_top" ELSE "mount", resolved)
    BY <1>2 DEF InstallSystem
  <2>2. resolved \in Seq(ResolvedType)
    BY ResolutionsOrderly
  <2>. QED
    BY <2>1, <2>2, BeginType, ControlPoints DEF TopSteps
<1>3. CASE WriteSystemModelFails \/ InstallSystemFails
  BY <1>3, RefuseType DEF WriteSystemModelFails, InstallSystemFails
<1>. QED
  BY <1>1, <1>2, <1>3

\* The devices mounted at "/" by the plan are partitions.
LEMMA RootDevicesType == TypeOK => RootDevices \subseteq Device
<1> SUFFICES ASSUME TypeOK, NEW i \in DOMAIN plan
             PROVE  plan[i].device \in Device
  BY DEF RootDevices
<1>1. plan \in Seq(ResolvedType)
  BY DEF TypeOK
<1>2. i \in 1..Len(plan)
  BY <1>1, LenProperties
<1>3. plan[i] \in ResolvedType
  BY <1>1, <1>2, ElementOfSeq
<1>. QED
  BY <1>3 DEF ResolvedType

\* What the steps of create_subvolumes and write_to_target leave typed.
LEMMA TopType ==
    ASSUME TypeOK, MountTop \/ CreateSubvols \/ SetDefault \/ UnmountTop
    PROVE  TypeOK'
<1>1. <<Root>> \in Seq(Mountpoint) /\ <<>> \in Seq(Mountpoint)
  BY MountpointAssumption, EmptySeq
<1>2. CASE MountTop
  <2>1. \A d \in RootDevices : Attach(table, Entry(d, "top", Root)) \in Seq(MountType)
    <3> SUFFICES ASSUME NEW d \in RootDevices
                 PROVE  Append(table, Entry(d, "top", Root)) \in Seq(MountType)
      BY DEF Attach
    <3>1. Entry(d, "top", Root) \in MountType
      BY RootDevicesType, MountpointAssumption DEF Entry, MountType, Subvol, Volume
    <3>. QED
      BY <3>1, AppendProperties DEF TypeOK
  <2>2. CASE Return(FALSE) /\ ok' = FALSE /\ UNCHANGED <<machine, op, plan, mounted, fstab, ghost>>
    BY <2>2, ReturnType DEF Return, TypeOK, machine, ghost
  <2>3. CASE /\ \E d \in RootDevices : table' = Attach(table, Entry(d, "top", Root))
             /\ mounted' = <<Root>>
             /\ pc' = "create_subvols"
             /\ UNCHANGED <<disk, dirty, client, op, plan, ok, fstab, ghost>>
    BY <1>1, <2>1, <2>3, ControlPoints DEF TypeOK, client, ghost, TopSteps
  <2>. QED
    BY <1>2, <2>2, <2>3 DEF MountTop
<1>3. CASE CreateSubvols
  <2>1. PICK made \in {{}, {RootSubvol}, {RootSubvol, HomeSubvol}} :
           /\ disk' = [d \in Device |->
                 IF d \in RootDevices THEN [disk[d] EXCEPT !.subvols = @ \cup made] ELSE disk[d]]
           /\ dirty' = dirty \cup RootDevices
           /\ \/ /\ made = {RootSubvol, HomeSubvol}
                 /\ pc' = "set_default"
                 /\ UNCHANGED <<table, client, op, plan, mounted, ok, fstab, ghost>>
              \/ Fails("unmount_top")
    BY <1>3 DEF CreateSubvols
  <2>2. made \subseteq Volume
    BY DEF Volume, RootSubvol, HomeSubvol
  <2>3. \A d \in Device : [disk[d] EXCEPT !.subvols = @ \cup made] \in DiskType
    BY <2>2 DEF TypeOK, DiskType
  <2>4. disk' \in [Device -> DiskType] /\ dirty' \subseteq Device
    BY <2>1, <2>3, RootDevicesType DEF TypeOK
  <2>. QED
    BY <2>1, <2>4, ControlPoints DEF TypeOK, Fails, client, ghost, TopSteps
<1>4. CASE SetDefault
  <2>1. \A d \in Device : [disk[d] EXCEPT !.default = RootSubvol] \in DiskType
    BY DEF TypeOK, DiskType, Volume, RootSubvol
  <2>2. disk' \in [Device -> DiskType] /\ dirty' \subseteq Device
    BY <1>4, <2>1, RootDevicesType DEF SetDefault, TypeOK
  <2>. QED
    BY <1>4, <2>2, ControlPoints DEF SetDefault, TypeOK, Fails, client, ghost, TopSteps
<1>5. CASE UnmountTop
  <2>1. /\ table' \in Seq(MountType)
        /\ dirty' \subseteq Device
        /\ stuck' \in BOOLEAN
        /\ faults' \in 0..MaxFaults
    BY <1>5, UnmountType DEF UnmountTop
  <2>. QED
    BY <1>1, <1>5, <2>1, ControlPoints DEF UnmountTop, Return, TypeOK, client, TopSteps, ModelSteps
<1>. QED
  BY <1>2, <1>3, <1>4, <1>5

\* The steps of write_to_target leave everything typed.
LEMMA ModelType ==
    ASSUME TypeOK, pc \in ModelSteps => Len(plan) = 1,
           MountModelRoot \/ WriteModel \/ UnmountModelRoot
    PROVE  TypeOK'
<1>1. <<Root>> \in Seq(Mountpoint) /\ <<>> \in Seq(Mountpoint)
  BY MountpointAssumption, EmptySeq
<1>2. CASE MountModelRoot
  <2>1. MountEntry(plan[1]) \in MountType
    <3>1. Len(plan) = 1
      BY <1>2 DEF MountModelRoot, ModelSteps
    <3>2. plan \in Seq(ResolvedType)
      BY DEF TypeOK
    <3>3. plan[1] \in ResolvedType
      BY <3>1, <3>2, ElementOfSeq
    <3>. QED
      BY <3>3 DEF MountEntry, Entry, ResolvedType, MountType
  <2>2. Attach(table, MountEntry(plan[1])) \in Seq(MountType)
    BY <2>1, AppendProperties DEF TypeOK, Attach
  <2>3. CASE Return(FALSE) /\ ok' = FALSE /\ UNCHANGED <<machine, op, plan, mounted, fstab, ghost>>
    BY <2>3, ReturnType DEF Return, TypeOK, machine, ghost
  <2>4. CASE /\ table' = Attach(table, MountEntry(plan[1]))
             /\ mounted' = <<Root>>
             /\ pc' = "write_model"
             /\ UNCHANGED <<disk, dirty, client, op, plan, ok, fstab, ghost>>
    BY <1>1, <2>2, <2>4, ControlPoints DEF TypeOK, client, ghost, ModelSteps
  <2>. QED
    BY <1>2, <2>3, <2>4 DEF MountModelRoot
<1>3. CASE WriteModel
  <2>1. PICK files \in {{}, {"system-model"}, {"system-model", "install-model"}} :
           /\ Store({<<Root, f>> : f \in files}, {})
           /\ \/ /\ files = {"system-model", "install-model"}
                 /\ pc' = "unmount_model"
                 /\ UNCHANGED <<table, client, op, plan, mounted, ok, fstab, ghost>>
              \/ Fails("unmount_model")
    BY <1>3 DEF WriteModel
  <2>2. \A x \in {<<Root, f>> : f \in files} : x[2] \in Artifact
    BY DEF Artifact
  <2>3. disk' \in [Device -> DiskType] /\ dirty' \subseteq Device
    BY <2>1, <2>2, StoreType
  <2>. QED
    BY <2>1, <2>3, ControlPoints DEF TypeOK, Fails, client, ghost, ModelSteps
<1>4. CASE UnmountModelRoot
  <2>1. /\ table' \in Seq(MountType)
        /\ dirty' \subseteq Device
        /\ stuck' \in BOOLEAN
        /\ faults' \in 0..MaxFaults
    BY <1>4, UnmountType DEF UnmountModelRoot
  <2>. QED
    BY <1>1, <1>4, <2>1, ControlPoints DEF UnmountModelRoot, Return, TypeOK
<1>. QED
  BY <1>2, <1>3, <1>4

\* A failed command goes to the unwinding and touches nothing else.
LEMMA FailsType ==
    ASSUME TypeOK, CommandFails
    PROVE  TypeOK'
  BY ControlPoints DEF CommandFails, Fails, TypeOK, client, ghost

\* A step that writes known artifacts and moves to a known control point.
LEMMA SucceedsType ==
    ASSUME TypeOK, NEW added, NEW removed, NEW next \in Control,
           \A x \in added : x[2] \in Artifact,
           Succeeds(added, removed, next)
    PROVE  TypeOK'
<1>1. disk' \in [Device -> DiskType] /\ dirty' \subseteq Device
  BY StoreType DEF Succeeds
<1>. QED
  BY <1>1 DEF Succeeds, TypeOK, client, ghost

\* Each mount of the schedule is a mount the table may hold.
LEMMA MountNextType ==
    ASSUME TypeOK, pc = "mount" => Len(mounted) < Len(Schedule), MountNext
    PROVE  TypeOK'
<1> DEFINE e == Schedule[Len(mounted) + 1]
<1>1. Len(mounted) \in Nat /\ Len(Schedule) \in Nat
  BY ScheduleType, LenProperties DEF TypeOK
<1>2. e \in MountType
  <2>1. Len(mounted) + 1 \in 1..Len(Schedule)
    BY <1>1 DEF MountNext
  <2>. QED
    BY <2>1, ScheduleType, ElementOfSeq
<1>3. e.at \in Mountpoint
  BY <1>2 DEF MountType
<1>. HIDE DEF e
<1>4. Attach(table, e) \in Seq(MountType) /\ Append(mounted, e.at) \in Seq(Mountpoint)
  BY <1>2, <1>3, AppendProperties DEF Attach, TypeOK
<1>5. CASE CommandFails
  BY <1>5, FailsType
<1>6. CASE /\ table' = Attach(table, e)
           /\ mounted' = Append(mounted, e.at)
           /\ pc' = IF Len(mounted) + 1 = Len(Schedule) THEN "repos" ELSE "mount"
           /\ UNCHANGED <<disk, dirty, client, op, plan, ok, fstab, ghost>>
  BY <1>4, <1>6, ControlPoints DEF TypeOK, client, ghost, ChrootSteps
<1>. QED
  BY <1>5, <1>6 DEF MountNext, e

\* The steps that run inside the target leave everything typed.
LEMMA ChrootType ==
    ASSUME TypeOK,
           \/ ConfigureRepos \/ UpdateIndex \/ MossSync \/ WriteFstab
           \/ (\E step \in Settings : Configure(step)) \/ ForgetMachineId \/ SetupMachineId
    PROVE  TypeOK'
<1>1. CASE ConfigureRepos
  <2>1. /\ \A x \in {<<Root, "repos">>} : x[2] \in Artifact
        /\ "index" \in Control
    BY ControlPoints DEF Artifact, ChrootSteps
  <2>. QED
    BY <1>1, <2>1, SucceedsType, FailsType DEF ConfigureRepos
<1>2. CASE UpdateIndex
  <2>1. /\ \A x \in {<<Root, "index">>} : x[2] \in Artifact
        /\ "packages" \in Control
    BY ControlPoints DEF Artifact, ChrootSteps
  <2>. QED
    BY <1>2, <2>1, SucceedsType, FailsType DEF UpdateIndex
<1>3. CASE MossSync
  <2> DEFINE added == {<<Root, "os">>, <<Root, "live-id">>} \cup {<<p, "boot">> : p \in BootPoints}
  <2>1. (\A x \in added : x[2] \in Artifact) /\ "locale" \in Control
    BY ControlPoints DEF Artifact, ChrootSteps, ConfigSteps, Settings
  <2>2. CASE Succeeds(added, {}, "locale")
    <3>. HIDE DEF added
    <3>. QED
      BY <2>1, <2>2, SucceedsType
  <2>3. ASSUME NEW part \in SUBSET {"os", "live-id"},
               Store({<<Root, a>> : a \in part}, {}), Fails("unwind")
        PROVE  TypeOK'
    <3>1. \A x \in {<<Root, a>> : a \in part} : x[2] \in Artifact
      BY DEF Artifact
    <3>2. disk' \in [Device -> DiskType] /\ dirty' \subseteq Device
      BY <2>3, <3>1, StoreType
    <3>. QED
      BY <2>3, <3>2, ControlPoints DEF Fails, TypeOK, client, ghost
  <2>. QED
    BY <1>3, <2>2, <2>3 DEF MossSync
<1>4. CASE WriteFstab
  <2>1. /\ \A x \in {<<Root, "fstab">>} : x[2] \in Artifact
        /\ "unwind" \in Control
    BY ControlPoints DEF Artifact
  <2>. QED
    BY <1>4, <2>1, SucceedsType, FailsType DEF WriteFstab
<1>5. ASSUME NEW step \in Settings, Configure(step)
      PROVE  TypeOK'
  <2>1. /\ \A x \in {<<Root, step>>} : x[2] \in Artifact
        /\ After(step) \in Control
    BY ControlPoints DEF Artifact, Settings
  <2>2. CASE pc' = After(step) /\ UNCHANGED <<machine, client, op, plan, mounted, ok, fstab, ghost>>
    BY <2>1, <2>2 DEF TypeOK, machine, client, ghost
  <2>3. CASE Succeeds({<<Root, step>>}, {}, After(step))
    BY <2>1, <2>3, SucceedsType
  <2>. QED
    BY <1>5, <2>2, <2>3, FailsType DEF Configure
<1>6. CASE ForgetMachineId
  <2>1. disk' \in [Device -> DiskType] /\ dirty' \subseteq Device /\ kept' \in BOOLEAN
    <3>1. CASE Store({}, {"live-id"}) /\ UNCHANGED kept
      BY <3>1, StoreType DEF TypeOK
    <3>2. CASE kept' = TRUE /\ UNCHANGED <<disk, dirty>>
      BY <3>2 DEF TypeOK
    <3>. QED
      BY <1>6, <3>1, <3>2 DEF ForgetMachineId
  <2>. QED
    BY <1>6, <2>1, ControlPoints DEF ForgetMachineId, TypeOK, client, ChrootSteps, ConfigSteps
<1>7. CASE SetupMachineId
  <2> DEFINE made == IF OnTarget(Root, "live-id") THEN {} ELSE {<<Root, "machineid">>}
  <2>1. /\ \A x \in made : x[2] \in Artifact
        /\ "useradd" \in Control
    BY ControlPoints DEF Artifact, ChrootSteps, ConfigSteps, Settings
  <2>2. Succeeds(made, {}, "useradd") \/ CommandFails
    BY <1>7 DEF SetupMachineId
  <2>. HIDE DEF made
  <2>. QED
    BY <2>1, <2>2, SucceedsType, FailsType
<1>. QED
  BY <1>1, <1>2, <1>3, <1>4, <1>5, <1>6, <1>7

\* The end of install_target: unmounting, sync and the answer, or a killed
\* backend.
LEMMA UnwindType ==
    ASSUME TypeOK, Unwind \/ SyncAndReturn \/ BackendDies
    PROVE  TypeOK'
<1>1. CASE Unwind
  <2>1. /\ table' \in Seq(MountType)
        /\ dirty' \subseteq Device
        /\ stuck' \in BOOLEAN
        /\ faults' \in 0..MaxFaults
    BY <1>1, UnmountType DEF Unwind
  <2>2. mounted' \in Seq(Mountpoint)
    <3>1. Len(mounted) \in Nat \ {0}
      BY <1>1, EmptySeq DEF Unwind, TypeOK
    <3>2. SubSeq(mounted, 1, Len(mounted) - 1) \in Seq(Mountpoint)
      BY <3>1, SubSeqProperties DEF TypeOK
    <3>. QED
      BY <1>1, <3>2 DEF Unwind
  <2>. QED
    BY <1>1, <2>1, <2>2 DEF Unwind, TypeOK, client
<1>2. CASE SyncAndReturn
  BY <1>2, ReturnType DEF SyncAndReturn, Return, TypeOK
<1>3. CASE BackendDies
  <2>1. <<>> \in Seq(Mountpoint) /\ faults' \in 0..MaxFaults
    BY <1>3, EmptySeq, InstallAssumption DEF BackendDies, TypeOK
  <2>. QED
    BY <1>3, <2>1, ReturnType DEF BackendDies, Return, TypeOK, machine
<1>. QED
  BY <1>1, <1>2, <1>3

\* No step leaves the types.
LEMMA TypeStep ==
    ASSUME TypeOK, CallInv, ScheduleInv, [Next]_vars
    PROVE  TypeOK'
<1>1. pc \in ModelSteps => Len(plan) = 1
  BY DEF CallInv, ModelSteps
<1>2. pc = "mount" => Len(mounted) < Len(Schedule)
  BY DEF ScheduleInv
<1>3. CASE Call
  BY <1>1, <1>2, <1>3, TopType, ModelType, MountNextType, ChrootType, UnwindType DEF Call
<1>4. CASE UNCHANGED vars
  BY <1>4 DEF vars, machine, client, ghost, TypeOK
<1>. QED
  BY <1>3, <1>4, FormatType, CallsType, UnwindType DEF Next

-----------------------------------------------------------------------------
(***************************************************************************)
(* The mount table: what an umount does to its top.                        *)
(***************************************************************************)

\* When the last mount is at path, umount of path detaches exactly it, or a
\* stray process holds it and nothing changes.
LEMMA UnmountLast ==
    ASSUME TypeOK, NEW path, Len(table) > 0, table[Len(table)].at = path, Unmount(path)
    PROVE  \/ /\ table' = SubSeq(table, 1, Len(table) - 1)
              /\ UNCHANGED stuck
           \/ UNCHANGED table /\ stuck' = TRUE
<1> DEFINE n == Len(table)
<1>1. n \in Nat /\ DOMAIN table = 1..n /\ n \in DOMAIN table
  BY LenProperties DEF TypeOK
<1>2. Detaches(table, n, path)
  BY <1>1 DEF Detaches
<1>3. ASSUME NEW i \in DOMAIN table, Detaches(table, i, path)
      PROVE  i = n
  <2>1. i < n => ~Covers(table[n].at, path)
    BY <1>1, <1>3 DEF Detaches
  <2>. QED
    BY <1>1, <2>1 DEF Covers
<1>4. Detach(table, n) = SubSeq(table, 1, n - 1)
  <2>1. SubSeq(table, n + 1, n) = <<>>
    BY <1>1, SubSeqEmpty DEF TypeOK
  <2>2. SubSeq(table, 1, n - 1) \in Seq(MountType)
    BY <1>1, SubSeqProperties DEF TypeOK
  <2>. QED
    BY <2>1, <2>2, ConcatEmptySeq DEF Detach, RemoveAt
<1>. QED
  BY <1>1, <1>2, <1>3, <1>4 DEF Unmount, Detached

\* All but the last element of a sequence.
LEMMA FrontProperties ==
    ASSUME NEW S, NEW s \in Seq(S), Len(s) > 0
    PROVE  /\ Len(SubSeq(s, 1, Len(s) - 1)) = Len(s) - 1
           /\ \A i \in 1..(Len(s) - 1) : SubSeq(s, 1, Len(s) - 1)[i] = s[i]
<1> DEFINE n == Len(s) - 1
<1>1. n \in Nat /\ \A i \in 1..n : s[i] \in S
  BY LenProperties, ElementOfSeq
<1>. HIDE DEF n
<1>2. /\ Len(SubSeq(s, 1, n)) = IF 1 <= n THEN n - 1 + 1 ELSE 0
      /\ \A i \in 1..(n - 1 + 1) : SubSeq(s, 1, n)[i] = s[1 + i - 1]
  BY <1>1, SubSeqProperties
<1>3. /\ Len(SubSeq(s, 1, n)) = n
      /\ \A i \in 1..n : SubSeq(s, 1, n)[i] = s[i]
  BY <1>1, <1>2
<1>. QED
  BY <1>3 DEF n

\* The ledger after the last of the mounts still to undo has been unmounted.
LEMMA UnmountLedger ==
    ASSUME TypeOK, LedgerInv, Len(mounted) > 0, UNCHANGED base,
           Unmount(mounted[Len(mounted)]),
           mounted' = SubSeq(mounted, 1, Len(mounted) - 1)
    PROVE  LedgerInv'
<1> SUFFICES ASSUME ~stuck'
             PROVE  /\ Len(table') = Len(base) + Len(mounted')
                    /\ \A i \in 1..Len(base) : table'[i] = base[i]
                    /\ \A i \in 1..Len(mounted') : table'[Len(base) + i].at = mounted'[i]
  BY DEF LedgerInv
<1> DEFINE m == Len(mounted)
           n == Len(table)
<1>1. /\ m \in Nat /\ n \in Nat /\ Len(base) \in Nat
      /\ table \in Seq(MountType) /\ mounted \in Seq(Mountpoint)
  BY LenProperties DEF TypeOK
<1>2. ~stuck
  BY DEF Unmount, Detached, TypeOK
<1>3. /\ n = Len(base) + m
      /\ \A i \in 1..Len(base) : table[i] = base[i]
      /\ \A i \in 1..m : table[Len(base) + i].at = mounted[i]
  BY <1>2 DEF LedgerInv
<1>4. n > 0 /\ table[n].at = mounted[m]
  <2>1. m > 0 /\ n = Len(base) + m
    BY <1>3
  <2>2. n > 0 /\ m \in 1..m
    BY <1>1, <2>1
  <2>3. table[Len(base) + m].at = mounted[m]
    BY <1>3, <2>2
  <2>. QED
    BY <2>1, <2>2, <2>3
<1>5. table' = SubSeq(table, 1, n - 1)
  BY <1>4, UnmountLast
<1>6. /\ Len(table') = n - 1
      /\ \A i \in 1..(n - 1) : table'[i] = table[i]
  BY <1>1, <1>4, <1>5, FrontProperties
<1>7. /\ Len(mounted') = m - 1
      /\ \A i \in 1..(m - 1) : mounted'[i] = mounted[i]
  BY <1>1, FrontProperties
<1>. HIDE DEF m, n
<1>8. \A i \in 1..Len(base) : table'[i] = base[i]
  <2> SUFFICES ASSUME NEW i \in 1..Len(base)
               PROVE  table'[i] = base[i]
    OBVIOUS
  <2>1. i \in 1..(n - 1)
    <3>1. m > 0
      BY DEF m
    <3>. QED
      BY <3>1, <1>1, <1>3
  <2>. QED
    BY <2>1, <1>3, <1>6
<1>9. \A i \in 1..(m - 1) : table'[Len(base) + i].at = mounted'[i]
  <2> SUFFICES ASSUME NEW i \in 1..(m - 1)
               PROVE  table'[Len(base) + i].at = mounted'[i]
    OBVIOUS
  <2>1. i \in 1..m /\ Len(base) + i \in 1..(n - 1)
    BY <1>1, <1>3
  <2>. QED
    BY <2>1, <1>3, <1>6, <1>7
<1>10. Len(table') = Len(base) + Len(mounted')
  BY <1>1, <1>3, <1>6, <1>7
<1>. QED
  BY <1>7, <1>8, <1>9, <1>10

-----------------------------------------------------------------------------
(***************************************************************************)
(* CallInv and HeldInv.                                                    *)
(***************************************************************************)

\* Between calls nothing is held; a call that begins has an orderly plan.
LEMMA CallHeldBegin ==
    ASSUME TypeOK, CallInv, HeldInv,
           \/ \E r \in Requests : Format(r)
           \/ WriteSystemModel \/ WriteSystemModelFails \/ InstallSystem \/ InstallSystemFails
    PROVE  CallInv' /\ HeldInv'
<1>1. CASE \E r \in Requests : Format(r)
  BY <1>1 DEF Format, CallInv, HeldInv, ModelSteps, ChrootSteps, ConfigSteps, Settings
<1>2. CASE WriteSystemModel
  <2>1. PICK i \in DOMAIN request.mounts :
           LET d == request.mounts[i].device
               btrfs == disk[d].fstype = "btrfs"
           IN  /\ request.mounts[i].mountpoint = Root
               /\ Begin("write", IF btrfs THEN "mount_top" ELSE "mount_model",
                        <<[device |-> d, mountpoint |-> Root, fstype |-> disk[d].fstype,
                           subvol |-> IF btrfs THEN RootSubvol ELSE "none"]>>)
    BY <1>2 DEF WriteSystemModel
  <2>2. /\ op' = "write" /\ mounted' = <<>> /\ pc' \in {"mount_top", "mount_model"}
        /\ Len(plan') = 1 /\ plan'[1].mountpoint = Root /\ DOMAIN plan' = {1}
    BY <2>1 DEF Begin
  <2>3. \A b \in DOMAIN Binds : ~Covers(Binds[b], Root)
    BY <2>1, RequestAssumption DEF TypeOK
  <2>4. Orderly(plan')
    BY <2>2, <2>3 DEF Orderly, Distinct, Sorted
  <2>. QED
    BY <2>2, <2>4 DEF CallInv, HeldInv, ModelSteps, ChrootSteps, ConfigSteps, Settings, Orderly
<1>3. CASE InstallSystem
  <2>1. PICK resolved \in Resolutions(request.mounts, ProbedType) :
           Begin("install",
                 IF \E i \in DOMAIN resolved : resolved[i].mountpoint = Root /\ resolved[i].subvol # "none"
                 THEN "mount_top" ELSE "mount", resolved)
    BY <1>3 DEF InstallSystem
  <2>2. Orderly(resolved) /\ HasRoot(resolved)
    BY <1>3, ResolutionsOrderly DEF InstallSystem, AcceptsInstall
  <2>3. op' = "install" /\ mounted' = <<>> /\ pc' \in {"mount_top", "mount"} /\ plan' = resolved
    BY <2>1 DEF Begin
  <2>. QED
    BY <2>2, <2>3 DEF CallInv, HeldInv, ModelSteps, ChrootSteps, ConfigSteps, Settings
<1>4. CASE WriteSystemModelFails \/ InstallSystemFails
  <2>1. pc' = "idle" /\ plan' = <<>> /\ mounted' = mounted /\ pc = "idle"
    BY <1>4 DEF WriteSystemModelFails, InstallSystemFails, Refuse
  <2>2. Orderly(plan')
    BY <2>1 DEF Orderly, Distinct, Sorted
  <2>. QED
    BY <2>1, <2>2 DEF CallInv, HeldInv, ModelSteps, ChrootSteps, ConfigSteps, Settings
<1>. QED
  BY <1>1, <1>2, <1>3, <1>4

\* Within a call the plan stays, and control goes where the held mounts allow.
LEMMA CallHeldStep ==
    ASSUME TypeOK, CallInv, HeldInv, Call \/ BackendDies
    PROVE  CallInv' /\ HeldInv'
<1>1. op' = op /\ plan' = plan
  BY DEF Call, MountTop, CreateSubvols, SetDefault, UnmountTop, MountModelRoot, WriteModel,
         UnmountModelRoot, MountNext, ConfigureRepos, UpdateIndex, MossSync, Configure,
         ForgetMachineId, SetupMachineId, WriteFstab, Unwind, SyncAndReturn, BackendDies, CommandFails, Fails, Succeeds
<1>2. Orderly(plan')
  BY <1>1 DEF CallInv
<1>3. pc # "idle"
  BY DEF Call, MountTop, CreateSubvols, SetDefault, UnmountTop, MountModelRoot, WriteModel,
         UnmountModelRoot, MountNext, ConfigureRepos, UpdateIndex, MossSync, Configure,
         ForgetMachineId, SetupMachineId, WriteFstab, Unwind, SyncAndReturn, BackendDies, ConfigSteps, Settings
<1>4. /\ op = "write" => Len(plan') = 1 /\ plan'[1].mountpoint = Root
      /\ op = "install" => HasRoot(plan')
  BY <1>1, <1>3 DEF CallInv
<1>5. op \in {"write", "install"}
  BY DEF TypeOK
<1>6. CASE MountTop
  BY <1>6 DEF MountTop, Return, CallInv, HeldInv, ModelSteps, ChrootSteps, ConfigSteps, Settings
<1>7. CASE CreateSubvols
  BY <1>7 DEF CreateSubvols, Fails, CallInv, HeldInv, ModelSteps, ChrootSteps, ConfigSteps, Settings
<1>8. CASE SetDefault
  BY <1>8 DEF SetDefault, Fails, CallInv, HeldInv, ModelSteps, ChrootSteps, ConfigSteps, Settings
<1>9. CASE UnmountTop
  BY <1>1, <1>2, <1>3, <1>4, <1>5, <1>9 DEF UnmountTop, Return,
        CallInv, HeldInv, ModelSteps, ChrootSteps, ConfigSteps, Settings
<1>10. CASE MountModelRoot
  BY <1>1, <1>2, <1>3, <1>4, <1>10 DEF MountModelRoot, Return,
        CallInv, HeldInv, ModelSteps, ChrootSteps, ConfigSteps, Settings
<1>11. CASE WriteModel
  BY <1>1, <1>2, <1>3, <1>4, <1>11 DEF WriteModel, Fails,
        CallInv, HeldInv, ModelSteps, ChrootSteps, ConfigSteps, Settings
<1>12. CASE UnmountModelRoot
  BY <1>1, <1>2, <1>3, <1>4, <1>12 DEF UnmountModelRoot, Return,
        CallInv, HeldInv, ModelSteps, ChrootSteps, ConfigSteps, Settings
<1>13. CASE MountNext
  BY <1>1, <1>2, <1>3, <1>4, <1>13 DEF MountNext, CommandFails, Fails,
        CallInv, HeldInv, ModelSteps, ChrootSteps, ConfigSteps, Settings
<1>14. CASE ConfigureRepos \/ UpdateIndex \/ MossSync \/ WriteFstab
  BY <1>1, <1>2, <1>3, <1>4, <1>14 DEF ConfigureRepos, UpdateIndex, MossSync, WriteFstab, Succeeds, CommandFails, Fails,
        CallInv, HeldInv, ModelSteps, ChrootSteps, ConfigSteps, Settings
<1>15. CASE \E step \in Settings : Configure(step)
  BY <1>1, <1>2, <1>3, <1>4, <1>15 DEF Configure, After, Succeeds, CommandFails, Fails,
        CallInv, HeldInv, ModelSteps, ChrootSteps, ConfigSteps, Settings
<1>16. CASE ForgetMachineId \/ SetupMachineId
  BY <1>1, <1>2, <1>3, <1>4, <1>16 DEF ForgetMachineId, SetupMachineId, Succeeds, CommandFails, Fails,
        CallInv, HeldInv, ModelSteps, ChrootSteps, ConfigSteps, Settings
<1>17. CASE Unwind
  BY <1>1, <1>2, <1>3, <1>4, <1>17 DEF Unwind,
        CallInv, HeldInv, ModelSteps, ChrootSteps, ConfigSteps, Settings
<1>18. CASE SyncAndReturn \/ BackendDies
  BY <1>1, <1>2, <1>3, <1>4, <1>18 DEF SyncAndReturn, BackendDies, Return,
        CallInv, HeldInv, ModelSteps, ChrootSteps, ConfigSteps, Settings
<1>. QED
  BY <1>6, <1>7, <1>8, <1>9, <1>10, <1>11, <1>12, <1>13, <1>14, <1>15, <1>16, <1>17, <1>18 DEF Call

-----------------------------------------------------------------------------
(***************************************************************************)
(* LedgerInv.                                                              *)
(***************************************************************************)

\* Mounting one more entry and recording where adds it to the ledger.
LEMMA MountLedger ==
    ASSUME TypeOK, LedgerInv, NEW e \in MountType, UNCHANGED <<base, stuck>>,
           table' = Attach(table, e), mounted' = Append(mounted, e.at)
    PROVE  LedgerInv'
<1> SUFFICES ASSUME ~stuck'
             PROVE  /\ Len(table') = Len(base) + Len(mounted')
                    /\ \A i \in 1..Len(base) : table'[i] = base[i]
                    /\ \A i \in 1..Len(mounted') : table'[Len(base) + i].at = mounted'[i]
  BY DEF LedgerInv
<1> DEFINE m == Len(mounted)
           n == Len(table)
           k == Len(base)
<1>1. /\ m \in Nat /\ n \in Nat /\ k \in Nat
      /\ table \in Seq(MountType) /\ mounted \in Seq(Mountpoint) /\ e.at \in Mountpoint
  BY LenProperties DEF TypeOK, MountType
<1>2. /\ n = k + m
      /\ \A i \in 1..k : table[i] = base[i]
      /\ \A i \in 1..m : table[k + i].at = mounted[i]
  BY DEF LedgerInv
<1>3. /\ Len(table') = n + 1
      /\ \A i \in 1..n : table'[i] = table[i]
      /\ table'[n + 1] = e
  BY <1>1, AppendProperties DEF Attach
<1>4. /\ Len(mounted') = m + 1
      /\ \A i \in 1..m : mounted'[i] = mounted[i]
      /\ mounted'[m + 1] = e.at
  BY <1>1, AppendProperties
<1>. HIDE DEF m, n, k
<1>5. \A i \in 1..k : table'[i] = base[i]
  BY <1>1, <1>2, <1>3
<1>6. ASSUME NEW i \in 1..(m + 1)
      PROVE  table'[k + i].at = mounted'[i]
  <2>1. CASE i = m + 1
    <3>1. k + i = n + 1
      BY <1>1, <1>2, <2>1
    <3>. QED
      BY <1>3, <1>4, <2>1, <3>1
  <2>2. CASE i # m + 1
    <3>1. i \in 1..m /\ k + i \in 1..n
      BY <1>1, <1>2, <2>2
    <3>. QED
      BY <1>2, <1>3, <1>4, <3>1
  <2>. QED
    BY <2>1, <2>2
<1>7. Len(table') = k + Len(mounted')
  BY <1>1, <1>2, <1>3, <1>4
<1>. QED
  BY <1>4, <1>5, <1>6, <1>7 DEF k

\* The first mount of a call that holds none yet.
LEMMA FirstMount ==
    ASSUME NEW at \in Mountpoint, mounted = <<>>, mounted' = <<at>>
    PROVE  mounted' = Append(mounted, at)
  OBVIOUS

\* Undoing the only mount of a call.
LEMMA OnlyMount ==
    ASSUME mounted = <<Root>>, mounted' = <<>>
    PROVE  /\ Len(mounted) > 0
           /\ mounted[Len(mounted)] = Root
           /\ mounted' = SubSeq(mounted, 1, Len(mounted) - 1)
<1>1. Len(mounted) = 1 /\ mounted \in Seq({Root})
  BY DEF Root
<1>2. SubSeq(mounted, 1, 0) = <<>>
  BY <1>1, SubSeqEmpty
<1>. QED
  BY <1>1, <1>2

\* Every step keeps the ledger: base, with what is still to undo on top.
LEMMA LedgerStep ==
    ASSUME TypeOK, CallInv, HeldInv, LedgerInv, ScheduleInv, [Next]_vars
    PROVE  LedgerInv'
<1>1. \A x \in {table, base} : Len(x) \in Nat
  BY LenProperties DEF TypeOK
<1>2. CASE UNCHANGED <<table, base, mounted, stuck>>
  BY <1>2 DEF LedgerInv
<1>3. CASE table' = table /\ base' = table /\ mounted' = <<>>
  BY <1>1, <1>3 DEF LedgerInv
<1>4. CASE \/ \E r \in Requests : Format(r)
           \/ ConfigureRepos \/ UpdateIndex \/ MossSync \/ WriteFstab
           \/ (\E step \in Settings : Configure(step)) \/ ForgetMachineId \/ SetupMachineId
           \/ CreateSubvols \/ SetDefault \/ WriteModel
  BY <1>2, <1>4 DEF Format, ConfigureRepos, UpdateIndex, MossSync, WriteFstab, Configure,
        ForgetMachineId, SetupMachineId, CreateSubvols, SetDefault, WriteModel, Succeeds, CommandFails, Fails, machine, ghost
<1>5. CASE \/ WriteSystemModel \/ WriteSystemModelFails \/ InstallSystem \/ InstallSystemFails
  BY <1>3, <1>5 DEF WriteSystemModel, WriteSystemModelFails, InstallSystem, InstallSystemFails,
        Begin, Refuse, HeldInv, machine
<1>6. CASE MountTop
  <2>1. ASSUME NEW d \in RootDevices, table' = Attach(table, Entry(d, "top", Root)),
               mounted' = <<Root>>, UNCHANGED <<base, stuck>>
        PROVE  LedgerInv'
    <3>1. Entry(d, "top", Root) \in MountType /\ Entry(d, "top", Root).at = Root
      BY RootDevicesType, MountpointAssumption DEF Entry, MountType, Subvol, Volume
    <3>2. mounted' = Append(mounted, Root)
      BY <1>6, <2>1, FirstMount, MountpointAssumption DEF MountTop, HeldInv
    <3>. QED
      BY <2>1, <3>1, <3>2, MountLedger
  <2>. QED
    BY <1>2, <1>6, <2>1 DEF MountTop, machine, ghost
<1>7. CASE MountModelRoot
  <2>1. CASE table' = Attach(table, MountEntry(plan[1])) /\ mounted' = <<Root>>
             /\ UNCHANGED <<base, stuck>>
    <3>1. MountEntry(plan[1]) \in MountType /\ MountEntry(plan[1]).at = Root
      <4>1. Len(plan) = 1 /\ plan[1].mountpoint = Root
        BY <1>7 DEF MountModelRoot, CallInv, ModelSteps
      <4>2. plan \in Seq(ResolvedType) /\ 1 \in 1..Len(plan)
        BY <4>1 DEF TypeOK
      <4>3. plan[1] \in ResolvedType
        BY <4>2, ElementOfSeq
      <4>. QED
        BY <4>1, <4>3 DEF MountEntry, Entry, ResolvedType, MountType
    <3>2. mounted' = Append(mounted, Root)
      BY <1>7, <2>1, FirstMount, MountpointAssumption DEF MountModelRoot, HeldInv
    <3>. QED
      BY <2>1, <3>1, <3>2, MountLedger
  <2>. QED
    BY <1>2, <1>7, <2>1 DEF MountModelRoot, machine, ghost
<1>8. CASE UnmountTop \/ UnmountModelRoot
  <2>1. mounted = <<Root>> /\ mounted' = <<>> /\ Unmount(Root) /\ UNCHANGED base
    BY <1>8 DEF UnmountTop, UnmountModelRoot, HeldInv
  <2>. QED
    BY <2>1, OnlyMount, UnmountLedger
<1>9. CASE MountNext
  <2> DEFINE e == Schedule[Len(mounted) + 1]
  <2>1. e \in MountType
    <3>1. Len(mounted) < Len(Schedule) /\ Len(mounted) \in Nat /\ Len(Schedule) \in Nat
      BY <1>9, ScheduleType, LenProperties DEF MountNext, ScheduleInv, TypeOK
    <3>2. Len(mounted) + 1 \in 1..Len(Schedule)
      BY <3>1
    <3>. QED
      BY <3>2, ScheduleType, ElementOfSeq
  <2>. HIDE DEF e
  <2>2. CASE table' = Attach(table, e) /\ mounted' = Append(mounted, e.at) /\ UNCHANGED <<base, stuck>>
    BY <2>1, <2>2, MountLedger
  <2>. QED
    BY <1>2, <1>9, <2>2 DEF MountNext, CommandFails, Fails, ghost, e
<1>10. CASE Unwind
  <2>1. Len(mounted) > 0
    BY <1>10, EmptySeq, LenProperties DEF Unwind, TypeOK
  <2>. QED
    BY <1>10, <2>1, UnmountLedger DEF Unwind
<1>11. CASE SyncAndReturn
  BY <1>2, <1>11 DEF SyncAndReturn
<1>12. CASE BackendDies
  BY <1>12 DEF BackendDies, LedgerInv
<1>13. CASE UNCHANGED vars
  BY <1>2, <1>13 DEF vars, machine, ghost
<1>. QED
  BY <1>4, <1>5, <1>6, <1>7, <1>8, <1>9, <1>10, <1>11, <1>12, <1>13 DEF Next, Call

-----------------------------------------------------------------------------
(***************************************************************************)
(* ScheduleInv.                                                            *)
(***************************************************************************)

\* A mount adds the next entry of the schedule to the top of the table.
LEMMA MountSchedule ==
    ASSUME TypeOK, CallInv, ScheduleInv, MountNext
    PROVE  ScheduleInv'
<1> DEFINE e == Schedule[Len(mounted) + 1]
           m == Len(mounted)
           n == Len(table)
           l == Len(Schedule)
<1>1. /\ m \in Nat /\ n \in Nat /\ l \in Nat /\ m < l
      /\ table \in Seq(MountType) /\ mounted \in Seq(Mountpoint)
  BY ScheduleType, LenProperties DEF MountNext, ScheduleInv, TypeOK
<1>2. e \in MountType /\ e.at \in Mountpoint
  <2>1. m + 1 \in 1..l
    BY <1>1
  <2>2. e \in MountType
    BY <2>1, ScheduleType, ElementOfSeq
  <2>. QED
    BY <2>2 DEF MountType
<1>3. n >= m /\ \A i \in 1..m : table[n - m + i] = Schedule[i]
  BY DEF MountNext, ScheduleInv
<1>4. CASE CommandFails
  BY <1>4 DEF CommandFails, Fails, ScheduleInv, ChrootSteps, ConfigSteps, Settings
<1>5. CASE /\ table' = Attach(table, e)
           /\ mounted' = Append(mounted, e.at)
           /\ pc' = IF m + 1 = l THEN "repos" ELSE "mount"
           /\ plan' = plan
  <2>1. Schedule' = Schedule
    BY <1>5 DEF Schedule
  <2>2. /\ Len(table') = n + 1
        /\ \A i \in 1..n : table'[i] = table[i]
        /\ table'[n + 1] = e
        /\ Len(mounted') = m + 1
    <3>. HIDE DEF e
    <3>. QED
      BY <1>1, <1>2, <1>5, AppendProperties DEF Attach
  <2>3. ASSUME NEW i \in 1..(m + 1)
        PROVE  table'[n + 1 - (m + 1) + i] = Schedule[i]
    <3>. HIDE DEF m, n, l
    <3>1. CASE i = m + 1
      <4>1. n + 1 - (m + 1) + i = n + 1
        BY <1>1, <3>1
      <4>2. e = Schedule[i]
        BY <3>1 DEF m
      <4>. QED
        BY <2>2, <4>1, <4>2
    <3>2. CASE i # m + 1
      <4>1. i \in 1..m /\ n + 1 - (m + 1) + i = n - m + i /\ n - m + i \in 1..n
        BY <1>1, <1>3, <3>2
      <4>. QED
        BY <1>3, <2>2, <4>1
    <3>. QED
      BY <3>1, <3>2
  <2>4. Len(table') >= Len(mounted') /\ Len(mounted') <= l /\ (m + 1 # l => Len(mounted') < l)
    BY <1>1, <1>3, <2>2
  <2>. HIDE DEF e, m, n, l
  <2>5. \A i \in 1..Len(mounted') : table'[Len(table') - Len(mounted') + i] = Schedule'[i]
    <3>1. Len(table') - Len(mounted') = n + 1 - (m + 1) /\ Len(mounted') = m + 1
      BY <1>1, <2>2
    <3> DEFINE top == n + 1 - (m + 1)
    <3>2. \A i \in 1..(m + 1) : table'[top + i] = Schedule[i]
      BY <2>3
    <3>. HIDE DEF top
    <3>3. Len(table') - Len(mounted') = top /\ Len(mounted') = m + 1
      BY <3>1 DEF top
    <3>. QED
      BY <2>1, <3>2, <3>3
  <2>6. m + 1 = l => Len(mounted') = Len(Schedule')
    BY <2>1, <2>2 DEF l
  <2>7. m + 1 # l => Len(mounted') < Len(Schedule')
    BY <2>1, <2>4 DEF l
  <2>. QED
    BY <1>5, <2>4, <2>5, <2>6, <2>7 DEF ScheduleInv, ChrootSteps, ConfigSteps, Settings
<1>. QED
  BY <1>4, <1>5 DEF MountNext

\* Nothing is mounted when the schedule begins.
LEMMA ScheduleStart ==
    ASSUME TypeOK', pc' = "mount", mounted' = <<>>
    PROVE  ScheduleInv'
<1>1. /\ Len(mounted') = 0
      /\ Len(Schedule') = Len(plan') + 5
      /\ Len(plan') \in Nat /\ Len(table') \in Nat
  <2>1. Len(plan') \in Nat /\ Len(table') \in Nat
    BY LenProperties DEF TypeOK
  <2>2. Len(Binds) = 5
    BY DEF Binds
  <2>3. Schedule' = [i \in 1..(Len(plan') + 5) |->
           IF i <= Len(plan') THEN MountEntry(plan'[i])
           ELSE Entry(HostFs, "none", Binds[i - Len(plan')])]
    BY <2>2 DEF Schedule, MountEntry, Entry
  <2>4. Len(plan') + 5 \in Nat
    BY <2>1
  <2>. QED
    BY <2>1, <2>3, <2>4
<1>. QED
  BY <1>1 DEF ScheduleInv, ChrootSteps, ConfigSteps, Settings

\* Every step keeps the top of the table equal to the schedule mounted so far.
LEMMA ScheduleStep ==
    ASSUME TypeOK, TypeOK', CallInv, HeldInv, ScheduleInv, [Next]_vars
    PROVE  ScheduleInv'
<1>1. CASE pc' \notin {"mount"} \cup ChrootSteps
  BY <1>1 DEF ScheduleInv
<1>2. CASE MountNext
  BY <1>2, MountSchedule
<1>3. CASE pc' = "mount" /\ mounted' = <<>>
  BY <1>3, ScheduleStart
<1>4. CASE pc \in ChrootSteps /\ pc' \in ChrootSteps /\ UNCHANGED <<table, plan, mounted>>
  <2>1. Schedule' = Schedule
    BY <1>4 DEF Schedule
  <2>. QED
    BY <1>4, <2>1 DEF ScheduleInv, ChrootSteps, ConfigSteps, Settings
<1>5. CASE \E r \in Requests : Format(r)
  BY <1>1, <1>5 DEF Format, ChrootSteps, ConfigSteps, Settings
<1>6. CASE WriteSystemModel \/ WriteSystemModelFails \/ InstallSystem \/ InstallSystemFails
  BY <1>1, <1>3, <1>6 DEF WriteSystemModel, WriteSystemModelFails, InstallSystem,
        InstallSystemFails, Begin, Refuse, ChrootSteps, ConfigSteps, Settings
<1>7. CASE MountTop \/ CreateSubvols \/ SetDefault \/ UnmountTop
  BY <1>1, <1>3, <1>7 DEF MountTop, CreateSubvols, SetDefault, UnmountTop, Fails, Return,
        ChrootSteps, ConfigSteps, Settings
<1>8. CASE MountModelRoot \/ WriteModel \/ UnmountModelRoot
  BY <1>1, <1>8 DEF MountModelRoot, WriteModel, UnmountModelRoot, Fails, Return,
        ChrootSteps, ConfigSteps, Settings
<1>9. CASE ConfigureRepos \/ UpdateIndex \/ MossSync \/ WriteFstab
  BY <1>1, <1>4, <1>9 DEF ConfigureRepos, UpdateIndex, MossSync, WriteFstab, Succeeds,
        CommandFails, Fails, ChrootSteps, ConfigSteps, Settings
<1>10. CASE \E step \in Settings : Configure(step)
  <2> SUFFICES ASSUME NEW step \in Settings, Configure(step)
               PROVE  ScheduleInv'
    BY <1>10
  <2>1. CASE pc' = After(step) /\ UNCHANGED <<table, plan, mounted>>
    <3>1. pc \in ChrootSteps /\ pc' \in ChrootSteps
      BY <2>1 DEF Configure, After, ChrootSteps, ConfigSteps, Settings
    <3>. QED
      BY <1>4, <2>1, <3>1
  <2>2. CASE CommandFails
    BY <1>1, <2>2 DEF CommandFails, Fails, ChrootSteps, ConfigSteps, Settings
  <2>. QED
    BY <2>1, <2>2 DEF Configure, Succeeds, machine
<1>11. CASE ForgetMachineId \/ SetupMachineId
  BY <1>1, <1>4, <1>11 DEF ForgetMachineId, SetupMachineId, Succeeds, CommandFails, Fails,
        ChrootSteps, ConfigSteps, Settings
<1>12. CASE Unwind \/ SyncAndReturn \/ BackendDies
  BY <1>1, <1>12 DEF Unwind, SyncAndReturn, BackendDies, Return, ChrootSteps, ConfigSteps, Settings
<1>13. CASE UNCHANGED vars
  <2>1. Schedule' = Schedule
    BY <1>13 DEF vars, Schedule
  <2>. QED
    BY <1>13, <2>1 DEF vars, machine, ScheduleInv
<1>. QED
  BY <1>2, <1>5, <1>6, <1>7, <1>8, <1>9, <1>10, <1>11, <1>12, <1>13 DEF Next, Call

-----------------------------------------------------------------------------
(***************************************************************************)
(* The theorems.                                                           *)
(***************************************************************************)

\* The inductive invariant: control, held mounts, ledger and schedule agree in
\* every reachable state.
THEOREM TableInvariant == Spec => []TableInv
<1>1. Init => TableInv
  <2> SUFFICES ASSUME Init
               PROVE  TableInv
    OBVIOUS
  <2>1. TypeOK
    BY InitType
  <2>2. CallInv /\ HeldInv
    BY DEF Init, CallInv, HeldInv, ModelSteps, ChrootSteps, ConfigSteps, Settings, Orderly, Distinct, Sorted
  <2>3. LedgerInv /\ ScheduleInv
    BY DEF Init, LedgerInv, ScheduleInv, ChrootSteps, ConfigSteps, Settings
  <2>. QED
    BY <2>1, <2>2, <2>3 DEF TableInv
<1>2. TableInv /\ [Next]_vars => TableInv'
  <2> SUFFICES ASSUME TableInv, [Next]_vars
               PROVE  TableInv'
    OBVIOUS
  <2>1. TypeOK'
    BY TypeStep DEF TableInv
  <2>2. CallInv' /\ HeldInv'
    <3>1. CASE UNCHANGED vars
      BY <3>1 DEF vars, TableInv, CallInv, HeldInv
    <3>. QED
      BY <3>1, CallHeldBegin, CallHeldStep DEF TableInv, Next
  <2>3. LedgerInv'
    BY LedgerStep DEF TableInv
  <2>4. ScheduleInv'
    BY <2>1, ScheduleStep DEF TableInv
  <2>. QED
    BY <2>1, <2>2, <2>3, <2>4 DEF TableInv
<1>. QED
  BY <1>1, <1>2, PTL DEF Spec

\* Every reachable state is well typed: what the backend computes from any
\* accepted request stays within mountpoints, volumes and artifacts it knows.
THEOREM TypeCorrect == Spec => []TypeOK
<1>1. TableInv => TypeOK
  BY DEF TableInv
<1>. QED
  BY <1>1, TableInvariant, PTL

\* Whatever command of a call fails, install_target and write_to_target leave
\* the mount table as the call found it, faults of this call aside.
THEOREM TargetRestoredAlways == Spec => []TargetRestored
<1>1. TableInv => TargetRestored
  <2> SUFFICES ASSUME TableInv, pc = "idle", ~stuck
               PROVE  table = base
    BY DEF TargetRestored
  <2>1. table \in Seq(MountType) /\ base \in Seq(MountType)
    BY DEF TableInv, TypeOK
  <2>2. Len(mounted) = 0
    BY DEF TableInv, HeldInv
  <2>3. Len(base) \in Nat
    BY <2>1, LenProperties
  <2>4. Len(table) = Len(base) /\ \A i \in 1..Len(base) : table[i] = base[i]
    BY <2>2, <2>3 DEF TableInv, LedgerInv
  <2>. QED
    BY <2>1, <2>4, SeqEqual
<1>. QED
  BY <1>1, TableInvariant, PTL

\* In an orderly plan nothing mounted after a mountpoint covers it.
LEMMA LaterDoesNotCover ==
    ASSUME TypeOK, Orderly(plan), NEW i \in 1..Len(plan), NEW q \in 1..Len(Schedule), i < q
    PROVE  ~Covers(Schedule[q].at, plan[i].mountpoint)
<1>1. /\ Len(plan) \in Nat
      /\ DOMAIN plan = 1..Len(plan)
      /\ Len(Schedule) = Len(plan) + 5
  BY ScheduleType, LenProperties DEF TypeOK
<1>2. CASE q <= Len(plan)
  <2>1. q \in 1..Len(plan)
    BY <1>1, <1>2
  <2>2. plan[i] \in ResolvedType /\ plan[q] \in ResolvedType
    <3>1. plan \in Seq(ResolvedType)
      BY DEF TypeOK
    <3>. QED
      BY <2>1, <3>1, ElementOfSeq
  <2>3. Schedule[q].at = plan[q].mountpoint
    <3>1. Schedule[q] = MountEntry(plan[q])
      BY <2>1, ScheduleType
    <3>. QED
      BY <3>1 DEF MountEntry, Entry
  <2>4. plan[q].mountpoint # plan[i].mountpoint
    BY <1>1, <2>1 DEF Orderly, Distinct
  <2>5. <<plan[q].mountpoint, plan[i].mountpoint>> \notin Above
    <3>1. Length[plan[i].mountpoint] <= Length[plan[q].mountpoint]
      BY <1>1, <2>1 DEF Orderly, Sorted
    <3>2. /\ plan[i].mountpoint \in Mountpoint /\ plan[q].mountpoint \in Mountpoint
          /\ Length[plan[i].mountpoint] \in Nat /\ Length[plan[q].mountpoint] \in Nat
      BY <2>2, MountpointAssumption DEF ResolvedType
    <3>3. <<plan[q].mountpoint, plan[i].mountpoint>> \in Above
             => Length[plan[q].mountpoint] < Length[plan[i].mountpoint]
      BY <3>2, PathAssumption
    <3>. QED
      BY <3>1, <3>2, <3>3
  <2>. QED
    BY <2>3, <2>4, <2>5 DEF Covers
<1>3. CASE q > Len(plan)
  <2>1. q \in (Len(plan) + 1)..(Len(plan) + 5) /\ q - Len(plan) \in DOMAIN Binds
    BY <1>1, <1>3 DEF Binds
  <2>2. Schedule[q].at = Binds[q - Len(plan)]
    <3>1. Schedule[q] = Entry(HostFs, "none", Binds[q - Len(plan)])
      BY <2>1, ScheduleType
    <3>. QED
      BY <3>1 DEF Entry
  <2>. QED
    BY <1>1, <2>1, <2>2 DEF Orderly
<1>. QED
  BY <1>1, <1>2, <1>3

\* The mounts of the plan are visible because the top of the table is the
\* schedule, in its order.
LEMMA PlanIsServed == TableInv => MountsServed
<1> SUFFICES ASSUME TableInv, pc \in ChrootSteps
             PROVE  /\ HasRoot(plan)
                    /\ \A i \in DOMAIN plan : \E j \in DOMAIN table :
                          /\ table[j] = MountEntry(plan[i])
                          /\ Serves(table, j, plan[i].mountpoint)
  BY DEF MountsServed
<1> DEFINE n == Len(table)
           m == Len(Schedule)
<1>1. HasRoot(plan) /\ Orderly(plan)
  BY DEF TableInv, CallInv, ChrootSteps, ConfigSteps, Settings
<1>2. /\ n \in Nat /\ m \in Nat /\ Len(plan) \in Nat /\ m = Len(plan) + 5
      /\ DOMAIN table = 1..n /\ DOMAIN plan = 1..Len(plan)
  <2>1. TypeOK
    BY DEF TableInv
  <2>2. Len(Schedule) = Len(plan) + 5
    BY <2>1, ScheduleType
  <2>3. table \in Seq(MountType) /\ plan \in Seq(ResolvedType)
    BY <2>1 DEF TypeOK
  <2>. QED
    BY <2>2, <2>3, LenProperties
<1>3. n >= m /\ \A i \in 1..m : table[n - m + i] = Schedule[i]
  BY DEF TableInv, ScheduleInv
<1>. HIDE DEF n, m
<1>4. ASSUME NEW i \in 1..Len(plan)
      PROVE  \E j \in DOMAIN table :
                /\ table[j] = MountEntry(plan[i])
                /\ Serves(table, j, plan[i].mountpoint)
  <2>1. n - m + i \in DOMAIN table /\ i \in 1..m
    <3>1. n - m + i \in 1..n /\ i \in 1..m
      BY <1>2, <1>3
    <3>. QED
      BY <1>2, <3>1
  <2>2. table[n - m + i] = MountEntry(plan[i])
    BY <1>3, <2>1, ScheduleType DEF TableInv
  <2>3. Covers(table[n - m + i].at, plan[i].mountpoint)
    BY <2>2 DEF Covers, MountEntry, Entry
  <2>4. ASSUME NEW k \in DOMAIN table, k > n - m + i
        PROVE  ~Covers(table[k].at, plan[i].mountpoint)
    <3> DEFINE q == k - (n - m)
    <3>1. q \in 1..m /\ i < q /\ n - m + q = k
      <4>1. k \in 1..n
        BY <1>2
      <4>. QED
        BY <1>2, <1>3, <2>4, <4>1
    <3>2. table[k] = Schedule[q]
      BY <1>3, <3>1
    <3>. HIDE DEF q
    <3>3. q \in 1..Len(Schedule)
      BY <3>1 DEF m
    <3>. QED
      BY <1>1, <3>1, <3>2, <3>3, LaterDoesNotCover DEF TableInv
  <2>. QED
    BY <2>1, <2>2, <2>3, <2>4 DEF Serves
<1>. QED
  BY <1>1, <1>2, <1>4

\* Whatever earlier runs left mounted, moss and the chroot commands see every
\* filesystem of the plan at its mountpoint.
THEOREM MountsServedAlways == Spec => []MountsServed
  BY PlanIsServed, TableInvariant, PTL

-----------------------------------------------------------------------------
(***************************************************************************)
(* The layout, and what a call makes of it.                                *)
(***************************************************************************)

\* A layout is of partitions of the machine.
LEMMA LayoutDevices ==
    ASSUME NEW r \in Requests, NEW i \in DOMAIN r.mounts
    PROVE  r.mounts[i].device \in Device
<1>1. r.mounts \in Seq([device : Device, mountpoint : Mountpoint \cup Relative])
  BY RequestAssumption
<1>2. r.mounts[i] \in [device : Device, mountpoint : Mountpoint \cup Relative]
  BY <1>1, LenProperties, ElementOfSeq
<1>. QED
  BY <1>2

\* A layout names partitions, and at most one of them as the root.
LEMMA RequestType ==
    ASSUME TypeOK
    PROVE  /\ request.mounts \in Seq([device : Device, mountpoint : Mountpoint \cup Relative])
           /\ Distinct(request.mounts)
           /\ \A i \in DOMAIN request.mounts : request.mounts[i].device \in Device
           /\ RequestRoots \subseteq Device
           /\ \A d, e \in RequestRoots : d = e
<1>1. /\ request.mounts \in Seq([device : Device, mountpoint : Mountpoint \cup Relative])
      /\ Distinct(request.mounts)
  BY RequestAssumption DEF TypeOK, Distinct
<1>2. \A i \in DOMAIN request.mounts : request.mounts[i].device \in Device
  BY LayoutDevices DEF TypeOK
<1>. QED
  BY <1>1, <1>2 DEF RequestRoots, Distinct

\* Whatever a call has resolved, its mounts are of partitions of the layout, and
\* its root is the layout's, on @ if that is a btrfs.
LEMMA PlanEntries ==
    ASSUME TypeOK, NEW kind \in {"write", "install"}, NEW p \in PlansOf(kind), NEW i \in DOMAIN p
    PROVE  /\ \E j \in DOMAIN request.mounts : request.mounts[j].device = p[i].device
           /\ p[i].mountpoint = Root =>
                 /\ p[i].device \in RequestRoots
                 /\ p[i].subvol = IF disk[p[i].device].fstype = "btrfs" THEN RootSubvol ELSE "none"
<1>1. CASE kind = "write"
  <2>1. PICK d \in RequestRoots : p = ModelPlanOf(d)
    BY <1>1 DEF PlansOf
  <2>2. i = 1 /\ p[1].device = d /\ p[1].subvol = IF disk[d].fstype = "btrfs" THEN RootSubvol ELSE "none"
    BY <2>1 DEF ModelPlanOf
  <2>. QED
    BY <2>1, <2>2 DEF RequestRoots
<1>2. CASE kind = "install"
  <2> DEFINE m == request.mounts
             places == Mountpoint \cup Relative
  <2>1. p \in Resolutions(m, ProbedType)
    BY <1>2 DEF PlansOf
  <2>2. /\ m \in Seq([device : Device, mountpoint : places])
        /\ Distinct(m)
        /\ \A j \in DOMAIN m : m[j].device \in Device
    BY RequestType
  <2>3. ProbedType \in [Device -> FsType] /\ \A d \in Device : ProbedType[d] = disk[d].fstype
    BY DEF ProbedType, TypeOK, DiskType
  <2>4. Home \in places
    BY MountpointAssumption
  <2>. HIDE DEF m, places
  <2>5. TakenFrom(m, p, ProbedType)
    BY <2>1, <2>2, <2>3, <2>4, ResolutionEntries
  <2>6. PICK j \in DOMAIN m :
           /\ p[i].device = m[j].device
           /\ p[i].mountpoint = Root =>
                 /\ m[j].mountpoint = Root
                 /\ p[i].fstype = ProbedType[m[j].device]
                 /\ p[i].subvol = IF p[i].fstype = "btrfs" THEN RootSubvol ELSE "none"
    BY <2>5 DEF TakenFrom
  <2>. QED
    BY <2>2, <2>3, <2>6 DEF RequestRoots, m
<1>. QED
  BY <1>1, <1>2

\* While a call is under way its plan's root is the layout's root.
LEMMA RootsAgree ==
    ASSUME TypeOK, CallInv, RunInv, pc # "idle"
    PROVE  RootDevices = RequestRoots /\ RequestRoots # {}
<1>1. plan \in PlansOf(op) /\ op \in {"write", "install"}
  BY DEF RunInv, TypeOK
<1>2. RootDevices \subseteq RequestRoots
  BY <1>1, PlanEntries DEF RootDevices
<1>3. \E i \in DOMAIN plan : plan[i].mountpoint = Root
  <2>1. CASE op = "write"
    <3>1. Len(plan) = 1 /\ plan[1].mountpoint = Root
      BY <2>1 DEF CallInv
    <3>2. DOMAIN plan = 1..Len(plan)
      BY LenProperties DEF TypeOK
    <3>. QED
      BY <3>1, <3>2
  <2>2. CASE op = "install"
    BY <2>2 DEF CallInv, HasRoot
  <2>. QED
    BY <1>1, <2>1, <2>2
<1>4. RootDevices # {}
  BY <1>3 DEF RootDevices
<1>. QED
  BY <1>2, <1>4, RequestType

\* Once the default subvolume is settled, mounting the plan's root shows the
\* volume the installed system has as its root.
LEMMA RootVolumeShown ==
    ASSUME TypeOK, RunInv, VolumeInv, Settled, pc # "idle" \/ stage \in {"written", "installed"},
           NEW i \in DOMAIN plan, plan[i].mountpoint = Root
    PROVE  /\ plan[i].device \in RequestRoots
           /\ VolumeOf(MountEntry(plan[i])) = RootVolume(plan[i].device)
<1>1. plan \in PlansOf(op) /\ op \in {"write", "install"}
  BY DEF RunInv, TypeOK
<1>2. /\ plan[i].device \in RequestRoots
      /\ plan[i].subvol = IF disk[plan[i].device].fstype = "btrfs" THEN RootSubvol ELSE "none"
  BY <1>1, PlanEntries
<1>3. disk[plan[i].device].default = RootVolume(plan[i].device)
  BY <1>2 DEF VolumeInv
<1>. QED
  BY <1>2, <1>3 DEF VolumeOf, MountEntry, Entry, RootVolume, RootSubvol

-----------------------------------------------------------------------------
(***************************************************************************)
(* Where files land.                                                       *)
(***************************************************************************)

\* A lookup ends in one mount only.
LEMMA Landing ==
    ASSUME TypeOK, NEW path, NEW j \in DOMAIN table, Serves(table, j, path), NEW d, NEW v
    PROVE  Shows(path, d, v) <=> d = table[j].dev /\ v = VolumeOf(table[j])
<1>1. \A i \in DOMAIN table : Serves(table, i, path) => i = j
  <2> SUFFICES ASSUME NEW i \in DOMAIN table, Serves(table, i, path), i # j
               PROVE  FALSE
    OBVIOUS
  <2>1. i < j \/ j < i
    BY LenProperties DEF TypeOK
  <2>. QED
    BY <2>1 DEF Serves
<1>. QED
  BY <1>1 DEF Shows

\* While moss and the chroot commands run, what is written below a mountpoint of
\* the plan lands on its partition.
LEMMA PlanLanding ==
    ASSUME TableInv, pc \in ChrootSteps, NEW i \in DOMAIN plan, NEW d, NEW v
    PROVE  Shows(plan[i].mountpoint, d, v)
              <=> d = plan[i].device /\ v = VolumeOf(MountEntry(plan[i]))
<1>1. PICK j \in DOMAIN table :
         table[j] = MountEntry(plan[i]) /\ Serves(table, j, plan[i].mountpoint)
  BY PlanIsServed DEF MountsServed
<1>2. MountEntry(plan[i]).dev = plan[i].device
  BY DEF MountEntry, Entry
<1>3. TypeOK
  BY DEF TableInv
<1>. QED
  BY <1>1, <1>2, <1>3, Landing

\* The last mount serves its own path.
LEMMA LastServes ==
    ASSUME TypeOK, table # <<>>
    PROVE  Len(table) \in DOMAIN table /\ Serves(table, Len(table), table[Len(table)].at)
  BY LenProperties, EmptySeq DEF TypeOK, Serves, Covers

\* Wherever the code writes below the target root, that is the root volume of the
\* partition the layout asks for.
LEMMA RootLanding ==
    ASSUME TableInv, RunInv, TopInv, VolumeInv, pc \in ChrootSteps \cup {"write_model"},
           NEW d, NEW v
    PROVE  Shows(Root, d, v) <=> d \in RequestRoots /\ v = RootVolume(d)
<1>1. TypeOK /\ CallInv /\ pc # "idle" /\ Settled
  BY DEF TableInv, Settled, ModelSteps, ChrootSteps, ConfigSteps, Settings
<1>2. \A i \in DOMAIN plan : plan[i].mountpoint = Root =>
         plan[i].device \in RequestRoots /\ VolumeOf(MountEntry(plan[i])) = RootVolume(plan[i].device)
  BY <1>1, RootVolumeShown
<1>3. CASE pc \in ChrootSteps
  <2>1. PICK i \in DOMAIN plan : plan[i].mountpoint = Root
    BY <1>3, PlanIsServed DEF MountsServed, HasRoot
  <2>2. Shows(Root, d, v) <=> d = plan[i].device /\ v = VolumeOf(MountEntry(plan[i]))
    BY <1>3, <2>1, PlanLanding
  <2>3. d \in RequestRoots <=> d = plan[i].device
    BY <1>1, <1>2, <2>1, RequestType
  <2>. QED
    BY <1>2, <2>1, <2>2, <2>3
<1>4. CASE pc = "write_model"
  <2>1. op = "write" /\ Len(plan) = 1 /\ plan[1].mountpoint = Root
    BY <1>1, <1>4 DEF CallInv, ModelSteps
  <2>2. 1 \in DOMAIN plan
    BY <1>1, <2>1, LenProperties DEF TypeOK
  <2>3. table # <<>> /\ table[Len(table)] = MountEntry(plan[1])
    BY <1>4 DEF TopInv
  <2>4. MountEntry(plan[1]).dev = plan[1].device /\ MountEntry(plan[1]).at = Root
    BY <2>1 DEF MountEntry, Entry
  <2>5. Shows(Root, d, v) <=> d = plan[1].device /\ v = VolumeOf(MountEntry(plan[1]))
    BY <1>1, <2>3, <2>4, LastServes, Landing
  <2>6. d \in RequestRoots <=> d = plan[1].device
    BY <1>1, <1>2, <2>1, <2>2, RequestType
  <2>. QED
    BY <1>2, <2>1, <2>2, <2>5, <2>6
<1>. QED
  BY <1>3, <1>4

\* What a step that writes files does to a partition: files and nothing else, in
\* the volumes that are shown.
LEMMA StoreEffect ==
    ASSUME TypeOK, NEW added, NEW removed, Store(added, removed), NEW d \in Device
    PROVE  /\ disk'[d].fstype = disk[d].fstype
           /\ disk'[d].default = disk[d].default
           /\ \A v \in Volume :
                 disk'[d].files[v] = (disk[d].files[v] \ {a \in removed : Shows(Root, d, v)})
                                        \cup {x[2] : x \in {y \in added : Shows(y[1], d, v)}}
           /\ disk'[d] # disk[d] =>
                 \E v \in Volume : Shows(Root, d, v) \/ \E x \in added : Shows(x[1], d, v)
<1> DEFINE files == [v \in Volume |->
              (disk[d].files[v] \ {a \in removed : Shows(Root, d, v)})
                 \cup {x[2] : x \in {y \in added : Shows(y[1], d, v)}}]
<1>1. disk'[d] = [disk[d] EXCEPT !.files = files]
  BY DEF Store
<1>2. disk[d] \in DiskType
  BY DEF TypeOK
<1>3. \A v \in Volume : files[v] = (disk[d].files[v] \ {a \in removed : Shows(Root, d, v)})
                                      \cup {x[2] : x \in {y \in added : Shows(y[1], d, v)}}
  OBVIOUS
<1>4. ASSUME \A v \in Volume : ~Shows(Root, d, v) /\ \A x \in added : ~Shows(x[1], d, v)
      PROVE  disk'[d] = disk[d]
  <2>1. \A v \in Volume : files[v] = disk[d].files[v]
    BY <1>3, <1>4
  <2>2. disk[d].files \in [Volume -> SUBSET Artifact]
    BY <1>2 DEF DiskType
  <2>3. files = disk[d].files
    BY <2>1, <2>2
  <2>. HIDE DEF files
  <2>. QED
    BY <1>1, <1>2, <2>3 DEF DiskType
<1>5. disk'[d].files = files /\ disk'[d].fstype = disk[d].fstype /\ disk'[d].default = disk[d].default
  <2>. HIDE DEF files
  <2>. QED
    BY <1>1, <1>2 DEF DiskType
<1>. QED
  BY <1>3, <1>4, <1>5

-----------------------------------------------------------------------------
(***************************************************************************)
(* Unwritten data and the mount table.                                     *)
(***************************************************************************)

\* Taking an entry out of the table leaves the others in.
LEMMA DetachKeeps ==
    ASSUME NEW S, NEW s \in Seq(S), NEW i \in DOMAIN s, NEW j \in DOMAIN s, j # i
    PROVE  \E k \in DOMAIN Detach(s, i) : Detach(s, i)[k] = s[j]
<1> DEFINE a == SubSeq(s, 1, i - 1)
           b == SubSeq(s, i + 1, Len(s))
<1>1. /\ Len(s) \in Nat /\ DOMAIN s = 1..Len(s)
      /\ i \in 1..Len(s) /\ j \in 1..Len(s)
      /\ \A k \in 1..Len(s) : s[k] \in S
  BY LenProperties, ElementOfSeq
<1>2. /\ a \in Seq(S) /\ Len(a) = i - 1
      /\ \A k \in 1..(i - 1) : a[k] = s[k]
  <2>1. \A k \in 1..(i - 1) : s[k] \in S
    BY <1>1
  <2>2. 1 \in Nat /\ i - 1 \in Nat
    BY <1>1
  <2>3. /\ a \in Seq(S)
        /\ Len(a) = IF 1 <= i - 1 THEN i - 1 - 1 + 1 ELSE 0
        /\ \A k \in 1..(i - 1 - 1 + 1) : a[k] = s[1 + k - 1]
    BY <1>1, <2>1, <2>2, SubSeqProperties
  <2>. HIDE DEF a
  <2>. QED
    BY <1>1, <2>2, <2>3
<1>3. /\ b \in Seq(S) /\ Len(b) = Len(s) - i
      /\ \A k \in 1..(Len(s) - i) : b[k] = s[i + k]
  <2>1. i + 1 \in Int /\ Len(s) \in Int /\ \A k \in (i + 1)..Len(s) : s[k] \in S
    BY <1>1
  <2>2. /\ b \in Seq(S)
        /\ Len(b) = IF i + 1 <= Len(s) THEN Len(s) - (i + 1) + 1 ELSE 0
        /\ \A k \in 1..(Len(s) - (i + 1) + 1) : b[k] = s[i + 1 + k - 1]
    BY <1>1, <2>1, SubSeqProperties
  <2>. HIDE DEF b
  <2>3. Len(b) = Len(s) - i /\ Len(s) - (i + 1) + 1 = Len(s) - i
    BY <1>1, <2>2
  <2>4. \A k \in 1..(Len(s) - i) : i + 1 + k - 1 = i + k
    BY <1>1
  <2>. QED
    BY <2>2, <2>3, <2>4
<1>4. Detach(s, i) = a \o b
  BY DEF Detach, RemoveAt
<1>. HIDE DEF a, b
<1>5. /\ DOMAIN (a \o b) = 1..(Len(a) + Len(b))
      /\ \A k \in 1..(Len(a) + Len(b)) :
            (a \o b)[k] = IF k <= Len(a) THEN a[k] ELSE b[k - Len(a)]
  BY <1>2, <1>3, ConcatProperties, LenProperties, SMTT(30)
<1>6. CASE j < i
  <2>1. j \in 1..(i - 1) /\ j \in 1..(Len(a) + Len(b)) /\ j <= Len(a)
    BY <1>1, <1>2, <1>3, <1>6
  <2>. QED
    BY <1>2, <1>4, <1>5, <2>1
<1>7. CASE j > i
  <2> DEFINE k == j - 1
  <2>1. Len(a) = i - 1 /\ Len(b) = Len(s) - i /\ i \in Int /\ j \in Int /\ Len(s) \in Int
    BY <1>1, <1>2, <1>3
  <2>2. i >= 1 /\ j <= Len(s)
    BY <1>1
  <2>3. /\ k \in 1..(Len(a) + Len(b))
        /\ ~(k <= Len(a))
        /\ k - Len(a) \in 1..(Len(s) - i)
        /\ i + (k - Len(a)) = j
    <3>1. Len(a) + Len(b) = Len(s) - 1
      BY <2>1
    <3>2. k \in 1..(Len(s) - 1)
      BY <1>7, <2>1, <2>2
    <3>3. k - Len(a) = j - i
      BY <2>1
    <3>4. j - i \in 1..(Len(s) - i) /\ i + (j - i) = j
      BY <1>7, <2>1, <2>2
    <3>5. ~(k <= Len(a))
      BY <1>7, <2>1
    <3>. QED
      BY <3>1, <3>2, <3>3, <3>4, <3>5
  <2>. HIDE DEF k
  <2>4. (a \o b)[k] = s[j]
    BY <1>3, <1>5, <2>3
  <2>. QED
    BY <1>4, <1>5, <2>3, <2>4
<1>. QED
  BY <1>1, <1>6, <1>7

\* What is unwritten is in a filesystem that is still mounted.
Pending == \A d \in dirty : IsMounted(table, d)

\* umount writes back what it detaches last, so what is unwritten stays mounted.
LEMMA UnmountPending ==
    ASSUME TypeOK, Pending, NEW path, Unmount(path)
    PROVE  Pending'
<1>1. CASE UNCHANGED <<table, dirty>>
  BY <1>1 DEF Pending
<1>2. ASSUME NEW i \in DOMAIN table, Detached(i)
      PROVE  Pending'
  <2> SUFFICES ASSUME NEW d \in dirty'
               PROVE  \E k \in DOMAIN table' : table'[k].dev = d
    BY DEF Pending, IsMounted
  <2>1. d \in dirty
    BY <1>2 DEF Detached
  <2>2. PICK j \in DOMAIN table : table[j].dev = d
    BY <2>1 DEF Pending, IsMounted
  <2>3. \E l \in DOMAIN table : l # i /\ table[l].dev = d
    BY <1>2, <2>2 DEF Detached
  <2>4. PICK l \in DOMAIN table : l # i /\ table[l].dev = d
    BY <2>3
  <2>5. table \in Seq(MountType)
    BY DEF TypeOK
  <2>6. \E k \in DOMAIN Detach(table, i) : Detach(table, i)[k] = table[l]
    BY <2>4, <2>5, DetachKeeps
  <2>. QED
    BY <1>2, <2>4, <2>6 DEF Detached
<1>. QED
  BY <1>1, <1>2 DEF Unmount

\* Mounting hides nothing from the kernel.
LEMMA AttachMounted ==
    ASSUME TypeOK, NEW e \in MountType
    PROVE  /\ \A d : IsMounted(table, d) => IsMounted(Attach(table, e), d)
           /\ Attach(table, e) # <<>>
           /\ Attach(table, e)[Len(Attach(table, e))] = e
<1>1. /\ table \in Seq(MountType)
      /\ Len(table) \in Nat
      /\ DOMAIN table = 1..Len(table)
  BY LenProperties DEF TypeOK
<1>2. /\ Append(table, e) \in Seq(MountType)
      /\ Len(Append(table, e)) = Len(table) + 1
      /\ DOMAIN Append(table, e) = 1..(Len(table) + 1)
      /\ \A i \in 1..Len(table) : Append(table, e)[i] = table[i]
      /\ Append(table, e)[Len(table) + 1] = e
  BY <1>1, AppendProperties, LenProperties
<1>3. Append(table, e) # <<>>
  BY <1>1, <1>2, EmptySeq
<1>4. \A i \in 1..Len(table) : i \in 1..(Len(table) + 1)
  BY <1>1
<1>. QED
  BY <1>1, <1>2, <1>3, <1>4 DEF Attach, IsMounted

\* Files are written to filesystems that are mounted.
LEMMA StorePending ==
    ASSUME Pending, NEW added, NEW removed, Store(added, removed), UNCHANGED table
    PROVE  Pending'
  BY DEF Pending, Store, Shows, IsMounted

-----------------------------------------------------------------------------
(***************************************************************************)
(* DiskInv: steps that leave the files alone.                              *)
(***************************************************************************)

\* Nothing but the subvolumes of a partition may have changed.
SameDisks ==
    \A d \in Device : /\ disk'[d].fstype = disk[d].fstype
                      /\ disk'[d].default = disk[d].default
                      /\ disk'[d].files = disk[d].files

\* What the layout resolves to depends on the layout and the filesystems alone.
LEMMA SamePlans ==
    ASSUME TypeOK, UNCHANGED request, \A d \in Device : disk'[d].fstype = disk[d].fstype
    PROVE  /\ RequestRoots' = RequestRoots
           /\ \A d \in Device : RootVolume(d)' = RootVolume(d)
           /\ \A kind : PlansOf(kind)' = PlansOf(kind)
<1>1. RequestRoots' = RequestRoots
  BY DEF RequestRoots
<1>2. \A d \in Device : RootVolume(d)' = RootVolume(d)
  BY DEF RootVolume
<1>3. ProbedType' = ProbedType
  BY DEF ProbedType
<1>4. \A d \in RequestRoots : ModelPlanOf(d)' = ModelPlanOf(d)
  BY RequestType DEF ModelPlanOf
<1>. QED
  BY <1>1, <1>2, <1>3, <1>4 DEF PlansOf

\* A step within a call keeps RunInv.
LEMMA RunStep ==
    ASSUME TypeOK, RunInv, pc # "idle", pc' # "idle",
           UNCHANGED <<request, stage, op, plan>>,
           \A d \in Device : disk'[d].fstype = disk[d].fstype,
           pc' \in TopSteps => pc \in TopSteps
    PROVE  RunInv'
  BY SamePlans, RequestType DEF RunInv

\* A call that ends in an error promises nothing.
LEMMA EndsBadly ==
    ASSUME TypeOK, DiskInv, UNCHANGED <<disk, request>>, pc' = "idle", stage' = "idle", Pending'
    PROVE  DiskInv'
<1>1. ~Finished' /\ ~Settled' /\ Due' = {}
  BY DEF Finished, Settled, Due, ModelSteps, ChrootSteps, ConfigSteps, Settings
<1>2. RequestRoots' = RequestRoots /\ \A d \in Device : RootVolume(d)' = RootVolume(d)
  BY SamePlans
<1>3. RunInv' /\ TopInv' /\ DirtyInv'
  BY DEF RunInv, TopInv, DirtyInv, Pending, TopSteps
<1>4. VolumeInv'
  BY <1>1, <1>2 DEF VolumeInv, DiskInv
<1>5. RootInv'
  BY <1>1 DEF RootInv
<1>6. MachineIdInv' /\ BootInv' /\ FstabInv'
  BY <1>1 DEF MachineIdInv, Forgotten, Renewed, BootInv, FstabInv, ConfigSteps, Settings
<1>. QED
  BY <1>3, <1>4, <1>5, <1>6 DEF DiskInv

\* A step of a call that has not come to writing files, or gives up doing so.
LEMMA QuietStep ==
    ASSUME TypeOK, DiskInv, SameDisks, UNCHANGED <<request, stage, op, plan, fstab>>,
           pc # "idle", pc' # "idle", Settled' => Settled,
           pc' \in TopSteps => pc \in TopSteps,
           pc' \notin ChrootSteps \ {"repos"},
           ~(pc' = "unwind" /\ ok'), ~(pc' = "unmount_model" /\ ok'),
           TopInv', Pending'
    PROVE  DiskInv'
<1>1. /\ RequestRoots' = RequestRoots /\ RequestRoots \subseteq Device
      /\ \A d \in Device : RootVolume(d)' = RootVolume(d)
  BY SamePlans, RequestType DEF SameDisks
<1>2. RunInv' /\ stage # "installed"
  BY RunStep DEF DiskInv, SameDisks, RunInv
<1>3. ~Finished'
  BY <1>2 DEF Finished
<1>4. Due' = {}
  BY <1>3 DEF Due, ChrootSteps, ConfigSteps, Settings
<1>5. DirtyInv'
  BY <1>2 DEF DirtyInv, Pending
<1>6. VolumeInv'
  BY <1>1 DEF VolumeInv, DiskInv, SameDisks
<1>7. RootInv'
  <2> SUFFICES ASSUME NEW d \in RequestRoots
               PROVE  /\ stage \in {"formatted", "written"} /\ op = "write" =>
                            disk[d].files[RootVolume(d)] \subseteq {"system-model", "install-model"}
                      /\ stage = "written" => "system-model" \in disk[d].files[RootVolume(d)]
    BY <1>1, <1>2, <1>4 DEF RootInv, SameDisks
  <2>. QED
    BY DEF RootInv, DiskInv
<1>8. MachineIdInv'
  BY <1>1, <1>3 DEF MachineIdInv, Forgotten, Renewed, DiskInv, SameDisks, ChrootSteps, ConfigSteps, Settings
<1>9. BootInv' /\ FstabInv'
  BY <1>3 DEF BootInv, FstabInv, ChrootSteps, ConfigSteps, Settings
<1>. QED
  BY <1>2, <1>5, <1>6, <1>7, <1>8, <1>9 DEF DiskInv

\* A step that moves mounts only.
LEMMA MountsOnly ==
    ASSUME TypeOK, DiskInv, UNCHANGED <<disk, request, stage, op, pc, plan, ok, kept, fstab>>,
           TopInv', Pending', pc # "idle"
    PROVE  DiskInv'
<1>1. RunInv' /\ VolumeInv' /\ RootInv'
  <2>1. /\ RequestRoots' = RequestRoots
        /\ \A d : RootVolume(d)' = RootVolume(d)
        /\ Settled' = Settled /\ Due' = Due
        /\ \A kind : PlansOf(kind)' = PlansOf(kind)
    BY DEF RequestRoots, RootVolume, Settled, Due, Finished, RequiredArtifacts, Requested, PlansOf,
           ModelPlanOf, ProbedType
  <2>. QED
    BY <2>1 DEF DiskInv, RunInv, VolumeInv, RootInv
<1>2. MachineIdInv' /\ BootInv' /\ FstabInv'
  BY DEF DiskInv, MachineIdInv, Forgotten, Renewed, BootInv, FstabInv, Finished, RequestRoots, RootVolume, VolumeOf
<1>3. DirtyInv'
  BY DEF DirtyInv, Pending, DiskInv, RunInv
<1>. QED
  BY <1>1, <1>2, <1>3 DEF DiskInv

-----------------------------------------------------------------------------
(***************************************************************************)
(* DiskInv: before and after the calls.                                    *)
(***************************************************************************)

\* A new layout starts with empty partitions.
LEMMA FormatDisk ==
    ASSUME TypeOK, TypeOK', DiskInv, NEW r \in Requests, Format(r)
    PROVE  DiskInv'
<1>1. /\ pc' = "idle" /\ stage' = "formatted" /\ request' = r
      /\ UNCHANGED <<table, dirty>>
  BY DEF Format
<1>2. ~Finished' /\ ~Settled' /\ Due' = {}
  BY <1>1 DEF Finished, Settled, Due, ModelSteps, ChrootSteps, ConfigSteps, Settings
<1>3. \A d \in Device : disk'[d] = IF \E i \in DOMAIN r.mounts : r.mounts[i].device = d
                                  THEN Formatted(r.fstype[d]) ELSE disk[d]
  BY DEF Format
<1>4. ASSUME NEW d \in RequestRoots', NEW v \in Volume
      PROVE  disk'[d].files[v] = {}
  <2>1. d \in Device /\ \E i \in DOMAIN r.mounts : r.mounts[i].device = d
    BY <1>1, <1>4, LayoutDevices DEF RequestRoots
  <2>2. disk'[d] = Formatted(r.fstype[d])
    BY <1>3, <2>1
  <2>. QED
    BY <1>4, <2>2 DEF Formatted
<1>5. RunInv' /\ TopInv' /\ DirtyInv'
  BY <1>1 DEF RunInv, TopInv, DirtyInv, DiskInv, TopSteps, IsMounted
<1>6. VolumeInv'
  <2> SUFFICES ASSUME NEW d \in Device
               PROVE  disk'[d].default \in {"top", RootVolume(d)'}
    BY <1>2 DEF VolumeInv
  <2>1. CASE disk'[d] = disk[d]
    BY <2>1 DEF DiskInv, VolumeInv, RootVolume
  <2>2. CASE disk'[d] = Formatted(r.fstype[d])
    BY <2>2 DEF Formatted
  <2>. QED
    BY <1>3, <2>1, <2>2
<1>7. RootInv'
  <2>1. \A d \in Device : RootVolume(d)' \in Volume
    BY DEF RootVolume, Volume, RootSubvol
  <2>2. RequestRoots' \subseteq Device
    BY <1>1, LayoutDevices DEF RequestRoots
  <2>. QED
    BY <1>1, <1>2, <1>4, <2>1, <2>2 DEF RootInv
<1>8. MachineIdInv' /\ BootInv' /\ FstabInv'
  BY <1>1, <1>2, <1>4 DEF MachineIdInv, Forgotten, Renewed, BootInv, FstabInv, ConfigSteps, Settings
<1>. QED
  BY <1>5, <1>6, <1>7, <1>8 DEF DiskInv

\* What a call must have made sure of when it begins.
LEMMA BeginDisk ==
    ASSUME TypeOK, DiskInv, pc = "idle", stage \in {"formatted", "written"},
           NEW kind \in {"write", "install"},
           NEW first \in {"mount_top", "mount_model", "mount"},
           NEW mounts \in PlansOf(kind),
           Begin(kind, first, mounts),
           first = "mount_top" <=> \A d \in RequestRoots : disk[d].fstype = "btrfs",
           RequestRoots # {}
    PROVE  DiskInv'
<1>1. /\ pc' = first /\ op' = kind /\ plan' = mounts
      /\ UNCHANGED <<table, disk, dirty, request, stage>>
  BY DEF Begin, machine, client
<1>2. /\ RequestRoots' = RequestRoots
      /\ \A d : RootVolume(d)' = RootVolume(d)
      /\ \A k : PlansOf(k)' = PlansOf(k)
  BY <1>1 DEF RequestRoots, RootVolume, PlansOf, ModelPlanOf, ProbedType
<1>3. RunInv' /\ TopInv' /\ DirtyInv'
  BY <1>1, <1>2 DEF RunInv, TopInv, DirtyInv, DiskInv, TopSteps
<1>4. ~Finished' /\ Due' = {}
  BY <1>1 DEF Finished, Due, ConfigSteps, Settings
<1>5. VolumeInv'
  <2>1. ASSUME NEW d \in RequestRoots, Settled'
        PROVE  disk[d].default = RootVolume(d)
    <3>1. CASE stage = "written"
      BY <3>1 DEF DiskInv, VolumeInv, Settled
    <3>2. CASE stage = "formatted"
      <4>1. first # "mount_top"
        BY <1>1, <2>1, <3>2 DEF Settled, ModelSteps, ChrootSteps, ConfigSteps, Settings
      <4>2. disk[d].fstype # "btrfs"
        BY <2>1, <4>1, RequestType
      <4>3. disk[d].default \in {"top", RootVolume(d)}
        BY <2>1, RequestType DEF DiskInv, VolumeInv
      <4>. QED
        BY <4>2, <4>3 DEF RootVolume
    <3>. QED
      BY <3>1, <3>2
  <2>. QED
    BY <1>1, <1>2, <2>1 DEF VolumeInv, DiskInv
<1>6. RootInv' /\ MachineIdInv'
  <2>1. RootInv'
    BY <1>1, <1>2, <1>4 DEF RootInv, DiskInv
  <2>2. MachineIdInv'
    BY <1>1, <1>2, <1>4 DEF MachineIdInv, Forgotten, Renewed, DiskInv
  <2>. QED
    BY <2>1, <2>2
<1>7. BootInv' /\ FstabInv'
  BY <1>1, <1>4 DEF BootInv, FstabInv, ConfigSteps, Settings
<1>. QED
  BY <1>3, <1>5, <1>6, <1>7 DEF DiskInv

\* Both calls begin as BeginDisk asks: with the top level of a btrfs root, and of
\* that only.
LEMMA CallsDisk ==
    ASSUME TypeOK, DiskInv,
           WriteSystemModel \/ WriteSystemModelFails \/ InstallSystem \/ InstallSystemFails
    PROVE  DiskInv'
<1>1. CASE WriteSystemModel
  <2>1. PICK i \in DOMAIN request.mounts :
           LET d == request.mounts[i].device
               btrfs == disk[d].fstype = "btrfs"
           IN  /\ request.mounts[i].mountpoint = Root
               /\ Begin("write", IF btrfs THEN "mount_top" ELSE "mount_model",
                        <<[device |-> d, mountpoint |-> Root, fstype |-> disk[d].fstype,
                           subvol |-> IF btrfs THEN RootSubvol ELSE "none"]>>)
    BY <1>1 DEF WriteSystemModel
  <2> DEFINE d == request.mounts[i].device
             first == IF disk[d].fstype = "btrfs" THEN "mount_top" ELSE "mount_model"
  <2>2. d \in RequestRoots
    BY <2>1 DEF RequestRoots
  <2>3. ModelPlanOf(d) \in PlansOf("write")
    BY <2>2 DEF PlansOf
  <2>4. Begin("write", first, ModelPlanOf(d))
    BY <2>1 DEF ModelPlanOf
  <2>5. first = "mount_top" <=> \A e \in RequestRoots : disk[e].fstype = "btrfs"
    BY <2>2, RequestType
  <2>6. pc = "idle" /\ stage \in {"formatted", "written"}
    BY <1>1 DEF WriteSystemModel
  <2>7. first \in {"mount_top", "mount_model", "mount"}
    OBVIOUS
  <2>. HIDE DEF first, d
  <2>. QED
    BY <2>2, <2>3, <2>4, <2>5, <2>6, <2>7, BeginDisk
<1>2. CASE InstallSystem
  <2>1. PICK resolved \in Resolutions(request.mounts, ProbedType) :
           Begin("install",
                 IF \E i \in DOMAIN resolved : resolved[i].mountpoint = Root /\ resolved[i].subvol # "none"
                 THEN "mount_top" ELSE "mount", resolved)
    BY <1>2 DEF InstallSystem
  <2> DEFINE first == IF \E i \in DOMAIN resolved : /\ resolved[i].mountpoint = Root
                                                    /\ resolved[i].subvol # "none"
                      THEN "mount_top" ELSE "mount"
  <2>2. resolved \in PlansOf("install")
    BY <2>1 DEF PlansOf
  <2>3. PICK i \in DOMAIN resolved : resolved[i].mountpoint = Root
    BY <1>2, ResolutionsOrderly DEF InstallSystem, AcceptsInstall, HasRoot
  <2>4. \A j \in DOMAIN resolved : resolved[j].mountpoint = Root =>
           /\ resolved[j].device \in RequestRoots
           /\ resolved[j].subvol = IF disk[resolved[j].device].fstype = "btrfs" THEN RootSubvol ELSE "none"
    BY <2>2, PlanEntries
  <2>5. first = "mount_top" <=> \A e \in RequestRoots : disk[e].fstype = "btrfs"
    BY <2>3, <2>4, RequestType DEF RootSubvol
  <2>6. pc = "idle" /\ stage \in {"formatted", "written"} /\ RequestRoots # {}
    BY <1>2, <2>3, <2>4 DEF InstallSystem
  <2>7. first \in {"mount_top", "mount_model", "mount"} /\ Begin("install", first, resolved)
    BY <2>1
  <2>. HIDE DEF first
  <2>. QED
    BY <2>2, <2>5, <2>6, <2>7, BeginDisk
<1>3. CASE WriteSystemModelFails \/ InstallSystemFails
  <2>1. UNCHANGED <<disk, request, table, dirty>> /\ pc' = "idle" /\ stage' = "idle"
    BY <1>3 DEF WriteSystemModelFails, InstallSystemFails, Refuse, machine
  <2>2. Pending'
    BY <2>1 DEF Pending, DiskInv, DirtyInv
  <2>. QED
    BY <2>1, <2>2, EndsBadly
<1>. QED
  BY <1>1, <1>2, <1>3

-----------------------------------------------------------------------------
(***************************************************************************)
(* DiskInv: the steps of create_subvolumes.                                *)
(***************************************************************************)

\* What is mounted on top while create_subvolumes works is the root partition.
LEMMA TopMounted ==
    ASSUME TypeOK, CallInv, DiskInv, pc \in {"create_subvols", "set_default"}
    PROVE  /\ RootDevices = RequestRoots
           /\ \A d \in RootDevices : IsMounted(table, d)
<1>1. RootDevices = RequestRoots
  BY RootsAgree DEF DiskInv
<1>2. PICK e \in RootDevices : table[Len(table)] = Entry(e, "top", Root)
  BY DEF DiskInv, TopInv
<1>3. Len(table) \in DOMAIN table
  BY LastServes DEF DiskInv, TopInv
<1>4. IsMounted(table, e)
  BY <1>2, <1>3 DEF IsMounted, Entry
<1>. QED
  BY <1>1, <1>2, <1>4, RequestType

\* Mounting the top level of the root partition shows it on top, or ends the run.
LEMMA MountTopDisk ==
    ASSUME TypeOK, CallInv, DiskInv, MountTop
    PROVE  DiskInv'
<1>1. CASE Return(FALSE) /\ ok' = FALSE /\ UNCHANGED <<machine, op, plan, mounted, fstab, ghost>>
  <2>1. UNCHANGED <<disk, request, table, dirty>> /\ pc' = "idle" /\ stage' = "idle"
    BY <1>1 DEF Return, machine
  <2>2. Pending'
    BY <2>1 DEF Pending, DiskInv, DirtyInv
  <2>. QED
    BY <2>1, <2>2, EndsBadly
<1>2. ASSUME NEW d \in RootDevices, table' = Attach(table, Entry(d, "top", Root)),
             mounted' = <<Root>>, pc' = "create_subvols",
             UNCHANGED <<disk, dirty, client, op, plan, ok, fstab, ghost>>
      PROVE  DiskInv'
  <2>1. Entry(d, "top", Root) \in MountType
    BY RootDevicesType, MountpointAssumption DEF Entry, MountType, Subvol, Volume
  <2>2. Pending' /\ table' # <<>> /\ table'[Len(table')] = Entry(d, "top", Root)
    <3>. HIDE DEF Entry
    <3>. QED
      BY <1>2, <2>1, AttachMounted DEF Pending, DiskInv, DirtyInv
  <2>3. RootDevices' = RootDevices
    BY <1>2 DEF RootDevices
  <2>4. TopInv'
    BY <1>2, <2>2, <2>3 DEF TopInv, Entry
  <2>5. SameDisks /\ UNCHANGED <<request, stage, op, plan, fstab, ok>>
    BY <1>2 DEF SameDisks, client
  <2>6. pc = "mount_top" /\ Settled' => Settled
    BY <1>2, <2>5 DEF MountTop, Settled, ModelSteps, ChrootSteps, ConfigSteps, Settings
  <2>. QED
    BY <1>2, <2>2, <2>4, <2>5, <2>6, QuietStep DEF MountTop, TopSteps, ChrootSteps, ConfigSteps, Settings
<1>. QED
  BY <1>1, <1>2 DEF MountTop

\* Making subvolumes touches no file and writes to what is mounted on top.
LEMMA CreateSubvolsDisk ==
    ASSUME TypeOK, CallInv, DiskInv, CreateSubvols
    PROVE  DiskInv'
<1>1. PICK made \in {{}, {RootSubvol}, {RootSubvol, HomeSubvol}} :
         /\ disk' = [d \in Device |->
               IF d \in RootDevices THEN [disk[d] EXCEPT !.subvols = @ \cup made] ELSE disk[d]]
         /\ dirty' = dirty \cup RootDevices
         /\ \/ /\ made = {RootSubvol, HomeSubvol}
               /\ pc' = "set_default"
               /\ UNCHANGED <<table, client, op, plan, mounted, ok, fstab, ghost>>
            \/ Fails("unmount_top")
  BY DEF CreateSubvols
<1>2. SameDisks
  <2>1. \A d \in Device : disk[d] \in DiskType
    BY DEF TypeOK
  <2>. QED
    BY <1>1, <2>1 DEF SameDisks, DiskType
<1>3. /\ UNCHANGED <<table, request, stage, op, plan, fstab>>
      /\ pc' \in {"set_default", "unmount_top"}
      /\ pc' = "unmount_top" => ~ok'
      /\ pc = "create_subvols"
  BY <1>1 DEF Fails, client, CreateSubvols
<1>4. Pending'
  BY <1>1, <1>3, TopMounted DEF Pending, DiskInv, DirtyInv
<1>5. TopInv'
  BY <1>3 DEF DiskInv, TopInv, RootDevices
<1>6. Settled' => Settled
  BY <1>3 DEF Settled, ModelSteps, ChrootSteps, ConfigSteps, Settings
<1>. QED
  BY <1>2, <1>3, <1>4, <1>5, <1>6, QuietStep DEF TopSteps, ChrootSteps, ConfigSteps, Settings

\* @ is the default subvolume from here on, or the call is about to fail.
LEMMA SetDefaultDisk ==
    ASSUME TypeOK, CallInv, DiskInv, SetDefault
    PROVE  DiskInv'
<1>1. /\ UNCHANGED <<table, request, stage, op, plan, fstab>>
      /\ pc = "set_default" /\ pc' = "unmount_top"
  BY DEF SetDefault, Fails, client
<1>2. TopInv'
  BY <1>1 DEF TopInv
<1>3. CASE Fails("unmount_top") /\ UNCHANGED <<disk, dirty>>
  <2>1. SameDisks /\ ~ok' /\ Pending'
    BY <1>1, <1>3 DEF SameDisks, Fails, Pending, DiskInv, DirtyInv
  <2>2. Settled' => Settled
    BY <1>1, <2>1 DEF Settled, ModelSteps, ChrootSteps, ConfigSteps, Settings
  <2>. QED
    BY <1>1, <1>2, <2>1, <2>2, QuietStep DEF TopSteps, ChrootSteps, ConfigSteps, Settings
<1>4. CASE /\ disk' = [d \in Device |->
                 IF d \in RootDevices THEN [disk[d] EXCEPT !.default = RootSubvol] ELSE disk[d]]
           /\ dirty' = dirty \cup RootDevices
  <2>1. \A d \in Device : disk[d] \in DiskType
    BY DEF TypeOK
  <2>2. \A d \in Device : /\ disk'[d].fstype = disk[d].fstype
                          /\ disk'[d].files = disk[d].files
                          /\ disk'[d].default = IF d \in RootDevices THEN RootSubvol ELSE disk[d].default
    BY <1>4, <2>1 DEF DiskType
  <2>3. RootDevices = RequestRoots /\ \A d \in RootDevices : IsMounted(table, d)
    BY <1>1, TopMounted
  <2>4. \A d \in RequestRoots : disk[d].fstype = "btrfs" /\ RootVolume(d) = RootSubvol
    BY <1>1 DEF DiskInv, RunInv, TopSteps, RootVolume
  <2>5. /\ RequestRoots' = RequestRoots /\ RequestRoots \subseteq Device
        /\ \A d \in Device : RootVolume(d)' = RootVolume(d)
    BY <1>1, <2>2, SamePlans, RequestType
  <2>6. RunInv' /\ stage # "installed"
    BY <1>1, <2>2, RunStep DEF DiskInv, RunInv, TopSteps
  <2>7. ~Finished' /\ Due' = {}
    BY <1>1, <2>6 DEF Finished, Due, ConfigSteps, Settings
  <2>8. DirtyInv'
    BY <1>1, <1>4, <2>3, <2>6 DEF DirtyInv, DiskInv
  <2>9. VolumeInv'
    BY <2>2, <2>3, <2>4, <2>5 DEF VolumeInv, DiskInv
  <2>10. RootInv'
    <3> SUFFICES ASSUME NEW d \in RequestRoots
                 PROVE  /\ stage \in {"formatted", "written"} /\ op = "write" =>
                              disk[d].files[RootVolume(d)] \subseteq {"system-model", "install-model"}
                        /\ stage = "written" => "system-model" \in disk[d].files[RootVolume(d)]
      BY <1>1, <2>2, <2>5, <2>6, <2>7 DEF RootInv
    <3>. QED
      BY DEF RootInv, DiskInv
  <2>11. MachineIdInv'
    BY <1>1, <2>2, <2>5, <2>7 DEF MachineIdInv, Forgotten, Renewed, DiskInv
  <2>12. BootInv' /\ FstabInv'
    BY <1>1, <2>7 DEF BootInv, FstabInv, ConfigSteps, Settings
  <2>. QED
    BY <1>2, <2>6, <2>8, <2>9, <2>10, <2>11, <2>12 DEF DiskInv
<1>. QED
  BY <1>3, <1>4 DEF SetDefault

\* The default subvolume is settled when create_subvolumes has succeeded.
LEMMA UnmountTopDisk ==
    ASSUME TypeOK, DiskInv, UnmountTop
    PROVE  DiskInv'
<1>1. Pending'
  BY UnmountPending DEF UnmountTop, Pending, DiskInv, DirtyInv
<1>2. CASE ~ok
  <2>1. UNCHANGED <<disk, request>> /\ pc' = "idle" /\ stage' = "idle"
    BY <1>2 DEF UnmountTop, Return
  <2>. QED
    BY <1>1, <2>1, EndsBadly
<1>3. CASE ok
  <2>1. /\ UNCHANGED <<disk, request, stage, op, plan, fstab, ok>>
        /\ pc = "unmount_top" /\ pc' \in {"mount_model", "mount"}
    BY <1>3 DEF UnmountTop, client
  <2>2. TopInv' /\ SameDisks /\ (Settled' => Settled)
    BY <1>3, <2>1 DEF TopInv, SameDisks, Settled
  <2>. QED
    BY <1>1, <2>1, <2>2, QuietStep DEF TopSteps, ChrootSteps, ConfigSteps, Settings
<1>. QED
  BY <1>2, <1>3 DEF TypeOK

-----------------------------------------------------------------------------
(***************************************************************************)
(* DiskInv: mounts and umounts of the other calls, and their ends.         *)
(***************************************************************************)

\* The root as the installed system will see it is on top, or the run ends.
LEMMA MountModelDisk ==
    ASSUME TypeOK, CallInv, DiskInv, MountModelRoot
    PROVE  DiskInv'
<1>1. CASE Return(FALSE) /\ ok' = FALSE /\ UNCHANGED <<machine, op, plan, mounted, fstab, ghost>>
  <2>1. UNCHANGED <<disk, request, table, dirty>> /\ pc' = "idle" /\ stage' = "idle"
    BY <1>1 DEF Return, machine
  <2>2. Pending'
    BY <2>1 DEF Pending, DiskInv, DirtyInv
  <2>. QED
    BY <2>1, <2>2, EndsBadly
<1>2. CASE /\ table' = Attach(table, MountEntry(plan[1]))
           /\ pc' = "write_model"
           /\ UNCHANGED <<disk, dirty, client, op, plan, ok, fstab, ghost>>
  <2>1. MountEntry(plan[1]) \in MountType
    <3>1. Len(plan) = 1 /\ plan \in Seq(ResolvedType)
      BY DEF MountModelRoot, CallInv, ModelSteps, TypeOK
    <3>2. plan[1] \in ResolvedType
      BY <3>1, ElementOfSeq
    <3>. QED
      BY <3>2 DEF MountEntry, Entry, ResolvedType, MountType
  <2>2. Pending' /\ table' # <<>> /\ table'[Len(table')] = MountEntry(plan[1])
    BY <1>2, <2>1, AttachMounted DEF Pending, DiskInv, DirtyInv
  <2>3. TopInv'
    BY <1>2, <2>2 DEF TopInv, MountEntry
  <2>4. SameDisks /\ UNCHANGED <<request, stage, op, plan, fstab, ok>> /\ pc = "mount_model" /\ Settled
    BY <1>2 DEF SameDisks, client, MountModelRoot, Settled, ModelSteps
  <2>. QED
    BY <1>2, <2>2, <2>3, <2>4, QuietStep DEF TopSteps, ChrootSteps, ConfigSteps, Settings
<1>. QED
  BY <1>1, <1>2 DEF MountModelRoot

\* A write that has been answered has left the model on the root partition.
LEMMA UnmountModelDisk ==
    ASSUME TypeOK, CallInv, DiskInv, UnmountModelRoot
    PROVE  DiskInv'
<1>1. Pending' /\ pc = "unmount_model" /\ pc' = "idle" /\ op = "write"
  BY UnmountPending DEF UnmountModelRoot, Return, Pending, DiskInv, DirtyInv, CallInv, ModelSteps
<1>2. UNCHANGED <<disk, request, op, plan, fstab>>
  BY DEF UnmountModelRoot, Return
<1>3. CASE ~ok'
  BY <1>1, <1>2, <1>3, EndsBadly DEF UnmountModelRoot, Return
<1>4. CASE ok'
  <2>1. ok /\ stage' = "written"
    BY <1>1, <1>4 DEF UnmountModelRoot, Return
  <2>2. /\ RequestRoots' = RequestRoots
        /\ \A d \in Device : RootVolume(d)' = RootVolume(d)
        /\ \A kind : PlansOf(kind)' = PlansOf(kind)
    BY <1>2, SamePlans
  <2>3. ~Finished' /\ Due' = {} /\ Settled
    BY <1>1, <2>1 DEF Finished, Due, ConfigSteps, Settings, Settled, ModelSteps
  <2>4. RunInv' /\ TopInv' /\ DirtyInv'
    BY <1>1, <1>2, <2>1, <2>2 DEF RunInv, TopInv, DirtyInv, Pending, DiskInv, TopSteps
  <2>5. VolumeInv'
    BY <1>2, <2>2, <2>3, RequestType DEF VolumeInv, DiskInv
  <2>6. RootInv'
    <3>1. \A d \in RequestRoots : /\ disk[d].files[RootVolume(d)] \subseteq {"system-model", "install-model"}
                                  /\ "system-model" \in disk[d].files[RootVolume(d)]
      BY <1>1, <2>1 DEF DiskInv, RunInv, RootInv
    <3>. QED
      BY <1>2, <2>2, <2>3, <3>1, RequestType DEF RootInv
  <2>7. MachineIdInv'
    BY <1>1, <1>2, <2>1, <2>2, <2>3, RequestType DEF MachineIdInv, Forgotten, Renewed, DiskInv, RunInv
  <2>8. BootInv' /\ FstabInv'
    BY <1>1, <2>3 DEF BootInv, FstabInv, ConfigSteps, Settings
  <2>. QED
    BY <2>4, <2>5, <2>6, <2>7, <2>8 DEF DiskInv
<1>. QED
  BY <1>3, <1>4 DEF UnmountModelRoot, TypeOK

\* A command of install_target that fails leaves the disks as they are.
LEMMA FailsDisk ==
    ASSUME TypeOK, DiskInv, CommandFails, pc \in {"mount"} \cup ChrootSteps
    PROVE  DiskInv'
<1>1. /\ UNCHANGED <<disk, table, dirty, request, stage, op, plan, fstab>>
      /\ pc' = "unwind" /\ ~ok'
  BY DEF CommandFails, Fails, client
<1>2. TopInv' /\ SameDisks /\ Settled /\ Pending' /\ pc # "idle"
  BY <1>1 DEF TopInv, SameDisks, Settled, Pending, DiskInv, DirtyInv, ChrootSteps, ConfigSteps, Settings
<1>. QED
  BY <1>1, <1>2, QuietStep DEF TopSteps, ChrootSteps, ConfigSteps, Settings

\* Mounting the schedule leaves the disks as they are.
LEMMA MountNextDisk ==
    ASSUME TypeOK, ScheduleInv, DiskInv, MountNext
    PROVE  DiskInv'
<1> DEFINE e == Schedule[Len(mounted) + 1]
<1>1. e \in MountType
  <2>1. Len(mounted) < Len(Schedule) /\ Len(mounted) \in Nat /\ Len(Schedule) \in Nat
    BY ScheduleType, LenProperties DEF MountNext, ScheduleInv, TypeOK
  <2>2. Len(mounted) + 1 \in 1..Len(Schedule)
    BY <2>1
  <2>. QED
    BY <2>2, ScheduleType, ElementOfSeq
<1>. HIDE DEF e
<1>2. CASE /\ table' = Attach(table, e)
           /\ pc' = IF Len(mounted) + 1 = Len(Schedule) THEN "repos" ELSE "mount"
           /\ UNCHANGED <<disk, dirty, client, op, plan, ok, fstab, ghost>>
  <2>1. Pending'
    BY <1>1, <1>2, AttachMounted DEF Pending, DiskInv, DirtyInv
  <2>2. pc = "mount" /\ pc' \in {"mount", "repos"} /\ SameDisks /\ Settled /\ TopInv'
    BY <1>2 DEF MountNext, SameDisks, Settled, TopInv
  <2>3. UNCHANGED <<request, stage, op, plan, fstab>>
    BY <1>2 DEF client
  <2>. QED
    BY <2>1, <2>2, <2>3, QuietStep DEF TopSteps, ChrootSteps, ConfigSteps, Settings
<1>. QED
  BY <1>2, FailsDisk DEF MountNext, e

\* So does undoing it.
LEMMA UnwindDisk ==
    ASSUME TypeOK, DiskInv, Unwind
    PROVE  DiskInv'
<1>1. Pending'
  BY UnmountPending DEF Unwind, Pending, DiskInv, DirtyInv
<1>2. UNCHANGED <<disk, request, stage, op, pc, plan, ok, kept, fstab>> /\ pc = "unwind"
  BY DEF Unwind, client
<1>3. TopInv'
  BY <1>2 DEF TopInv
<1>. QED
  BY <1>1, <1>2, <1>3, MountsOnly

\* An installation that is reported has done all that was due.
LEMMA SyncDisk ==
    ASSUME TypeOK, CallInv, DiskInv, SyncAndReturn
    PROVE  DiskInv'
<1>1. /\ UNCHANGED <<table, disk, request, op, plan, fstab, ok, kept>>
      /\ pc = "unwind" /\ pc' = "idle" /\ op = "install"
      /\ dirty' = {} \/ (UNCHANGED dirty /\ unsynced' = TRUE)
  BY DEF SyncAndReturn, Return, CallInv
<1>2. Pending'
  BY <1>1 DEF Pending, DiskInv, DirtyInv
<1>3. CASE ~ok
  BY <1>1, <1>2, <1>3, EndsBadly DEF SyncAndReturn, Return
<1>4. CASE ok
  <2>1. stage' = "installed" /\ Finished /\ Finished' /\ Settled
    BY <1>1, <1>4 DEF SyncAndReturn, Return, Finished, Settled
  <2>2. /\ RequestRoots' = RequestRoots
        /\ \A d : RootVolume(d)' = RootVolume(d)
        /\ \A kind : PlansOf(kind)' = PlansOf(kind)
        /\ Due' = Due
    <3>1. RequiredArtifacts' = RequiredArtifacts
      BY <1>1 DEF RequiredArtifacts, Requested
    <3>. QED
      BY <1>1, <2>1, <3>1 DEF RequestRoots, RootVolume, PlansOf, ModelPlanOf, ProbedType, Due
  <2>3. RunInv' /\ TopInv' /\ DirtyInv'
    BY <1>1, <1>2, <2>1, <2>2 DEF RunInv, TopInv, DirtyInv, Pending, DiskInv, TopSteps
  <2>4. VolumeInv'
    BY <1>1, <2>1, <2>2 DEF VolumeInv, DiskInv
  <2>5. RootInv'
    <3>1. Due = RequiredArtifacts
      BY <2>1 DEF Due
    <3>2. \A d \in RequestRoots : Due \subseteq disk[d].files[RootVolume(d)]
      BY DEF DiskInv, RootInv
    <3>. QED
      BY <1>1, <2>1, <2>2, <3>1, <3>2 DEF RootInv, RequiredArtifacts
  <2>6. (Forgotten' => Forgotten) /\ (Renewed' => Renewed) /\ stage # "idle"
    BY <1>1, <2>1 DEF Forgotten, Renewed, DiskInv, RunInv
  <2>7. MachineIdInv'
    BY <1>1, <2>1, <2>2, <2>6 DEF MachineIdInv, DiskInv
  <2>8. BootInv' /\ FstabInv'
    BY <1>1, <2>1, <2>2 DEF BootInv, FstabInv, DiskInv, VolumeOf
  <2>. QED
    BY <2>3, <2>4, <2>5, <2>7, <2>8 DEF DiskInv
<1>. QED
  BY <1>3, <1>4 DEF TypeOK

\* A backend that dies takes its call with it and nothing else.
LEMMA DiesDisk ==
    ASSUME TypeOK, DiskInv, BackendDies
    PROVE  DiskInv'
<1>1. UNCHANGED <<disk, request, table, dirty>> /\ pc' = "idle" /\ stage' = "idle"
  BY DEF BackendDies, Return, machine
<1>2. Pending'
  BY <1>1 DEF Pending, DiskInv, DirtyInv
<1>. QED
  BY <1>1, <1>2, EndsBadly

-----------------------------------------------------------------------------
(***************************************************************************)
(* DiskInv: the steps that write files.                                    *)
(***************************************************************************)

\* These are the artifacts that are written below "/".
BelowRoot(added, artifacts) ==
    /\ \A x \in added : \E a \in artifacts : x = <<Root, a>>
    /\ \A a \in artifacts : <<Root, a>> \in added

\* Files written below "/" are in the root volume of the layout's root partition,
\* and its other volumes stay as they were.
LEMMA RootStore ==
    ASSUME TableInv, DiskInv, pc \in ChrootSteps \cup {"write_model"},
           NEW added, NEW removed, Store(added, removed), NEW artifacts, BelowRoot(added, artifacts),
           NEW d \in RequestRoots, NEW v \in Volume
    PROVE  disk'[d].files[v] =
              IF v = RootVolume(d) THEN (disk[d].files[v] \ removed) \cup artifacts
              ELSE disk[d].files[v]
<1>1. Shows(Root, d, v) <=> v = RootVolume(d)
  BY RootLanding DEF DiskInv
<1>2. disk'[d].files[v] = (disk[d].files[v] \ {a \in removed : Shows(Root, d, v)})
                             \cup {x[2] : x \in {y \in added : Shows(y[1], d, v)}}
  BY StoreEffect, RequestType DEF TableInv
<1>3. \A x \in added : x[1] = Root /\ x[2] \in artifacts
  BY DEF BelowRoot
<1>4. CASE v = RootVolume(d)
  <2>1. {a \in removed : Shows(Root, d, v)} = removed /\ {y \in added : Shows(y[1], d, v)} = added
    BY <1>1, <1>3, <1>4
  <2>2. {x[2] : x \in added} = artifacts
    <3>1. \A a \in artifacts : <<Root, a>> \in added /\ <<Root, a>>[2] = a
      BY DEF BelowRoot
    <3>. QED
      BY <1>3, <3>1
  <2>. QED
    BY <1>2, <1>4, <2>1, <2>2
<1>5. CASE v # RootVolume(d)
  <2>1. {a \in removed : Shows(Root, d, v)} = {} /\ {y \in added : Shows(y[1], d, v)} = {}
    BY <1>1, <1>3, <1>5
  <2>. QED
    BY <1>2, <1>5, <2>1
<1>. QED
  BY <1>4, <1>5

\* What is found below "/" is in that volume.
LEMMA RootFound ==
    ASSUME TableInv, DiskInv, pc \in ChrootSteps \cup {"write_model"},
           NEW artifact, OnTarget(Root, artifact), NEW d \in RequestRoots
    PROVE  artifact \in disk[d].files[RootVolume(d)]
<1>1. PICK e \in Device, v \in Volume : Shows(Root, e, v) /\ artifact \in disk[e].files[v]
  BY DEF OnTarget
<1>2. e \in RequestRoots /\ v = RootVolume(e)
  BY <1>1, RootLanding DEF DiskInv
<1>. QED
  BY <1>1, <1>2, RequestType DEF TableInv

\* A step of install_target after the mounts: it takes nothing but the live
\* medium's machine-id from the root volume, and leaves there what is then due.
LEMMA ProgressStep ==
    ASSUME TypeOK, CallInv, DiskInv, pc \in ChrootSteps, pc' \in ChrootSteps \cup {"unwind"},
           UNCHANGED <<request, stage, op, plan>>,
           \A d \in Device : disk'[d].fstype = disk[d].fstype /\ disk'[d].default = disk[d].default,
           \A d \in RequestRoots : (disk[d].files[RootVolume(d)] \ {"live-id"}) \cup Due'
                                      \subseteq disk'[d].files[RootVolume(d)],
           MachineIdInv', BootInv', FstabInv', Pending'
    PROVE  DiskInv'
<1>1. pc # "idle" /\ pc' # "idle" /\ pc' \notin TopSteps \cup {"write_model", "unmount_model"} /\ Settled
  BY DEF ChrootSteps, ConfigSteps, Settings, TopSteps, Settled
<1>2. /\ RequestRoots' = RequestRoots /\ RequestRoots \subseteq Device
      /\ \A d \in Device : RootVolume(d)' = RootVolume(d)
  BY SamePlans, RequestType
<1>3. RunInv' /\ stage # "installed"
  BY <1>1, RunStep DEF DiskInv, RunInv
<1>4. TopInv' /\ DirtyInv'
  BY <1>1, <1>3 DEF TopInv, DirtyInv, Pending, TopSteps
<1>5. VolumeInv'
  BY <1>1, <1>2 DEF VolumeInv, DiskInv
<1>6. RootInv'
  <2>1. op = "install"
    BY DEF CallInv
  <2> SUFFICES ASSUME NEW d \in RequestRoots
               PROVE  /\ stage = "written" => "system-model" \in disk'[d].files[RootVolume(d)]
                      /\ Due' \subseteq disk'[d].files[RootVolume(d)]
    BY <1>1, <1>2, <1>3, <2>1 DEF RootInv
  <2>2. stage = "written" => "system-model" \in disk[d].files[RootVolume(d)]
    BY DEF RootInv, DiskInv
  <2>. QED
    BY <2>2
<1>. QED
  BY <1>3, <1>4, <1>5, <1>6 DEF DiskInv

\* The packages' machine-id does not come back once it is gone, and the new one
\* stays.
LEMMA MachineIdStep ==
    ASSUME TypeOK, DiskInv, pc \in ChrootSteps, UNCHANGED <<request, stage>>,
           \A d \in Device : disk'[d].fstype = disk[d].fstype,
           \A d \in RequestRoots, v \in Volume :
              "live-id" \in disk'[d].files[v] =>
                 "live-id" \in disk[d].files[v] /\ (v = RootVolume(d) /\ Forgotten' => Forgotten),
           \A d \in RequestRoots : Renewed' => "machineid" \in disk'[d].files[RootVolume(d)]
    PROVE  MachineIdInv'
<1>1. /\ RequestRoots' = RequestRoots /\ RequestRoots \subseteq Device
      /\ \A d \in Device : RootVolume(d)' = RootVolume(d)
  BY SamePlans, RequestType
<1>2. stage # "idle"
  BY DEF DiskInv, RunInv, ChrootSteps, ConfigSteps, Settings
<1> SUFFICES ASSUME NEW d \in RequestRoots, NEW v \in Volume,
                    "live-id" \in disk'[d].files[v]
             PROVE  ~(v # RootVolume(d) \/ Forgotten')
  BY <1>1, <1>2 DEF MachineIdInv
<1>3. "live-id" \in disk[d].files[v] /\ (v = RootVolume(d) /\ Forgotten' => Forgotten)
  OBVIOUS
<1>4. v = RootVolume(d) /\ ~Forgotten
  BY <1>2, <1>3 DEF DiskInv, MachineIdInv
<1>. QED
  BY <1>3, <1>4

\* Boot entries stay where they are.
LEMMA BootStep ==
    ASSUME TypeOK, DiskInv, UNCHANGED plan,
           \A d \in Device : disk'[d].default = disk[d].default,
           \A d \in Device, v \in Volume : "boot" \in disk[d].files[v] => "boot" \in disk'[d].files[v],
           pc' \in ConfigSteps \cup {"fstab"} \/ Finished' => pc \in ConfigSteps \cup {"fstab"}
    PROVE  BootInv'
<1> SUFFICES ASSUME pc \in ConfigSteps \cup {"fstab"},
                    NEW i \in DOMAIN plan, plan[i].mountpoint \in BootMounts
             PROVE  "boot" \in disk'[plan[i].device].files[VolumeOf(MountEntry(plan[i]))']
  BY DEF BootInv
<1>1. plan[i] \in ResolvedType
  BY LenProperties, ElementOfSeq DEF TypeOK
<1>2. plan[i].device \in Device /\ plan[i].subvol \in Subvol /\ disk[plan[i].device] \in DiskType
  BY <1>1 DEF ResolvedType, TypeOK
<1>3. VolumeOf(MountEntry(plan[i])) \in Volume
  BY <1>2 DEF VolumeOf, MountEntry, Entry, Subvol, DiskType
<1>4. VolumeOf(MountEntry(plan[i]))' = VolumeOf(MountEntry(plan[i]))
  BY <1>2 DEF VolumeOf, MountEntry, Entry
<1>5. "boot" \in disk[plan[i].device].files[VolumeOf(MountEntry(plan[i]))]
  BY DEF DiskInv, BootInv
<1>. QED
  BY <1>2, <1>3, <1>4, <1>5

\* The steps of configure_target that are over are steps of it.
LEMMA PassedSteps ==
    ASSUME NEW s \in ConfigSteps \cup {"fstab"}
    PROVE  Passed(s) \subseteq Settings
  BY DEF Passed, ConfigSteps, Settings

\* A step that writes one artifact of the installation below "/".
LEMMA ArtifactStep ==
    ASSUME TableInv, DiskInv, pc \in ChrootSteps, pc' \in ChrootSteps \cup {"unwind"},
           UNCHANGED <<table, request, stage, op, plan>>,
           NEW a, Store({<<Root, a>>}, {}), a # "live-id",
           Due' \subseteq Due \cup {a},
           Forgotten' => Forgotten, Renewed' => Renewed \/ a = "machineid",
           pc' \in ConfigSteps \cup {"fstab"} \/ Finished' => pc \in ConfigSteps \cup {"fstab"},
           FstabInv'
    PROVE  DiskInv'
<1>1. TypeOK /\ CallInv
  BY DEF TableInv
<1>2. \A d \in Device : disk'[d].fstype = disk[d].fstype /\ disk'[d].default = disk[d].default
  BY <1>1, StoreEffect
<1>3. \A d \in RequestRoots, v \in Volume :
         disk'[d].files[v] = IF v = RootVolume(d) THEN disk[d].files[v] \cup {a}
                             ELSE disk[d].files[v]
  <2>1. BelowRoot({<<Root, a>>}, {a})
    BY DEF BelowRoot
  <2>2. \A d \in RequestRoots, v \in Volume :
           disk'[d].files[v] = IF v = RootVolume(d) THEN (disk[d].files[v] \ {}) \cup {a}
                               ELSE disk[d].files[v]
    BY <2>1, RootStore
  <2>. QED
    BY <2>2
<1>4. \A d \in RequestRoots : (disk[d].files[RootVolume(d)] \ {"live-id"}) \cup Due'
                                 \subseteq disk'[d].files[RootVolume(d)]
  <2> SUFFICES ASSUME NEW d \in RequestRoots
               PROVE  (disk[d].files[RootVolume(d)] \ {"live-id"}) \cup Due'
                         \subseteq disk'[d].files[RootVolume(d)]
    OBVIOUS
  <2>1. RootVolume(d) \in Volume
    BY DEF RootVolume, Volume, RootSubvol
  <2>2. "live-id" \notin Due
    BY PassedSteps DEF Due, RequiredArtifacts, ConfigSteps, Settings
  <2>3. Due \subseteq disk[d].files[RootVolume(d)]
    BY DEF DiskInv, RootInv
  <2>. QED
    BY <1>3, <2>1, <2>2, <2>3
<1>5. MachineIdInv'
  <2>1. \A d \in RequestRoots, v \in Volume :
           "live-id" \in disk'[d].files[v] =>
              "live-id" \in disk[d].files[v] /\ (v = RootVolume(d) /\ Forgotten' => Forgotten)
    BY <1>3
  <2>2. ASSUME NEW d \in RequestRoots, Renewed'
        PROVE  "machineid" \in disk'[d].files[RootVolume(d)]
    <3>1. RootVolume(d) \in Volume
      BY DEF RootVolume, Volume, RootSubvol
    <3>2. Renewed => "machineid" \in disk[d].files[RootVolume(d)]
      BY DEF DiskInv, MachineIdInv
    <3>. QED
      BY <1>3, <2>2, <3>1, <3>2
  <2>. QED
    BY <1>1, <1>2, <2>1, <2>2, MachineIdStep
<1>6. BootInv'
  <2>1. \A d \in Device, v \in Volume : "boot" \in disk[d].files[v] => "boot" \in disk'[d].files[v]
    BY <1>1, StoreEffect
  <2>. QED
    BY <1>1, <1>2, <2>1, BootStep
<1>7. Pending'
  BY StorePending DEF Pending, DiskInv, DirtyInv
<1>. QED
  BY <1>1, <1>2, <1>4, <1>5, <1>6, <1>7, ProgressStep

\* The repository and its index, before moss runs.
LEMMA ReposDisk ==
    ASSUME TableInv, DiskInv, ConfigureRepos \/ UpdateIndex
    PROVE  DiskInv'
<1>1. CASE CommandFails
  <2>1. pc \in {"mount"} \cup ChrootSteps
    BY DEF ConfigureRepos, UpdateIndex, ChrootSteps
  <2>. QED
    BY <1>1, <2>1, FailsDisk DEF TableInv
<1>2. CASE pc = "repos" /\ Succeeds({<<Root, "repos">>}, {}, "index")
  <2>1. pc' = "index" /\ Store({<<Root, "repos">>}, {}) /\ UNCHANGED <<table, request, stage, op, plan>>
    BY <1>2 DEF Succeeds, client
  <2>2. ~Finished'
    BY <1>2, <2>1 DEF Finished, DiskInv, RunInv
  <2>3. Due' = {"repos"}
    BY <2>1, <2>2 DEF Due
  <2>4. FstabInv' /\ ~Forgotten' /\ ~Renewed'
    BY <2>1, <2>2 DEF FstabInv, Forgotten, Renewed
  <2>. QED
    BY <1>2, <2>1, <2>2, <2>3, <2>4, ArtifactStep DEF ChrootSteps, ConfigSteps, Settings
<1>3. CASE pc = "index" /\ Succeeds({<<Root, "index">>}, {}, "packages")
  <2>1. /\ pc' = "packages" /\ Store({<<Root, "index">>}, {})
        /\ UNCHANGED <<table, request, stage, op, plan>>
    BY <1>3 DEF Succeeds, client
  <2>2. ~Finished /\ ~Finished'
    BY <1>3, <2>1 DEF Finished, DiskInv, RunInv
  <2>3. Due = {"repos"} /\ Due' = {"repos", "index"}
    BY <1>3, <2>1, <2>2 DEF Due
  <2>4. FstabInv' /\ ~Forgotten' /\ ~Renewed'
    BY <2>1, <2>2 DEF FstabInv, Forgotten, Renewed
  <2>. QED
    BY <1>3, <2>1, <2>2, <2>3, <2>4, ArtifactStep DEF ChrootSteps, ConfigSteps, Settings
<1>. QED
  BY <1>1, <1>2, <1>3 DEF ConfigureRepos, UpdateIndex

\* moss writes the system to the root volume and boot entries to the boot mounts;
\* what a failed sync leaves, it leaves in the root volume.
LEMMA MossDisk ==
    ASSUME TableInv, DiskInv, MossSync
    PROVE  DiskInv'
<1>1. TypeOK /\ CallInv /\ pc = "packages" /\ pc \in ChrootSteps /\ stage # "installed"
  BY DEF TableInv, MossSync, ChrootSteps, DiskInv, RunInv
<1>2. ASSUME NEW part \in SUBSET {"os", "live-id"},
             Store({<<Root, a>> : a \in part}, {}), Fails("unwind")
      PROVE  DiskInv'
  <2>1. pc' = "unwind" /\ ~ok' /\ UNCHANGED <<table, request, stage, op, plan>>
    BY <1>2 DEF Fails, client
  <2>2. ~Finished'
    BY <1>1, <2>1 DEF Finished
  <2>3. Due' = {}
    BY <2>1, <2>2 DEF Due, ConfigSteps, Settings
  <2>4. \A d \in Device : disk'[d].fstype = disk[d].fstype /\ disk'[d].default = disk[d].default
    BY <1>1, <1>2, StoreEffect
  <2>5. \A d \in RequestRoots, v \in Volume :
           disk'[d].files[v] = IF v = RootVolume(d) THEN disk[d].files[v] \cup part
                               ELSE disk[d].files[v]
    <3>1. BelowRoot({<<Root, a>> : a \in part}, part)
      BY DEF BelowRoot
    <3>2. \A d \in RequestRoots, v \in Volume :
             disk'[d].files[v] = IF v = RootVolume(d) THEN (disk[d].files[v] \ {}) \cup part
                                 ELSE disk[d].files[v]
      BY <1>1, <1>2, <3>1, RootStore
    <3>. QED
      BY <3>2
  <2>6. \A d \in RequestRoots : RootVolume(d) \in Volume
    BY DEF RootVolume, Volume, RootSubvol
  <2>7. MachineIdInv'
    <3>1. /\ RequestRoots' = RequestRoots /\ RequestRoots \subseteq Device
          /\ \A d \in Device : RootVolume(d)' = RootVolume(d)
      BY <1>1, <2>1, <2>4, SamePlans, RequestType
    <3>2. stage # "idle"
      BY <1>1 DEF DiskInv, RunInv
    <3> SUFFICES ASSUME NEW d \in RequestRoots, NEW v \in Volume, v # RootVolume(d),
                        "live-id" \in disk'[d].files[v]
                 PROVE  FALSE
      BY <2>1, <2>2, <3>1 DEF MachineIdInv, Forgotten, Renewed
    <3>. QED
      BY <2>5, <3>2 DEF MachineIdInv, Forgotten, Renewed, DiskInv
  <2>8. BootInv' /\ FstabInv' /\ Pending'
    BY <1>2, <2>1, <2>2, StorePending DEF BootInv, FstabInv, ConfigSteps, Settings, Pending, DiskInv, DirtyInv
  <2>. QED
    BY <1>1, <2>1, <2>3, <2>4, <2>5, <2>6, <2>7, <2>8, ProgressStep
<1>3. ASSUME OnTarget(Root, "system-model"),
             Succeeds({<<Root, "os">>, <<Root, "live-id">>} \cup {<<p, "boot">> : p \in BootPoints},
                      {}, "locale")
      PROVE  DiskInv'
  <2> DEFINE added == {<<Root, "os">>, <<Root, "live-id">>} \cup {<<p, "boot">> : p \in BootPoints}
  <2>1. pc' = "locale" /\ Store(added, {}) /\ UNCHANGED <<table, request, stage, op, plan>>
    BY <1>3 DEF Succeeds, client
  <2>2. ~Finished /\ ~Finished'
    BY <1>1, <2>1 DEF Finished
  <2>3. Due = {"repos", "index"} /\ Due' = {"system-model", "repos", "index", "os"}
    BY <1>1, <2>1, <2>2 DEF Due, ConfigSteps, Settings, Passed
  <2>4. \A x \in added : x[2] = "live-id" => x[1] = Root
    OBVIOUS
  <2>5. <<Root, "os">> \in added /\ \A p \in BootPoints : <<p, "boot">> \in added
    OBVIOUS
  <2>. HIDE DEF added
  <2>6. \A d \in Device :
           /\ disk'[d].fstype = disk[d].fstype
           /\ disk'[d].default = disk[d].default
           /\ \A v \in Volume : disk'[d].files[v] =
                 disk[d].files[v] \cup {x[2] : x \in {y \in added : Shows(y[1], d, v)}}
    BY <1>1, <2>1, StoreEffect
  <2>7. /\ RequestRoots' = RequestRoots /\ RequestRoots \subseteq Device
        /\ \A d \in Device : RootVolume(d)' = RootVolume(d)
    BY <1>1, <2>1, <2>6, SamePlans, RequestType
  <2>8. \A d \in RequestRoots : (disk[d].files[RootVolume(d)] \ {"live-id"}) \cup Due'
                                   \subseteq disk'[d].files[RootVolume(d)]
    <3> SUFFICES ASSUME NEW d \in RequestRoots
                 PROVE  disk[d].files[RootVolume(d)] \cup Due' \subseteq disk'[d].files[RootVolume(d)]
      OBVIOUS
    <3>1. RootVolume(d) \in Volume /\ Shows(Root, d, RootVolume(d))
      BY <1>1, RootLanding DEF DiskInv, RootVolume, Volume, RootSubvol
    <3>2. disk[d].files[RootVolume(d)] \cup {"os"} \subseteq disk'[d].files[RootVolume(d)]
      <4>1. <<Root, "os">> \in {y \in added : Shows(y[1], d, RootVolume(d))}
        BY <2>5, <3>1
      <4>2. "os" \in {x[2] : x \in {y \in added : Shows(y[1], d, RootVolume(d))}}
        BY <4>1
      <4>. QED
        BY <2>6, <2>7, <3>1, <4>2
    <3>3. "system-model" \in disk[d].files[RootVolume(d)]
      BY <1>1, <1>3, RootFound
    <3>4. {"repos", "index"} \subseteq disk[d].files[RootVolume(d)]
      BY <2>3 DEF DiskInv, RootInv
    <3>. QED
      BY <2>3, <3>2, <3>3, <3>4
  <2>9. MachineIdInv'
    <3> SUFFICES ASSUME NEW d \in RequestRoots, NEW v \in Volume, v # RootVolume(d),
                        "live-id" \in disk'[d].files[v]
                 PROVE  FALSE
      BY <2>1, <2>2, <2>7 DEF MachineIdInv, Forgotten, Renewed
    <3>1. stage # "idle"
      BY <1>1 DEF DiskInv, RunInv
    <3>2. "live-id" \notin disk[d].files[v]
      BY <3>1 DEF DiskInv, MachineIdInv, Forgotten, Renewed
    <3>3. ~Shows(Root, d, v)
      BY <1>1, RootLanding DEF DiskInv
    <3>. QED
      BY <2>4, <2>6, <2>7, <3>2, <3>3
  <2>10. BootInv'
    <3> SUFFICES ASSUME NEW i \in DOMAIN plan, plan[i].mountpoint \in BootMounts
                 PROVE  "boot" \in disk'[plan[i].device].files[VolumeOf(MountEntry(plan[i]))']
      BY <2>1 DEF BootInv
    <3> DEFINE d == plan[i].device
               v == VolumeOf(MountEntry(plan[i]))
               p == plan[i].mountpoint
    <3>1. plan[i] \in ResolvedType
      BY <1>1, LenProperties, ElementOfSeq DEF TypeOK
    <3>2. d \in Device /\ plan[i].subvol \in Subvol /\ disk[d] \in DiskType
      BY <1>1, <3>1 DEF ResolvedType, TypeOK
    <3>3. v \in Volume
      BY <3>2 DEF VolumeOf, MountEntry, Entry, Subvol, DiskType
    <3>4. VolumeOf(MountEntry(plan[i]))' = v
      BY <2>1, <2>6, <3>2 DEF VolumeOf, MountEntry, Entry
    <3>5. Shows(p, d, v)
      BY <1>1, PlanLanding
    <3>6. <<p, "boot">> \in added
      BY <2>5 DEF BootPoints
    <3>. HIDE DEF d, v, p
    <3>7. <<p, "boot">> \in {y \in added : Shows(y[1], d, v)}
      BY <3>5, <3>6
    <3>8. "boot" \in {x[2] : x \in {y \in added : Shows(y[1], d, v)}}
      BY <3>7
    <3>9. "boot" \in disk'[d].files[v]
      BY <2>6, <3>2, <3>3, <3>8
    <3>. QED
      BY <3>4, <3>9 DEF d
  <2>11. FstabInv' /\ Pending'
    BY <2>1, <2>2, StorePending DEF FstabInv, Pending, DiskInv, DirtyInv
  <2>12. pc' \in ChrootSteps
    BY <2>1 DEF ChrootSteps, ConfigSteps, Settings
  <2>. QED
    BY <1>1, <2>1, <2>6, <2>8, <2>9, <2>10, <2>11, <2>12, ProgressStep
<1>. QED
  BY <1>2, <1>3 DEF MossSync

\* write_to_target writes its two documents to the root volume, and nothing else.
LEMMA WriteModelDisk ==
    ASSUME TableInv, DiskInv, WriteModel
    PROVE  DiskInv'
<1>1. /\ TypeOK /\ CallInv /\ pc = "write_model" /\ op = "write"
      /\ stage \in {"formatted", "written"} /\ Settled
  BY DEF TableInv, CallInv, WriteModel, DiskInv, RunInv, ModelSteps, Settled
<1>2. PICK files \in {{}, {"system-model"}, {"system-model", "install-model"}} :
         /\ Store({<<Root, f>> : f \in files}, {})
         /\ \/ /\ files = {"system-model", "install-model"}
               /\ pc' = "unmount_model"
               /\ UNCHANGED <<table, client, op, plan, mounted, ok, fstab, ghost>>
            \/ Fails("unmount_model")
  BY DEF WriteModel
<1>3. /\ pc' = "unmount_model" /\ UNCHANGED <<table, request, stage, op, plan, fstab>>
      /\ ok' => files = {"system-model", "install-model"}
  BY <1>2 DEF Fails, client
<1>4. \A d \in Device : disk'[d].fstype = disk[d].fstype /\ disk'[d].default = disk[d].default
  BY <1>1, <1>2, StoreEffect
<1>5. \A d \in RequestRoots, v \in Volume :
         disk'[d].files[v] = IF v = RootVolume(d) THEN disk[d].files[v] \cup files
                             ELSE disk[d].files[v]
  <2>1. BelowRoot({<<Root, f>> : f \in files}, files)
    BY DEF BelowRoot
  <2>2. \A d \in RequestRoots, v \in Volume :
           disk'[d].files[v] = IF v = RootVolume(d) THEN (disk[d].files[v] \ {}) \cup files
                               ELSE disk[d].files[v]
    BY <1>1, <1>2, <2>1, RootStore
  <2>. QED
    BY <2>2
<1>6. /\ RequestRoots' = RequestRoots /\ RequestRoots \subseteq Device
      /\ \A d \in Device : RootVolume(d)' = RootVolume(d)
      /\ \A d \in Device : RootVolume(d) \in Volume
  BY <1>1, <1>3, <1>4, SamePlans, RequestType DEF RootVolume, Volume, RootSubvol
<1>7. ~Finished'
  BY <1>1, <1>3 DEF Finished
<1>8. Due' = {}
  BY <1>3, <1>7 DEF Due, ConfigSteps, Settings
<1>9. RunInv'
  BY <1>1, <1>3, <1>4, RunStep DEF DiskInv, TopSteps
<1>10. TopInv' /\ DirtyInv'
  <2>1. Pending'
    BY <1>2, <1>3, StorePending DEF Pending, DiskInv, DirtyInv
  <2>. QED
    BY <1>1, <1>3, <2>1 DEF TopInv, DirtyInv, Pending
<1>11. VolumeInv'
  BY <1>1, <1>4, <1>6 DEF VolumeInv, DiskInv
<1>12. RootInv'
  <2> SUFFICES ASSUME NEW d \in RequestRoots
               PROVE  /\ disk'[d].files[RootVolume(d)] \subseteq {"system-model", "install-model"}
                      /\ stage = "written" \/ ok' => "system-model" \in disk'[d].files[RootVolume(d)]
    BY <1>1, <1>3, <1>6, <1>8 DEF RootInv
  <2>1. disk'[d].files[RootVolume(d)] = disk[d].files[RootVolume(d)] \cup files
    BY <1>5, <1>6
  <2>2. /\ disk[d].files[RootVolume(d)] \subseteq {"system-model", "install-model"}
        /\ stage = "written" => "system-model" \in disk[d].files[RootVolume(d)]
    BY <1>1 DEF DiskInv, RootInv
  <2>. QED
    BY <1>3, <2>1, <2>2
<1>13. MachineIdInv'
  <2> SUFFICES ASSUME NEW d \in RequestRoots, NEW v \in Volume, v # RootVolume(d),
                      "live-id" \in disk'[d].files[v]
               PROVE  FALSE
    BY <1>1, <1>3, <1>6, <1>7 DEF MachineIdInv, Forgotten, Renewed
  <2>. QED
    BY <1>1, <1>5 DEF MachineIdInv, Forgotten, Renewed, DiskInv
<1>14. BootInv' /\ FstabInv'
  BY <1>3, <1>7 DEF BootInv, FstabInv, ConfigSteps, Settings
<1>. QED
  BY <1>9, <1>10, <1>11, <1>12, <1>13, <1>14 DEF DiskInv

\* What configure_target has passed after a step is what it had passed, and the step.
LEMMA AfterPasses ==
    ASSUME NEW step \in Settings
    PROVE  /\ After(step) \in ConfigSteps \cup {"fstab"}
           /\ Passed(After(step)) = Passed(step) \cup {step}
           /\ After(step) \in {"machineid", "useradd", "passwords", "fstab"}
                 => step \in {"useradd", "passwords"}
<1>1. CASE step = "locale"
  BY <1>1 DEF After, Passed, ConfigSteps, Settings
<1>2. CASE step = "timezone"
  BY <1>2 DEF After, Passed, ConfigSteps, Settings
<1>3. CASE step = "useradd"
  <2>1. After(step) = "passwords"
    BY <1>3 DEF After
  <2>2. Passed("passwords") = Settings \ {"passwords"} /\ Passed(step) = {"locale", "timezone"}
    BY <1>3 DEF Passed
  <2>. QED
    BY <1>3, <2>1, <2>2 DEF ConfigSteps, Settings
<1>4. CASE step = "passwords"
  <2>1. After(step) = "fstab"
    BY <1>4 DEF After
  <2>2. Passed("fstab") = Settings /\ Passed(step) = Settings \ {"passwords"}
    BY <1>4 DEF Passed
  <2>. QED
    BY <1>4, <2>1, <2>2 DEF ConfigSteps, Settings
<1>. QED
  BY <1>1, <1>2, <1>3, <1>4 DEF Settings

\* Each step of configure_target leaves its artifact if the request asks for it.
LEMMA ConfigureDisk ==
    ASSUME TableInv, DiskInv, NEW step \in Settings, Configure(step)
    PROVE  DiskInv'
<1>1. TypeOK /\ CallInv /\ pc = step /\ pc \in ChrootSteps /\ stage # "installed"
  BY DEF TableInv, Configure, ChrootSteps, DiskInv, RunInv, ConfigSteps, Settings
<1>2. CASE CommandFails
  BY <1>1, <1>2, FailsDisk
<1>3. ASSUME pc' = After(step), UNCHANGED <<request, stage, kept>>
      PROVE  /\ pc' \in ConfigSteps \cup {"fstab"} /\ pc' \in ChrootSteps
             /\ ~Finished /\ ~Finished' /\ FstabInv'
             /\ Due' = Due \cup {s \in {step} : Requested(s)}
             /\ (Forgotten' => Forgotten) /\ (Renewed' => Renewed)
  <2>1. pc' \in ConfigSteps \cup {"fstab"} /\ pc' \in ChrootSteps
    BY <1>3, AfterPasses DEF ChrootSteps
  <2>2. ~Finished /\ ~Finished'
    BY <1>1, <1>3, <2>1 DEF Finished, ConfigSteps, Settings
  <2>3. pc \notin {"index", "packages"} /\ pc' \notin {"index", "packages"}
    BY <1>1, <2>1 DEF ConfigSteps, Settings
  <2>4. \A s \in Settings : Requested(s)' = Requested(s)
    BY <1>3 DEF Requested
  <2>5. Passed(pc') = Passed(pc) \cup {step} /\ Passed(pc) \subseteq Settings
    BY <1>1, <1>3, AfterPasses, PassedSteps DEF ConfigSteps
  <2>6. Due = {"system-model", "repos", "index", "os"} \cup {s \in Passed(pc) : Requested(s)}
    BY <1>1, <2>2, <2>3 DEF Due, ConfigSteps
  <2>7. Due' = {"system-model", "repos", "index", "os"} \cup {s \in Passed(pc') : Requested(s)'}
    BY <2>1, <2>2, <2>3 DEF Due
  <2>8. {s \in Passed(pc') : Requested(s)'} =
           {s \in Passed(pc) : Requested(s)} \cup {s \in {step} : Requested(s)}
    BY <2>4, <2>5
  <2>9. Due' = Due \cup {s \in {step} : Requested(s)}
    BY <2>6, <2>7, <2>8
  <2>10. FstabInv'
    BY <2>2 DEF FstabInv
  <2>11. (Forgotten' => Forgotten) /\ (Renewed' => Renewed)
    BY <1>1, <1>3, <2>2, AfterPasses DEF Forgotten, Renewed
  <2>. QED
    BY <2>1, <2>2, <2>9, <2>10, <2>11
<1>4. CASE /\ ~Requested(step)
           /\ pc' = After(step)
           /\ UNCHANGED <<machine, client, op, plan, mounted, ok, fstab, ghost>>
  <2>1. UNCHANGED <<table, disk, dirty, request, stage, op, plan, kept>>
    BY <1>4 DEF machine, client, ghost
  <2>2. /\ pc' \in ConfigSteps \cup {"fstab"} /\ pc' \in ChrootSteps
        /\ ~Finished' /\ FstabInv' /\ Due' = Due
        /\ (Forgotten' => Forgotten) /\ (Renewed' => Renewed)
    BY <1>3, <1>4, <2>1
  <2>3. MachineIdInv'
    <3>1. \A d \in RequestRoots : Renewed => "machineid" \in disk[d].files[RootVolume(d)]
      BY DEF DiskInv, MachineIdInv
    <3>. QED
      BY <1>1, <2>1, <2>2, <3>1, MachineIdStep
  <2>4. BootInv'
    BY <1>1, <2>1, <2>2, BootStep DEF ConfigSteps
  <2>5. Pending'
    BY <2>1 DEF Pending, DiskInv, DirtyInv
  <2>6. \A d \in RequestRoots : (disk[d].files[RootVolume(d)] \ {"live-id"}) \cup Due'
                                   \subseteq disk'[d].files[RootVolume(d)]
    BY <2>1, <2>2 DEF DiskInv, RootInv
  <2>. QED
    BY <1>1, <2>1, <2>2, <2>3, <2>4, <2>5, <2>6, ProgressStep
<1>5. CASE Succeeds({<<Root, step>>}, {}, After(step))
  <2>1. /\ Store({<<Root, step>>}, {}) /\ pc' = After(step)
        /\ UNCHANGED <<table, request, stage, op, plan, kept>>
    BY <1>5 DEF Succeeds, client, ghost
  <2>2. step # "live-id" /\ step \in ConfigSteps
    BY DEF ConfigSteps, Settings
  <2>3. /\ pc' \in ChrootSteps /\ ~Finished' /\ FstabInv'
        /\ Due' \subseteq Due \cup {step}
        /\ (Forgotten' => Forgotten) /\ (Renewed' => Renewed)
    BY <1>3, <2>1
  <2>. QED
    BY <1>1, <2>1, <2>2, <2>3, ArtifactStep
<1>. QED
  BY <1>2, <1>4, <1>5 DEF Configure

\* The removal of the machine-id takes it from the root volume, if it is not
\* reported as failed.
LEMMA ForgetDisk ==
    ASSUME TableInv, DiskInv, ForgetMachineId
    PROVE  DiskInv'
<1>1. /\ TypeOK /\ CallInv /\ pc = "forget" /\ pc \in ChrootSteps /\ stage # "installed"
      /\ pc' = "machineid" /\ pc' \in ChrootSteps
      /\ UNCHANGED <<table, request, stage, op, plan>>
  BY DEF TableInv, ForgetMachineId, ChrootSteps, DiskInv, RunInv, ConfigSteps, client
<1>2. ~Finished /\ ~Finished' /\ ~Renewed' /\ ~Forgotten
  BY <1>1 DEF Finished, Renewed, Forgotten
<1>3. Due' = Due
  <2>1. \A s \in Settings : Requested(s)' = Requested(s)
    BY <1>1 DEF Requested
  <2>2. Passed("forget") = {"locale", "timezone"} /\ Passed("machineid") = {"locale", "timezone"}
    BY DEF Passed
  <2>3. {"locale", "timezone"} \subseteq Settings
    BY DEF Settings
  <2>. QED
    BY <1>1, <1>2, <2>1, <2>2, <2>3 DEF Due, ConfigSteps
<1>4. FstabInv'
  BY <1>2 DEF FstabInv
<1>5. CASE Store({}, {"live-id"}) /\ UNCHANGED kept
  <2>1. \A d \in Device : disk'[d].fstype = disk[d].fstype /\ disk'[d].default = disk[d].default
    BY <1>1, <1>5, StoreEffect
  <2>2. \A d \in RequestRoots, v \in Volume :
           disk'[d].files[v] = IF v = RootVolume(d) THEN (disk[d].files[v] \ {"live-id"}) \cup {}
                               ELSE disk[d].files[v]
    <3>1. BelowRoot({}, {})
      BY DEF BelowRoot
    <3>. QED
      BY <1>1, <1>5, <3>1, RootStore
  <2>3. \A d \in RequestRoots : (disk[d].files[RootVolume(d)] \ {"live-id"}) \cup Due'
                                   \subseteq disk'[d].files[RootVolume(d)]
    <3> SUFFICES ASSUME NEW d \in RequestRoots
                 PROVE  (disk[d].files[RootVolume(d)] \ {"live-id"}) \cup Due'
                           \subseteq disk'[d].files[RootVolume(d)]
      OBVIOUS
    <3>1. RootVolume(d) \in Volume
      BY DEF RootVolume, Volume, RootSubvol
    <3>2. "live-id" \notin Due
      BY PassedSteps DEF Due, RequiredArtifacts, ConfigSteps, Settings
    <3>3. Due \subseteq disk[d].files[RootVolume(d)]
      BY DEF DiskInv, RootInv
    <3>. QED
      BY <1>3, <2>2, <3>1, <3>2, <3>3
  <2>4. MachineIdInv'
    <3>1. \A d \in RequestRoots, v \in Volume :
             "live-id" \in disk'[d].files[v] => "live-id" \in disk[d].files[v] /\ v # RootVolume(d)
      BY <2>2
    <3>. QED
      BY <1>1, <1>2, <2>1, <3>1, MachineIdStep
  <2>5. BootInv'
    <3>1. \A d \in Device, v \in Volume : "boot" \in disk[d].files[v] => "boot" \in disk'[d].files[v]
      BY <1>1, <1>5, StoreEffect
    <3>. QED
      BY <1>1, <2>1, <3>1, BootStep DEF ConfigSteps
  <2>6. Pending'
    BY <1>1, <1>5, StorePending DEF Pending, DiskInv, DirtyInv
  <2>. QED
    BY <1>1, <1>4, <2>1, <2>3, <2>4, <2>5, <2>6, ProgressStep
<1>6. CASE kept' = TRUE /\ UNCHANGED <<disk, dirty>>
  <2>1. ~Forgotten'
    BY <1>6 DEF Forgotten
  <2>2. MachineIdInv'
    BY <1>1, <1>2, <1>6, <2>1, MachineIdStep
  <2>3. BootInv'
    BY <1>1, <1>6, BootStep DEF ConfigSteps
  <2>4. Pending'
    BY <1>1, <1>6 DEF Pending, DiskInv, DirtyInv
  <2>5. \A d \in RequestRoots : (disk[d].files[RootVolume(d)] \ {"live-id"}) \cup Due'
                                   \subseteq disk'[d].files[RootVolume(d)]
    BY <1>3, <1>6 DEF DiskInv, RootInv
  <2>. QED
    BY <1>1, <1>4, <1>6, <2>2, <2>3, <2>4, <2>5, ProgressStep
<1>. QED
  BY <1>5, <1>6 DEF ForgetMachineId

\* systemd-machine-id-setup makes an id in a root volume that has none; where it
\* finds one, the removal has failed.
LEMMA SetupDisk ==
    ASSUME TableInv, DiskInv, SetupMachineId
    PROVE  DiskInv'
<1>1. TypeOK /\ CallInv /\ pc = "machineid" /\ pc \in ChrootSteps /\ stage # "installed"
  BY DEF TableInv, SetupMachineId, ChrootSteps, DiskInv, RunInv, ConfigSteps
<1>2. CASE CommandFails
  BY <1>1, <1>2, FailsDisk
<1>3. ASSUME NEW made, Succeeds(made, {}, "useradd"),
             made = IF OnTarget(Root, "live-id") THEN {} ELSE {<<Root, "machineid">>}
      PROVE  DiskInv'
  <2>1. /\ Store(made, {}) /\ pc' = "useradd" /\ pc' \in ChrootSteps
        /\ UNCHANGED <<table, request, stage, op, plan, kept>>
    BY <1>3 DEF Succeeds, client, ghost, ChrootSteps, ConfigSteps, Settings
  <2>2. ~Finished /\ ~Finished' /\ (Forgotten' => Forgotten) /\ (Renewed' => ~kept)
    BY <1>1, <2>1 DEF Finished, Renewed, Forgotten
  <2>3. Due' = Due
    <3>1. \A s \in Settings : Requested(s)' = Requested(s)
      BY <2>1 DEF Requested
    <3>2. Passed("machineid") = {"locale", "timezone"} /\ Passed("useradd") = {"locale", "timezone"}
      BY DEF Passed
    <3>3. {"locale", "timezone"} \subseteq Settings
      BY DEF Settings
    <3>. QED
      BY <1>1, <2>1, <2>2, <3>1, <3>2, <3>3 DEF Due, ConfigSteps, Settings
  <2>4. FstabInv'
    BY <2>2 DEF FstabInv
  <2>5. CASE ~OnTarget(Root, "live-id")
    <3>1. Store({<<Root, "machineid">>}, {}) /\ "machineid" # "live-id"
      BY <1>3, <2>1, <2>5
    <3>. QED
      BY <1>1, <2>1, <2>2, <2>3, <2>4, <3>1, ArtifactStep DEF ConfigSteps
  <2>6. CASE OnTarget(Root, "live-id")
    <3>1. Store({}, {})
      BY <1>3, <2>1, <2>6
    <3>2. /\ \A d \in Device : disk'[d].fstype = disk[d].fstype /\ disk'[d].default = disk[d].default
          /\ \A d \in Device, v \in Volume : disk'[d].files[v] = disk[d].files[v]
      <4> SUFFICES ASSUME NEW d \in Device, NEW v \in Volume
                   PROVE  /\ disk'[d].fstype = disk[d].fstype /\ disk'[d].default = disk[d].default
                          /\ disk'[d].files[v] = disk[d].files[v]
        BY DEF Volume
      <4>1. disk'[d].files[v] = (disk[d].files[v] \ {a \in {} : Shows(Root, d, v)})
                                   \cup {x[2] : x \in {y \in {} : Shows(y[1], d, v)}}
        BY <1>1, <3>1, StoreEffect
      <4>2. /\ {a \in {} : Shows(Root, d, v)} = {}
            /\ {x[2] : x \in {y \in {} : Shows(y[1], d, v)}} = {}
        OBVIOUS
      <4>3. disk'[d].fstype = disk[d].fstype /\ disk'[d].default = disk[d].default
        BY <1>1, <3>1, StoreEffect
      <4>. QED
        BY <4>1, <4>2, <4>3
    <3>3. RequestRoots \subseteq Device /\ \A d \in RequestRoots : RootVolume(d) \in Volume
      BY <1>1, RequestType DEF RootVolume, Volume, RootSubvol
    <3>4. ASSUME NEW d \in RequestRoots
          PROVE  ~Renewed'
      <4>1. "live-id" \in disk[d].files[RootVolume(d)]
        BY <1>1, <2>6, RootFound
      <4>2. Forgotten => "live-id" \notin disk[d].files[RootVolume(d)]
        BY <3>3 DEF DiskInv, MachineIdInv
      <4>3. ~kept => Forgotten
        BY <1>1 DEF Forgotten
      <4>. QED
        BY <2>2, <4>1, <4>2, <4>3
    <3>5. MachineIdInv'
      BY <1>1, <2>1, <2>2, <3>2, <3>3, <3>4, MachineIdStep
    <3>6. BootInv'
      BY <1>1, <2>1, <3>2, BootStep DEF ConfigSteps
    <3>7. Pending'
      BY <2>1, <3>1, StorePending DEF Pending, DiskInv, DirtyInv
    <3>8. \A d \in RequestRoots : (disk[d].files[RootVolume(d)] \ {"live-id"}) \cup Due'
                                     \subseteq disk'[d].files[RootVolume(d)]
      BY <2>3, <3>2, <3>3 DEF DiskInv, RootInv
    <3>. QED
      BY <1>1, <2>1, <2>4, <3>2, <3>5, <3>6, <3>7, <3>8, ProgressStep
  <2>. QED
    BY <2>5, <2>6
<1>. QED
  BY <1>2, <1>3 DEF SetupMachineId

\* fstab is what the layout resolves to now, and so what was mounted.
LEMMA FstabDisk ==
    ASSUME TableInv, DiskInv, WriteFstab
    PROVE  DiskInv'
<1>1. TypeOK /\ CallInv /\ pc = "fstab" /\ pc \in ChrootSteps /\ stage # "installed" /\ op = "install"
  BY DEF TableInv, CallInv, WriteFstab, ChrootSteps, DiskInv, RunInv
<1>2. CASE CommandFails
  BY <1>1, <1>2, FailsDisk
<1>3. ASSUME NEW resolved \in FstabMounts,
             fstab' = [i \in DOMAIN resolved |-> FstabLine(resolved[i])],
             Succeeds({<<Root, "fstab">>}, {}, "unwind")
      PROVE  DiskInv'
  <2>1. /\ Store({<<Root, "fstab">>}, {}) /\ pc' = "unwind"
        /\ UNCHANGED <<table, request, stage, op, plan, ok, kept>>
    BY <1>3 DEF Succeeds, client, ghost
  <2>2. Due' \subseteq Due \cup {"fstab"}
    <3>1. ~Finished /\ Passed("fstab") = Settings
      BY <1>1 DEF Finished, Passed
    <3>2. Due = {"system-model", "repos", "index", "os"} \cup {s \in Settings : Requested(s)}
      BY <1>1, <3>1 DEF Due
    <3>3. {s \in Settings : Requested(s)}' = {s \in Settings : Requested(s)}
      BY <2>1 DEF Requested
    <3>4. CASE Finished'
      BY <3>2, <3>3, <3>4 DEF Due, RequiredArtifacts
    <3>5. CASE ~Finished'
      BY <2>1, <3>5 DEF Due, ConfigSteps, Settings
    <3>. QED
      BY <3>4, <3>5
  <2>3. FstabInv'
    <3>1. /\ plan \in Resolutions(request.mounts, ProbedType)
          /\ resolved \in Resolutions(request.mounts, ProbedType)
      BY <1>1, <1>3 DEF DiskInv, RunInv, PlansOf, FstabMounts
    <3>2. /\ \A i \in DOMAIN plan : \E j \in DOMAIN resolved : resolved[j] = plan[i]
          /\ \A j \in DOMAIN resolved : \E i \in DOMAIN plan : plan[i] = resolved[j]
      BY <3>1, ResolutionsAgree
    <3>3. DOMAIN fstab' = DOMAIN resolved /\ plan' = plan
      BY <1>3, <2>1
    <3>4. \A j \in DOMAIN resolved : /\ fstab'[j].device = resolved[j].device
                                     /\ fstab'[j].subvol = resolved[j].subvol
                                     /\ fstab'[j].mountpoint = resolved[j].mountpoint
      BY <1>3 DEF FstabLine
    <3> DEFINE line(m) == [device |-> m.device, sub |-> m.subvol, at |-> m.mountpoint]
    <3>5. {line(fstab'[j]) : j \in DOMAIN fstab'} = {line(resolved[j]) : j \in DOMAIN resolved}
      BY <3>3, <3>4
    <3>6. {line(resolved[j]) : j \in DOMAIN resolved} = {line(plan[i]) : i \in DOMAIN plan}
      <4>. HIDE DEF line
      <4>. QED
        BY <3>2
    <3>. QED
      BY <3>3, <3>5, <3>6 DEF FstabInv
  <2>4. (Forgotten' => Forgotten) /\ (Renewed' => Renewed)
    BY <1>1, <2>1 DEF Forgotten, Renewed
  <2>5. "live-id" # "fstab"
    OBVIOUS
  <2>. QED
    BY <1>1, <2>1, <2>2, <2>3, <2>4, <2>5, ArtifactStep, SMTT(30) DEF ChrootSteps
<1>. QED
  BY <1>2, <1>3 DEF WriteFstab

-----------------------------------------------------------------------------
(***************************************************************************)
(* The invariant.                                                          *)
(***************************************************************************)

\* Nothing is on the disks of the machine before the first run.
LEMMA InitDisk == Init => DiskInv
<1> SUFFICES ASSUME Init
             PROVE  DiskInv
  OBVIOUS
<1>1. ~Finished /\ ~Settled /\ Due = {}
  BY DEF Init, Finished, Settled, Due, ModelSteps, ChrootSteps, ConfigSteps, Settings
<1>2. RunInv /\ TopInv /\ DirtyInv
  BY DEF Init, RunInv, TopInv, DirtyInv, TopSteps
<1>3. VolumeInv
  BY <1>1 DEF Init, VolumeInv, Formatted
<1>4. RootInv /\ MachineIdInv /\ BootInv /\ FstabInv
  BY <1>1 DEF Init, RootInv, MachineIdInv, Forgotten, Renewed, BootInv, FstabInv, ConfigSteps, Settings
<1>. QED
  BY <1>2, <1>3, <1>4 DEF DiskInv

\* A step that changes nothing.
LEMMA StutterDisk == DiskInv /\ UNCHANGED vars => DiskInv'
<1> SUFFICES ASSUME DiskInv, UNCHANGED vars
             PROVE  DiskInv'
  OBVIOUS
<1>1. UNCHANGED <<table, disk, dirty, request, stage, op, pc, plan, ok, fstab, kept, unsynced>>
  BY DEF vars, machine, client, ghost
<1>2. /\ RequestRoots' = RequestRoots
      /\ \A d : RootVolume(d)' = RootVolume(d)
      /\ Settled' = Settled /\ Due' = Due
      /\ \A kind : PlansOf(kind)' = PlansOf(kind)
  BY <1>1 DEF RequestRoots, RootVolume, Settled, Due, Finished, RequiredArtifacts, Requested, PlansOf,
              ModelPlanOf, ProbedType
<1>3. RunInv' /\ VolumeInv' /\ RootInv'
  BY <1>1, <1>2 DEF DiskInv, RunInv, VolumeInv, RootInv
<1>4. MachineIdInv' /\ BootInv' /\ FstabInv'
  BY <1>1, <1>2, SMTT(30) DEF DiskInv, MachineIdInv, Forgotten, Renewed, BootInv, FstabInv, Finished, VolumeOf
<1>5. TopInv' /\ DirtyInv'
  BY <1>1 DEF DiskInv, TopInv, RootDevices, DirtyInv
<1>. QED
  BY <1>3, <1>4, <1>5 DEF DiskInv

\* No step leaves the disks in disagreement with the run.
LEMMA DiskStep == TableInv /\ TableInv' /\ DiskInv /\ [Next]_vars => DiskInv'
<1> SUFFICES ASSUME TableInv, TableInv', DiskInv, [Next]_vars
             PROVE  DiskInv'
  OBVIOUS
<1>1. TypeOK /\ TypeOK' /\ CallInv /\ ScheduleInv
  BY DEF TableInv
<1>2. CASE \E r \in Requests : Format(r)
  BY <1>1, <1>2, FormatDisk
<1>3. CASE WriteSystemModel \/ WriteSystemModelFails \/ InstallSystem \/ InstallSystemFails
  BY <1>1, <1>3, CallsDisk
<1>4. CASE MountTop \/ CreateSubvols \/ SetDefault \/ UnmountTop
  BY <1>1, <1>4, MountTopDisk, CreateSubvolsDisk, SetDefaultDisk, UnmountTopDisk
<1>5. CASE MountModelRoot \/ WriteModel \/ UnmountModelRoot
  BY <1>1, <1>5, MountModelDisk, WriteModelDisk, UnmountModelDisk
<1>6. CASE MountNext \/ ConfigureRepos \/ UpdateIndex \/ MossSync
  BY <1>1, <1>6, MountNextDisk, ReposDisk, MossDisk
<1>7. CASE (\E step \in Settings : Configure(step)) \/ ForgetMachineId \/ SetupMachineId
  BY <1>7, ConfigureDisk, ForgetDisk, SetupDisk
<1>8. CASE WriteFstab \/ Unwind \/ SyncAndReturn
  BY <1>1, <1>8, FstabDisk, UnwindDisk, SyncDisk
<1>9. CASE BackendDies
  BY <1>1, <1>9, DiesDisk
<1>10. CASE UNCHANGED vars
  BY <1>10, StutterDisk
<1>. QED
  BY <1>2, <1>3, <1>4, <1>5, <1>6, <1>7, <1>8, <1>9, <1>10 DEF Next, Call

\* The whole inductive invariant holds of every reachable state: what is on the
\* disks is what the steps of the run so far leave there, whatever failed.
THEOREM Invariant == Spec => []IInv
<1>1. Init => DiskInv
  BY InitDisk
<1>2. TableInv /\ TableInv' /\ DiskInv /\ [Next]_vars => DiskInv'
  BY DiskStep
<1>3. TableInv /\ DiskInv <=> IInv
  BY DEF IInv
<1>. QED
  BY <1>1, <1>2, <1>3, TableInvariant, PTL DEF Spec

-----------------------------------------------------------------------------
(***************************************************************************)
(* What the client may rely on.                                            *)
(***************************************************************************)

\* A client that has been told of a success may reboot: the whole system is on
\* its devices and written back, the model is found again by discovery, fstab
\* mounts what was mounted, and the machine-id is the system's own.
THEOREM InstalledOKAlways == Spec => []InstalledOK
<1>1. IInv => InstalledOK
  <2> SUFFICES ASSUME IInv
               PROVE  InstalledOK
    OBVIOUS
  <2>1. TypeOK /\ CallInv /\ DiskInv
    BY DEF IInv, TableInv
  <2>2. ASSUME stage \in {"written", "installed"}, NEW i \in DOMAIN plan, plan[i].mountpoint = Root
        PROVE  /\ plan[i].device \in RequestRoots
               /\ VolumeOf(MountEntry(plan[i])) = RootVolume(plan[i].device)
               /\ disk[plan[i].device].default = RootVolume(plan[i].device)
    <3>1. Settled
      BY <2>2 DEF Settled
    <3>2. /\ plan[i].device \in RequestRoots
          /\ VolumeOf(MountEntry(plan[i])) = RootVolume(plan[i].device)
      BY <2>1, <2>2, <3>1, RootVolumeShown DEF DiskInv
    <3>. QED
      BY <2>1, <3>1, <3>2 DEF DiskInv, VolumeInv
  <2>3. InstalledComplete
    <3> SUFFICES ASSUME stage = "installed", NEW i \in DOMAIN plan
                 PROVE  LET files == disk[plan[i].device].files[VolumeOf(MountEntry(plan[i]))]
                        IN  /\ plan[i].mountpoint = Root => RequiredArtifacts \subseteq files
                            /\ plan[i].mountpoint \in BootMounts => "boot" \in files
      BY DEF InstalledComplete
    <3>1. Finished /\ Due = RequiredArtifacts
      BY DEF Finished, Due
    <3>2. plan[i].mountpoint \in BootMounts =>
             "boot" \in disk[plan[i].device].files[VolumeOf(MountEntry(plan[i]))]
      BY <2>1, <3>1 DEF DiskInv, BootInv
    <3>3. \A d \in RequestRoots : RequiredArtifacts \subseteq disk[d].files[RootVolume(d)]
      BY <2>1, <3>1 DEF DiskInv, RootInv
    <3>. QED
      BY <2>2, <3>2, <3>3
  <2>4. DurableWhenTold
    BY <2>1 DEF DurableWhenTold, DiskInv, DirtyInv
  <2>5. Rediscoverable
    <3>1. stage \in {"written", "installed"} =>
             \A d \in RequestRoots : "system-model" \in disk[d].files[RootVolume(d)]
      BY <2>1 DEF DiskInv, RootInv
    <3>. QED
      BY <2>2, <3>1 DEF Rediscoverable
  <2>6. FstabMatchesMounts
    BY <2>1 DEF FstabMatchesMounts, DiskInv, FstabInv, Finished
  <2>7. OwnMachineId
    <3>1. stage = "installed" /\ ~kept => Forgotten /\ Renewed
      BY DEF Forgotten, Renewed, Finished
    <3>2. stage = "installed" /\ ~kept =>
             \A d \in RequestRoots : /\ \A v \in Volume : "live-id" \notin disk[d].files[v]
                                     /\ "machineid" \in disk[d].files[RootVolume(d)]
      BY <2>1, <3>1 DEF DiskInv, MachineIdInv
    <3>3. ASSUME stage = "installed", ~kept, NEW d \in RootDevices
          PROVE  /\ \A v \in Volume : "live-id" \notin disk[d].files[v]
                 /\ \E i \in DOMAIN plan :
                       /\ plan[i].mountpoint = Root /\ plan[i].device = d
                       /\ "machineid" \in disk[d].files[VolumeOf(MountEntry(plan[i]))]
      <4>1. PICK i \in DOMAIN plan : plan[i].mountpoint = Root /\ plan[i].device = d
        BY <3>3 DEF RootDevices
      <4>. QED
        BY <2>2, <3>2, <3>3, <4>1
    <3>. QED
      BY <3>3 DEF OwnMachineId
  <2>. QED
    BY <2>3, <2>4, <2>5, <2>6, <2>7 DEF InstalledOK
<1>. QED
  BY <1>1, Invariant, PTL

\* What a call writes to is a partition of the layout: a lookup below the target
\* root never ends in one that an earlier run has left mounted.
LEMMA StoreOwn ==
    ASSUME IInv, pc \in ChrootSteps \cup {"write_model"},
           NEW added, NEW removed, Store(added, removed),
           \A x \in added : x[1] = Root \/ (pc \in ChrootSteps /\ x[1] \in BootPoints),
           NEW d \in Device, disk'[d] # disk[d]
    PROVE  \E i \in DOMAIN request.mounts : request.mounts[i].device = d
<1>1. TableInv /\ DiskInv /\ TypeOK /\ pc # "idle"
  BY DEF IInv, TableInv, ChrootSteps, ConfigSteps, Settings
<1>2. PICK v \in Volume : Shows(Root, d, v) \/ \E x \in added : Shows(x[1], d, v)
  BY <1>1, StoreEffect
<1>3. CASE Shows(Root, d, v)
  BY <1>1, <1>3, RootLanding DEF DiskInv, RequestRoots
<1>4. ASSUME NEW p \in BootPoints, pc \in ChrootSteps, Shows(p, d, v)
      PROVE  \E i \in DOMAIN request.mounts : request.mounts[i].device = d
  <2>1. PICK i \in DOMAIN plan : plan[i].mountpoint = p
    BY DEF BootPoints
  <2>2. d = plan[i].device
    BY <1>1, <1>4, <2>1, PlanLanding
  <2>3. plan \in PlansOf(op) /\ op \in {"write", "install"}
    BY <1>1 DEF DiskInv, RunInv, TypeOK
  <2>. QED
    BY <1>1, <2>2, <2>3, PlanEntries
<1>. QED
  BY <1>2, <1>3, <1>4

\* No step of an installation writes to a partition the user has not put in the
\* layout.
THEOREM OnlyOwnDevicesWrittenAlways == Spec => OnlyOwnDevicesWritten
<1> DEFINE Own == \A d \in Device : disk'[d] # disk[d] =>
                     \E i \in DOMAIN request'.mounts : request'.mounts[i].device = d
<1>1. IInv /\ [Next]_vars => [Own]_vars
  <2> SUFFICES ASSUME IInv, Next
               PROVE  Own
    OBVIOUS
  <2>1. CASE UNCHANGED disk
    BY <2>1
  <2>2. ASSUME NEW r \in Requests, Format(r)
        PROVE  Own
    BY <2>2 DEF Format
  <2>3. CASE CreateSubvols \/ SetDefault
    <3>1. RootDevices = RequestRoots
      BY <2>3, TopMounted DEF IInv, TableInv, CreateSubvols, SetDefault
    <3>2. \A d \in Device : disk'[d] # disk[d] => d \in RootDevices
      BY <2>3 DEF CreateSubvols, SetDefault
    <3>3. UNCHANGED request
      BY <2>3 DEF CreateSubvols, SetDefault, Fails, client
    <3>. QED
      BY <3>1, <3>2, <3>3 DEF RequestRoots
  <2>4. ASSUME pc \in ChrootSteps \cup {"write_model"}, UNCHANGED request,
               NEW added, NEW removed, Store(added, removed),
               \A x \in added : x[1] = Root \/ (pc \in ChrootSteps /\ x[1] \in BootPoints)
        PROVE  Own
    BY <2>4, StoreOwn
  <2>5. ASSUME pc \in ChrootSteps, UNCHANGED request, NEW a, NEW removed, Store({<<Root, a>>}, removed)
        PROVE  Own
    BY <2>4, <2>5
  <2>6. CASE WriteModel
    <3>1. PICK files \in {{}, {"system-model"}, {"system-model", "install-model"}} :
             Store({<<Root, f>> : f \in files}, {})
      BY <2>6 DEF WriteModel
    <3>2. pc \in ChrootSteps \cup {"write_model"} /\ UNCHANGED request
      BY <2>6 DEF WriteModel, Fails, client
    <3>. QED
      BY <2>4, <3>1, <3>2
  <2>7. CASE ConfigureRepos \/ UpdateIndex
    <3>1. pc \in ChrootSteps /\ UNCHANGED request
      BY <2>7 DEF ConfigureRepos, UpdateIndex, Succeeds, CommandFails, Fails, client, ChrootSteps
    <3>. QED
      BY <2>1, <2>5, <2>7, <3>1 DEF ConfigureRepos, UpdateIndex, Succeeds, CommandFails
  <2>8. CASE MossSync
    <3>1. pc \in ChrootSteps /\ UNCHANGED request
      BY <2>8 DEF MossSync, Succeeds, Fails, client, ChrootSteps
    <3>2. CASE Store({<<Root, "os">>, <<Root, "live-id">>} \cup {<<p, "boot">> : p \in BootPoints}, {})
      <4> DEFINE added == {<<Root, "os">>, <<Root, "live-id">>} \cup {<<p, "boot">> : p \in BootPoints}
      <4>1. \A x \in added : x[1] = Root \/ x[1] \in BootPoints
        OBVIOUS
      <4>2. Store(added, {})
        BY <3>2
      <4>. HIDE DEF added
      <4>. QED
        BY <2>4, <3>1, <4>1, <4>2
    <3>3. ASSUME NEW part \in SUBSET {"os", "live-id"}, Store({<<Root, a>> : a \in part}, {})
          PROVE  Own
      BY <2>4, <3>1, <3>3
    <3>. QED
      BY <2>8, <3>2, <3>3 DEF MossSync, Succeeds
  <2>9. ASSUME NEW step \in Settings, Configure(step)
        PROVE  Own
    <3>1. pc \in ChrootSteps /\ UNCHANGED request
      BY <2>9 DEF Configure, Succeeds, CommandFails, Fails, client, ChrootSteps, ConfigSteps
    <3>. QED
      BY <2>1, <2>5, <2>9, <3>1 DEF Configure, Succeeds, CommandFails, machine
  <2>10. CASE ForgetMachineId \/ SetupMachineId
    <3>1. pc \in ChrootSteps /\ UNCHANGED request
      BY <2>10 DEF ForgetMachineId, SetupMachineId, Succeeds, CommandFails, Fails, client,
            ChrootSteps, ConfigSteps
    <3>2. UNCHANGED disk \/ Store({}, {"live-id"}) \/ Store({}, {}) \/ Store({<<Root, "machineid">>}, {})
      BY <2>10 DEF ForgetMachineId, SetupMachineId, Succeeds, CommandFails
    <3>3. ASSUME NEW removed, Store({}, removed)
          PROVE  Own
      <4> DEFINE added == {}
      <4>1. Store(added, removed) /\ \A x \in added : x[1] = Root
        BY <3>3
      <4>. HIDE DEF added
      <4>. QED
        BY <2>4, <3>1, <4>1
    <3>. QED
      BY <2>1, <2>5, <3>1, <3>2, <3>3
  <2>11. CASE WriteFstab
    <3>1. pc \in ChrootSteps /\ UNCHANGED request
      BY <2>11 DEF WriteFstab, Succeeds, CommandFails, Fails, client, ChrootSteps
    <3>. QED
      BY <2>1, <2>5, <2>11, <3>1 DEF WriteFstab, Succeeds, CommandFails
  <2>12. CASE WriteSystemModel \/ WriteSystemModelFails \/ InstallSystem \/ InstallSystemFails
    <3>1. UNCHANGED disk
      BY <2>12 DEF WriteSystemModel, WriteSystemModelFails, InstallSystem, InstallSystemFails,
            Begin, Refuse, machine
    <3>. QED
      BY <2>1, <3>1
  <2>13. CASE MountTop \/ UnmountTop \/ MountModelRoot \/ UnmountModelRoot \/ MountNext
              \/ Unwind \/ SyncAndReturn \/ BackendDies
    <3>1. UNCHANGED disk
      BY <2>13 DEF MountTop, UnmountTop, MountModelRoot, UnmountModelRoot, MountNext, CommandFails,
            Unwind, SyncAndReturn, BackendDies, machine
    <3>. QED
      BY <2>1, <3>1
  <2>. HIDE DEF Own
  <2>. QED
    BY <2>2, <2>3, <2>6, <2>7, <2>8, <2>9, <2>10, <2>11, <2>12, <2>13 DEF Next, Call
<1>. QED
  BY <1>1, Invariant, PTL DEF Spec, OnlyOwnDevicesWritten

-----------------------------------------------------------------------------
(***************************************************************************)
(* The chain of commands implements Promise.                               *)
(***************************************************************************)

\* What the root volume of every root partition of the layout has, it carries.
LEMMA CarriesIs ==
    ASSUME NEW artifacts
    PROVE  RootCarries(artifacts)
              <=> \E d \in RequestRoots : artifacts \subseteq disk[d].files[RootVolume(d)]
  BY DEF RootCarries, RequestRoots

\* The same after a step.
LEMMA CarriesThen ==
    ASSUME NEW artifacts
    PROVE  RootCarries(artifacts)'
              <=> \E d \in RequestRoots' : artifacts \subseteq disk'[d].files[RootVolume(d)']
  BY DEF RootCarries, RequestRoots, RootVolume

\* The system includes the model.
LEMMA CarriedIs ==
    /\ Carried \in {"nothing", "model", "system"}
    /\ Carried = "system" <=> RootCarries(RequiredArtifacts)
    /\ Carried # "nothing" <=> RootCarries({"system-model"})
<1>1. {"system-model"} \subseteq RequiredArtifacts
  BY DEF RequiredArtifacts
<1>2. RootCarries(RequiredArtifacts) => RootCarries({"system-model"})
  BY <1>1, CarriesIs
<1>. QED
  BY <1>2 DEF Carried

\* The same after a step.
LEMMA CarriedThen ==
    /\ Carried' \in {"nothing", "model", "system"}
    /\ Carried' = "system" <=> RootCarries(RequiredArtifacts)'
    /\ Carried' # "nothing" <=> RootCarries({"system-model"})'
<1>1. {"system-model"} \subseteq RequiredArtifacts'
  BY DEF RequiredArtifacts
<1>2. RootCarries(RequiredArtifacts)' => RootCarries({"system-model"})'
  <2>1. RootCarries(RequiredArtifacts)'
           <=> \E d \in RequestRoots' : RequiredArtifacts' \subseteq disk'[d].files[RootVolume(d)']
    BY DEF RootCarries, RequestRoots, RootVolume
  <2>. QED
    BY <1>1, <2>1, CarriesThen
<1>. QED
  BY <1>2 DEF Carried

\* A step that writes nothing keeps what is carried.
LEMMA CarriedStays ==
    ASSUME TypeOK, UNCHANGED request,
           \A d \in Device : disk'[d].fstype = disk[d].fstype /\ disk'[d].files = disk[d].files
    PROVE  Carried' = Carried
<1>1. /\ RequestRoots' = RequestRoots /\ RequestRoots \subseteq Device
      /\ \A d \in Device : RootVolume(d)' = RootVolume(d)
  BY SamePlans, RequestType
<1>2. RequiredArtifacts' = RequiredArtifacts
  BY DEF RequiredArtifacts, Requested
<1>3. RootCarries(RequiredArtifacts)' <=> RootCarries(RequiredArtifacts)
  BY <1>1, <1>2, SMTT(30) DEF RootCarries, RootVolume, RequestRoots
<1>4. RootCarries({"system-model"})' <=> RootCarries({"system-model"})
  BY <1>1, CarriesIs, CarriesThen
<1>. QED
  BY <1>3, <1>4 DEF Carried

\* The commands of a call that writes nothing are no business of the client's.
LEMMA QuietPromise ==
    ASSUME pc # "idle", pc' # "idle", UNCHANGED <<stage, op>>, Carried' = Carried
    PROVE  UNCHANGED P!promised
  BY DEF P!promised, Told

\* An error, of a call or in the place of one, is a failure of Promise.
LEMMA FailPromise ==
    ASSUME TypeOK, pc # "idle" \/ stage \in {"formatted", "written"},
           pc' = "idle", stage' = "idle", Carried' = Carried
    PROVE  P!Next
<1>1. Told' = "nothing" /\ (stage \in {"formatted", "written"} => Told \in {"prepared", "written"})
  BY DEF Told
<1>2. (IF pc = "idle" THEN "none" ELSE op)' = "none" /\ (pc # "idle" => op # "none")
  BY DEF TypeOK
<1>3. P!Fail
  BY <1>1, <1>2 DEF P!Fail
<1>. QED
  BY <1>3 DEF P!Next

\* A step that adds files to the root volume, the model of the system in a write
\* only and the rest of it in an installation only, advances or stutters.
LEMMA GrowPromise ==
    ASSUME TypeOK, pc # "idle", pc' # "idle", UNCHANGED <<request, stage, op>>,
           \A d \in Device : disk'[d].fstype = disk[d].fstype,
           \A d \in RequestRoots :
              disk[d].files[RootVolume(d)] \ {"live-id"} \subseteq disk'[d].files[RootVolume(d)],
           op = "write" => \A d \in RequestRoots :
              disk'[d].files[RootVolume(d)] \subseteq {"system-model", "install-model"},
           op = "install" => \A d \in RequestRoots :
              "system-model" \in disk'[d].files[RootVolume(d)]
                 => "system-model" \in disk[d].files[RootVolume(d)]
    PROVE  [P!Next]_(P!promised)
<1>1. /\ RequestRoots' = RequestRoots /\ RequestRoots \subseteq Device
      /\ \A d \in Device : RootVolume(d)' = RootVolume(d)
  BY SamePlans, RequestType
<1>2. RequiredArtifacts' = RequiredArtifacts
  BY DEF RequiredArtifacts, Requested
<1>3. "live-id" \notin RequiredArtifacts /\ {"system-model", "repos"} \subseteq RequiredArtifacts
  BY DEF RequiredArtifacts, ConfigSteps, Settings
<1>4. /\ RootCarries(RequiredArtifacts)'
            <=> \E d \in RequestRoots : RequiredArtifacts \subseteq disk'[d].files[RootVolume(d)]
      /\ RootCarries({"system-model"})'
            <=> \E d \in RequestRoots : "system-model" \in disk'[d].files[RootVolume(d)]
  <2>1. RootCarries(RequiredArtifacts)'
           <=> \E d \in RequestRoots' : RequiredArtifacts' \subseteq disk'[d].files[RootVolume(d)']
    BY DEF RootCarries, RequestRoots, RootVolume
  <2>2. RootCarries({"system-model"})'
           <=> \E d \in RequestRoots' : {"system-model"} \subseteq disk'[d].files[RootVolume(d)']
    BY CarriesThen
  <2>. QED
    BY <1>1, <1>2, <2>1, <2>2
<1>5. Carried = "system" => Carried' = "system"
  BY <1>3, <1>4, CarriedIs, CarriedThen, CarriesIs
<1>6. Carried # "nothing" => Carried' # "nothing"
  <2>1. Carried # "nothing" => \E d \in RequestRoots : {"system-model"} \subseteq disk[d].files[RootVolume(d)]
    BY CarriedIs, CarriesIs
  <2>2. Carried # "nothing" => \E d \in RequestRoots : "system-model" \in disk'[d].files[RootVolume(d)]
    BY <2>1
  <2>. QED
    BY <1>4, <2>2, CarriedThen
<1>7. op = "write" => Carried' # "system"
  BY <1>3, <1>4, CarriedThen
<1>8. op = "install" /\ Carried' # "nothing" => Carried # "nothing"
  <2>1. op = "install" /\ Carried' # "nothing"
           => \E d \in RequestRoots : {"system-model"} \subseteq disk[d].files[RootVolume(d)]
    BY <1>4, CarriedThen
  <2>. QED
    BY <2>1, CarriedIs, CarriesIs
<1>9. CASE Carried' = Carried
  BY <1>9, QuietPromise
<1>10. CASE Carried' # Carried
  <2>1. /\ Told' = Told
        /\ (IF pc = "idle" THEN "none" ELSE op)' = IF pc = "idle" THEN "none" ELSE op
        /\ (IF pc = "idle" THEN "none" ELSE op) = op
    BY DEF Told
  <2>2. \/ op = "write" /\ Carried = "nothing" /\ Carried' = "model"
        \/ op = "install" /\ Carried = "model" /\ Carried' = "system"
    BY <1>5, <1>6, <1>7, <1>8, <1>10, CarriedIs, CarriedThen DEF TypeOK
  <2>3. P!Advance
    BY <2>1, <2>2 DEF P!Advance
  <2>. QED
    BY <2>3 DEF P!Next
<1>. QED
  BY <1>9, <1>10

\* The commands of an installation write anything but the model itself.
LEMMA StorePromise ==
    ASSUME TypeOK, CallInv, pc \in ChrootSteps, pc' # "idle", UNCHANGED <<request, stage, op>>,
           NEW added, NEW removed, Store(added, removed), removed \subseteq {"live-id"},
           \A x \in added : x[2] # "system-model"
    PROVE  [P!Next]_(P!promised)
<1>1. pc # "idle" /\ op = "install"
  BY DEF CallInv, ChrootSteps, ConfigSteps, Settings
<1>2. \A d \in Device : RootVolume(d) \in Volume
  BY DEF RootVolume, Volume, RootSubvol
<1>3. \A d \in Device :
         /\ disk'[d].fstype = disk[d].fstype
         /\ disk[d].files[RootVolume(d)] \ {"live-id"} \subseteq disk'[d].files[RootVolume(d)]
         /\ "system-model" \in disk'[d].files[RootVolume(d)]
               => "system-model" \in disk[d].files[RootVolume(d)]
  <2> SUFFICES ASSUME NEW d \in Device
               PROVE  /\ disk'[d].fstype = disk[d].fstype
                      /\ disk[d].files[RootVolume(d)] \ {"live-id"} \subseteq disk'[d].files[RootVolume(d)]
                      /\ "system-model" \in disk'[d].files[RootVolume(d)]
                            => "system-model" \in disk[d].files[RootVolume(d)]
    OBVIOUS
  <2> DEFINE v == RootVolume(d)
  <2>1. /\ disk'[d].fstype = disk[d].fstype
        /\ disk'[d].files[v] = (disk[d].files[v] \ {a \in removed : Shows(Root, d, v)})
                                  \cup {x[2] : x \in {y \in added : Shows(y[1], d, v)}}
    BY <1>2, StoreEffect
  <2>2. "system-model" \notin {x[2] : x \in {y \in added : Shows(y[1], d, v)}}
    OBVIOUS
  <2>3. {a \in removed : Shows(Root, d, v)} \subseteq {"live-id"}
    OBVIOUS
  <2>. HIDE DEF v
  <2>4. /\ disk[d].files[v] \ {"live-id"} \subseteq disk'[d].files[v]
        /\ "system-model" \in disk'[d].files[v] => "system-model" \in disk[d].files[v]
    BY <2>1, <2>2, <2>3
  <2>. QED
    BY <2>1, <2>4 DEF v
<1>. QED
  BY <1>1, <1>3, GrowPromise, RequestType

\* A layout is prepared with empty partitions, and a call begins on it.
LEMMA BeginsPromise ==
    ASSUME TypeOK,
           \/ \E r \in Requests : Format(r)
           \/ WriteSystemModel \/ WriteSystemModelFails \/ InstallSystem \/ InstallSystemFails
    PROVE  P!Next
<1>1. ASSUME NEW r \in Requests, Format(r)
      PROVE  P!Next
  <2>1. pc = "idle" /\ pc' = "idle" /\ stage' = "formatted" /\ request' = r
    BY <1>1 DEF Format
  <2>2. ASSUME NEW d \in RequestRoots'
        PROVE  disk'[d].files[RootVolume(d)'] = {}
    <3>1. d \in Device /\ \E i \in DOMAIN r.mounts : r.mounts[i].device = d
      BY <2>1, <2>2, LayoutDevices DEF RequestRoots
    <3>2. disk'[d] = Formatted(r.fstype[d])
      BY <1>1, <3>1 DEF Format
    <3>3. RootVolume(d)' \in Volume
      BY DEF RootVolume, Volume, RootSubvol
    <3>. QED
      BY <3>2, <3>3 DEF Formatted
  <2>3. Carried' = "nothing"
    BY <2>2, CarriesThen, CarriedThen
  <2>4. P!Prepare
    BY <2>1, <2>3 DEF P!Prepare, Told
  <2>. QED
    BY <2>4 DEF P!Next
<1>2. ASSUME NEW kind \in {"write", "install"}, NEW first, first # "idle", NEW mounts,
             Begin(kind, first, mounts), pc = "idle", stage \in {"formatted", "written"}
      PROVE  P!Next
  <2>1. pc' = first /\ op' = kind /\ UNCHANGED <<disk, request, stage>>
    BY <1>2 DEF Begin, machine, client
  <2>2. Carried' = Carried
    BY <2>1, CarriedStays
  <2>3. /\ Told \in {"prepared", "written"} /\ Told' = Told
        /\ (IF pc = "idle" THEN "none" ELSE op) = "none"
        /\ (IF pc = "idle" THEN "none" ELSE op)' \in {"write", "install"}
    BY <1>2, <2>1 DEF Told
  <2>4. P!Begin
    BY <2>2, <2>3 DEF P!Begin
  <2>. QED
    BY <2>4 DEF P!Next
<1>3. CASE WriteSystemModel
  <2>1. PICK i \in DOMAIN request.mounts : \E mounts :
           Begin("write", IF disk[request.mounts[i].device].fstype = "btrfs"
                          THEN "mount_top" ELSE "mount_model", mounts)
    BY <1>3, Zenon DEF WriteSystemModel
  <2> DEFINE first == IF disk[request.mounts[i].device].fstype = "btrfs"
                      THEN "mount_top" ELSE "mount_model"
  <2>2. first # "idle"
    OBVIOUS
  <2>3. pc = "idle" /\ stage \in {"formatted", "written"}
    BY <1>3 DEF WriteSystemModel
  <2>. HIDE DEF first
  <2>4. PICK mounts : Begin("write", first, mounts)
    BY <2>1 DEF first
  <2>. QED
    BY <1>2, <2>2, <2>3, <2>4
<1>4. CASE InstallSystem
  <2>1. PICK first, mounts : first \in {"mount_top", "mount"} /\ Begin("install", first, mounts)
    BY <1>4 DEF InstallSystem
  <2>. QED
    BY <1>2, <1>4, <2>1 DEF InstallSystem
<1>5. CASE WriteSystemModelFails \/ InstallSystemFails
  <2>1. /\ pc = "idle" /\ stage \in {"formatted", "written"}
        /\ pc' = "idle" /\ stage' = "idle" /\ UNCHANGED <<disk, request>>
    BY <1>5 DEF WriteSystemModelFails, InstallSystemFails, Refuse, machine
  <2>. QED
    BY <2>1, CarriedStays, FailPromise
<1>. QED
  BY <1>1, <1>3, <1>4, <1>5

\* The commands that come before and after the writing of files.
LEMMA CommandsPromise ==
    ASSUME TypeOK, CallInv,
           \/ MountTop \/ CreateSubvols \/ SetDefault \/ UnmountTop
           \/ MountModelRoot \/ MountNext \/ Unwind \/ BackendDies
    PROVE  [P!Next]_(P!promised)
<1>1. pc # "idle" /\ UNCHANGED request
  BY DEF MountTop, CreateSubvols, SetDefault, UnmountTop, MountModelRoot, MountNext, Unwind,
         BackendDies, Fails, CommandFails, Return, client
<1>2. \A d \in Device : disk'[d].fstype = disk[d].fstype /\ disk'[d].files = disk[d].files
  <2>1. \A d \in Device : disk[d] \in DiskType
    BY DEF TypeOK
  <2>2. CASE CreateSubvols \/ SetDefault
    BY <2>1, <2>2 DEF CreateSubvols, SetDefault, DiskType
  <2>3. CASE MountTop \/ UnmountTop \/ MountModelRoot \/ MountNext \/ Unwind \/ BackendDies
    BY <2>3 DEF MountTop, UnmountTop, MountModelRoot, MountNext, CommandFails, Unwind,
          BackendDies, machine
  <2>. QED
    BY <2>2, <2>3
<1>3. Carried' = Carried
  BY <1>1, <1>2, CarriedStays
<1>4. \/ pc' # "idle" /\ UNCHANGED <<stage, op>>
      \/ pc' = "idle" /\ stage' = "idle"
  BY DEF MountTop, CreateSubvols, SetDefault, UnmountTop, MountModelRoot, MountNext, Unwind,
         BackendDies, Fails, CommandFails, Return, client
<1>. QED
  BY <1>1, <1>3, <1>4, QuietPromise, FailPromise

\* A write is answered with what it has left on the root partition.
LEMMA WritePromise ==
    ASSUME IInv, WriteModel \/ UnmountModelRoot
    PROVE  [P!Next]_(P!promised)
<1>1. TableInv /\ DiskInv /\ TypeOK /\ op = "write" /\ pc # "idle"
  BY DEF IInv, TableInv, CallInv, WriteModel, UnmountModelRoot, ModelSteps
<1>2. CASE WriteModel
  <2>1. PICK files \in {{}, {"system-model"}, {"system-model", "install-model"}} :
           Store({<<Root, f>> : f \in files}, {})
    BY <1>2 DEF WriteModel
  <2>2. pc = "write_model" /\ pc' # "idle" /\ UNCHANGED <<request, stage, op>>
    BY <1>2 DEF WriteModel, Fails, client
  <2>3. \A d \in Device : disk'[d].fstype = disk[d].fstype
    BY <1>1, <2>1, StoreEffect
  <2>4. ASSUME NEW d \in RequestRoots
        PROVE  disk'[d].files[RootVolume(d)] = disk[d].files[RootVolume(d)] \cup files
    <3>1. BelowRoot({<<Root, f>> : f \in files}, files)
      BY DEF BelowRoot
    <3>2. RootVolume(d) \in Volume
      BY DEF RootVolume, Volume, RootSubvol
    <3>3. \A e \in RequestRoots, v \in Volume :
             disk'[e].files[v] = IF v = RootVolume(e) THEN (disk[e].files[v] \ {}) \cup files
                                 ELSE disk[e].files[v]
      BY <1>1, <2>1, <2>2, <3>1, RootStore
    <3>. QED
      BY <2>4, <3>2, <3>3
  <2>5. \A d \in RequestRoots : disk[d].files[RootVolume(d)] \subseteq {"system-model", "install-model"}
    BY <1>1 DEF DiskInv, RunInv, RootInv
  <2>. QED
    BY <1>1, <2>2, <2>3, <2>4, <2>5, GrowPromise
<1>3. CASE UnmountModelRoot
  <2>1. /\ pc = "unmount_model" /\ pc' = "idle" /\ UNCHANGED <<disk, request, op>>
        /\ stage' = IF ok' THEN "written" ELSE "idle"
        /\ ok' => ok
    BY <1>1, <1>3 DEF UnmountModelRoot, Return
  <2>2. Carried' = Carried
    BY <1>1, <2>1, CarriedStays
  <2>3. CASE ~ok'
    BY <1>1, <2>1, <2>2, <2>3, FailPromise
  <2>4. CASE ok'
    <3>1. \A d \in RequestRoots : "system-model" \in disk[d].files[RootVolume(d)]
      BY <1>1, <2>1, <2>4 DEF DiskInv, RootInv
    <3>2. RequestRoots # {}
      BY <1>1, RootsAgree DEF TableInv, DiskInv
    <3>3. Carried # "nothing"
      BY <3>1, <3>2, CarriesIs, CarriedIs
    <3>4. P!Succeed
      BY <1>1, <2>1, <2>2, <2>4, <3>3 DEF P!Succeed, Told
    <3>. QED
      BY <3>4 DEF P!Next
  <2>. QED
    BY <2>3, <2>4
<1>. QED
  BY <1>2, <1>3

\* So is an installation.
LEMMA InstallPromise ==
    ASSUME IInv, SyncAndReturn
    PROVE  [P!Next]_(P!promised)
<1>1. /\ TableInv /\ DiskInv /\ TypeOK /\ op = "install" /\ pc = "unwind"
      /\ pc' = "idle" /\ UNCHANGED <<disk, request, op>>
      /\ stage' = IF ok THEN "installed" ELSE "idle"
  BY DEF IInv, TableInv, CallInv, SyncAndReturn, Return
<1>2. Carried' = Carried
  BY <1>1, CarriedStays
<1>3. CASE ~ok
  BY <1>1, <1>2, <1>3, FailPromise
<1>4. CASE ok
  <2>1. Due = RequiredArtifacts
    BY <1>1, <1>4 DEF Due, Finished
  <2>2. \A d \in RequestRoots : RequiredArtifacts \subseteq disk[d].files[RootVolume(d)]
    BY <1>1, <2>1 DEF DiskInv, RootInv
  <2>3. RequestRoots # {}
    BY <1>1, RootsAgree DEF TableInv, DiskInv
  <2>4. Carried = "system"
    BY <2>2, <2>3, CarriesIs, CarriedIs
  <2>5. P!Succeed
    BY <1>1, <1>2, <1>4, <2>4 DEF P!Succeed, Told
  <2>. QED
    BY <2>5 DEF P!Next
<1>. QED
  BY <1>3, <1>4 DEF TypeOK

\* The commands of an installation that write files.
LEMMA ChrootPromise ==
    ASSUME TypeOK, CallInv,
           \/ ConfigureRepos \/ UpdateIndex \/ MossSync \/ WriteFstab
           \/ (\E step \in Settings : Configure(step)) \/ ForgetMachineId \/ SetupMachineId
    PROVE  [P!Next]_(P!promised)
<1>1. pc \in ChrootSteps /\ pc # "idle" /\ pc' # "idle" /\ UNCHANGED <<request, stage, op>>
  <2>1. CASE ConfigureRepos \/ UpdateIndex \/ MossSync \/ WriteFstab
    BY <2>1 DEF ConfigureRepos, UpdateIndex, MossSync, WriteFstab, Succeeds, CommandFails, Fails,
          client, ChrootSteps, ConfigSteps, Settings
  <2>2. ASSUME NEW step \in Settings, Configure(step)
        PROVE  pc \in ChrootSteps /\ pc # "idle" /\ pc' # "idle" /\ UNCHANGED <<request, stage, op>>
    BY <2>2, AfterPasses DEF Configure, Succeeds, CommandFails, Fails, client, ChrootSteps, ConfigSteps, Settings
  <2>3. CASE ForgetMachineId \/ SetupMachineId
    BY <2>3 DEF ForgetMachineId, SetupMachineId, Succeeds, CommandFails, Fails, client, ChrootSteps, ConfigSteps
  <2>. QED
    BY <2>1, <2>2, <2>3
<1>2. CASE UNCHANGED disk
  <2>1. Carried' = Carried
    BY <1>1, <1>2, CarriedStays
  <2>. QED
    BY <1>1, <2>1, QuietPromise
<1>3. ASSUME NEW a, a # "system-model", NEW removed, removed \subseteq {"live-id"},
             Store({<<Root, a>>}, removed)
      PROVE  [P!Next]_(P!promised)
  <2> DEFINE added == {<<Root, a>>}
  <2>1. Store(added, removed) /\ \A x \in added : x[2] # "system-model"
    BY <1>3
  <2>. HIDE DEF added
  <2>. QED
    BY <1>1, <1>3, <2>1, StorePromise
<1>4. CASE ConfigureRepos \/ UpdateIndex \/ WriteFstab
  <2>1. \/ UNCHANGED disk
        \/ \E a \in {"repos", "index", "fstab"} : Store({<<Root, a>>}, {})
    BY <1>4 DEF ConfigureRepos, UpdateIndex, WriteFstab, Succeeds, CommandFails
  <2>2. ASSUME NEW a \in {"repos", "index", "fstab"}, Store({<<Root, a>>}, {})
        PROVE  [P!Next]_(P!promised)
    <3> DEFINE nothing == {}
    <3>1. a # "system-model" /\ nothing \subseteq {"live-id"} /\ Store({<<Root, a>>}, nothing)
      BY <2>2
    <3>. HIDE DEF nothing
    <3>. QED
      BY <1>3, <3>1
  <2>. QED
    BY <1>2, <2>1, <2>2
<1>5. ASSUME NEW step \in Settings, Configure(step)
      PROVE  [P!Next]_(P!promised)
  <2>1. UNCHANGED disk \/ Store({<<Root, step>>}, {})
    BY <1>5 DEF Configure, Succeeds, CommandFails, machine
  <2>2. CASE Store({<<Root, step>>}, {})
    <3> DEFINE nothing == {}
    <3>1. step # "system-model" /\ nothing \subseteq {"live-id"} /\ Store({<<Root, step>>}, nothing)
      BY <2>2 DEF Settings
    <3>. HIDE DEF nothing
    <3>. QED
      BY <1>3, <3>1
  <2>. QED
    BY <1>2, <2>1, <2>2
<1>6. CASE MossSync
  <2>1. ASSUME NEW added, Store(added, {}), \A x \in added : x[2] # "system-model"
        PROVE  [P!Next]_(P!promised)
    BY <1>1, <2>1, StorePromise
  <2>2. CASE Store({<<Root, "os">>, <<Root, "live-id">>} \cup {<<p, "boot">> : p \in BootPoints}, {})
    <3> DEFINE added == {<<Root, "os">>, <<Root, "live-id">>} \cup {<<p, "boot">> : p \in BootPoints}
    <3>1. Store(added, {}) /\ \A x \in added : x[2] # "system-model"
      BY <2>2
    <3>. HIDE DEF added
    <3>. QED
      BY <2>1, <3>1
  <2>3. ASSUME NEW part \in SUBSET {"os", "live-id"}, Store({<<Root, a>> : a \in part}, {})
        PROVE  [P!Next]_(P!promised)
    BY <2>1, <2>3
  <2>. QED
    BY <1>6, <2>2, <2>3 DEF MossSync, Succeeds
<1>7. CASE ForgetMachineId \/ SetupMachineId
  <2>1. \/ UNCHANGED disk
        \/ \E added \in {{}, {<<Root, "machineid">>}}, removed \in {{}, {"live-id"}} : Store(added, removed)
    BY <1>7 DEF ForgetMachineId, SetupMachineId, Succeeds, CommandFails
  <2>2. ASSUME NEW added \in {{}, {<<Root, "machineid">>}}, NEW removed \in {{}, {"live-id"}},
               Store(added, removed)
        PROVE  [P!Next]_(P!promised)
    <3>1. removed \subseteq {"live-id"} /\ \A x \in added : x[2] # "system-model"
      OBVIOUS
    <3>. QED
      BY <1>1, <2>2, <3>1, StorePromise
  <2>. QED
    BY <1>2, <2>1, <2>2
<1>. QED
  BY <1>4, <1>5, <1>6, <1>7

\* Whatever fails, leaks or dies, the backend does what Promise says: it tells of
\* a system only when all of it is on the root partition, and takes nothing away
\* of what it has told of.
THEOREM KeepsPromiseAlways == Spec => KeepsPromise
<1>1. Init => P!Init
  <2> SUFFICES ASSUME Init
               PROVE  P!Init
    OBVIOUS
  <2>1. TypeOK
    BY InitType
  <2>2. \A d \in RequestRoots : disk[d].files[RootVolume(d)] = {}
    <3>1. \A d : RootVolume(d) \in Volume
      BY DEF RootVolume, Volume, RootSubvol
    <3>. QED
      BY <2>1, <3>1, RequestType DEF Init, Formatted
  <2>3. Carried = "nothing"
    BY <2>2, CarriesIs, CarriedIs
  <2>. QED
    BY <2>3 DEF P!Init, Init, Told
<1>2. IInv /\ [Next]_vars => [P!Next]_(P!promised)
  <2> SUFFICES ASSUME IInv, [Next]_vars
               PROVE  [P!Next]_(P!promised)
    OBVIOUS
  <2>1. TypeOK /\ CallInv
    BY DEF IInv, TableInv
  <2>2. CASE (\E r \in Requests : Format(r)) \/ WriteSystemModel \/ WriteSystemModelFails
             \/ InstallSystem \/ InstallSystemFails
    BY <2>1, <2>2, BeginsPromise
  <2>3. CASE MountTop \/ CreateSubvols \/ SetDefault \/ UnmountTop \/ MountModelRoot \/ MountNext
             \/ Unwind \/ BackendDies
    BY <2>1, <2>3, CommandsPromise
  <2>4. CASE WriteModel \/ UnmountModelRoot \/ SyncAndReturn
    BY <2>4, WritePromise, InstallPromise
  <2>5. CASE ConfigureRepos \/ UpdateIndex \/ MossSync \/ WriteFstab
             \/ (\E step \in Settings : Configure(step)) \/ ForgetMachineId \/ SetupMachineId
    BY <2>1, <2>5, ChrootPromise
  <2>6. CASE UNCHANGED vars
    <3>1. UNCHANGED <<disk, request, pc, op, stage>>
      BY <2>6 DEF vars, machine, client
    <3>2. Carried' = Carried
      BY <2>1, <3>1, CarriedStays
    <3>. QED
      BY <3>1, <3>2 DEF P!promised, Told
  <2>. QED
    BY <2>2, <2>3, <2>4, <2>5, <2>6 DEF Next, Call
<1>. QED
  BY <1>1, <1>2, Invariant, PTL DEF Spec, KeepsPromise, P!Spec

=============================================================================
