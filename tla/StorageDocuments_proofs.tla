---------------------- MODULE StorageDocuments_proofs ----------------------
(***************************************************************************)
(* Two parts of the CLI that work on lists: the storage step, which folds  *)
(* the strategies of a disk into a choice and a plan, and the documents,   *)
(* which are sequences of nodes.  Their proofs share what is known about   *)
(* positions in a sequence and about recursion over one.                   *)
(***************************************************************************)
EXTENDS StorageStep, Documents, FiniteSetTheorems, SequenceTheorems, WellFoundedInduction, TLAPS

(***************************************************************************)
(* Positions.                                                              *)
(***************************************************************************)

\* What holds at 0 and is handed on holds up to n.
LEMMA Upwards ==
    ASSUME NEW n \in Nat, NEW P, 0 \in P, \A k \in 1..n : k - 1 \in P => k \in P
    PROVE  0..n \subseteq P
<1> DEFINE S == (0..n) \ P
<1> SUFFICES ASSUME S # {} PROVE FALSE
  OBVIOUS
<1>1. PICK x \in S : \A y \in S : ~(<<y, x>> \in OpToRel(<, Nat))
  <2>1. S \subseteq Nat
    OBVIOUS
  <2> QED BY <2>1, NatLessThanWellFounded, WFMin
<1>2. x \in 1..n
  OBVIOUS
<1>3. x - 1 \in P
  <2>1. x - 1 \in 0..n /\ x - 1 < x
    BY <1>2
  <2>2. x - 1 \notin S
    <3> SUFFICES ASSUME x - 1 \in S PROVE FALSE
      OBVIOUS
    <3>1. ~(<<x - 1, x>> \in OpToRel(<, Nat))
      BY <1>1
    <3>2. x - 1 \in Nat /\ x \in Nat
      BY <1>2
    <3> QED BY <2>1, <3>1, <3>2 DEF OpToRel
  <2> QED BY <2>1, <2>2
<1> QED BY <1>2, <1>3

\* The first of some positions is one of them, and none comes before it.
LEMMA FirstIs ==
    ASSUME NEW S, S \subseteq Nat, S # {}
    PROVE  First(S) \in S /\ \A j \in S : First(S) <= j
<1>1. PICK x \in S : \A y \in S : ~(<<y, x>> \in OpToRel(<, Nat))
  BY NatLessThanWellFounded, WFMin
<1>2. ASSUME NEW y \in S PROVE x <= y
  <2>1. ~(y < x)
    BY <1>1 DEF OpToRel
  <2> QED BY <2>1
<1> QED BY <1>2 DEF First

\* A list of all elements of a finite set, each of them once.
Lists(p, S) ==
    /\ p \in [1..Cardinality(S) -> S]
    /\ \A a \in S : \E k \in 1..Cardinality(S) : p[k] = a
    /\ \A j, k \in 1..Cardinality(S) : p[j] = p[k] => j = k

\* In a finite set with a strict total order, as many elements come before the k-th
\* one as numbers before k, and of only one element.
LEMMA Ranked ==
    ASSUME NEW S, IsFiniteSet(S), NEW R,
           \A a \in S : <<a, a>> \notin R,
           \A a, b \in S : a = b \/ <<a, b>> \in R \/ <<b, a>> \in R,
           \A a, b, c \in S : <<a, b>> \in R /\ <<b, c>> \in R => <<a, c>> \in R
    PROVE  LET before(a) == Cardinality({b \in S : <<b, a>> \in R})
           IN  /\ \A a \in S : before(a) \in 0..(Cardinality(S) - 1)
               /\ \A a, b \in S : <<a, b>> \in R => before(a) < before(b)
               /\ \A k \in 1..Cardinality(S) : \E a \in S : before(a) = k - 1
<1> DEFINE Below(a) == {b \in S : <<b, a>> \in R}
           n == Cardinality(S)
           f == [a \in S |-> Cardinality(Below(a)) + 1]
<1>1. n \in Nat
  BY FS_CardinalityType
<1>2. \A a \in S : IsFiniteSet(Below(a)) /\ Cardinality(Below(a)) \in Nat
  <2> SUFFICES ASSUME NEW a \in S PROVE IsFiniteSet(Below(a)) /\ Cardinality(Below(a)) \in Nat
    OBVIOUS
  <2>1. Below(a) \in SUBSET S
    OBVIOUS
  <2> HIDE DEF Below
  <2> QED BY <2>1, FS_Subset, FS_CardinalityType
<1>3. \A a \in S : Cardinality(Below(a)) \in 0..(n - 1)
  <2> SUFFICES ASSUME NEW a \in S PROVE Cardinality(Below(a)) \in 0..(n - 1)
    OBVIOUS
  <2>1. IsFiniteSet(S \ {a}) /\ Cardinality(S \ {a}) = n - 1
    BY FS_RemoveElement
  <2>2. Below(a) \in SUBSET (S \ {a})
    OBVIOUS
  <2> HIDE DEF Below
  <2>3. Cardinality(Below(a)) <= n - 1
    BY <2>1, <2>2, FS_Subset
  <2> QED BY <1>1, <1>2, <2>3
<1>4. \A a, b \in S : <<a, b>> \in R => Cardinality(Below(a)) < Cardinality(Below(b))
  <2> SUFFICES ASSUME NEW a \in S, NEW b \in S, <<a, b>> \in R
               PROVE  Cardinality(Below(a)) < Cardinality(Below(b))
    OBVIOUS
  <2>1. Below(a) \in SUBSET (Below(b) \ {a})
    OBVIOUS
  <2>2. a \in Below(b)
    OBVIOUS
  <2> HIDE DEF Below
  <2>3. IsFiniteSet(Below(b) \ {a}) /\ Cardinality(Below(b) \ {a}) = Cardinality(Below(b)) - 1
    BY <1>2, <2>2, FS_RemoveElement
  <2>4. Cardinality(Below(a)) <= Cardinality(Below(b)) - 1
    BY <2>1, <2>3, FS_Subset
  <2> QED BY <1>2, <2>4
<1>5. f \in Injection(S, 1..n)
  <2>1. f \in [S -> 1..n]
    <3> HIDE DEF Below, n
    <3> QED BY <1>1, <1>3
  <2>2. \A a, b \in S : a # b => f[a] # f[b]
    <3> SUFFICES ASSUME NEW a \in S, NEW b \in S, a # b PROVE f[a] # f[b]
      OBVIOUS
    <3>1. Cardinality(Below(a)) < Cardinality(Below(b)) \/ Cardinality(Below(b)) < Cardinality(Below(a))
      BY <1>4, ZenonT(60)
    <3> HIDE DEF Below
    <3> QED BY <1>2, <3>1
  <2> HIDE DEF f
  <2> QED BY <2>1, <2>2 DEF Injection, IsInjective
<1>6. f \in Surjection(S, 1..n)
  <2>1. IsFiniteSet(1..n) /\ Cardinality(1..n) = n
    BY <1>1, FS_Interval
  <2> HIDE DEF f
  <2> QED BY <1>5, <2>1, FS_Injection
<1>7. \A k \in 1..n : \E a \in S : Cardinality(Below(a)) = k - 1
  <2> SUFFICES ASSUME NEW k \in 1..n PROVE \E a \in S : Cardinality(Below(a)) = k - 1
    OBVIOUS
  <2>1. PICK a \in S : f[a] = k
    BY <1>6 DEF Surjection
  <2> HIDE DEF Below
  <2> QED BY <1>1, <1>2, <2>1
<1> QED BY <1>3, <1>4, <1>7

\* The ascending sequence of a set of numbers lists it in their order.
LEMMA InOrderIs ==
    ASSUME NEW S, IsFiniteSet(S), S \subseteq Int
    PROVE  /\ Lists(InOrder(S), S)
           /\ \A j, k \in 1..Cardinality(S) : j < k => InOrder(S)[j] < InOrder(S)[k]
<1> DEFINE n == Cardinality(S)
           before(a) == Cardinality({b \in S : b < a})
           p == InOrder(S)
           R == {pair \in S \X S : pair[1] < pair[2]}
<1>0. \A a \in S : a \in Int
  OBVIOUS
<1>1. n \in Nat
  BY FS_CardinalityType
<1>2. /\ \A a \in S : before(a) \in 0..(n - 1)
      /\ \A a, b \in S : a < b => before(a) < before(b)
      /\ \A k \in 1..n : \E a \in S : before(a) = k - 1
  <2>1. \A a, b \in S : <<a, b>> \in R <=> a < b
    OBVIOUS
  <2> DEFINE rank(a) == Cardinality({b \in S : <<b, a>> \in R})
  <2>2. /\ \A a \in S : rank(a) \in 0..(n - 1)
        /\ \A a, b \in S : <<a, b>> \in R => rank(a) < rank(b)
        /\ \A k \in 1..n : \E a \in S : rank(a) = k - 1
    <3>1. \A a \in S : <<a, a>> \notin R
      BY <2>1
    <3>2. \A a, b \in S : a = b \/ <<a, b>> \in R \/ <<b, a>> \in R
      <4> HIDE DEF R
      <4> SUFFICES ASSUME NEW a \in S, NEW b \in S PROVE a = b \/ a < b \/ b < a
        BY <2>1
      <4> QED BY <1>0
    <3>3. \A a, b, c \in S : <<a, b>> \in R /\ <<b, c>> \in R => <<a, c>> \in R
      <4> SUFFICES ASSUME NEW a \in S, NEW b \in S, NEW c \in S, a < b, b < c PROVE a < c
        <5> HIDE DEF R
        <5> QED BY <2>1
      <4> QED BY <1>0
    <3> HIDE DEF R
    <3> QED BY <3>1, <3>2, <3>3, Ranked
  <2>3. \A a \in S : rank(a) = before(a)
    <3> SUFFICES ASSUME NEW a \in S PROVE rank(a) = before(a)
      OBVIOUS
    <3>1. {b \in S : <<b, a>> \in R} = {b \in S : b < a}
      BY <2>1
    <3> QED BY <3>1
  <2> HIDE DEF rank, before, R, n
  <2> QED BY <2>1, <2>2, <2>3
<1>3. \A k \in 1..n : p[k] \in S /\ before(p[k]) = k - 1
  <2> SUFFICES ASSUME NEW k \in 1..n PROVE p[k] \in S /\ before(p[k]) = k - 1
    OBVIOUS
  <2>1. p[k] = CHOOSE i \in S : before(i) = k - 1
    BY DEF InOrder
  <2>2. \E i \in S : before(i) = k - 1
    BY <1>2
  <2> HIDE DEF p, before
  <2> QED BY <2>1, <2>2
<1>4. p = [k \in 1..n |-> p[k]]
  <2> DEFINE c(k) == CHOOSE i \in S : before(i) = k - 1
  <2>1. p = [k \in 1..n |-> c(k)]
    BY DEF InOrder
  <2> HIDE DEF p, c, n
  <2> QED BY <2>1
<1> HIDE DEF p, before, n, R
<1>5. \A a, b \in S : before(a) = before(b) => a = b
  <2> SUFFICES ASSUME NEW a \in S, NEW b \in S, before(a) = before(b), a # b PROVE FALSE
    OBVIOUS
  <2>1. a < b \/ b < a
    BY <1>0
  <2>2. before(a) < before(b) \/ before(b) < before(a)
    BY <1>2, <2>1
  <2>3. before(a) \in Int
    BY <1>1, <1>2
  <2> QED BY <2>2, <2>3
<1>6. \A a \in S : \E k \in 1..n : p[k] = a
  <2> SUFFICES ASSUME NEW a \in S PROVE \E k \in 1..n : p[k] = a
    OBVIOUS
  <2>1. PICK k \in 1..n : before(a) = k - 1
    <3>1. before(a) + 1 \in 1..n /\ before(a) = (before(a) + 1) - 1
      BY <1>1, <1>2
    <3> QED BY <3>1
  <2> QED BY <1>3, <1>5, <2>1
<1>7. \A j, k \in 1..n : p[j] = p[k] => j = k
  <2> SUFFICES ASSUME NEW j \in 1..n, NEW k \in 1..n, p[j] = p[k] PROVE j = k
    OBVIOUS
  <2>1. j - 1 = k - 1
    BY <1>3
  <2> QED BY <1>1, <2>1
<1>8. \A j, k \in 1..n : j < k => p[j] < p[k]
  <2>1. ASSUME NEW b \in S, NEW c \in S, before(b) < before(c) PROVE b < c
    <3>1. before(b) \in Int /\ before(c) \in Int
      BY <1>1, <1>2
    <3>2. ~(before(c) < before(b)) /\ before(b) # before(c)
      BY <2>1, <3>1
    <3> QED BY <1>0, <1>2, <3>2
  <2> SUFFICES ASSUME NEW j \in 1..n, NEW k \in 1..n, j < k PROVE p[j] < p[k]
    OBVIOUS
  <2>2. p[j] \in S /\ p[k] \in S /\ before(p[j]) = j - 1 /\ before(p[k]) = k - 1
    BY <1>3
  <2>3. before(p[j]) < before(p[k])
    BY <1>1, <2>2
  <2> QED BY <2>1, <2>2, <2>3
<1>9. p \in [1..n -> S]
  BY <1>3, <1>4
<1> QED BY <1>6, <1>7, <1>8, <1>9 DEF Lists, p, n

\* What is picked of a sequence is what it has at those positions, in their order.
LEMMA PickIs ==
    ASSUME NEW T, NEW s \in Seq(T), NEW S, S \subseteq DOMAIN s
    PROVE  /\ Lists(InOrder(S), S)
           /\ \A j, k \in 1..Cardinality(S) : j < k => InOrder(S)[j] < InOrder(S)[k]
           /\ Pick(s, S) \in Seq(T)
           /\ Len(Pick(s, S)) = Cardinality(S)
           /\ DOMAIN Pick(s, S) = 1..Cardinality(S)
           /\ \A k \in 1..Cardinality(S) : InOrder(S)[k] \in S /\ Pick(s, S)[k] = s[InOrder(S)[k]]
           /\ \A i \in S : \E k \in 1..Cardinality(S) : InOrder(S)[k] = i /\ Pick(s, S)[k] = s[i]
<1> DEFINE n == Cardinality(S)
           p == InOrder(S)
           q == Pick(s, S)
<1>1. S \subseteq 1..Len(s) /\ Len(s) \in Nat /\ \A i \in S : s[i] \in T
  OBVIOUS
<1>2. IsFiniteSet(S) /\ n \in Nat
  <2>1. IsFiniteSet(1..Len(s))
    BY <1>1, FS_Interval
  <2>2. IsFiniteSet(S)
    BY <1>1, <2>1, FS_Subset
  <2> QED BY <2>2, FS_CardinalityType
<1>3. Lists(p, S) /\ \A j, k \in 1..n : j < k => p[j] < p[k]
  BY <1>1, <1>2, InOrderIs
<1>4. p \in [1..n -> S]
  BY <1>3 DEF Lists
<1>5. q = [k \in 1..n |-> s[p[k]]]
  BY DEF Pick
<1> HIDE DEF p, q, n
<1>6. q \in [1..n -> T]
  BY <1>1, <1>4, <1>5
<1>7. q \in Seq(T) /\ Len(q) = n /\ DOMAIN q = 1..n
  BY <1>2, <1>6
<1>8. \A k \in 1..n : p[k] \in S /\ q[k] = s[p[k]]
  BY <1>4, <1>5
<1>9. \A i \in S : \E k \in 1..n : p[k] = i /\ q[k] = s[i]
  BY <1>3, <1>8 DEF Lists, n
<1> QED BY <1>3, <1>7, <1>8, <1>9 DEF p, q, n
(***************************************************************************)
(* Recursion.                                                              *)
(***************************************************************************)

\* A function that starts from m and takes step k to get to its k-th value.
Runs(g, m, step, n, M) ==
    /\ g \in [0..n -> M]
    /\ g[0] = m
    /\ \A k \in 1..n : g[k] = step[k][g[k - 1]]

\* There is such a function for every number of steps.
LEMMA Recursion ==
    ASSUME NEW n \in Nat, NEW M, NEW m \in M, NEW step \in [1..n -> [M -> M]]
    PROVE  \E g : Runs(g, m, step, n, M)
<1> DEFINE P == {k \in 0..n : \E g : Runs(g, m, step, k, M)}
<1>1. 0 \in P
  <2>1. Runs([i \in 0..0 |-> m], m, step, 0, M)
    BY DEF Runs
  <2> QED BY <2>1
<1>2. \A k \in 1..n : k - 1 \in P => k \in P
  <2> SUFFICES ASSUME NEW k \in 1..n, k - 1 \in P PROVE \E h : Runs(h, m, step, k, M)
    OBVIOUS
  <2>1. PICK g : Runs(g, m, step, k - 1, M)
    OBVIOUS
  <2>2. /\ g \in [0..(k - 1) -> M] /\ g[0] = m
        /\ \A i \in 1..(k - 1) : g[i] = step[i][g[i - 1]]
    BY <2>1 DEF Runs
  <2> DEFINE h == [i \in 0..k |-> IF i = k THEN step[k][g[k - 1]] ELSE g[i]]
  <2>3. k - 1 \in 0..(k - 1) /\ g[k - 1] \in M /\ step[k] \in [M -> M]
    BY <2>2
  <2>4. h \in [0..k -> M]
    <3>1. \A i \in 0..k : i = k \/ i \in 0..(k - 1)
      OBVIOUS
    <3> QED BY <2>2, <2>3, <3>1
  <2>5. h[0] = m
    BY <2>2
  <2>6. \A i \in 1..k : h[i] = step[i][h[i - 1]]
    <3> SUFFICES ASSUME NEW i \in 1..k PROVE h[i] = step[i][h[i - 1]]
      OBVIOUS
    <3>1. i - 1 \in 0..k /\ i - 1 # k /\ h[i - 1] = g[i - 1]
      OBVIOUS
    <3>2. CASE i = k
      BY <3>1, <3>2
    <3>3. CASE i # k
      <4>1. i \in 1..(k - 1)
        BY <3>3
      <4>2. h[i] = g[i]
        BY <3>3
      <4> QED BY <2>2, <3>1, <4>1, <4>2
    <3> QED BY <3>2, <3>3
  <2> HIDE DEF h
  <2>7. Runs(h, m, step, k, M)
    BY <2>4, <2>5, <2>6 DEF Runs
  <2> QED BY <2>7
<1>3. n \in P
  <2> HIDE DEF P
  <2>1. 0..n \subseteq P
    BY <1>1, <1>2, Upwards
  <2> QED BY <2>1
<1> QED BY <1>3

-----------------------------------------------------------------------------
(***************************************************************************)
(* The storage step.                                                       *)
(***************************************************************************)

\* The items fold the viable strategies: as many items as layouts at most, one for
\* every layout, and no layout with two of them.
Folded ==
    /\ Len(Display) \in 0..Len(viable)
    /\ \A item \in 0..(Len(Display) - 1) : Display[item + 1] \in DOMAIN viable
    /\ \A i, j \in 0..(Len(Display) - 1) : Layout(i) = Layout(j) => i = j
    /\ \A i \in DOMAIN viable : \E item \in 0..(Len(Display) - 1) : Layout(item) = BaseOf[viable[i]]

LEMMA DisplayFolds ==
    ASSUME viable \in Seq(Strategy)
    PROVE  Folded
<1> DEFINE D == {i \in DOMAIN viable : \A j \in 1..(i - 1) : BaseOf[viable[j]] # BaseOf[viable[i]]}
           c == Cardinality(D)
<1>1. DOMAIN viable = 1..Len(viable) /\ Len(viable) \in Nat
  OBVIOUS
<1>2. IsFiniteSet(D) /\ c \in 0..Len(viable)
  <2>1. IsFiniteSet(1..Len(viable)) /\ Cardinality(1..Len(viable)) = Len(viable)
    <3>1. 1 \in Int /\ Len(viable) \in Int /\ Len(viable) - 1 + 1 = Len(viable)
      BY <1>1
    <3>2. Cardinality(1..Len(viable)) = IF 1 > Len(viable) THEN 0 ELSE Len(viable) - 1 + 1
      BY <3>1, FS_Interval, Zenon
    <3>3. IsFiniteSet(1..Len(viable))
      BY <3>1, FS_Interval, Zenon
    <3> QED BY <1>1, <3>2, <3>3
  <2>2. D \in SUBSET (1..Len(viable))
    BY <1>1
  <2> HIDE DEF D
  <2>3. IsFiniteSet(D) /\ Cardinality(D) <= Len(viable)
    BY <2>1, <2>2, FS_Subset
  <2>4. Cardinality(D) \in Nat
    BY <2>3, FS_CardinalityType
  <2> QED BY <1>1, <2>3, <2>4
<1>3. Lists(Display, D)
  <2>1. D \subseteq Int
    BY <1>1
  <2> HIDE DEF D
  <2>2. Lists(InOrder(D), D)
    BY <1>2, <2>1, InOrderIs
  <2> QED BY <2>2 DEF Display, D
<1>4. /\ Display \in [1..c -> D]
      /\ \A a \in D : \E k \in 1..c : Display[k] = a
      /\ \A j, k \in 1..c : Display[j] = Display[k] => j = k
  <2> HIDE DEF D
  <2> QED BY <1>3 DEF Lists
<1>5. Len(Display) = c
  <2> HIDE DEF D, c
  <2> QED BY <1>2, <1>4
<1>6. \A i, j \in D : BaseOf[viable[i]] = BaseOf[viable[j]] => i = j
  <2> SUFFICES ASSUME NEW i \in D, NEW j \in D, i < j, BaseOf[viable[i]] = BaseOf[viable[j]] PROVE FALSE
    BY <1>1
  <2>1. i \in 1..(j - 1)
    BY <1>1
  <2> QED BY <2>1
<1>7. \A i \in DOMAIN viable : \E a \in D : BaseOf[viable[a]] = BaseOf[viable[i]]
  <2> SUFFICES ASSUME NEW i \in DOMAIN viable PROVE \E a \in D : BaseOf[viable[a]] = BaseOf[viable[i]]
    OBVIOUS
  <2> DEFINE S == {j \in DOMAIN viable : BaseOf[viable[j]] = BaseOf[viable[i]]}
  <2>1. S \subseteq Nat /\ S # {}
    BY <1>1
  <2>2. First(S) \in S /\ \A j \in S : First(S) <= j
    BY <2>1, FirstIs
  <2> DEFINE a == First(S)
  <2>3. a \in DOMAIN viable /\ BaseOf[viable[a]] = BaseOf[viable[i]]
    BY <2>2
  <2>4. \A j \in 1..(a - 1) : BaseOf[viable[j]] # BaseOf[viable[a]]
    <3> SUFFICES ASSUME NEW j \in 1..(a - 1), BaseOf[viable[j]] = BaseOf[viable[a]] PROVE FALSE
      OBVIOUS
    <3> HIDE DEF a
    <3>1. j \in DOMAIN viable /\ j < a
      BY <1>1, <2>3
    <3>2. j \in S
      BY <2>3, <3>1
    <3>3. a <= j
      BY <2>2, <3>2 DEF a
    <3> QED BY <1>1, <2>3, <3>1, <3>3
  <2> HIDE DEF a, S
  <2> QED BY <2>3, <2>4
<1> HIDE DEF D, c
<1>8. D \subseteq DOMAIN viable
  BY DEF D
<1>9. \A item \in 0..(c - 1) : item + 1 \in 1..c /\ Display[item + 1] \in D
  BY <1>2, <1>4
<1>10. \A i, j \in 0..(c - 1) : Layout(i) = Layout(j) => i = j
  <2> SUFFICES ASSUME NEW i \in 0..(c - 1), NEW j \in 0..(c - 1), Layout(i) = Layout(j) PROVE i = j
    OBVIOUS
  <2>1. Display[i + 1] = Display[j + 1]
    BY <1>6, <1>9 DEF Layout
  <2>2. i + 1 = j + 1
    BY <1>4, <1>9, <2>1
  <2> QED BY <1>2, <2>2
<1>11. \A i \in DOMAIN viable : \E item \in 0..(c - 1) : Layout(item) = BaseOf[viable[i]]
  <2> SUFFICES ASSUME NEW i \in DOMAIN viable
               PROVE  \E item \in 0..(c - 1) : Layout(item) = BaseOf[viable[i]]
    OBVIOUS
  <2>1. PICK a \in D : BaseOf[viable[a]] = BaseOf[viable[i]]
    BY <1>7
  <2>2. PICK k \in 1..c : Display[k] = a
    BY <1>4
  <2>3. k - 1 \in 0..(c - 1) /\ (k - 1) + 1 = k
    BY <1>2
  <2> QED BY <2>1, <2>2, <2>3 DEF Layout
<1> QED BY <1>2, <1>5, <1>8, <1>9, <1>10, <1>11 DEF Folded

\* What is known between the prompts: an item that was chosen is one of those shown,
\* and it is the preselected one if the user has taken nothing else.
StepInv ==
    /\ TypeOK
    /\ viable \in Seq(Strategy)
    /\ mkfs \subseteq ToSet(FsOrder)
    /\ phase = "probing" => chosen = -1
    /\ phase \in {"listed", "filesystem", "planned"} => viable # <<>>
    /\ phase = "filesystem" => chosen \in 0..(Len(Display) - 1)
    /\ phase = "filesystem" /\ defaults => chosen = InitialItem
    /\ PlanIsViable
    /\ phase = "planned" /\ chosen # RefreshIndex => BaseOf[plan] = Layout(chosen)

LEMMA StepInit == Init => StepInv
<1> SUFFICES ASSUME Init PROVE StepInv
  OBVIOUS
<1>1. /\ viable = <<>> /\ phase = "probing" /\ chosen = -1 /\ viable \in Seq(Strategy)
      /\ mkfs \subseteq ToSet(FsOrder)
  BY DEF Init
<1>2. TypeOK
  BY <1>1 DEF Init, TypeOK, ToSet
<1> QED BY <1>1, <1>2 DEF StepInv, PlanIsViable

\* The filesystems that are offered for the chosen layout are filesystems of viable
\* strategies of that layout.  Those are had by their suffix.
LEMMA VariantsAre ==
    ASSUME StepInv, chosen \in 0..(Len(Display) - 1)
    PROVE  /\ Variants \in Seq(ToSet(FsOrder)) /\ Creatable \in Seq(ToSet(FsOrder))
           /\ \A k \in DOMAIN Variants :
                 \E i \in DOMAIN viable : BaseOf[viable[i]] = Layout(chosen) /\ FsOf[viable[i]] = Variants[k]
           /\ \A i \in DOMAIN viable :
                 BaseOf[viable[i]] = Layout(chosen) /\ FsOf[viable[i]] \in ToSet(FsOrder)
                    => \E k \in DOMAIN Variants : Variants[k] = FsOf[viable[i]]
           /\ \A k \in DOMAIN Creatable : \E j \in DOMAIN Variants : Creatable[k] = Variants[j]
           /\ \A j \in DOMAIN Variants :
                 Variants[j] \in mkfs => \E k \in DOMAIN Creatable : Creatable[k] = Variants[j]
<1> DEFINE S == {k \in DOMAIN FsOrder :
                   \E i \in DOMAIN viable : BaseOf[viable[i]] = Layout(chosen) /\ FsOf[viable[i]] = FsOrder[k]}
           C == {k \in DOMAIN Variants : Variants[k] \in mkfs}
<1>1. FsOrder \in Seq(ToSet(FsOrder))
  BY StorageAssumption DEF IsSequence
<1>2. /\ Variants \in Seq(ToSet(FsOrder))
      /\ DOMAIN Variants = 1..Cardinality(S)
      /\ \A k \in 1..Cardinality(S) : InOrder(S)[k] \in S /\ Variants[k] = FsOrder[InOrder(S)[k]]
      /\ \A i \in S : \E k \in 1..Cardinality(S) : Variants[k] = FsOrder[i]
  <2>1. S \subseteq DOMAIN FsOrder
    OBVIOUS
  <2>2. Variants = Pick(FsOrder, S)
    BY DEF Variants
  <2> HIDE DEF S
  <2> QED BY <1>1, <2>1, <2>2, PickIs
<1>3. \A k \in DOMAIN Variants :
         \E i \in DOMAIN viable : BaseOf[viable[i]] = Layout(chosen) /\ FsOf[viable[i]] = Variants[k]
  BY <1>2
<1>4. \A i \in DOMAIN viable :
         BaseOf[viable[i]] = Layout(chosen) /\ FsOf[viable[i]] \in ToSet(FsOrder)
            => \E k \in DOMAIN Variants : Variants[k] = FsOf[viable[i]]
  <2> SUFFICES ASSUME NEW i \in DOMAIN viable, BaseOf[viable[i]] = Layout(chosen),
                      FsOf[viable[i]] \in ToSet(FsOrder)
               PROVE  \E k \in DOMAIN Variants : Variants[k] = FsOf[viable[i]]
    OBVIOUS
  <2>1. PICK f \in DOMAIN FsOrder : FsOrder[f] = FsOf[viable[i]]
    BY DEF ToSet
  <2>2. f \in S
    BY <2>1
  <2> HIDE DEF S
  <2> QED BY <1>2, <2>1, <2>2
<1>5. /\ Creatable \in Seq(ToSet(FsOrder))
      /\ DOMAIN Creatable = 1..Cardinality(C)
      /\ \A k \in 1..Cardinality(C) : InOrder(C)[k] \in C /\ Creatable[k] = Variants[InOrder(C)[k]]
      /\ \A i \in C : \E k \in 1..Cardinality(C) : Creatable[k] = Variants[i]
  <2>1. C \subseteq DOMAIN Variants
    OBVIOUS
  <2>2. Creatable = Pick(Variants, C)
    BY DEF Creatable
  <2>3. Variants \in Seq(ToSet(FsOrder))
    BY <1>2
  <2> HIDE DEF C, S
  <2> QED BY <2>1, <2>2, <2>3, PickIs
<1>6. \A k \in DOMAIN Creatable : \E j \in DOMAIN Variants : Creatable[k] = Variants[j]
  BY <1>5
<1>7. \A j \in DOMAIN Variants : Variants[j] \in mkfs => \E k \in DOMAIN Creatable : Creatable[k] = Variants[j]
  BY <1>5
<1> QED BY <1>2, <1>3, <1>4, <1>5, <1>6, <1>7

\* A strategy of the chosen layout is the one its suffix stands for.
LEMMA SuffixIs ==
    ASSUME NEW id \in Strategy, BaseOf[id] = Layout(chosen)
    PROVE  WithSuffix(FsOf[id]) = id
<1> DEFINE w == WithSuffix(FsOf[id])
<1>1. w \in Strategy /\ BaseOf[w] = Layout(chosen) /\ FsOf[w] = FsOf[id]
  BY DEF WithSuffix
<1> HIDE DEF w
<1>2. w = id
  BY <1>1, StorageAssumption
<1> QED BY <1>2 DEF w

\* What is offered: a filesystem of a viable strategy of the layout.
LEMMA OfferIsViable ==
    ASSUME StepInv, chosen \in 0..(Len(Display) - 1), NEW k \in DOMAIN Available
    PROVE  \E i \in DOMAIN viable :
              /\ BaseOf[viable[i]] = Layout(chosen)
              /\ FsOf[viable[i]] = Available[k]
              /\ WithSuffix(Available[k]) = viable[i]
<1>1. \E j \in DOMAIN Variants : Available[k] = Variants[j]
  BY VariantsAre DEF Available
<1>2. PICK i \in DOMAIN viable : BaseOf[viable[i]] = Layout(chosen) /\ FsOf[viable[i]] = Available[k]
  BY <1>1, VariantsAre
<1>3. viable[i] \in Strategy
  BY DEF StepInv
<1> QED BY <1>2, <1>3, SuffixIs

\* The item that is preselected exists; of an imported model it is one of a layout.
LEMMA InitialItemIs ==
    ASSUME StepInv, viable # <<>>, imported
    PROVE  /\ InitialItem \in 0..(Len(Display) - 1)
           /\ strategy \in ToSet(viable) => Layout(InitialItem) = BaseOf[strategy]
<1>1. Folded /\ viable \in Seq(Strategy)
  BY DisplayFolds DEF StepInv
<1>2. Len(Display) \in Nat
  BY <1>1 DEF Folded
<1>3. 0 \in 0..(Len(Display) - 1)
  <2>1. 1 \in DOMAIN viable
    BY <1>1
  <2> QED BY <1>1, <1>2, <2>1 DEF Folded
<1>4. SameLayout # {} => First(SameLayout) \in SameLayout
  <2>1. SameLayout \subseteq Nat
    BY <1>2 DEF SameLayout
  <2> QED BY <2>1, FirstIs
<1>5. InitialItem \in 0..(Len(Display) - 1)
  BY <1>3, <1>4 DEF InitialItem, SameLayout
<1>6. ASSUME strategy \in ToSet(viable) PROVE Layout(InitialItem) = BaseOf[strategy]
  <2>1. PICK i \in DOMAIN viable : viable[i] = strategy
    BY <1>6 DEF ToSet
  <2>2. strategy \in Strategy
    BY <1>1, <2>1
  <2>3. SameLayout # {}
    BY <1>1, <2>1, <2>2 DEF Folded, SameLayout
  <2> QED BY <1>4, <2>3 DEF InitialItem, SameLayout
<1> QED BY <1>5, <1>6

\* Every step keeps the invariant.
LEMMA StepNext == StepInv /\ [Next]_vars => StepInv'
<1> SUFFICES ASSUME StepInv, [Next]_vars PROVE StepInv'
  OBVIOUS
<1>1. CASE ProbeStrategies
  <2>1. PICK S \in SUBSET Strategy : viable' \in SetToSeqs(S)
    BY <1>1 DEF ProbeStrategies
  <2>2. viable' \in Seq(Strategy)
    <3>1. IsFiniteSet(S)
      BY StorageAssumption, FS_Subset
    <3>2. Cardinality(S) \in Nat
      BY <3>1, FS_CardinalityType
    <3>3. viable' \in [1..Cardinality(S) -> S]
      BY <2>1 DEF SetToSeqs
    <3>4. viable' \in [1..Cardinality(S) -> Strategy]
      BY <3>3
    <3> HIDE DEF StepInv
    <3> QED BY <3>2, <3>4
  <2>3. /\ phase = "probing" /\ phase' = IF viable' = <<>> THEN "failed" ELSE "listed"
        /\ UNCHANGED <<mkfs, found, imported, strategy, chosen, plan, defaults>>
    BY <1>1 DEF ProbeStrategies
  <2>4. Len(viable') \in Nat /\ ToSet(viable') \subseteq Strategy
    BY <2>2 DEF ToSet
  <2> QED
    <3>1. TypeOK'
      <4>1. chosen = -1
        BY <2>3 DEF StepInv
      <4> QED BY <2>3, <2>4, <4>1 DEF StepInv, TypeOK
    <3> QED BY <2>2, <2>3, <3>1 DEF StepInv, PlanIsViable
<1>2. CASE Refresh
  <2>1. /\ phase = "listed" /\ phase' = "planned" /\ imported' = TRUE /\ found # None
        /\ plan' = (IF found \in ToSet(viable) THEN found ELSE viable[1]) /\ strategy' = plan'
        /\ chosen' = RefreshIndex /\ defaults' = (defaults /\ InitialItem = RefreshIndex)
        /\ UNCHANGED <<viable, mkfs, found>>
    BY <1>2 DEF Refresh, Shows
  <2>2. viable \in Seq(Strategy) /\ viable # <<>>
    BY <2>1 DEF StepInv
  <2>3. plan' \in ToSet(viable) /\ ToSet(viable) \subseteq Strategy
    BY <2>1, <2>2 DEF ToSet
  <2>4. chosen' = Len(viable) /\ Len(viable) \in Nat
    BY <2>1, <2>2 DEF RefreshIndex
  <2>5. TypeOK'
    BY <2>1, <2>3, <2>4 DEF StepInv, TypeOK
  <2>6. RefreshIndex' = RefreshIndex
    BY <2>1 DEF RefreshIndex
  <2> QED BY <2>1, <2>2, <2>3, <2>5, <2>6 DEF StepInv, PlanIsViable
<1>3. CASE ChooseLayout
  <2>1. PICK item \in Items :
           /\ found = None \/ item # RefreshIndex
           /\ chosen' = item
           /\ defaults' = (defaults /\ InitialItem = item)
    BY <1>3 DEF ChooseLayout
  <2>2. /\ phase = "listed" /\ phase' = "filesystem"
        /\ UNCHANGED <<viable, mkfs, found, imported, strategy, plan>>
    BY <1>3 DEF ChooseLayout
  <2>3. chosen' \in 0..(Len(Display) - 1)
    BY <2>1 DEF Items
  <2>4. Display' = Display /\ InitialItem' = InitialItem
    <3>1. Display' = Display
      BY <2>2 DEF Display
    <3>2. SameLayout' = SameLayout /\ RefreshIndex' = RefreshIndex
      BY <2>2, <3>1 DEF SameLayout, Layout, RefreshIndex
    <3> QED BY <2>2, <3>1, <3>2 DEF InitialItem
  <2>5. viable \in Seq(Strategy) /\ Len(Display) \in 0..Len(viable) /\ Len(viable) \in Nat
    BY DisplayFolds DEF StepInv, Folded
  <2>6. TypeOK'
    <3>1. chosen' \in -1..Len(viable)
      BY <2>3, <2>5
    <3>2. defaults' \in BOOLEAN
      BY <2>1 DEF StepInv, TypeOK
    <3> QED BY <2>2, <3>1, <3>2 DEF StepInv, TypeOK
  <2>7. defaults' => chosen' = InitialItem
    BY <2>1
  <2> QED BY <2>2, <2>3, <2>4, <2>6, <2>7 DEF StepInv, PlanIsViable
<1>4. CASE SelectFilesystem
  <2>1. phase = "filesystem" /\ phase' = "planned" /\ UNCHANGED <<viable, mkfs, found, imported, chosen>>
    BY <1>4 DEF SelectFilesystem, Shows
  <2>2. chosen \in 0..(Len(Display) - 1) /\ viable \in Seq(Strategy) /\ viable # <<>>
    BY <2>1 DEF StepInv
  <2>3. PICK i \in DOMAIN viable : plan' = viable[i] /\ BaseOf[viable[i]] = Layout(chosen)
    <3>1. CASE Available = <<>>
      <4>1. plan' = viable[Display[chosen + 1]]
        BY <1>4, <3>1 DEF SelectFilesystem, Shows
      <4>2. Display[chosen + 1] \in DOMAIN viable
        BY <2>2, DisplayFolds DEF Folded
      <4> QED BY <4>1, <4>2 DEF Layout
    <3>2. CASE Available # <<>>
      <4>1. PICK k \in DOMAIN Available : plan' = WithSuffix(Available[k])
        BY <1>4, <3>2 DEF SelectFilesystem, Shows
      <4> QED BY <2>2, <4>1, OfferIsViable
    <3> QED BY <3>1, <3>2
  <2>4. strategy' = plan' /\ plan' \in ToSet(viable) /\ ToSet(viable) \subseteq Strategy
    BY <1>4, <2>2, <2>3 DEF ToSet, SelectFilesystem, Shows
  <2>5. defaults' \in BOOLEAN
    BY <1>4 DEF SelectFilesystem, StepInv, TypeOK
  <2>6. TypeOK'
    BY <2>1, <2>4, <2>5 DEF StepInv, TypeOK
  <2>7. Layout(chosen)' = Layout(chosen)
    BY <2>1 DEF Layout, Display
  <2> QED BY <2>1, <2>2, <2>3, <2>4, <2>6, <2>7 DEF StepInv, PlanIsViable
<1>5. CASE Abort
  BY <1>5 DEF Abort, StepInv, TypeOK, PlanIsViable
<1>6. CASE UNCHANGED vars
  <2>1. Display' = Display
    BY <1>6 DEF vars, Display
  <2>2. SameLayout' = SameLayout /\ RefreshIndex' = RefreshIndex /\ Layout(chosen)' = Layout(chosen)
    BY <1>6, <2>1 DEF vars, SameLayout, Layout, RefreshIndex
  <2>3. InitialItem' = InitialItem
    BY <1>6, <2>1, <2>2 DEF vars, InitialItem
  <2> QED BY <1>6, <2>1, <2>2, <2>3 DEF vars, StepInv, TypeOK, PlanIsViable
<1> QED BY <1>1, <1>2, <1>3, <1>4, <1>5, <1>6 DEF Next

\* In every reachable state of the storage step its invariant holds.
THEOREM StepInvariant == Spec => []StepInv
<1> QED BY StepInit, StepNext, PTL DEF Spec

\* The items are told apart, and nothing that can be had is hidden.
LEMMA ToldApart == StepInv => ItemsToldApart
<1> SUFFICES ASSUME StepInv PROVE ItemsToldApart
  OBVIOUS
<1>1. Folded /\ Len(viable) \in Nat
  BY DisplayFolds DEF StepInv
<1>2. RefreshIndex \notin 0..(Len(Display) - 1)
  BY <1>1 DEF Folded, RefreshIndex
<1> QED BY <1>1, <1>2 DEF Folded, StepInv, ItemsToldApart

LEMMA CreatableOffered ==
    ASSUME StepInv, chosen \in 0..(Len(Display) - 1), NEW i \in DOMAIN viable,
           BaseOf[viable[i]] = Layout(chosen), FsOf[viable[i]] \in ToSet(FsOrder),
           FsOf[viable[i]] \in mkfs \/ Creatable = <<>>
    PROVE  \E k \in DOMAIN Available : Available[k] = FsOf[viable[i]]
<1>1. PICK j \in DOMAIN Variants : Variants[j] = FsOf[viable[i]]
  BY VariantsAre
<1>2. CASE Creatable = <<>>
  BY <1>1, <1>2 DEF Available
<1>3. CASE Creatable # <<>>
  <2>1. \E k \in DOMAIN Creatable : Creatable[k] = Variants[j]
    BY <1>1, <1>3, VariantsAre
  <2> QED BY <1>1, <1>3, <2>1 DEF Available
<1> QED BY <1>2, <1>3

LEMMA NothingIsHidden == StepInv => NothingHidden
<1> SUFFICES ASSUME StepInv, phase = "filesystem", NEW i \in DOMAIN viable,
                    BaseOf[viable[i]] = Layout(chosen), FsOf[viable[i]] # None,
                    FsOf[viable[i]] \in mkfs \/ Creatable = <<>>
             PROVE  FsOf[viable[i]] \in ToSet(Available)
  BY DEF NothingHidden
<1>1. chosen \in 0..(Len(Display) - 1) /\ viable[i] \in Strategy
  BY DEF StepInv
<1>2. FsOf[viable[i]] \in ToSet(FsOrder)
  BY <1>1, StorageAssumption DEF Range, ToSet
<1>3. PICK k \in DOMAIN Available : Available[k] = FsOf[viable[i]]
  BY <1>1, <1>2, CreatableOffered
<1> QED BY <1>3 DEF ToSet

\* Whatever is viable and whatever is chosen, the plan that is shown is a viable one
\* and of the layout that was picked, and everything that can be created is offered.
THEOREM PlanOKAlways == Spec => []PlanOK
<1>1. StepInv => PlanOK
  BY ToldApart, NothingIsHidden DEF StepInv, PlanOK
<1> QED BY <1>1, StepInvariant, PTL

\* With the default of every prompt, a recorded strategy that can be had is had.
LEMMA RecordedIsHad ==
    ASSUME StepInv, SelectFilesystem, defaults', imported, strategy \in ToSet(viable), FsOf[strategy] \in mkfs
    PROVE  plan' = strategy
<1>1. phase = "filesystem" /\ defaults
  BY DEF SelectFilesystem, StepInv, TypeOK
<1>2. chosen \in 0..(Len(Display) - 1) /\ chosen = InitialItem /\ viable # <<>> /\ viable \in Seq(Strategy)
  BY <1>1 DEF StepInv
<1>3. Layout(chosen) = BaseOf[strategy]
  BY <1>2, InitialItemIs
<1>4. PICK i \in DOMAIN viable : viable[i] = strategy
  BY DEF ToSet
<1>5. strategy \in Strategy
  BY <1>2, <1>4
<1>6. WithSuffix(FsOf[strategy]) = strategy
  BY <1>3, <1>5, SuffixIs
<1>7. CASE FsOf[strategy] \in ToSet(FsOrder)
  <2>1. PICK k \in DOMAIN Available : Available[k] = FsOf[strategy]
    BY <1>2, <1>3, <1>4, <1>7, CreatableOffered
  <2>2. Available \in Seq(ToSet(FsOrder))
    BY <1>2, VariantsAre DEF Available
  <2>3. Available # <<>> /\ DOMAIN Available = 1..Len(Available) /\ Len(Available) \in Nat
    BY <2>1, <2>2
  <2>4. PICK j \in DOMAIN Available : plan' = WithSuffix(Available[j]) /\ (Len(Available) > 1 => j = InitialFs)
    BY <2>3 DEF SelectFilesystem, Shows
  <2> DEFINE recorded == {m \in DOMAIN Available : WithSuffix(Available[m]) = strategy}
  <2>5. recorded # {} /\ recorded \subseteq Nat
    BY <1>6, <2>1, <2>3
  <2>6. InitialFs \in recorded
    <3>1. InitialFs = First(recorded)
      BY <2>5 DEF InitialFs
    <3> HIDE DEF recorded
    <3> QED BY <2>5, <3>1, FirstIs
  <2>7. CASE Len(Available) > 1
    BY <2>4, <2>6, <2>7
  <2>8. CASE ~(Len(Available) > 1)
    <3>1. j = k
      BY <2>1, <2>3, <2>4, <2>8
    <3> QED BY <1>6, <2>1, <2>4, <3>1
  <2> QED BY <2>7, <2>8
<1>8. CASE FsOf[strategy] \notin ToSet(FsOrder)
  <2>1. FsOf[strategy] = None
    BY <1>5, <1>8, StorageAssumption DEF Range, ToSet
  <2>2. mkfs \subseteq ToSet(FsOrder)
    BY DEF StepInv
  <2> QED BY <1>8, <2>2
<1> QED BY <1>7, <1>8

\* A user who presses Enter at every prompt gets the strategy on record, if it is
\* viable and the medium can create its filesystem, and refreshes nothing unasked.
THEOREM DefaultsReproduceAlways == Spec => DefaultsReproduce
<1>1. ASSUME Refresh, ~imported, found \in ToSet(viable) PROVE plan' = found
  BY <1>1 DEF Refresh, Shows
<1>2. ASSUME StepInv, Refresh, defaults' PROVE ~imported
  <2> SUFFICES ASSUME imported PROVE FALSE
    OBVIOUS
  <2>1. InitialItem = RefreshIndex /\ phase = "listed"
    BY <1>2 DEF Refresh
  <2>2. viable # <<>> /\ viable \in Seq(Strategy)
    BY <1>2, <2>1 DEF StepInv
  <2>3. InitialItem \in 0..(Len(Display) - 1)
    BY <1>2, <2>2, InitialItemIs
  <2>4. RefreshIndex \notin 0..(Len(Display) - 1)
    BY <1>2, ToldApart DEF ItemsToldApart
  <2> QED BY <2>1, <2>3, <2>4
<1>3. StepInv /\ [Next]_vars =>
        [/\ Refresh /\ ~imported /\ found \in ToSet(viable) /\ defaults' => plan' = found
         /\ SelectFilesystem /\ defaults' /\ imported /\ strategy \in ToSet(viable) /\ FsOf[strategy] \in mkfs
               => plan' = strategy
         /\ Refresh /\ defaults' => ~imported]_vars
  BY <1>1, <1>2, RecordedIsHad
<1> QED BY <1>3, StepInvariant, PTL DEF Spec, DefaultsReproduce

-----------------------------------------------------------------------------
(***************************************************************************)
(* The plan that is shown and the mounts that are made of it.              *)
(***************************************************************************)

\* A finite set with a strict total order has a list that follows it.
LEMMA Enumerated ==
    ASSUME NEW S, IsFiniteSet(S), NEW R,
           \A a \in S : <<a, a>> \notin R,
           \A a, b \in S : a = b \/ <<a, b>> \in R \/ <<b, a>> \in R,
           \A a, b, c \in S : <<a, b>> \in R /\ <<b, c>> \in R => <<a, c>> \in R
    PROVE  \E p \in [1..Cardinality(S) -> S] :
              /\ \A a \in S : \E k \in 1..Cardinality(S) : p[k] = a
              /\ \A j, k \in 1..Cardinality(S) : j < k => <<p[j], p[k]>> \in R
<1> DEFINE n == Cardinality(S)
           before(a) == Cardinality({b \in S : <<b, a>> \in R})
           at(k) == CHOOSE a \in S : before(a) = k - 1
           p == [k \in 1..n |-> at(k)]
<1>1. n \in Nat
  BY FS_CardinalityType
<1>2. /\ \A a \in S : before(a) \in 0..(n - 1)
      /\ \A a, b \in S : <<a, b>> \in R => before(a) < before(b)
      /\ \A k \in 1..n : \E a \in S : before(a) = k - 1
  BY Ranked
<1> HIDE DEF n, before
<1>3. \A k \in 1..n : at(k) \in S /\ before(at(k)) = k - 1
  BY <1>2
<1> HIDE DEF at
<1>4. \A a, b \in S : before(a) < before(b) => <<a, b>> \in R
  <2> SUFFICES ASSUME NEW a \in S, NEW b \in S, before(a) < before(b), <<a, b>> \notin R PROVE FALSE
    OBVIOUS
  <2>1. before(a) \in Int /\ before(b) \in Int
    BY <1>1, <1>2
  <2>2. a = b \/ before(b) < before(a)
    BY <1>2
  <2> QED BY <2>1, <2>2
<1>5. p \in [1..n -> S]
  BY <1>3
<1>6. \A a \in S : \E k \in 1..n : p[k] = a
  <2> SUFFICES ASSUME NEW a \in S PROVE \E k \in 1..n : p[k] = a
    OBVIOUS
  <2>1. PICK k \in 1..n : before(a) = k - 1
    <3>1. before(a) + 1 \in 1..n /\ before(a) = (before(a) + 1) - 1
      BY <1>1, <1>2
    <3> QED BY <3>1
  <2>2. at(k) \in S /\ before(at(k)) = before(a) /\ before(a) \in Int
    BY <1>1, <1>3, <2>1
  <2>3. ASSUME NEW b \in S, before(b) = before(a) PROVE b = a
    <3>1. ~(before(a) < before(b)) /\ ~(before(b) < before(a))
      BY <2>2, <2>3
    <3> QED BY <1>2, <3>1
  <2> QED BY <2>2, <2>3
<1>7. \A j, k \in 1..n : j < k => <<p[j], p[k]>> \in R
  <2> SUFFICES ASSUME NEW j \in 1..n, NEW k \in 1..n, j < k PROVE <<p[j], p[k]>> \in R
    OBVIOUS
  <2>1. at(j) \in S /\ at(k) \in S /\ before(at(j)) < before(at(k))
    BY <1>1, <1>3
  <2>2. <<at(j), at(k)>> \in R
    BY <1>4, <2>1
  <2> QED BY <2>2
<1> HIDE DEF p
<1> QED BY <1>5, <1>6, <1>7 DEF n

\* Every list of mounts can be sorted.
LEMMA SortedExists ==
    ASSUME NEW T, NEW mounts \in Seq(T)
    PROVE  Backend!SortedOrders(mounts) # {}
<1> DEFINE S == Backend!Absolute(mounts)
           R == {pair \in S \X S : Backend!SortsBefore(mounts, pair[1], pair[2])}
           n == Cardinality(S)
<1>1. DOMAIN mounts = 1..Len(mounts) /\ Len(mounts) \in Nat
  OBVIOUS
<1>2. S \subseteq 1..Len(mounts) /\ \A a \in S : Length[mounts[a].mountpoint] \in Nat
  BY <1>1, StorageAssumption DEF Backend!Absolute
<1>3. IsFiniteSet(S) /\ n \in 0..Len(mounts)
  <2>1. IsFiniteSet(1..Len(mounts)) /\ Cardinality(1..Len(mounts)) = Len(mounts)
    BY <1>1, FS_Interval
  <2> HIDE DEF S
  <2>2. IsFiniteSet(S) /\ Cardinality(S) <= Len(mounts)
    BY <1>2, <2>1, FS_Subset
  <2>3. Cardinality(S) \in Nat
    BY <2>2, FS_CardinalityType
  <2> QED BY <1>1, <2>2, <2>3
<1> HIDE DEF S
<1>4. \A a, b \in S : <<a, b>> \in R <=>
         \/ Length[mounts[a].mountpoint] < Length[mounts[b].mountpoint]
         \/ Length[mounts[a].mountpoint] = Length[mounts[b].mountpoint] /\ a < b
  BY DEF Backend!SortsBefore
<1>5. \A a \in S : a \in Int
  BY <1>1, <1>2
<1> HIDE DEF R, n
<1>6. \A a \in S : <<a, a>> \notin R
  BY <1>2, <1>4, <1>5
<1>7. \A a, b \in S : a = b \/ <<a, b>> \in R \/ <<b, a>> \in R
  <2> SUFFICES ASSUME NEW a \in S, NEW b \in S PROVE a = b \/ <<a, b>> \in R \/ <<b, a>> \in R
    OBVIOUS
  <2> QED BY <1>2, <1>4, <1>5
<1>8. \A a, b, c \in S : <<a, b>> \in R /\ <<b, c>> \in R => <<a, c>> \in R
  <2> SUFFICES ASSUME NEW a \in S, NEW b \in S, NEW c \in S, <<a, b>> \in R, <<b, c>> \in R
               PROVE  <<a, c>> \in R
    OBVIOUS
  <2>1. /\ Length[mounts[a].mountpoint] \in Nat /\ Length[mounts[b].mountpoint] \in Nat
        /\ Length[mounts[c].mountpoint] \in Nat /\ a \in Int /\ b \in Int /\ c \in Int
    BY <1>2, <1>5
  <2> QED BY <1>4, <2>1
<1>9. PICK p \in [1..n -> S] :
         /\ \A a \in S : \E k \in 1..n : p[k] = a
         /\ \A j, k \in 1..n : j < k => <<p[j], p[k]>> \in R
  BY <1>3, <1>6, <1>7, <1>8, Enumerated DEF n
<1>10. p \in UNION {[1..m -> S] : m \in 0..Len(mounts)}
  BY <1>3
<1>11. DOMAIN p = 1..n
  OBVIOUS
<1>12. \A i, j \in DOMAIN p : i < j => Backend!SortsBefore(mounts, p[i], p[j])
  BY <1>9, <1>11 DEF R
<1> QED BY <1>9, <1>10, <1>11, <1>12 DEF Backend!SortedOrders, S

\* Whatever the order they are mounted in: all that are absolute are, and no other.
LEMMA ResolvedAre ==
    ASSUME NEW mounts, NEW fstype, NEW E, IsSequence(E),
           E = Backend!ExpandSubvolumes(Backend!Probe(mounts, fstype))
    PROVE  UNION {ToSet(resolved) : resolved \in Backend!Resolutions(mounts, fstype)}
              = {E[k] : k \in Backend!Absolute(E)}
<1> DEFINE Taken(p) == [i \in DOMAIN p |-> E[p[i]]]
<1>1. Backend!Resolutions(mounts, fstype) = {Taken(p) : p \in Backend!SortedOrders(E)}
  BY DEF Backend!Resolutions
<1>2. \A p \in Backend!SortedOrders(E) : ToSet(Taken(p)) = {E[k] : k \in Backend!Absolute(E)}
  <2> SUFFICES ASSUME NEW p \in Backend!SortedOrders(E)
               PROVE  ToSet(Taken(p)) = {E[k] : k \in Backend!Absolute(E)}
    OBVIOUS
  <2>1. /\ \A i \in DOMAIN p : p[i] \in Backend!Absolute(E)
        /\ \A k \in Backend!Absolute(E) : \E i \in DOMAIN p : p[i] = k
    BY DEF Backend!SortedOrders
  <2>2. ToSet(Taken(p)) = {E[p[i]] : i \in DOMAIN p}
    BY DEF ToSet
  <2> QED BY <2>1, <2>2
<1>3. Backend!SortedOrders(E) # {}
  BY SortedExists DEF IsSequence
<1> HIDE DEF Taken
<1> QED BY <1>1, <1>2, <1>3

\* The root of a plan that is a btrfs, and the subvolume of each mount.
BtrfsRoot(p) == RootsOf(p) # {} /\ p.fstype[p.mounts[First(RootsOf(p))].device] = "btrfs"
SubvolOf(p, i) == IF BtrfsRoot(p) /\ p.mounts[i].mountpoint = "/" THEN "@" ELSE "none"
HomeAdded(p) == BtrfsRoot(p) /\ ~ \E i \in DOMAIN p.mounts : p.mounts[i].mountpoint = "/home"
Home(p) == Entry(p.mounts[First(RootsOf(p))].device, "/home", "@home")
AbsoluteOf(p) == {i \in DOMAIN p.mounts : p.mounts[i].mountpoint \in Mountpoint}

\* Both lists of mounts come down to this one.
Common(p) ==
    {Entry(p.mounts[i].device, p.mounts[i].mountpoint, SubvolOf(p, i)) : i \in AbsoluteOf(p)}
      \cup (IF HomeAdded(p) THEN {Home(p)} ELSE {})

LEMMA PreviewIsCommon ==
    ASSUME NEW p
    PROVE  {m \in Preview(p) : m.mountpoint \in Mountpoint} = Common(p)
<1> DEFINE shown == {Entry(m.device, m.mountpoint, IF BtrfsRoot(p) /\ m.mountpoint = "/" THEN "@" ELSE "none") :
                       m \in ToSet(p.mounts)}
           line(i) == Entry(p.mounts[i].device, p.mounts[i].mountpoint, SubvolOf(p, i))
<1>1. Preview(p) = shown \cup (IF HomeAdded(p) THEN {Home(p)} ELSE {})
  BY DEF Preview, BtrfsRoot, HomeAdded, Home
<1>2. shown = {line(i) : i \in DOMAIN p.mounts}
  BY DEF ToSet, SubvolOf
<1>3. \A i : line(i).mountpoint = p.mounts[i].mountpoint
  BY DEF Entry
<1>4. Home(p).mountpoint = "/home" /\ "/home" \in Mountpoint
  BY StorageAssumption DEF Home, Entry
<1>5. Common(p) = {line(i) : i \in AbsoluteOf(p)} \cup (IF HomeAdded(p) THEN {Home(p)} ELSE {})
  BY DEF Common
<1> HIDE DEF shown, line
<1>6. {m \in shown : m.mountpoint \in Mountpoint} = {line(i) : i \in AbsoluteOf(p)}
  BY <1>2, <1>3 DEF AbsoluteOf
<1> QED BY <1>1, <1>4, <1>5, <1>6

\* The requested mounts, probed.
LEMMA ProbedAre ==
    ASSUME NEW id \in Strategy, NEW p, p = PlanOf[id]
    PROVE  LET probed == Backend!Probe(Requested(p), p.fstype)
               at == InOrder(AbsoluteOf(p))
               n == Cardinality(AbsoluteOf(p))
           IN  /\ n \in Nat /\ DOMAIN probed = 1..n
               /\ \A k \in 1..n :
                     /\ at[k] \in AbsoluteOf(p)
                     /\ probed[k] = [device |-> p.mounts[at[k]].device,
                                     mountpoint |-> p.mounts[at[k]].mountpoint,
                                     fstype |-> p.fstype[p.mounts[at[k]].device],
                                     subvol |-> "none"]
               /\ \A i \in AbsoluteOf(p) : \E k \in 1..n : at[k] = i
<1> DEFINE S == AbsoluteOf(p)
           n == Cardinality(S)
<1>1. p.mounts \in Seq(ToSet(p.mounts))
  BY StorageAssumption DEF IsSequence
<1>2. S \subseteq DOMAIN p.mounts
  BY DEF AbsoluteOf
<1>3. Requested(p) = Pick(p.mounts, S)
  BY DEF Requested, AbsoluteOf
<1> HIDE DEF S
<1>4. /\ Requested(p) \in Seq(ToSet(p.mounts))
      /\ Len(Requested(p)) = n
      /\ DOMAIN Requested(p) = 1..n
      /\ \A k \in 1..n : InOrder(S)[k] \in S /\ Requested(p)[k] = p.mounts[InOrder(S)[k]]
      /\ \A i \in S : \E k \in 1..n : InOrder(S)[k] = i /\ Requested(p)[k] = p.mounts[i]
  BY <1>1, <1>2, <1>3, PickIs, SMTT(30)
<1>5. n \in Nat
  BY <1>4
<1> HIDE DEF n
<1>6. \A k \in 1..n : Backend!Probe(Requested(p), p.fstype)[k] =
         [device |-> p.mounts[InOrder(S)[k]].device,
          mountpoint |-> p.mounts[InOrder(S)[k]].mountpoint,
          fstype |-> p.fstype[p.mounts[InOrder(S)[k]].device],
          subvol |-> "none"]
  BY <1>4 DEF Backend!Probe
<1>7. DOMAIN Backend!Probe(Requested(p), p.fstype) = 1..n
  BY <1>4 DEF Backend!Probe
<1> QED BY <1>4, <1>5, <1>6, <1>7 DEF S, n

\* The first btrfs root that the backend finds is the root that render_plan finds.
LEMMA RootsAgree ==
    ASSUME NEW id \in Strategy, NEW p, p = PlanOf[id]
    PROVE  LET probed == Backend!Probe(Requested(p), p.fstype)
               roots == Backend!BtrfsRoots(probed)
           IN  /\ BtrfsRoot(p) <=> roots # {}
               /\ \A k \in roots : InOrder(AbsoluteOf(p))[k] = First(RootsOf(p))
               /\ \A j, k \in roots : j = k
               /\ BtrfsRoot(p) => \A k \in DOMAIN probed : probed[k].mountpoint = "/" => k \in roots
<1> DEFINE probed == Backend!Probe(Requested(p), p.fstype)
           roots == Backend!BtrfsRoots(probed)
           at == InOrder(AbsoluteOf(p))
           n == Cardinality(AbsoluteOf(p))
           r == First(RootsOf(p))
<1>1. /\ n \in Nat /\ DOMAIN probed = 1..n
      /\ \A k \in 1..n :
            /\ at[k] \in AbsoluteOf(p)
            /\ probed[k] = [device |-> p.mounts[at[k]].device,
                            mountpoint |-> p.mounts[at[k]].mountpoint,
                            fstype |-> p.fstype[p.mounts[at[k]].device],
                            subvol |-> "none"]
      /\ \A i \in AbsoluteOf(p) : \E k \in 1..n : at[k] = i
  BY ProbedAre
<1>2. \A j, k \in 1..n : at[j] = at[k] => j = k
  <2>1. p.mounts \in Seq(ToSet(p.mounts)) /\ AbsoluteOf(p) \subseteq DOMAIN p.mounts
    BY StorageAssumption DEF IsSequence, AbsoluteOf
  <2>2. Lists(at, AbsoluteOf(p))
    BY <2>1, PickIs
  <2> QED BY <2>2 DEF Lists
<1> HIDE DEF probed, at, n
<1>3. roots = {k \in 1..n : p.mounts[at[k]].mountpoint = "/" /\ p.fstype[p.mounts[at[k]].device] = "btrfs"}
  BY <1>1 DEF Backend!BtrfsRoots, Backend!Root
<1>4. \A k \in 1..n : p.mounts[at[k]].mountpoint = "/" <=> at[k] \in RootsOf(p)
  BY <1>1 DEF AbsoluteOf, RootsOf
<1>5. RootsOf(p) # {} => r \in RootsOf(p)
  <2>1. RootsOf(p) \subseteq Nat
    <3>1. p.mounts \in Seq(ToSet(p.mounts))
      BY StorageAssumption DEF IsSequence
    <3> QED BY <3>1 DEF RootsOf
  <2> QED BY <2>1, FirstIs
<1>6. \A i \in RootsOf(p) : i = r
  BY <1>5, StorageAssumption
<1>7. RootsOf(p) \subseteq AbsoluteOf(p)
  BY StorageAssumption DEF RootsOf, AbsoluteOf
<1> HIDE DEF r
<1>8. \A k \in roots : at[k] = r /\ RootsOf(p) # {}
  BY <1>3, <1>4, <1>6
<1>9. BtrfsRoot(p) <=> RootsOf(p) # {} /\ p.fstype[p.mounts[r].device] = "btrfs"
  BY DEF BtrfsRoot, r
<1>10. \A j, k \in roots : j = k
  <2> SUFFICES ASSUME NEW j \in roots, NEW k \in roots PROVE j = k
    OBVIOUS
  <2>1. at[j] = at[k] /\ j \in 1..n /\ k \in 1..n
    BY <1>3, <1>8
  <2> QED BY <1>2, <2>1
<1>11. BtrfsRoot(p) => roots # {}
  <2> SUFFICES ASSUME BtrfsRoot(p) PROVE roots # {}
    OBVIOUS
  <2>1. r \in RootsOf(p) /\ r \in AbsoluteOf(p) /\ p.fstype[p.mounts[r].device] = "btrfs"
    BY <1>5, <1>7, <1>9
  <2>2. PICK k \in 1..n : at[k] = r
    BY <1>1, <2>1
  <2>3. k \in roots
    BY <1>3, <1>4, <2>1, <2>2
  <2> QED BY <2>3
<1>12. roots # {} => BtrfsRoot(p)
  <2> SUFFICES ASSUME NEW k \in roots PROVE BtrfsRoot(p)
    OBVIOUS
  <2>1. k \in 1..n /\ at[k] = r /\ RootsOf(p) # {} /\ p.fstype[p.mounts[at[k]].device] = "btrfs"
    BY <1>3, <1>8
  <2> QED BY <1>9, <2>1
<1>13. BtrfsRoot(p) => \A k \in DOMAIN probed : probed[k].mountpoint = "/" => k \in roots
  <2> SUFFICES ASSUME BtrfsRoot(p), NEW k \in 1..n, probed[k].mountpoint = "/" PROVE k \in roots
    BY <1>1
  <2>1. p.mounts[at[k]].mountpoint = "/"
    BY <1>1
  <2>2. at[k] = r
    BY <1>4, <1>6, <2>1
  <2> QED BY <1>3, <1>9, <2>1, <2>2
<1> QED BY <1>8, <1>10, <1>11, <1>12, <1>13 DEF probed, at, r

\* What the backend makes of the requested mounts, entry by entry.
LEMMA ExpandedAre ==
    ASSUME NEW id \in Strategy, NEW p, p = PlanOf[id]
    PROVE  LET E == Backend!ExpandSubvolumes(Backend!Probe(Requested(p), p.fstype))
               at == InOrder(AbsoluteOf(p))
               n == Cardinality(AbsoluteOf(p))
           IN  /\ E \in Seq(ToSet(E))
               /\ DOMAIN E = IF HomeAdded(p) THEN 1..(n + 1) ELSE 1..n
               /\ \A k \in 1..n : Entry(E[k].device, E[k].mountpoint, E[k].subvol) =
                     Entry(p.mounts[at[k]].device, p.mounts[at[k]].mountpoint, SubvolOf(p, at[k]))
               /\ HomeAdded(p) => Entry(E[n + 1].device, E[n + 1].mountpoint, E[n + 1].subvol) = Home(p)
               /\ Backend!Absolute(E) = DOMAIN E
<1> DEFINE probed == Backend!Probe(Requested(p), p.fstype)
           E == Backend!ExpandSubvolumes(probed)
           roots == Backend!BtrfsRoots(probed)
           at == InOrder(AbsoluteOf(p))
           n == Cardinality(AbsoluteOf(p))
           first == CHOOSE i \in roots : \A j \in roots : i <= j
           moved == [probed EXCEPT ![first].subvol = "@"]
           home == [probed[first] EXCEPT !.mountpoint = "/home", !.subvol = "@home"]
           line(m) == Entry(m.device, m.mountpoint, m.subvol)
           mine(k) == Entry(p.mounts[at[k]].device, p.mounts[at[k]].mountpoint, SubvolOf(p, at[k]))
<1>1. /\ n \in Nat /\ DOMAIN probed = 1..n
      /\ \A k \in 1..n :
            /\ at[k] \in AbsoluteOf(p)
            /\ probed[k] = [device |-> p.mounts[at[k]].device,
                            mountpoint |-> p.mounts[at[k]].mountpoint,
                            fstype |-> p.fstype[p.mounts[at[k]].device],
                            subvol |-> "none"]
      /\ \A i \in AbsoluteOf(p) : \E k \in 1..n : at[k] = i
  BY ProbedAre
<1>2. /\ BtrfsRoot(p) <=> roots # {}
      /\ \A k \in roots : at[k] = First(RootsOf(p))
      /\ \A j, k \in roots : j = k
      /\ BtrfsRoot(p) => \A k \in DOMAIN probed : probed[k].mountpoint = "/" => k \in roots
  BY RootsAgree
<1>3. roots \subseteq 1..n /\ \A k \in roots : probed[k].mountpoint = "/"
  BY <1>1 DEF Backend!BtrfsRoots, Backend!Root
<1>4. E = IF roots = {} THEN probed
          ELSE IF \E i \in DOMAIN probed : probed[i].mountpoint = "/home" THEN moved
          ELSE Append(moved, home)
  BY DEF Backend!ExpandSubvolumes, Backend!Home, Backend!RootSubvol, Backend!HomeSubvol
<1>5. (\E i \in DOMAIN probed : probed[i].mountpoint = "/home")
        <=> \E i \in DOMAIN p.mounts : p.mounts[i].mountpoint = "/home"
  <2>1. "/home" \in Mountpoint
    BY StorageAssumption
  <2> HIDE DEF probed, at, n
  <2> QED BY <1>1, <2>1 DEF AbsoluteOf
<1>6. HomeAdded(p) <=> roots # {} /\ ~ \E i \in DOMAIN probed : probed[i].mountpoint = "/home"
  BY <1>2, <1>5 DEF HomeAdded
<1> HIDE DEF probed, at, n, E
<1>7. roots # {} => first \in roots
  BY <1>1, <1>2, <1>3
<1> HIDE DEF roots, first
<1>8. probed \in Seq(ToSet(probed)) /\ Len(probed) = n
  <2>1. probed = [k \in 1..n |-> probed[k]]
    BY <1>1 DEF probed, Backend!Probe
  <2> QED BY <1>1, <2>1 DEF ToSet
<1>9. \A k \in 1..n : roots = {} => line(probed[k]) = mine(k)
  BY <1>1, <1>2 DEF SubvolOf, Entry
<1>10. ASSUME roots # {}
       PROVE  /\ DOMAIN moved = 1..n
              /\ \A k \in 1..n : line(moved[k]) = mine(k) /\ moved[k].mountpoint = probed[k].mountpoint
  <2>1. DOMAIN moved = 1..n
    BY <1>1
  <2>2. ASSUME NEW k \in 1..n
        PROVE  line(moved[k]) = mine(k) /\ moved[k].mountpoint = probed[k].mountpoint
    <3>1. CASE k = first
      <4>1. moved[k] = [probed[k] EXCEPT !.subvol = "@"]
        BY <1>1, <3>1
      <4>2. p.mounts[at[k]].mountpoint = "/"
        BY <1>1, <1>3, <1>7, <1>10, <3>1, SMTT(30)
      <4>3. SubvolOf(p, at[k]) = "@"
        BY <1>2, <1>10, <4>2 DEF SubvolOf
      <4> QED BY <1>1, <4>1, <4>3 DEF Entry
    <3>2. CASE k # first
      <4>1. moved[k] = probed[k]
        BY <1>1, <3>2
      <4>2. k \notin roots
        BY <1>2, <1>7, <1>10, <3>2
      <4>3. probed[k].mountpoint # "/"
        BY <1>1, <1>2, <1>10, <4>2
      <4>4. SubvolOf(p, at[k]) = "none"
        BY <1>1, <4>3 DEF SubvolOf
      <4> QED BY <1>1, <4>1, <4>4 DEF Entry
    <3> QED BY <3>1, <3>2
  <2> QED BY <2>1, <2>2
<1>11. roots # {} => home.mountpoint = "/home" /\ line(home) = Home(p)
  <2> SUFFICES ASSUME roots # {} PROVE home.mountpoint = "/home" /\ line(home) = Home(p)
    OBVIOUS
  <2>1. first \in 1..n /\ at[first] = First(RootsOf(p))
    BY <1>2, <1>3, <1>7
  <2>2. probed[first] = [device |-> p.mounts[at[first]].device,
                         mountpoint |-> p.mounts[at[first]].mountpoint,
                         fstype |-> p.fstype[p.mounts[at[first]].device],
                         subvol |-> "none"]
    BY <1>1, <2>1
  <2>3. home.device = p.mounts[at[first]].device
    BY <2>2
  <2>4. home.mountpoint = "/home" /\ home.subvol = "@home"
    BY <2>2
  <2> HIDE DEF home
  <2> QED BY <2>1, <2>3, <2>4 DEF Home, Entry
<1> HIDE DEF moved, home
<1>12. /\ DOMAIN E = IF HomeAdded(p) THEN 1..(n + 1) ELSE 1..n
       /\ \A k \in 1..n : line(E[k]) = mine(k) /\ E[k].mountpoint = probed[k].mountpoint
       /\ HomeAdded(p) => line(E[n + 1]) = Home(p) /\ E[n + 1].mountpoint = "/home"
       /\ E \in Seq(ToSet(E))
  <2>1. CASE roots = {}
    <3>1. E = probed /\ ~HomeAdded(p)
      BY <1>4, <1>6, <2>1
    <3> HIDE DEF line, mine
    <3> QED BY <1>1, <1>8, <1>9, <2>1, <3>1
  <2>2. CASE roots # {} /\ ~HomeAdded(p)
    <3>1. E = moved
      BY <1>4, <1>6, <2>2
    <3>2. DOMAIN moved = 1..n
          /\ \A k \in 1..n : line(moved[k]) = mine(k) /\ moved[k].mountpoint = probed[k].mountpoint
      BY <1>10, <2>2
    <3>3. moved \in Seq(ToSet(moved))
      <4>1. moved = [k \in 1..n |-> moved[k]]
        BY <1>1 DEF moved
      <4> QED BY <1>1, <3>2, <4>1 DEF ToSet
    <3> HIDE DEF line, mine
    <3> QED BY <2>2, <3>1, <3>2, <3>3
  <2>3. CASE HomeAdded(p)
    <3>1. E = Append(moved, home) /\ roots # {}
      BY <1>4, <1>6, <2>3
    <3>2. DOMAIN moved = 1..n
          /\ \A k \in 1..n : line(moved[k]) = mine(k) /\ moved[k].mountpoint = probed[k].mountpoint
      BY <1>10, <3>1
    <3>3. moved \in Seq(ToSet(moved))
      <4>1. moved = [k \in 1..n |-> moved[k]]
        BY <1>1 DEF moved
      <4> QED BY <1>1, <3>2, <4>1 DEF ToSet
    <3>4. Len(moved) = n
      BY <1>1, <3>2, <3>3
    <3>5. moved \in Seq(ToSet(moved) \cup {home})
      BY <1>1, <3>2, <3>3, <3>4
    <3>6. /\ E \in Seq(ToSet(moved) \cup {home}) /\ Len(E) = n + 1
          /\ \A k \in 1..n : E[k] = moved[k]
          /\ E[n + 1] = home
      BY <1>1, <3>1, <3>2, <3>4, <3>5
    <3>7. E \in Seq(ToSet(E)) /\ DOMAIN E = 1..(n + 1)
      <4>1. DOMAIN E = 1..(n + 1) /\ E = [k \in 1..(n + 1) |-> E[k]]
        BY <1>1, <3>6
      <4>2. \A k \in 1..(n + 1) : E[k] \in ToSet(E)
        BY <4>1 DEF ToSet
      <4>3. n + 1 \in Nat
        BY <1>1
      <4> HIDE DEF E
      <4> QED BY <4>1, <4>2, <4>3
    <3>8. line(home) = Home(p) /\ home.mountpoint = "/home"
      BY <1>11, <3>1
    <3> HIDE DEF line, mine
    <3> QED BY <2>3, <3>2, <3>6, <3>7, <3>8
  <2> QED BY <2>1, <2>2, <2>3
<1> HIDE DEF line, mine
<1>13. Backend!Absolute(E) = DOMAIN E
  <2>1. \A k \in 1..n : E[k].mountpoint \in Mountpoint
    BY <1>1, <1>12 DEF AbsoluteOf
  <2>2. HomeAdded(p) => E[n + 1].mountpoint \in Mountpoint
    BY <1>12, StorageAssumption
  <2>3. \A k \in DOMAIN E : E[k].mountpoint \in Mountpoint
    <3> SUFFICES ASSUME NEW k \in DOMAIN E PROVE E[k].mountpoint \in Mountpoint
      OBVIOUS
    <3>1. k \in 1..n \/ (HomeAdded(p) /\ k = n + 1)
      BY <1>1, <1>12
    <3> QED BY <2>1, <2>2, <3>1
  <2> QED BY <2>3 DEF Backend!Absolute
<1> QED BY <1>12, <1>13 DEF probed, E, at, n, line, mine

\* The mounts shown are the mounts made.
LEMMA MountedIsCommon ==
    ASSUME NEW id \in Strategy, NEW p, p = PlanOf[id]
    PROVE  Mounted(p) = Common(p)
<1> DEFINE E == Backend!ExpandSubvolumes(Backend!Probe(Requested(p), p.fstype))
           at == InOrder(AbsoluteOf(p))
           n == Cardinality(AbsoluteOf(p))
           line(m) == Entry(m.device, m.mountpoint, m.subvol)
           mine(i) == Entry(p.mounts[i].device, p.mounts[i].mountpoint, SubvolOf(p, i))
<1>1. /\ E \in Seq(ToSet(E))
      /\ DOMAIN E = IF HomeAdded(p) THEN 1..(n + 1) ELSE 1..n
      /\ \A k \in 1..n : line(E[k]) = mine(at[k])
      /\ HomeAdded(p) => line(E[n + 1]) = Home(p)
      /\ Backend!Absolute(E) = DOMAIN E
  BY ExpandedAre
<1>2. n \in Nat /\ \A k \in 1..n : at[k] \in AbsoluteOf(p)
  BY ProbedAre
<1>3. \A i \in AbsoluteOf(p) : \E k \in 1..n : at[k] = i
  BY ProbedAre
<1>4. UNION {ToSet(resolved) : resolved \in Backend!Resolutions(Requested(p), p.fstype)}
         = {E[k] : k \in Backend!Absolute(E)}
  <2>1. E = Backend!ExpandSubvolumes(Backend!Probe(Requested(p), p.fstype))
    OBVIOUS
  <2>2. IsSequence(E)
    BY <1>1 DEF IsSequence
  <2> HIDE DEF E
  <2> QED BY <2>1, <2>2, ResolvedAre
<1>5. Mounted(p) = {line(m) : m \in {E[k] : k \in DOMAIN E}}
  BY <1>1, <1>4 DEF Mounted
<1>6. Common(p) = {mine(i) : i \in AbsoluteOf(p)} \cup (IF HomeAdded(p) THEN {Home(p)} ELSE {})
  BY DEF Common
<1> HIDE DEF E, at, n, line, mine
<1>7. Mounted(p) = {line(E[k]) : k \in DOMAIN E}
  BY <1>5
<1>8. {mine(i) : i \in AbsoluteOf(p)} = {line(E[k]) : k \in 1..n}
  BY <1>1, <1>2, <1>3
<1>9. CASE HomeAdded(p)
  <2>1. \A k : k \in DOMAIN E <=> k \in 1..n \/ k = n + 1
    BY <1>1, <1>2, <1>9
  <2>2. {line(E[k]) : k \in DOMAIN E} = {line(E[k]) : k \in 1..n} \cup {line(E[n + 1])}
    BY <2>1
  <2> QED BY <1>1, <1>6, <1>7, <1>8, <1>9, <2>2
<1>10. CASE ~HomeAdded(p)
  BY <1>1, <1>6, <1>7, <1>8, <1>10
<1> QED BY <1>9, <1>10

\* The mounts that render_plan shows are those the backend makes of the plan, with
\* the subvolumes that each works out for itself, for all plans with one root.
THEOREM PreviewIsMountedAlways == Spec => []PreviewIsMounted
<1>1. StepInv => PreviewIsMounted
  <2> SUFFICES ASSUME StepInv, phase = "planned"
               PROVE  {m \in Preview(PlanOf[plan]) : m.mountpoint \in Mountpoint} = Mounted(PlanOf[plan])
    BY DEF PreviewIsMounted
  <2>1. plan \in Strategy
    BY DEF StepInv, PlanIsViable, TypeOK
  <2> QED BY <2>1, PreviewIsCommon, MountedIsCommon
<1> QED BY <1>1, StepInvariant, PTL

-----------------------------------------------------------------------------
(***************************************************************************)
(* The documents.                                                          *)
(***************************************************************************)
\* The nodes that are found in a record, and the system-models that are written.
AccountNode ==
    {Account("root", [hash |-> h]) : h \in Text} \cup {Account("user", u) : u \in UserType}
SystemModels == {<<RepositoriesNode, PackagesNode(p)>> : p \in Seq(Package)}
LeafNode == {Leaf(f, a) : f \in Field, a \in Text \cup {Absent}}
AccountsNode == {Block("accounts", s) : s \in Seq(AccountNode)}
SystemNode == {Block("system-model", s) : s \in SystemModels}
RecordNode == LeafNode \cup AccountsNode \cup SystemNode

\* An account of a record sets the root password or the user, and nothing else.
LEMMA AccountStep ==
    ASSUME NEW m \in ModelType
    PROVE  /\ \A h \in Text : ApplyAccount(m, Account("root", [hash |-> h])) = [m EXCEPT !.root = h]
           /\ \A u \in UserType : ApplyAccount(m, Account("user", u)) = [m EXCEPT !.user = u]
           /\ \A node \in AccountNode :
                 /\ ApplyAccount(m, node) \in ModelType
                 /\ ApplyAccount(m, node).text = m.text
                 /\ ApplyAccount(m, node).packages = m.packages
                 /\ ApplyAccount(m, node).imported = m.imported
<1>1. ASSUME NEW h \in Text
      PROVE  ApplyAccount(m, Account("root", [hash |-> h])) = [m EXCEPT !.root = h]
  BY DEF ApplyAccount, Account, Prop
<1>2. ASSUME NEW u \in UserType
      PROVE  ApplyAccount(m, Account("user", u)) = [m EXCEPT !.user = u]
  <2> SUFFICES ASSUME NEW node, node = Account("user", u)
               PROVE  ApplyAccount(m, node) = [m EXCEPT !.user = u]
    OBVIOUS
  <2>1. /\ Prop(node, "name") = u.name /\ Prop(node, "hash") = u.hash
        /\ Prop(node, "realname") = u.realname
    BY DEF Account, Prop, UserType
  <2>2. u.name # Absent /\ u.hash # Absent /\ u.realname # Absent
    BY DocumentsAssumption DEF UserType
  <2>3. node.name = "user"
    BY DEF Account
  <2>4. u = [name |-> u.name, hash |-> u.hash, realname |-> u.realname]
    BY DEF UserType
  <2>5. ApplyAccount(m, node) =
          [m EXCEPT !.user = [name |-> u.name, hash |-> u.hash, realname |-> u.realname]]
    BY <2>1, <2>2, <2>3 DEF ApplyAccount
  <2> QED BY <2>4, <2>5
<1>3. ASSUME NEW node \in AccountNode
      PROVE  /\ ApplyAccount(m, node) \in ModelType
             /\ ApplyAccount(m, node).text = m.text
             /\ ApplyAccount(m, node).packages = m.packages
             /\ ApplyAccount(m, node).imported = m.imported
  <2>1. (\E h \in Text : ApplyAccount(m, node) = [m EXCEPT !.root = h])
          \/ \E u \in UserType : ApplyAccount(m, node) = [m EXCEPT !.user = u]
    <3>1. CASE node \in {Account("root", [hash |-> h]) : h \in Text}
      <4>1. PICK h \in Text : node = Account("root", [hash |-> h])
        BY <3>1
      <4> QED BY <1>1, <4>1
    <3>2. CASE node \in {Account("user", u) : u \in UserType}
      <4>1. PICK u \in UserType : node = Account("user", u)
        BY <3>2
      <4> QED BY <1>2, <4>1
    <3> QED BY <3>1, <3>2 DEF AccountNode
  <2> QED BY <2>1 DEF ModelType
<1> QED BY <1>1, <1>2, <1>3

\* The accounts of a record are applied one after the other.
LEMMA AccountsRun ==
    ASSUME NEW m \in ModelType, NEW s \in Seq(AccountNode)
    PROVE  \E g \in [0..Len(s) -> ModelType] :
              /\ g[0] = m /\ ApplyAccounts(m, s) = g[Len(s)]
              /\ \A k \in 1..Len(s) : g[k] = ApplyAccount(g[k - 1], s[k])
<1> DEFINE n == Len(s)
           M == ModelType
           step == [k \in 1..n |-> [x \in M |-> ApplyAccount(x, s[k])]]
           Is(g) == g = [k \in 0..n |-> IF k = 0 THEN m ELSE ApplyAccount(g[k - 1], s[k])]
           after == CHOOSE g : Is(g)
<1>1. n \in Nat /\ \A k \in 1..n : s[k] \in AccountNode
  OBVIOUS
<1>2. step \in [1..n -> [M -> M]]
  BY <1>1, AccountStep
<1>3. PICK g : Runs(g, m, step, n, M)
  <2> HIDE DEF step, n, M
  <2>1. m \in M
    BY DEF M
  <2> QED BY <1>1, <1>2, <2>1, Recursion
<1>4. g \in [0..n -> M] /\ g[0] = m /\ \A k \in 1..n : g[k] = ApplyAccount(g[k - 1], s[k])
  <2>1. g \in [0..n -> M] /\ g[0] = m /\ \A k \in 1..n : g[k] = step[k][g[k - 1]]
    BY <1>3 DEF Runs
  <2>2. \A k \in 1..n : k - 1 \in 0..n
    BY <1>1
  <2> HIDE DEF n, M
  <2> QED BY <2>1, <2>2
<1>5. Is(g)
  <2> HIDE DEF M, n
  <2>1. \A k \in 0..n : k = 0 \/ k \in 1..n
    BY <1>1
  <2>2. g = [k \in 0..n |-> g[k]]
    BY <1>4
  <2> QED BY <1>4, <2>1, <2>2
<1>6. Is(after)
  <2> HIDE DEF Is
  <2> QED BY <1>5
<1>7. ApplyAccounts(m, s) = after[n]
  BY DEF ApplyAccounts
<1>8. /\ DOMAIN after = 0..n /\ after[0] = m
      /\ \A k \in 1..n : after[k] = ApplyAccount(after[k - 1], s[k])
  <2> HIDE DEF after, n
  <2>1. 0 \in 0..n /\ \A k \in 1..n : k \in 0..n /\ k # 0
    BY <1>1
  <2> QED BY <1>6, <2>1
<1>9. \A k \in 0..n : after[k] \in M
  <2> DEFINE P == {k \in 0..n : after[k] \in M}
  <2>1. 0 \in P
    <3> HIDE DEF after
    <3> QED BY <1>1, <1>8
  <2>2. \A k \in 1..n : k - 1 \in P => k \in P
    <3>1. \A x \in M, node \in AccountNode : ApplyAccount(x, node) \in M
      BY AccountStep
    <3>2. \A k \in 1..n : k \in 0..n
      BY <1>1
    <3> HIDE DEF after, n, M
    <3> QED BY <1>1, <1>8, <3>1, <3>2
  <2> HIDE DEF P, n
  <2>3. 0..n \subseteq P
    BY <1>1, <2>1, <2>2, Upwards
  <2> QED BY <2>3 DEF P
<1>10. after \in [0..n -> M]
  <2>1. after = [k \in 0..n |-> after[k]]
    <3> HIDE DEF after
    <3> QED BY <1>6
  <2> HIDE DEF after, n, M
  <2> QED BY <1>9, <2>1
<1> HIDE DEF after
<1> QED BY <1>1, <1>7, <1>8, <1>10

\* Accounts change nothing but accounts.
LEMMA AccountsKept ==
    ASSUME NEW m \in ModelType, NEW s \in Seq(AccountNode)
    PROVE  /\ ApplyAccounts(m, s) \in ModelType
           /\ ApplyAccounts(m, s).text = m.text
           /\ ApplyAccounts(m, s).packages = m.packages
           /\ ApplyAccounts(m, s).imported = m.imported
<1> DEFINE n == Len(s)
           M == ModelType
<1>1. n \in Nat /\ \A k \in 1..n : s[k] \in AccountNode
  OBVIOUS
<1>2. PICK g \in [0..n -> M] :
         /\ g[0] = m /\ ApplyAccounts(m, s) = g[n]
         /\ \A k \in 1..n : g[k] = ApplyAccount(g[k - 1], s[k])
  BY AccountsRun
<1> DEFINE P == {k \in 0..n : g[k].text = m.text /\ g[k].packages = m.packages /\ g[k].imported = m.imported}
<1>3. 0 \in P
  BY <1>1, <1>2
<1>4. \A k \in 1..n : k - 1 \in P => k \in P
  <2> SUFFICES ASSUME NEW k \in 1..n, k - 1 \in P PROVE k \in P
    OBVIOUS
  <2>1. \A x \in M, node \in AccountNode :
           LET y == ApplyAccount(x, node)
           IN  y.text = x.text /\ y.packages = x.packages /\ y.imported = x.imported
    BY AccountStep
  <2>2. k - 1 \in 0..n /\ k \in 0..n /\ s[k] \in AccountNode
    BY <1>1
  <2>3. g[k - 1] \in M /\ g[k] = ApplyAccount(g[k - 1], s[k])
    BY <1>2, <2>2
  <2> HIDE DEF n, M
  <2> QED BY <2>1, <2>2, <2>3
<1> HIDE DEF P, n
<1>5. 0..n \subseteq P
  BY <1>1, <1>3, <1>4, Upwards
<1>6. n \in P /\ g[n] \in M
  BY <1>1, <1>5
<1> QED BY <1>2, <1>6 DEF P


\* A node of a record sets its own field, the accounts, or nothing.
LEMMA FieldStep ==
    ASSUME NEW m \in ModelType, NEW node \in RecordNode
    PROVE  /\ ApplyField(m, node) \in ModelType
           /\ ApplyField(m, node).packages = m.packages
           /\ ApplyField(m, node).imported = m.imported
           /\ \A f \in Field :
                 ApplyField(m, node).text[f] =
                     IF node.name = f /\ node.arg # Absent THEN node.arg ELSE m.text[f]
           /\ node.name = "accounts" => ApplyField(m, node) = ApplyAccounts(m, node.kids)
           /\ node.name # "accounts" =>
                 /\ ApplyField(m, node).root = m.root
                 /\ ApplyField(m, node).user = m.user
<1> "accounts" \notin Field /\ "system-model" \notin Field
  BY DEF Field
<1>1. CASE node \in LeafNode
  <2>1. PICK f \in Field, a \in Text \cup {Absent} : node = Leaf(f, a)
    BY <1>1 DEF LeafNode
  <2>2. node.name = f /\ node.arg = a /\ node.name # "accounts"
    BY <2>1 DEF Leaf
  <2>3. CASE a = Absent
    <3>1. ApplyField(m, node) = m
      BY <2>2, <2>3 DEF ApplyField
    <3> QED BY <2>2, <2>3, <3>1
  <2>4. CASE a # Absent
    <3>1. ApplyField(m, node) = [m EXCEPT !.text[f] = a] /\ a \in Text
      BY <2>2, <2>4 DEF ApplyField
    <3>2. m.text \in [Field -> Text]
      BY DEF ModelType
    <3>3. [m.text EXCEPT ![f] = a] \in [Field -> Text]
      BY <3>1, <3>2
    <3>4. ApplyField(m, node) \in ModelType
      BY <3>1, <3>3 DEF ModelType
    <3>5. /\ ApplyField(m, node).text = [m.text EXCEPT ![f] = a]
          /\ ApplyField(m, node).packages = m.packages
          /\ ApplyField(m, node).imported = m.imported
          /\ ApplyField(m, node).root = m.root /\ ApplyField(m, node).user = m.user
      BY <3>1 DEF ModelType
    <3>6. \A h \in Field : [m.text EXCEPT ![f] = a][h] = IF f = h THEN a ELSE m.text[h]
      BY <3>2
    <3> QED BY <2>2, <2>4, <3>4, <3>5, <3>6
  <2> QED BY <2>3, <2>4
<1>2. CASE node \in AccountsNode
  <2>1. PICK s \in Seq(AccountNode) : node = Block("accounts", s)
    BY <1>2 DEF AccountsNode
  <2>2. node.name = "accounts" /\ node.arg = Absent /\ node.kids = s
    BY <2>1 DEF Block
  <2>3. ApplyField(m, node) = ApplyAccounts(m, s)
    BY <2>2 DEF ApplyField
  <2> QED BY <2>2, <2>3, AccountsKept
<1>3. CASE node \in SystemNode
  <2>1. PICK s \in SystemModels : node = Block("system-model", s)
    BY <1>3 DEF SystemNode
  <2>2. node.name = "system-model" /\ node.arg = Absent /\ "system-model" # "accounts"
    BY <2>1 DEF Block
  <2>3. ApplyField(m, node) = m
    BY <2>2 DEF ApplyField
  <2> QED BY <2>2, <2>3
<1> QED BY <1>1, <1>2, <1>3 DEF RecordNode

\* The nodes of a record are applied one after the other.
LEMMA FieldsRun ==
    ASSUME NEW m \in ModelType, NEW s \in Seq(RecordNode)
    PROVE  \E g \in [0..Len(s) -> ModelType] :
              /\ g[0] = m /\ ApplyFields(m, s) = g[Len(s)]
              /\ \A k \in 1..Len(s) : g[k] = ApplyField(g[k - 1], s[k])
<1> DEFINE n == Len(s)
           M == ModelType
           step == [k \in 1..n |-> [x \in M |-> ApplyField(x, s[k])]]
           Is(g) == g = [k \in 0..n |-> IF k = 0 THEN m ELSE ApplyField(g[k - 1], s[k])]
           after == CHOOSE g : Is(g)
<1>1. n \in Nat /\ \A k \in 1..n : s[k] \in RecordNode
  OBVIOUS
<1>2. step \in [1..n -> [M -> M]]
  <2>1. \A x \in M, node \in RecordNode : ApplyField(x, node) \in M
    BY FieldStep
  <2> HIDE DEF M, n
  <2> QED BY <1>1, <2>1
<1>3. PICK g : Runs(g, m, step, n, M)
  <2> HIDE DEF step, n, M
  <2>1. m \in M
    BY DEF M
  <2> QED BY <1>1, <1>2, <2>1, Recursion
<1>4. g \in [0..n -> M] /\ g[0] = m /\ \A k \in 1..n : g[k] = ApplyField(g[k - 1], s[k])
  <2>1. g \in [0..n -> M] /\ g[0] = m /\ \A k \in 1..n : g[k] = step[k][g[k - 1]]
    BY <1>3 DEF Runs
  <2>2. \A k \in 1..n : k - 1 \in 0..n
    BY <1>1
  <2> HIDE DEF n, M
  <2> QED BY <2>1, <2>2
<1>5. Is(g)
  <2> HIDE DEF M, n
  <2>1. \A k \in 0..n : k = 0 \/ k \in 1..n
    BY <1>1
  <2>2. g = [k \in 0..n |-> g[k]]
    BY <1>4
  <2> QED BY <1>4, <2>1, <2>2
<1>6. Is(after)
  <2> HIDE DEF Is
  <2> QED BY <1>5
<1>7. ApplyFields(m, s) = after[n]
  BY DEF ApplyFields
<1>8. /\ DOMAIN after = 0..n /\ after[0] = m
      /\ \A k \in 1..n : after[k] = ApplyField(after[k - 1], s[k])
  <2> HIDE DEF after, n
  <2>1. 0 \in 0..n /\ \A k \in 1..n : k \in 0..n /\ k # 0
    BY <1>1
  <2> QED BY <1>6, <2>1
<1>9. \A k \in 0..n : after[k] \in M
  <2> DEFINE P == {k \in 0..n : after[k] \in M}
  <2>1. 0 \in P
    <3> HIDE DEF after
    <3> QED BY <1>1, <1>8
  <2>2. \A k \in 1..n : k - 1 \in P => k \in P
    <3>1. \A x \in M, node \in RecordNode : ApplyField(x, node) \in M
      BY FieldStep
    <3>2. \A k \in 1..n : k \in 0..n
      BY <1>1
    <3> HIDE DEF after, n, M
    <3> QED BY <1>1, <1>8, <3>1, <3>2
  <2> HIDE DEF P, n
  <2>3. 0..n \subseteq P
    BY <1>1, <2>1, <2>2, Upwards
  <2> QED BY <2>3 DEF P
<1>10. after \in [0..n -> M]
  <2>1. after = [k \in 0..n |-> after[k]]
    <3> HIDE DEF after
    <3> QED BY <1>6
  <2> HIDE DEF after, n, M
  <2> QED BY <1>9, <2>1
<1> HIDE DEF after
<1> QED BY <1>1, <1>7, <1>8, <1>10

\* A node of name f whose argument is a string.
IsString(node, f) == node.name = f /\ node.arg # Absent

\* v is what the nodes q up to the k-th make of the field f, if it is t before them:
\* the last string of that name counts.
Reads(q, f, k, t, v) ==
    \/ v = t /\ \A j \in 1..k : ~IsString(q[j], f)
    \/ \E i \in 1..k : /\ IsString(q[i], f) /\ v = q[i].arg
                       /\ \A j \in 1..k : i < j => ~IsString(q[j], f)

\* There is one such value.
LEMMA ReadsOne ==
    ASSUME NEW q, NEW f, NEW k \in Nat, NEW t, NEW v, NEW w, Reads(q, f, k, t, v), Reads(q, f, k, t, w)
    PROVE  v = w
<1>1. \A i, j \in 1..k : i < j \/ j < i \/ i = j
  OBVIOUS
<1> QED BY <1>1 DEF Reads

\* The next node goes on with it.
LEMMA ReadsNext ==
    ASSUME NEW q, NEW f, NEW k \in Nat, k # 0, NEW t, NEW v, Reads(q, f, k - 1, t, v)
    PROVE  Reads(q, f, k, t, IF IsString(q[k], f) THEN q[k].arg ELSE v)
<1>1. /\ k \in 1..k /\ \A j \in 1..k : j = k \/ j \in 1..(k - 1)
      /\ \A j \in 1..(k - 1) : j \in 1..k /\ ~(k < j)
      /\ ~(k < k)
  OBVIOUS
<1>2. CASE IsString(q[k], f)
  <2>1. \A j \in 1..k : ~(k < j)
    OBVIOUS
  <2> QED BY <1>1, <1>2, <2>1 DEF Reads
<1>3. CASE ~IsString(q[k], f)
  <2>1. CASE v = t /\ \A j \in 1..(k - 1) : ~IsString(q[j], f)
    BY <1>1, <1>3, <2>1 DEF Reads
  <2>2. CASE \E i \in 1..(k - 1) : /\ IsString(q[i], f) /\ v = q[i].arg
                                   /\ \A j \in 1..(k - 1) : i < j => ~IsString(q[j], f)
    BY <1>1, <1>3, <2>2 DEF Reads
  <2> QED BY <2>1, <2>2 DEF Reads
<1> QED BY <1>2, <1>3

\* What the nodes of a record make of a model.
LEMMA FieldsKept ==
    ASSUME NEW m \in ModelType, NEW s \in Seq(RecordNode)
    PROVE  /\ ApplyFields(m, s) \in ModelType
           /\ ApplyFields(m, s).packages = m.packages
           /\ ApplyFields(m, s).imported = m.imported
           /\ \A f \in Field : Reads(s, f, Len(s), m.text[f], ApplyFields(m, s).text[f])
<1> DEFINE n == Len(s)
           M == ModelType
<1>1. n \in Nat /\ \A k \in 1..n : s[k] \in RecordNode
  OBVIOUS
<1>2. PICK g \in [0..n -> M] :
         /\ g[0] = m /\ ApplyFields(m, s) = g[n]
         /\ \A k \in 1..n : g[k] = ApplyField(g[k - 1], s[k])
  BY FieldsRun
<1> DEFINE Q(k) == /\ g[k].packages = m.packages /\ g[k].imported = m.imported
                   /\ \A f \in Field : Reads(s, f, k, m.text[f], g[k].text[f])
           P == {k \in 0..n : Q(k)}
<1>3. 0 \in P
  <2>1. \A f \in Field : Reads(s, f, 0, m.text[f], m.text[f])
    BY DEF Reads
  <2> QED BY <1>1, <1>2, <2>1
<1>4. \A k \in 1..n : k - 1 \in P => k \in P
  <2> SUFFICES ASSUME NEW k \in 1..n, k - 1 \in P PROVE k \in P
    OBVIOUS
  <2>1. \A x \in M, node \in RecordNode :
           LET y == ApplyField(x, node)
           IN  /\ y.packages = x.packages /\ y.imported = x.imported
               /\ \A f \in Field : y.text[f] = IF IsString(node, f) THEN node.arg ELSE x.text[f]
    BY FieldStep DEF IsString
  <2>2. k - 1 \in 0..n /\ k \in 0..n /\ k \in Nat /\ k # 0 /\ s[k] \in RecordNode
    BY <1>1
  <2>3. g[k - 1] \in M /\ g[k] = ApplyField(g[k - 1], s[k]) /\ Q(k - 1)
    BY <1>2, <2>2
  <2>4. /\ g[k].packages = g[k - 1].packages /\ g[k].imported = g[k - 1].imported
        /\ \A f \in Field : g[k].text[f] = IF IsString(s[k], f) THEN s[k].arg ELSE g[k - 1].text[f]
    <3> HIDE DEF n, M, Q, P
    <3> QED BY <2>1, <2>2, <2>3
  <2>5. \A f \in Field : Reads(s, f, k, m.text[f], g[k].text[f])
    <3> SUFFICES ASSUME NEW f \in Field PROVE Reads(s, f, k, m.text[f], g[k].text[f])
      OBVIOUS
    <3>1. Reads(s, f, k - 1, m.text[f], g[k - 1].text[f])
      BY <2>3
    <3>2. Reads(s, f, k, m.text[f], IF IsString(s[k], f) THEN s[k].arg ELSE g[k - 1].text[f])
      <4> HIDE DEF n, M, Q, P
      <4> QED BY <2>2, <3>1, ReadsNext
    <3> HIDE DEF n, M, Q, P
    <3> QED BY <2>4, <3>2
  <2>6. g[k].packages = m.packages /\ g[k].imported = m.imported
    BY <2>3, <2>4
  <2> QED BY <2>2, <2>5, <2>6
<1> HIDE DEF P, n
<1>5. 0..n \subseteq P
  BY <1>1, <1>3, <1>4, Upwards
<1>6. n \in P /\ g[n] \in M
  BY <1>1, <1>5
<1> QED BY <1>2, <1>6 DEF P, n

\* Nodes that are no accounts leave the accounts alone.
LEMMA NoAccounts ==
    ASSUME NEW m \in ModelType, NEW s \in Seq(RecordNode),
           NEW i \in 0..Len(s), NEW l \in 0..Len(s),
           \A k \in 1..Len(s) : i < k /\ k <= l => s[k].name # "accounts",
           NEW g \in [0..Len(s) -> ModelType],
           \A k \in 1..Len(s) : g[k] = ApplyField(g[k - 1], s[k])
    PROVE  \A k \in 0..Len(s) : i <= k /\ k <= l => g[k].root = g[i].root /\ g[k].user = g[i].user
<1> DEFINE n == Len(s)
           P == {k \in 0..n : i <= k /\ k <= l => g[k].root = g[i].root /\ g[k].user = g[i].user}
<1>1. n \in Nat /\ \A k \in 1..n : s[k] \in RecordNode
  OBVIOUS
<1>2. 0 \in P
  <2>1. i <= 0 => i = 0
    OBVIOUS
  <2> QED BY <1>1, <2>1
<1>3. \A k \in 1..n : k - 1 \in P => k \in P
  <2> SUFFICES ASSUME NEW k \in 1..n, k - 1 \in P, i <= k, k <= l
               PROVE  g[k].root = g[i].root /\ g[k].user = g[i].user
    BY <1>1
  <2>1. CASE k = i
    BY <2>1
  <2>2. CASE i < k
    <3>1. k - 1 \in 0..n /\ i <= k - 1 /\ k - 1 <= l
      BY <1>1, <2>2
    <3>2. g[k - 1].root = g[i].root /\ g[k - 1].user = g[i].user
      BY <3>1
    <3>3. g[k - 1] \in ModelType /\ g[k] = ApplyField(g[k - 1], s[k])
      BY <3>1
    <3>4. s[k] \in RecordNode /\ s[k].name # "accounts"
      BY <2>2
    <3>5. \A x \in ModelType, node \in RecordNode :
             node.name # "accounts" =>
                /\ ApplyField(x, node).root = x.root
                /\ ApplyField(x, node).user = x.user
      BY FieldStep
    <3>6. g[k].root = g[k - 1].root /\ g[k].user = g[k - 1].user
      <4> HIDE DEF n
      <4> QED BY <3>3, <3>4, <3>5
    <3> QED BY <3>2, <3>6
  <2>3. k = i \/ i < k
    OBVIOUS
  <2> QED BY <2>1, <2>2, <2>3
<1> HIDE DEF P
<1>4. 0..n \subseteq P
  <2> HIDE DEF n
  <2> QED BY <1>1, <1>2, <1>3, Upwards
<1> QED BY <1>4 DEF P

\* The kids of a node whose name no earlier node has.
LEMMA KidsIs ==
    ASSUME NEW T, NEW s \in Seq(T), NEW name, NEW i \in 1..Len(s), s[i].name = name,
           \A j \in 1..Len(s) : j < i => s[j].name # name
    PROVE  Has(s, name) /\ KidsOf(s, name) = s[i].kids
<1> DEFINE S == Places(s, name)
<1>1. DOMAIN s = 1..Len(s) /\ S \subseteq Nat /\ i \in S
  BY DEF Places
<1>2. First(S) \in S /\ First(S) <= i
  BY <1>1, FirstIs
<1>3. First(S) \in 1..Len(s) /\ s[First(S)].name = name
  BY <1>1, <1>2 DEF Places
<1>4. ~(First(S) < i)
  <2> HIDE DEF S
  <2> QED BY <1>3
<1>5. First(S) = i
  <2> HIDE DEF S
  <2> QED BY <1>2, <1>3, <1>4
<1>6. S # {}
  BY <1>1
<1>7. First(S) = i
  BY <1>5
<1> QED BY <1>6, <1>7 DEF Has, KidsOf

\* A document of one node.
LEMMA OneNode ==
    ASSUME NEW name, NEW kids
    PROVE  /\ KidsOf(<<Block(name, kids)>>, name) = kids
           /\ \A other : Has(<<Block(name, kids)>>, other) <=> other = name
<1> DEFINE b == Block(name, kids)
           s == <<b>>
<1>1. s \in Seq({b}) /\ Len(s) = 1 /\ s[1] = b /\ DOMAIN s = {1}
  OBVIOUS
<1>2. b.name = name /\ b.kids = kids
  BY DEF Block
<1>3. KidsOf(s, name) = kids
  <2>1. 1 \in 1..Len(s) /\ s[1].name = name /\ \A j \in 1..Len(s) : ~(j < 1)
    BY <1>1, <1>2
  <2> HIDE DEF s, b
  <2> QED BY <1>1, <1>2, <2>1, KidsIs
<1>4. \A other : Has(s, other) <=> other = name
  <2> HIDE DEF s, b
  <2> QED BY <1>1, <1>2 DEF Has, Places
<1> QED BY <1>3, <1>4

\* A system-model as it is written lists the packages and nothing of an installer.
LEMMA SystemModelReads ==
    ASSUME NEW s \in SystemModels
    PROVE  /\ Has(s, "packages") /\ ~IsInstallModel(s)
           /\ \A m : ApplySystemModel(m, s) = [m EXCEPT !.packages = Names(KidsOf(s, "packages"))]
           /\ \E p \in Seq(Package) : s = <<RepositoriesNode, PackagesNode(p)>>
           /\ \A p \in Seq(Package) :
                 s = <<RepositoriesNode, PackagesNode(p)>>
                     => Names(KidsOf(s, "packages")) = p
           /\ Names(KidsOf(s, "packages")) \in Seq(Package)
<1>1. PICK p \in Seq(Package) : s = <<RepositoriesNode, PackagesNode(p)>>
  BY DEF SystemModels
<1>2. RepositoriesNode.name = "repositories"
  BY DEF RepositoriesNode, Block
<1>3. ASSUME NEW o \in Seq(Package)
      PROVE  /\ PackagesNode(o).name = "packages"
             /\ Names(PackagesNode(o).kids) = o
  <2>1. PackagesNode(o).name = "packages"
    BY DEF PackagesNode, Block
  <2>2. PackagesNode(o).kids = [i \in DOMAIN o |-> Leaf(o[i], Absent)]
    BY DEF PackagesNode, Block
  <2>3. \A i \in DOMAIN o : Leaf(o[i], Absent).name = o[i]
    BY DEF Leaf
  <2>4. o = [i \in DOMAIN o |-> o[i]]
    OBVIOUS
  <2> QED BY <2>1, <2>2, <2>3, <2>4 DEF Names
<1> DEFINE a == RepositoriesNode
           b == PackagesNode(p)
<1>4. s \in Seq({a, b}) /\ Len(s) = 2 /\ s[1] = a /\ s[2] = b /\ DOMAIN s = 1..2
  BY <1>1
<1>5. Has(s, "packages") /\ KidsOf(s, "packages") = b.kids
  <2>1. 2 \in 1..Len(s) /\ s[2].name = "packages" /\ \A j \in 1..Len(s) : j < 2 => s[j].name # "packages"
    BY <1>2, <1>3, <1>4
  <2> HIDE DEF a, b
  <2>2. Has(s, "packages") /\ KidsOf(s, "packages") = s[2].kids
    BY <1>4, <2>1, KidsIs
  <2> QED BY <1>4, <2>2
<1>6. ~IsInstallModel(s)
  <2>1. \A j \in DOMAIN s : s[j].name # "install-model"
    BY <1>2, <1>3, <1>4
  <2> QED BY <2>1 DEF IsInstallModel, Has, Places
<1>7. \A m : ApplySystemModel(m, s) = [m EXCEPT !.packages = Names(KidsOf(s, "packages"))]
  BY <1>5 DEF ApplySystemModel, ApplyPackages
<1>8. \A o \in Seq(Package) :
         s = <<RepositoriesNode, PackagesNode(o)>> => PackagesNode(o) = b
  BY <1>4
<1> HIDE DEF b
<1>9. Names(KidsOf(s, "packages")) = p
  BY <1>3, <1>5 DEF b
<1>10. \A o \in Seq(Package) :
          s = <<RepositoriesNode, PackagesNode(o)>>
              => Names(KidsOf(s, "packages")) = o
  BY <1>3, <1>5, <1>8
<1> QED BY <1>1, <1>5, <1>6, <1>7, <1>9, <1>10

\* The accounts of a model are read as they were written.
LEMMA AccountsRead ==
    ASSUME NEW m \in ModelType, NEW x \in ModelType,
           x.root = Absent, x.user = Absent
    PROVE  /\ AccountNodes(m) \in Seq(AccountNode)
           /\ AccountNodes(m) = <<>> <=> m.root = Absent /\ m.user = Absent
           /\ ApplyAccounts(x, AccountNodes(m)).root = m.root
           /\ ApplyAccounts(x, AccountNodes(m)).user = m.user
<1> DEFINE R == Account("root", [hash |-> m.root])
           U == Account("user", m.user)
           s == AccountNodes(m)
<1>1. m.root \in Text \cup {Absent} /\ m.user \in UserType \cup {Absent}
  BY DEF ModelType
<1>2. m.root # Absent => R \in AccountNode
  BY <1>1 DEF AccountNode
<1>3. m.user # Absent => U \in AccountNode
  BY <1>1 DEF AccountNode
<1>4. ASSUME NEW y \in ModelType, m.root # Absent
      PROVE  ApplyAccount(y, R).root = m.root /\ ApplyAccount(y, R).user = y.user
  <2>1. ApplyAccount(y, R) = [y EXCEPT !.root = m.root]
    BY <1>1, <1>4, AccountStep
  <2> QED BY <2>1 DEF ModelType
<1>5. ASSUME NEW y \in ModelType, m.user # Absent
      PROVE  ApplyAccount(y, U).user = m.user /\ ApplyAccount(y, U).root = y.root
  <2>1. ApplyAccount(y, U) = [y EXCEPT !.user = m.user]
    BY <1>1, <1>5, AccountStep
  <2> QED BY <2>1 DEF ModelType
<1>6. <<R>> \o <<U>> = <<R, U>>
  <2> HIDE DEF R, U
  <2> DEFINE T == {R, U}
  <2>1. /\ <<R>> \in Seq(T) /\ <<U>> \in Seq(T) /\ <<R, U>> \in Seq(T)
        /\ Len(<<R>>) = 1 /\ Len(<<U>>) = 1 /\ Len(<<R, U>>) = 2
        /\ <<R>>[1] = R /\ <<U>>[1] = U /\ <<R, U>>[1] = R /\ <<R, U>>[2] = U
    OBVIOUS
  <2> HIDE DEF T
  <2> DEFINE a == <<R>>
             b == <<U>>
             c == <<R, U>>
  <2> HIDE DEF a, b, c
  <2>2. a \o b \in Seq(T) /\ Len(a \o b) = 2 /\ (a \o b)[1] = R /\ (a \o b)[2] = U
    BY <2>1, ConcatProperties DEF a, b
  <2>3. \A k \in 1..2 : k = 1 \/ k = 2
    OBVIOUS
  <2>4. \A k \in 1..Len(c) : (a \o b)[k] = c[k]
    BY <2>1, <2>2, <2>3 DEF c
  <2>5. a \o b = c
    BY <2>1, <2>2, <2>4, SeqEqual DEF c
  <2> QED BY <2>5 DEF a, b, c
<1>7. s = (IF m.root = Absent THEN <<>> ELSE <<R>>) \o (IF m.user = Absent THEN <<>> ELSE <<U>>)
  BY DEF AccountNodes
<1>8. CASE m.root = Absent /\ m.user = Absent
  <2>1. s = <<>>
    BY <1>7, <1>8
  <2>2. s \in Seq(AccountNode) /\ Len(s) = 0
    BY <2>1
  <2>3. ApplyAccounts(x, s) = x
    <3> HIDE DEF s
    <3>1. \E g \in [0..Len(s) -> ModelType] : g[0] = x /\ ApplyAccounts(x, s) = g[Len(s)]
      BY <2>2, AccountsRun, ZenonT(60)
    <3> QED BY <2>2, <3>1
  <2> QED BY <1>8, <2>1, <2>2, <2>3
<1>9. CASE m.root # Absent /\ m.user = Absent
  <2>1. s = <<R>>
    BY <1>7, <1>9
  <2>2. s \in Seq(AccountNode) /\ Len(s) = 1 /\ s[1] = R /\ s # <<>>
    BY <1>2, <1>9, <2>1
  <2>3. ApplyAccounts(x, s) = ApplyAccount(x, R)
    <3> HIDE DEF s, R
    <3> QED BY <2>2, AccountsRun
  <2> HIDE DEF R
  <2> QED BY <1>4, <1>9, <2>2, <2>3
<1>10. CASE m.root = Absent /\ m.user # Absent
  <2>1. s = <<U>>
    BY <1>7, <1>10
  <2>2. s \in Seq(AccountNode) /\ Len(s) = 1 /\ s[1] = U /\ s # <<>>
    BY <1>3, <1>10, <2>1
  <2>3. ApplyAccounts(x, s) = ApplyAccount(x, U)
    <3> HIDE DEF s, U
    <3> QED BY <2>2, AccountsRun
  <2> HIDE DEF U
  <2> QED BY <1>5, <1>10, <2>2, <2>3
<1>11. CASE m.root # Absent /\ m.user # Absent
  <2>1. s = <<R, U>>
    <3> HIDE DEF s, R, U
    <3> QED BY <1>6, <1>7, <1>11
  <2>2. s \in Seq(AccountNode) /\ Len(s) = 2 /\ s[1] = R /\ s[2] = U /\ s # <<>>
    BY <1>2, <1>3, <1>11, <2>1
  <2>3. PICK g \in [0..2 -> ModelType] :
           /\ g[0] = x /\ ApplyAccounts(x, s) = g[2]
           /\ \A k \in 1..2 : g[k] = ApplyAccount(g[k - 1], s[k])
    <3> HIDE DEF s, R, U
    <3> QED BY <2>2, AccountsRun
  <2>4. g[1] = ApplyAccount(x, R) /\ g[2] = ApplyAccount(g[1], U) /\ g[1] \in ModelType
    <3> HIDE DEF s, R, U
    <3> QED BY <2>2, <2>3
  <2> HIDE DEF R, U
  <2>5. g[1].root = m.root /\ g[1].user = Absent
    BY <1>4, <1>11, <2>4
  <2>6. g[2].root = m.root /\ g[2].user = m.user
    BY <1>5, <1>11, <2>4, <2>5
  <2> QED BY <1>11, <2>2, <2>3, <2>6
<1> QED BY <1>8, <1>9, <1>10, <1>11

\* The fields of a model are written under their names, the empty ones not at all.
LEMMA FieldsWritten ==
    ASSUME NEW m \in ModelType
    PROVE  /\ FieldNodes(m) \in Seq(LeafNode)
           /\ \A i \in 1..Len(FieldNodes(m)) :
                 \E f \in Field : m.text[f] # Empty /\ FieldNodes(m)[i] = Leaf(f, m.text[f])
           /\ \A f \in Field : m.text[f] # Empty =>
                 \E i \in 1..Len(FieldNodes(m)) : FieldNodes(m)[i] = Leaf(f, m.text[f])
<1> DEFINE o == FieldOrder
           all == [i \in DOMAIN o |-> Leaf(o[i], m.text[o[i]])]
           S == {i \in DOMAIN o : m.text[o[i]] # Empty}
<1>1. DOMAIN o = 1..5 /\ \A i \in 1..5 : o[i] \in Field
  BY DEF FieldOrder, Field
<1>2. \A f \in Field : \E i \in 1..5 : o[i] = f
  BY DEF FieldOrder, Field
<1> HIDE DEF o
<1>3. m.text \in [Field -> Text]
  BY DEF ModelType
<1>4. \A f \in Field : Leaf(f, m.text[f]) \in LeafNode
  BY <1>3 DEF LeafNode
<1>5. all \in Seq(LeafNode) /\ DOMAIN all = 1..5 /\ \A i \in 1..5 : all[i] = Leaf(o[i], m.text[o[i]])
  <2>1. all \in [1..5 -> LeafNode]
    BY <1>1, <1>4
  <2> QED BY <1>1, <2>1
<1>6. S \subseteq DOMAIN all
  BY <1>1
<1>7. FieldNodes(m) = Pick(all, S)
  <2>1. FieldNodes(m) = Pick(all, S)
    BY DEF FieldNodes, o
  <2> QED BY <2>1
<1> HIDE DEF all
<1>8. /\ Pick(all, S) \in Seq(LeafNode) /\ Len(Pick(all, S)) = Cardinality(S)
      /\ \A k \in 1..Cardinality(S) : InOrder(S)[k] \in S /\ Pick(all, S)[k] = all[InOrder(S)[k]]
      /\ \A i \in S : \E k \in 1..Cardinality(S) : InOrder(S)[k] = i /\ Pick(all, S)[k] = all[i]
  <2> HIDE DEF S
  <2> QED BY <1>5, <1>6, PickIs
<1>9. \A i \in S : i \in 1..5 /\ m.text[o[i]] # Empty
  BY <1>1
<1>10. \A i \in 1..5 : m.text[o[i]] # Empty => i \in S
  BY <1>1
<1> HIDE DEF S
<1>11. ASSUME NEW k \in 1..Cardinality(S)
       PROVE  \E f \in Field : m.text[f] # Empty /\ Pick(all, S)[k] = Leaf(f, m.text[f])
  <2> DEFINE i == InOrder(S)[k]
  <2>1. i \in S /\ Pick(all, S)[k] = all[i]
    BY <1>8
  <2>2. i \in 1..5 /\ m.text[o[i]] # Empty
    BY <1>9, <2>1
  <2> HIDE DEF i
  <2>3. all[i] = Leaf(o[i], m.text[o[i]]) /\ o[i] \in Field
    BY <1>1, <1>5, <2>2
  <2> QED BY <2>1, <2>2, <2>3
<1>12. ASSUME NEW f \in Field, m.text[f] # Empty
       PROVE  \E k \in 1..Cardinality(S) : Pick(all, S)[k] = Leaf(f, m.text[f])
  <2>1. PICK i \in 1..5 : o[i] = f
    BY <1>2, <1>12
  <2>2. i \in S /\ all[i] = Leaf(f, m.text[f])
    BY <1>5, <1>10, <1>12, <2>1
  <2> QED BY <1>8, <2>2
<1> QED BY <1>7, <1>8, <1>11, <1>12

\* The names of the nodes of a record.
LEMMA NamesAre ==
    /\ "accounts" \notin Field /\ "system-model" \notin Field
    /\ "accounts" # "system-model"
    /\ \A f, a : Leaf(f, a).name = f /\ Leaf(f, a).arg = a
    /\ \A f, s : /\ Block(f, s).name = f /\ Block(f, s).arg = Absent
                 /\ Block(f, s).kids = s
BY DEF Field, Leaf, Block

LEMMA ModelEqual ==
    ASSUME NEW x \in ModelType, NEW y \in ModelType, x.text = y.text, x.packages = y.packages,
           x.root = y.root, x.user = y.user, x.imported = y.imported
    PROVE  x = y
BY DEF ModelType

LEMMA DefaultIsModel ==
    /\ DefaultModel \in ModelType /\ DefaultModel.text = DefaultOf
    /\ DefaultModel.packages = <<>> /\ DefaultModel.imported = FALSE
    /\ DefaultModel.root = Absent /\ DefaultModel.user = Absent
BY DocumentsAssumption DEF DefaultModel, ModelType

\* A record as it is written: the fields, the accounts if there are any, the
\* system-model.
IsWritten(m, kids, a, b) ==
    /\ ToKdl(m) = <<Block("install-model", kids)>>
    /\ Len(kids) = a + b + 1
    /\ \A i \in 1..a : \E f \in Field : m.text[f] # Empty /\ kids[i] = Leaf(f, m.text[f])
    /\ \A f \in Field : m.text[f] # Empty => \E i \in 1..a : kids[i] = Leaf(f, m.text[f])
    /\ b = 0 <=> AccountNodes(m) = <<>>
    /\ b = 1 => kids[a + 1] = Block("accounts", AccountNodes(m))
    /\ kids[a + b + 1] = Block("system-model", SystemModelDocument(m))

LEMMA Written ==
    ASSUME NEW m \in ModelType
    PROVE  /\ SystemModelDocument(m) \in SystemModels
           /\ SystemModelDocument(m) = <<RepositoriesNode, PackagesNode(m.packages)>>
           /\ m.packages \in Seq(Package)
           /\ \E kids \in Seq(RecordNode), a \in Nat, b \in {0, 1} : IsWritten(m, kids, a, b)
<1> DEFINE fn == FieldNodes(m)
           an == AccountNodes(m)
           d == SystemModelDocument(m)
           A == Block("accounts", an)
           B == Block("system-model", d)
           ab == IF an = <<>> THEN <<>> ELSE <<A>>
           sb == <<B>>
           kids == (fn \o ab) \o sb
           T == RecordNode
<1>1. d = <<RepositoriesNode, PackagesNode(m.packages)>> /\ m.packages \in Seq(Package)
  BY DEF SystemModelDocument, ModelType
<1>2. d \in SystemModels
  BY <1>1 DEF SystemModels
<1>3. B \in T
  BY <1>2 DEF RecordNode, SystemNode
<1>4. A \in T
  <2>1. an \in Seq(AccountNode)
    <3>1. /\ DefaultModel \in ModelType
          /\ DefaultModel.root = Absent /\ DefaultModel.user = Absent
      BY DefaultIsModel
    <3> QED BY <3>1, AccountsRead
  <2> HIDE DEF an
  <2> QED BY <2>1 DEF RecordNode, AccountsNode
<1>5. fn \in Seq(T)
  <2>1. fn \in Seq(LeafNode)
    BY FieldsWritten
  <2> HIDE DEF fn
  <2> QED BY <2>1 DEF RecordNode
<1>6. ToKdl(m) = <<Block("install-model", kids)>>
  BY DEF ToKdl
<1> HIDE DEF A, B, T
<1>7. sb \in Seq(T) /\ Len(sb) = 1 /\ sb[1] = B
  BY <1>3
<1> HIDE DEF fn, an, d
<1>8. \E b \in {0, 1} : /\ ab \in Seq(T) /\ Len(ab) = b /\ (b = 0 <=> an = <<>>)
                        /\ b = 1 => ab[1] = A
  <2>1. CASE an = <<>>
    BY <2>1
  <2>2. CASE an # <<>>
    BY <1>4, <2>2
  <2> QED BY <2>1, <2>2
<1> HIDE DEF sb, ab
<1>9. PICK b \in {0, 1} : ab \in Seq(T) /\ Len(ab) = b /\ (b = 0 <=> an = <<>>) /\ (b = 1 => ab[1] = A)
  BY <1>8
<1> DEFINE a == Len(fn)
<1>10. a \in Nat /\ b \in Nat
  BY <1>5
<1>11. /\ fn \o ab \in Seq(T) /\ Len(fn \o ab) = a + b
       /\ \A i \in 1..a : (fn \o ab)[i] = fn[i]
       /\ b = 1 => (fn \o ab)[a + 1] = ab[1]
  <2>1. /\ fn \o ab \in Seq(T) /\ Len(fn \o ab) = a + b
        /\ \A i \in 1..(a + b) : (fn \o ab)[i] = IF i <= a THEN fn[i] ELSE ab[i - a]
    BY <1>5, <1>9, ConcatProperties
  <2> HIDE DEF a
  <2>2. \A i \in 1..a : i \in 1..(a + b) /\ i <= a
    BY <1>10
  <2>3. b = 1 => a + 1 \in 1..(a + b) /\ ~(a + 1 <= a) /\ (a + 1) - a = 1
    BY <1>10
  <2> QED BY <2>1, <2>2, <2>3
<1>12. /\ kids \in Seq(T) /\ Len(kids) = a + b + 1
       /\ \A i \in 1..(a + b) : kids[i] = (fn \o ab)[i]
       /\ kids[a + b + 1] = sb[1]
  <2>1. /\ kids \in Seq(T) /\ Len(kids) = (a + b) + 1
        /\ \A i \in 1..((a + b) + 1) : kids[i] = IF i <= a + b THEN (fn \o ab)[i] ELSE sb[i - (a + b)]
    <3> HIDE DEF a
    <3>1. \A c, e \in Seq(T) :
             /\ c \o e \in Seq(T) /\ Len(c \o e) = Len(c) + Len(e)
             /\ \A i \in 1..(Len(c) + Len(e)) : (c \o e)[i] = IF i <= Len(c) THEN c[i] ELSE e[i - Len(c)]
      BY ConcatProperties
    <3> DEFINE c == fn \o ab
               l == a + b
    <3>2. c \in Seq(T) /\ Len(c) = l
      BY <1>11
    <3> HIDE DEF kids, c, l
    <3>3. /\ c \o sb \in Seq(T) /\ Len(c \o sb) = Len(c) + Len(sb)
          /\ \A i \in 1..(Len(c) + Len(sb)) :
                (c \o sb)[i] = IF i <= Len(c) THEN c[i] ELSE sb[i - Len(c)]
      BY <1>7, <3>1, <3>2
    <3>4. /\ c \o sb \in Seq(T) /\ Len(c \o sb) = l + 1
          /\ \A i \in 1..(l + 1) : (c \o sb)[i] = IF i <= l THEN c[i] ELSE sb[i - l]
      BY <1>7, <3>2, <3>3
    <3> QED BY <3>4 DEF c, l, kids
  <2> HIDE DEF a, kids
  <2>2. \A i \in 1..(a + b) : i \in 1..((a + b) + 1) /\ i <= a + b
    BY <1>10
  <2>3. /\ a + b + 1 \in 1..((a + b) + 1) /\ ~(a + b + 1 <= a + b)
        /\ (a + b + 1) - (a + b) = 1 /\ (a + b) + 1 = a + b + 1
    BY <1>10
  <2> QED BY <2>1, <2>2, <2>3
<1> HIDE DEF kids
<1>13. \A i \in 1..a : kids[i] = fn[i]
  <2> HIDE DEF a
  <2>1. \A i \in 1..a : i \in 1..(a + b)
    BY <1>10
  <2> QED BY <1>11, <1>12, <2>1
<1>14. b = 1 => kids[a + 1] = A
  <2> HIDE DEF a
  <2>1. b = 1 => a + 1 \in 1..(a + b)
    BY <1>10
  <2> QED BY <1>9, <1>11, <1>12, <2>1
<1>15. /\ \A i \in 1..a : \E f \in Field : m.text[f] # Empty /\ fn[i] = Leaf(f, m.text[f])
       /\ \A f \in Field : m.text[f] # Empty => \E i \in 1..a : fn[i] = Leaf(f, m.text[f])
  BY FieldsWritten DEF fn
<1> HIDE DEF a
<1>16. IsWritten(m, kids, a, b)
  <2>1. \A i \in 1..a : \E f \in Field : m.text[f] # Empty /\ kids[i] = Leaf(f, m.text[f])
    BY <1>13, <1>15
  <2>2. \A f \in Field : m.text[f] # Empty => \E i \in 1..a : kids[i] = Leaf(f, m.text[f])
    BY <1>13, <1>15
  <2>3. kids[a + b + 1] = B
    BY <1>7, <1>12
  <2> QED BY <1>6, <1>9, <1>12, <1>14, <2>1, <2>2, <2>3 DEF IsWritten, an, d, A, B
<1>17. kids \in Seq(RecordNode)
  BY <1>12 DEF T
<1>18. \E k \in Seq(RecordNode), c \in Nat, e \in {0, 1} : IsWritten(m, k, c, e)
  BY <1>10, <1>16, <1>17
<1> QED BY <1>1, <1>2, <1>18 DEF d

\* What an installation makes of a record.
LEMMA RecordReads ==
    ASSUME NEW kids
    PROVE  LET doc == <<Block("install-model", kids)>>
           IN  /\ IsInstallModel(doc) /\ KidsOf(doc, "install-model") = kids
               /\ \A m : ApplyInstallModel(m, doc) =
                     ApplyPackages(ApplyFields(m, kids), KidsOf(kids, "system-model"))
               /\ FromKdl(doc) = ApplyInstallModel(DefaultModel, doc)
<1> DEFINE doc == <<Block("install-model", kids)>>
<1>1. Has(doc, "install-model") /\ KidsOf(doc, "install-model") = kids
  BY OneNode
<1> HIDE DEF doc
<1>2. \A m : ApplyInstallModel(m, doc) =
               ApplyPackages(ApplyFields(m, kids), KidsOf(kids, "system-model"))
  BY <1>1 DEF ApplyInstallModel
<1>3. FromKdl(doc) = ApplyInstallModel(DefaultModel, doc)
  BY <1>1 DEF FromKdl, IsInstallModel
<1> QED BY <1>1, <1>2, <1>3 DEF doc, IsInstallModel

\* The fields, the accounts and the packages of a record as it is written.
LEMMA WrittenReads ==
    ASSUME NEW m \in ModelType, Complete(m),
           NEW kids \in Seq(RecordNode), NEW a \in Nat, NEW b \in {0, 1}, IsWritten(m, kids, a, b)
    PROVE  LET r == ApplyFields(DefaultModel, kids)
           IN  /\ r \in ModelType /\ r.text = m.text /\ r.root = m.root /\ r.user = m.user
               /\ r.packages = <<>> /\ r.imported = FALSE
<1> DEFINE r == ApplyFields(DefaultModel, kids)
           n == Len(kids)
           M == ModelType
           an == AccountNodes(m)
<1>1. /\ r \in M /\ r.packages = <<>> /\ r.imported = FALSE
      /\ \A f \in Field : Reads(kids, f, n, DefaultOf[f], r.text[f])
  <2> DEFINE d == DefaultModel
  <2>1. d \in M /\ d.text = DefaultOf /\ d.packages = <<>> /\ d.imported = FALSE
    BY DefaultIsModel
  <2> HIDE DEF d
  <2>2. LET x == ApplyFields(d, kids)
        IN  /\ x \in M /\ x.packages = d.packages /\ x.imported = d.imported
            /\ \A f \in Field : Reads(kids, f, Len(kids), d.text[f], x.text[f])
    BY <2>1, FieldsKept
  <2> QED BY <2>1, <2>2 DEF d
<1>2. n = a + b + 1 /\ n \in Nat /\ a + 1 \in 1..n /\ a + b + 1 \in 1..n
  BY DEF IsWritten
<1>3. \A i \in 1..n : i \in 1..a \/ (i = a + 1 /\ b = 1) \/ i = a + b + 1
  BY <1>2
<1>4. \A i \in 1..a : \E f \in Field : m.text[f] # Empty /\ kids[i] = Leaf(f, m.text[f])
  BY DEF IsWritten
<1>5. b = 1 => kids[a + 1].name = "accounts" /\ kids[a + 1].kids = an
  BY NamesAre DEF IsWritten
<1>6. kids[a + b + 1].name = "system-model"
  BY NamesAre DEF IsWritten
<1>7. m.text \in [Field -> Text] /\ r.text \in [Field -> Text] /\ Absent \notin Text
  BY <1>1, DocumentsAssumption DEF ModelType
<1> HIDE DEF r, n, M, an
\* The only strings of the record are those of the fields.
<1>8. \A i \in 1..n, f \in Field :
         IsString(kids[i], f) => m.text[f] # Empty /\ kids[i].arg = m.text[f]
  <2> SUFFICES ASSUME NEW i \in 1..n, NEW f \in Field, kids[i].name = f
               PROVE  m.text[f] # Empty /\ kids[i].arg = m.text[f]
    BY DEF IsString
  <2>1. i \in 1..a
    BY <1>3, <1>5, <1>6, NamesAre
  <2>2. PICK h \in Field : m.text[h] # Empty /\ kids[i] = Leaf(h, m.text[h])
    BY <1>4, <2>1
  <2>3. h = f /\ kids[i].arg = m.text[h]
    BY <2>2, NamesAre
  <2> QED BY <2>2, <2>3
<1>9. ASSUME NEW f \in Field
      PROVE  r.text[f] = m.text[f]
  <2>1. CASE m.text[f] # Empty
    <3>1. PICK i \in 1..a : kids[i] = Leaf(f, m.text[f])
      BY <2>1 DEF IsWritten
    <3>2. i \in 1..n /\ IsString(kids[i], f)
      BY <1>2, <1>7, <3>1, NamesAre DEF IsString
    <3> QED BY <1>1, <1>8, <3>2 DEF Reads
  <2>2. CASE m.text[f] = Empty
    <3>1. \A i \in 1..n : ~IsString(kids[i], f)
      BY <1>8, <2>2
    <3>2. r.text[f] = DefaultOf[f]
      BY <1>1, <3>1 DEF Reads
    <3>3. f \in {"strategy", "disk", "desktop"}
      BY <2>2 DEF Complete, Field
    <3> QED BY <2>2, <3>2, <3>3, DocumentsAssumption
  <2> QED BY <2>1, <2>2
<1>10. r.text = m.text
  BY <1>7, <1>9
<1>11. r.root = m.root /\ r.user = m.user
  <2> DEFINE d == DefaultModel
  <2>1. d \in M /\ d.root = Absent /\ d.user = Absent
    BY DefaultIsModel DEF M
  <2> HIDE DEF d
  <2>2. PICK g \in [0..n -> M] :
           /\ g[0] = d /\ ApplyFields(d, kids) = g[n]
           /\ \A k \in 1..n : g[k] = ApplyField(g[k - 1], kids[k])
    BY <2>1, FieldsRun DEF M, n
  <2>3. r = g[n]
    BY <2>2 DEF r, d
  <2>4. \A i \in 1..a : kids[i].name # "accounts"
    BY <1>4, NamesAre
  <2>5. 0 \in 0..n /\ a \in 0..n /\ n \in 0..n /\ a + 1 \in 0..n
    BY <1>2
  <2>6. CASE b = 0
    <3>1. \A k \in 1..n : kids[k].name # "accounts"
      BY <1>3, <1>6, <2>4, <2>6, NamesAre
    <3>2. g[n].root = g[0].root /\ g[n].user = g[0].user
      <4>1. \A k \in 0..n : 0 <= k /\ k <= n => g[k].root = g[0].root /\ g[k].user = g[0].user
        BY <2>2, <2>5, <3>1, NoAccounts, SMTT(30) DEF M, n
      <4> QED BY <1>2, <2>5, <4>1
    <3>3. an = <<>>
      BY <2>6 DEF IsWritten, an
    <3>4. m.root = Absent /\ m.user = Absent
      BY <2>1, <3>3, AccountsRead DEF an, M
    <3> QED BY <2>1, <2>2, <2>3, <3>2, <3>4
  <2>7. CASE b = 1
    <3>1. g[a].root = Absent /\ g[a].user = Absent
      <4>1. \A k \in 1..n : 0 < k /\ k <= a => kids[k].name # "accounts"
        <5>1. \A k \in 1..n : 0 < k /\ k <= a => k \in 1..a
          BY <1>2
        <5> QED BY <2>4, <5>1
      <4>2. g \in [0..Len(kids) -> ModelType] /\ kids \in Seq(RecordNode)
        BY <2>2 DEF M, n
      <4>3. \A k \in 0..n : 0 <= k /\ k <= a => g[k].root = g[0].root /\ g[k].user = g[0].user
        BY <2>2, <2>5, <4>1, <4>2, NoAccounts DEF n
      <4> QED BY <1>2, <2>1, <2>2, <2>5, <4>3
    <3>2. g[a + 1] = ApplyAccounts(g[a], an)
      <4>1. a + 1 \in 1..n /\ (a + 1) - 1 = a /\ g[a] \in M /\ kids[a + 1] \in RecordNode
        BY <1>2, <2>2, <2>5 DEF n
      <4>2. g[a + 1] = ApplyField(g[a], kids[a + 1])
        BY <2>2, <4>1
      <4>3. \A x \in M, node \in RecordNode :
               node.name = "accounts" => ApplyField(x, node) = ApplyAccounts(x, node.kids)
        BY FieldStep DEF M
      <4> QED BY <1>5, <2>7, <4>1, <4>2, <4>3
    <3>3. g[a + 1].root = m.root /\ g[a + 1].user = m.user
      <4>1. g[a] \in M
        BY <2>2, <2>5
      <4>2. \A x \in M : x.root = Absent /\ x.user = Absent =>
               ApplyAccounts(x, an).root = m.root /\ ApplyAccounts(x, an).user = m.user
        BY AccountsRead DEF M, an
      <4> QED BY <3>1, <3>2, <4>1, <4>2
    <3>4. g[n].root = g[a + 1].root /\ g[n].user = g[a + 1].user
      <4>1. \A k \in 1..n : a + 1 < k /\ k <= n => kids[k].name # "accounts"
        <5>1. \A k \in 1..n : a + 1 < k => k = a + b + 1
          BY <1>2, <1>3
        <5> QED BY <1>6, <5>1, NamesAre
      <4>2. \A k \in 0..n : a + 1 <= k /\ k <= n => g[k].root = g[a + 1].root /\ g[k].user = g[a + 1].user
        BY <2>2, <2>5, <4>1, NoAccounts, ZenonT(60) DEF M, n
      <4> QED BY <1>2, <2>5, <4>2
    <3> QED BY <2>3, <3>3, <3>4
  <2> QED BY <2>6, <2>7
<1> QED BY <1>1, <1>10, <1>11 DEF r, M

\* The system-model that is nested in a record as it is written.
LEMMA NestedWritten ==
    ASSUME NEW m \in ModelType, NEW kids \in Seq(RecordNode),
           NEW a \in Nat, NEW b \in {0, 1}, IsWritten(m, kids, a, b)
    PROVE  KidsOf(kids, "system-model") = SystemModelDocument(m)
<1> DEFINE s == SystemModelDocument(m)
           l == a + b + 1
<1>1. l \in 1..Len(kids) /\ Len(kids) = l /\ kids[l] = Block("system-model", s)
  BY DEF IsWritten
<1>2. kids[l].name = "system-model" /\ kids[l].kids = s
  BY <1>1, NamesAre
<1>3. \A j \in 1..Len(kids) : j < l => kids[j].name # "system-model"
  <2>1. \A j \in 1..Len(kids) : j < l => j \in 1..a \/ (j = a + 1 /\ b = 1)
    BY <1>1
  <2>2. b = 1 => kids[a + 1].name = "accounts"
    BY NamesAre DEF IsWritten
  <2>3. \A j \in 1..a : kids[j].name \in Field
    BY NamesAre DEF IsWritten
  <2> QED BY <2>1, <2>2, <2>3, NamesAre
<1> HIDE DEF l
<1> QED BY <1>1, <1>2, <1>3, KidsIs

\* What is written for a model reads as that model.
LEMMA RoundTripOf ==
    ASSUME NEW m \in ModelType, Complete(m)
    PROVE  FromKdl(ToKdl(m)) = [m EXCEPT !.imported = FALSE]
<1>1. PICK kids \in Seq(RecordNode), a \in Nat, b \in {0, 1} : IsWritten(m, kids, a, b)
  BY Written
<1> DEFINE r == ApplyFields(DefaultModel, kids)
           s == SystemModelDocument(m)
           x == FromKdl(ToKdl(m))
<1>2. /\ r \in ModelType /\ r.text = m.text /\ r.root = m.root /\ r.user = m.user
      /\ r.packages = <<>> /\ r.imported = FALSE
  BY <1>1, WrittenReads
<1> HIDE DEF r
<1>3. KidsOf(kids, "system-model") = s
  BY <1>1, NestedWritten
<1>4. /\ s \in SystemModels /\ s = <<RepositoriesNode, PackagesNode(m.packages)>>
      /\ m.packages \in Seq(Package)
  BY Written
<1> HIDE DEF s
<1>5. ApplyPackages(r, s) = [r EXCEPT !.packages = m.packages]
  <2>1. \A y : ApplySystemModel(y, s) = [y EXCEPT !.packages = Names(KidsOf(s, "packages"))]
    BY <1>4, SystemModelReads
  <2>2. Names(KidsOf(s, "packages")) = m.packages
    BY <1>4, SystemModelReads
  <2>3. ApplySystemModel(r, s) = ApplyPackages(r, s)
    BY DEF ApplySystemModel
  <2> QED BY <2>1, <2>2, <2>3
<1>6. x = [r EXCEPT !.packages = m.packages]
  <2>1. ToKdl(m) = <<Block("install-model", kids)>>
    BY <1>1 DEF IsWritten
  <2>2. x = ApplyPackages(r, s)
    BY <1>3, <2>1, RecordReads DEF r
  <2> QED BY <1>5, <2>2
<1> HIDE DEF x
<1> DEFINE y == [m EXCEPT !.imported = FALSE]
<1>7. x \in ModelType /\ y \in ModelType
  BY <1>2, <1>4, <1>6 DEF ModelType
<1>8. /\ x.text = m.text /\ x.root = m.root /\ x.user = m.user /\ x.packages = m.packages
      /\ x.imported = FALSE
  BY <1>2, <1>6 DEF ModelType
<1>9. /\ y.text = m.text /\ y.root = m.root /\ y.user = m.user /\ y.packages = m.packages
      /\ y.imported = FALSE
  BY DEF ModelType
<1>10. x = y
  <2> HIDE DEF y
  <2> QED BY <1>7, <1>8, <1>9, ModelEqual
<1> QED BY <1>10 DEF x

\* A finite set, in an order of its elements.
LEMMA SetToSeqIs ==
    ASSUME NEW S, IsFiniteSet(S)
    PROVE  SetToSeq(S) \in Seq(S) /\ ToSet(SetToSeq(S)) = S
<1> DEFINE n == Cardinality(S)
           f == CHOOSE g \in [1..n -> S] : IsInjective(g)
<1>1. n \in Nat /\ ExistsBijection(1..n, S)
  BY FS_CardinalityType
<1>2. \E g \in [1..n -> S] : IsInjective(g)
  BY <1>1 DEF ExistsBijection, Bijection, Injection, Surjection, IsInjective, IsInjective
<1>3. f \in [1..n -> S] /\ IsInjective(f)
  <2> HIDE DEF n
  <2> QED BY <1>2
<1>4. SetToSeq(S) = f
  BY DEF SetToSeq
<1> HIDE DEF f, n
<1>5. f \in Injection(1..n, S)
  BY <1>3 DEF Injection, IsInjective, IsInjective
<1>6. Cardinality(1..n) = n
  BY <1>1, FS_Interval
<1>7. f \in Surjection(1..n, S)
  BY <1>5, <1>6, FS_Injection DEF n
<1>8. \A x \in S : \E i \in 1..n : f[i] = x
  BY <1>7 DEF Surjection
<1>9. DOMAIN f = 1..n /\ f \in Seq(S)
  BY <1>1, <1>3
<1>10. ToSet(f) = S
  BY <1>3, <1>8, <1>9 DEF ToSet
<1> QED BY <1>4, <1>9, <1>10

\* The elements of a sequence are finitely many.
LEMMA ToSetIs ==
    ASSUME NEW T, NEW s \in Seq(T)
    PROVE  ToSet(s) \subseteq T /\ IsFiniteSet(ToSet(s))
<1> DEFINE n == Len(s)
           S == ToSet(s)
<1>1. n \in Nat /\ DOMAIN s = 1..n /\ s \in [1..n -> T]
  OBVIOUS
<1>2. S \subseteq T
  BY <1>1 DEF ToSet
<1>3. s \in [1..n -> S] /\ \A x \in S : \E i \in 1..n : s[i] = x
  BY <1>1 DEF ToSet
<1> HIDE DEF n, S
<1>4. s \in Surjection(1..n, S)
  BY <1>3 DEF Surjection
<1>5. IsFiniteSet(1..n)
  BY <1>1, FS_Interval
<1>6. IsFiniteSet(S)
  BY <1>4, <1>5, FS_Surjection
<1> QED BY <1>2, <1>6 DEF S

\* An import has the mandatory packages, and is otherwise what was read.
LEMMA Ensured ==
    ASSUME NEW m \in ModelType
    PROVE  LET x == EnsureMandatory(m)
           IN  /\ x \in ModelType /\ x.text = m.text /\ x.root = m.root /\ x.user = m.user
               /\ ToSet(x.packages) = ToSet(m.packages) \cup Mandatory[m.text.desktop]
<1> DEFINE x == EnsureMandatory(m)
           S == ToSet(m.packages) \cup Mandatory[m.text.desktop]
           q == SetToSeq(S)
<1>1. m.packages \in Seq(Package) /\ m.text.desktop \in Text
  BY DEF ModelType, Field
<1>2. ToSet(m.packages) \subseteq Package /\ IsFiniteSet(ToSet(m.packages))
  BY <1>1, ToSetIs
<1>3. Mandatory[m.text.desktop] \subseteq Package /\ IsFiniteSet(Mandatory[m.text.desktop])
  <2>1. Mandatory[m.text.desktop] \subseteq Package /\ IsFiniteSet(Mandatory[m.text.desktop])
    BY <1>1, DocumentsAssumption
  <2> QED BY <2>1 DEF IsFiniteSet, IsFiniteSet
<1>4. IsFiniteSet(S) /\ S \subseteq Package
  BY <1>2, <1>3, FS_Union
<1>5. q \in Seq(Package) /\ ToSet(q) = S
  <2> HIDE DEF S
  <2>1. q \in Seq(S) /\ ToSet(q) = S
    BY <1>4, SetToSeqIs
  <2> HIDE DEF q
  <2> QED BY <1>4, <2>1
<1>6. x = [m EXCEPT !.imported = TRUE, !.packages = q]
  BY DEF EnsureMandatory
<1> HIDE DEF x, q, S
<1>7. x \in ModelType /\ x.text = m.text /\ x.root = m.root /\ x.user = m.user /\ x.packages = q
  BY <1>5, <1>6 DEF ModelType
<1> QED BY <1>5, <1>7 DEF x, S

\* The record, and the system-model, as they are found on the disk.
IsRecord(doc) == \E kids \in Seq(RecordNode) : doc = <<Block("install-model", kids)>>

LEMMA RecordIs ==
    ASSUME NEW doc, IsRecord(doc)
    PROVE  /\ doc # <<>> /\ Len(doc) = 1 /\ IsInstallModel(doc)
           /\ KidsOf(doc, "install-model") \in Seq(RecordNode)
           /\ doc = <<Block("install-model", KidsOf(doc, "install-model"))>>
           /\ FromKdl(doc) = ApplyInstallModel(DefaultModel, doc)
<1>1. PICK kids \in Seq(RecordNode) : doc = <<Block("install-model", kids)>>
  BY DEF IsRecord
<1>2. /\ IsInstallModel(doc) /\ KidsOf(doc, "install-model") = kids
      /\ FromKdl(doc) = ApplyInstallModel(DefaultModel, doc)
  BY <1>1, RecordReads
<1>3. doc # <<>> /\ Len(doc) = 1
  BY <1>1
<1> QED BY <1>1, <1>2, <1>3

LEMMA NothingIs ==
    /\ \A name : ~Has(<<>>, name) /\ KidsOf(<<>>, name) = <<>>
    /\ ~IsInstallModel(<<>>)
BY DEF Has, Places, KidsOf, IsInstallModel

\* What is nested in a record as its system-model is one, if there is any.
LEMMA NestedIs ==
    ASSUME NEW kids \in Seq(RecordNode)
    PROVE  KidsOf(kids, "system-model") \in SystemModels \cup {<<>>}
<1> DEFINE S == Places(kids, "system-model")
<1>1. CASE S = {}
  BY <1>1 DEF KidsOf, Has
<1>2. CASE S # {}
  <2>1. DOMAIN kids = 1..Len(kids) /\ S \subseteq Nat
    BY DEF Places
  <2>2. First(S) \in S
    BY <1>2, <2>1, FirstIs
  <2> DEFINE node == kids[First(S)]
  <2>3. node \in RecordNode /\ node.name = "system-model"
    BY <2>1, <2>2 DEF Places
  <2>4. KidsOf(kids, "system-model") = node.kids
    BY <1>2 DEF KidsOf, Has
  <2> HIDE DEF node
  <2>5. node \notin LeafNode /\ node \notin AccountsNode
    BY <2>3, NamesAre DEF LeafNode, AccountsNode
  <2>6. PICK s \in SystemModels : node = Block("system-model", s)
    BY <2>3, <2>5 DEF RecordNode, SystemNode
  <2> QED BY <2>4, <2>6, NamesAre
<1> QED BY <1>1, <1>2

\* A system-model changes the packages and nothing else.
LEMMA PackagesKept ==
    ASSUME NEW m \in ModelType, NEW s \in SystemModels \cup {<<>>}
    PROVE  /\ ApplyPackages(m, s) \in ModelType
           /\ ApplyPackages(m, s).text = m.text
           /\ ApplyPackages(m, s).root = m.root
           /\ ApplyPackages(m, s).user = m.user
           /\ s # <<>> => ApplyPackages(m, s).packages = Names(KidsOf(s, "packages"))
<1>1. CASE s = <<>>
  <2>1. ApplyPackages(m, s) = m
    BY <1>1, NothingIs DEF ApplyPackages
  <2> QED BY <1>1, <2>1
<1>2. CASE s \in SystemModels
  <2> DEFINE q == Names(KidsOf(s, "packages"))
  <2>1. q \in Seq(Package) /\ ApplySystemModel(m, s) = [m EXCEPT !.packages = q]
    BY <1>2, SystemModelReads
  <2>2. ApplyPackages(m, s) = [m EXCEPT !.packages = q]
    BY <2>1 DEF ApplySystemModel
  <2> HIDE DEF q
  <2>3. /\ ApplyPackages(m, s) \in ModelType
        /\ ApplyPackages(m, s).text = m.text
        /\ ApplyPackages(m, s).root = m.root
        /\ ApplyPackages(m, s).user = m.user
        /\ ApplyPackages(m, s).packages = q
    BY <2>1, <2>2 DEF ModelType
  <2> QED BY <2>3 DEF q
<1> QED BY <1>1, <1>2

\* An import of a record, or of none, is a model.
LEMMA InstallModelIs ==
    ASSUME NEW doc, doc = <<>> \/ IsRecord(doc)
    PROVE  LET kids == KidsOf(doc, "install-model")
               x == ApplyInstallModel(DefaultModel, doc)
           IN  /\ x \in ModelType
               /\ \A f \in Field : Reads(kids, f, Len(kids), DefaultOf[f], x.text[f])
               /\ kids \in Seq(RecordNode)
               /\ KidsOf(kids, "system-model") # <<>> =>
                     x.packages = Names(KidsOf(KidsOf(kids, "system-model"), "packages"))
<1> DEFINE kids == KidsOf(doc, "install-model")
           d == DefaultModel
           r == ApplyFields(d, kids)
           s == KidsOf(kids, "system-model")
           x == ApplyPackages(r, s)
<1>1. kids \in Seq(RecordNode)
  <2>1. CASE doc = <<>>
    <3>1. kids = <<>>
      BY <2>1, NothingIs
    <3> HIDE DEF kids
    <3> QED BY <3>1
  <2>2. CASE IsRecord(doc)
    BY <2>2, RecordIs
  <2> QED BY <2>1, <2>2
<1>2. ApplyInstallModel(d, doc) = x
  BY DEF ApplyInstallModel
<1>3. d \in ModelType /\ d.text = DefaultOf
  BY DefaultIsModel
<1> HIDE DEF kids, d
<1>4. /\ r \in ModelType
      /\ \A f \in Field : Reads(kids, f, Len(kids), d.text[f], r.text[f])
  BY <1>1, <1>3, FieldsKept
<1>5. s \in SystemModels \cup {<<>>}
  BY <1>1, NestedIs
<1> HIDE DEF r, s
<1>6. /\ x \in ModelType /\ x.text = r.text
      /\ s # <<>> => x.packages = Names(KidsOf(s, "packages"))
  BY <1>4, <1>5, PackagesKept
<1> HIDE DEF x
<1>7. \A f \in Field : Reads(kids, f, Len(kids), DefaultOf[f], x.text[f])
  BY <1>3, <1>4, <1>6
<1> QED BY <1>1, <1>2, <1>6, <1>7 DEF kids, d, s

-----------------------------------------------------------------------------
\* The documents on the disk are what the installer and moss write, give or take
\* the edits; as long as there are none, the system-model in the record is the
\* one on the disk.
DocsInv ==
    /\ model \in ModelType
    /\ record = <<>> \/ IsRecord(record)
    /\ live \in SystemModels \cup {<<>>}
    /\ fresh \in BOOLEAN
    /\ edits \in 0..MaxEdits
    /\ record # <<>> /\ fresh => live # <<>> /\ KidsOf(Fields, "system-model") = live
    /\ MergePrefersLive

\* Of a document that is imported, the form tells what it is.
LEMMA FormsAre ==
    ASSUME DocsInv, NEW doc \in {<<>>, record, live}
    PROVE  /\ IsInstallModel(doc) => IsRecord(doc)
           /\ ~IsInstallModel(doc) => doc \in SystemModels \cup {<<>>}
<1>1. \A s \in SystemModels : ~IsInstallModel(s)
  BY SystemModelReads
<1> QED BY <1>1, NothingIs, RecordIs DEF DocsInv

LEMMA DocsInit ==
    DocumentsInit => DocsInv
<1>1. DefaultModel \in ModelType
  BY DefaultIsModel
<1>2. 0 \in 0..MaxEdits
  BY DocumentsAssumption
<1> SUFFICES ASSUME DocumentsInit PROVE DocsInv
  OBVIOUS
<1>3. MergePrefersLive
  BY DEF DocumentsInit, Nothing, MergePrefersLive
<1> QED BY <1>1, <1>2, <1>3 DEF DocumentsInit, DocsInv

\* A summary that has the documents written leaves the same packages in both.
LEMMA WriteStep ==
    ASSUME DocsInv, Write
    PROVE  DocsInv'
<1>1. /\ record' = ToKdl(model) /\ live' = SystemModelDocument(model) /\ fresh' = TRUE
      /\ model' = model /\ given' = given /\ edits' = edits
  BY DEF Write
<1>2. model \in ModelType
  BY DEF DocsInv
<1>3. PICK kids \in Seq(RecordNode), a \in Nat, b \in {0, 1} : IsWritten(model, kids, a, b)
  BY <1>2, Written
<1>4. live' \in SystemModels /\ live' # <<>>
  <2>1. live' \in SystemModels
    BY <1>1, <1>2, Written
  <2> QED BY <2>1 DEF SystemModels
<1>5. record' = <<Block("install-model", kids)>>
  BY <1>1, <1>3 DEF IsWritten
<1>6. IsRecord(record)'
  BY <1>5 DEF IsRecord
<1>7. Fields' = kids
  BY <1>5, RecordReads DEF Fields
<1>8. KidsOf(kids, "system-model") = live'
  BY <1>1, <1>2, <1>3, NestedWritten
<1>9. MergePrefersLive'
  BY <1>1 DEF DocsInv, MergePrefersLive
<1> QED BY <1>1, <1>4, <1>6, <1>7, <1>8, <1>9 DEF DocsInv

\* An edit of the record leaves nodes that a record can have.
LEMMA RecordEdits ==
    ASSUME DocsInv
    PROVE  /\ \A i \in DOMAIN Fields : RemoveNode(i) => DocsInv'
           /\ RemoveRecord => DocsInv'
           /\ \A field \in Field, arg \in Text \cup {Absent} : AddNode(field, arg) => DocsInv'
<1>1. ASSUME Edited, live' = live, record' = <<>> \/ IsRecord(record)'
      PROVE  DocsInv'
  <2>1. /\ edits < MaxEdits /\ edits' = edits + 1 /\ fresh' = FALSE
        /\ model' = model /\ given' = given
    BY <1>1 DEF Edited
  <2>2. edits' \in 0..MaxEdits
    BY <2>1, DocumentsAssumption DEF DocsInv
  <2>3. MergePrefersLive'
    BY <2>1 DEF DocsInv, MergePrefersLive
  <2> QED BY <1>1, <2>1, <2>2, <2>3 DEF DocsInv
<1>2. Fields \in Seq(RecordNode)
  <2>1. CASE record = <<>>
    <3>1. Fields = <<>>
      BY <2>1, NothingIs DEF Fields
    <3> QED BY <3>1
  <2>2. CASE IsRecord(record)
    BY <2>2, RecordIs DEF Fields
  <2> QED BY <2>1, <2>2 DEF DocsInv
<1>3. ASSUME NEW i \in DOMAIN Fields, RemoveNode(i)
      PROVE  DocsInv'
  <2> DEFINE s == Fields
             q == RemoveAt(s, i)
  <2>1. i \in 1..Len(s) /\ Len(s) \in Nat /\ \A k \in 1..Len(s) : s[k] \in RecordNode
    BY <1>2
  <2> HIDE DEF s
  <2>2. SubSeq(s, 1, i - 1) \in Seq(RecordNode)
    BY <2>1, SubSeqProperties
  <2>3. SubSeq(s, i + 1, Len(s)) \in Seq(RecordNode)
    BY <2>1, SubSeqProperties
  <2>4. q \in Seq(RecordNode)
    BY <2>2, <2>3, ConcatProperties DEF RemoveAt
  <2>5. Edited /\ live' = live /\ record' = <<Block("install-model", q)>>
    BY <1>3 DEF RemoveNode, s
  <2> HIDE DEF q
  <2>6. IsRecord(record)'
    BY <2>4, <2>5 DEF IsRecord
  <2> QED BY <1>1, <2>5, <2>6
<1>4. ASSUME RemoveRecord
      PROVE  DocsInv'
  BY <1>1, <1>4 DEF RemoveRecord
<1>5. ASSUME NEW field \in Field, NEW arg \in Text \cup {Absent}, AddNode(field, arg)
      PROVE  DocsInv'
  <2> DEFINE q == Append(Fields, Leaf(field, arg))
  <2>1. Leaf(field, arg) \in RecordNode
    BY DEF RecordNode, LeafNode
  <2>2. q \in Seq(RecordNode)
    BY <1>2, <2>1
  <2>3. Edited /\ live' = live /\ record' = <<Block("install-model", q)>>
    BY <1>5 DEF AddNode
  <2> HIDE DEF q
  <2>4. IsRecord(record)'
    BY <2>2, <2>3 DEF IsRecord
  <2> QED BY <1>1, <2>3, <2>4
<1> QED BY <1>3, <1>4, <1>5

\* moss writes the packages anew, after what else there is.
LEMMA ChangePackagesStep ==
    ASSUME DocsInv, NEW packages \in {<<p>> : p \in Package} \cup {<<>>},
           ChangePackages(packages)
    PROVE  DocsInv'
<1>1. /\ edits < MaxEdits /\ edits' = edits + 1 /\ fresh' = FALSE
      /\ model' = model /\ given' = given /\ record' = record /\ live # <<>>
      /\ live' = Append(Pick(live, DOMAIN live \ Places(live, "packages")),
                        PackagesNode(packages))
  BY DEF ChangePackages, Edited
<1>2. PICK p \in Seq(Package) : live = <<RepositoriesNode, PackagesNode(p)>>
  BY <1>1 DEF DocsInv, SystemModels
<1> DEFINE a == RepositoriesNode
           b == PackagesNode(p)
           S == DOMAIN live \ Places(live, "packages")
           q == Pick(live, S)
<1>3. live \in Seq({a, b}) /\ DOMAIN live = 1..2 /\ live[1] = a /\ live[2] = b
  BY <1>2
<1>4. a.name = "repositories" /\ b.name = "packages"
  BY DEF RepositoriesNode, PackagesNode, Block
<1>5. S = {1}
  <2> HIDE DEF a, b
  <2> QED BY <1>3, <1>4 DEF Places
<1>6. Cardinality(S) = 1
  BY <1>5, FS_Singleton
<1> HIDE DEF a, b, S
<1>7. q = <<a>>
  <2>1. S \subseteq DOMAIN live
    BY <1>3, <1>5
  <2>2. /\ q \in Seq({a, b}) /\ Len(q) = 1
        /\ \A k \in 1..1 : InOrder(S)[k] \in S /\ q[k] = live[InOrder(S)[k]]
    <3>1. /\ q \in Seq({a, b}) /\ Len(q) = Cardinality(S)
          /\ \A k \in 1..Cardinality(S) : InOrder(S)[k] \in S /\ q[k] = live[InOrder(S)[k]]
      BY <1>3, <2>1, PickIs
    <3> HIDE DEF q
    <3> QED BY <1>6, <3>1
  <2> HIDE DEF q
  <2>3. q[1] = a
    BY <1>3, <1>5, <2>2
  <2> QED BY <2>2, <2>3
<1>8. live' = <<a, PackagesNode(packages)>>
  <2> DEFINE z == PackagesNode(packages)
             T == {a, z}
             r == <<a, z>>
  <2>1. live' = Append(q, z)
    BY <1>1 DEF S
  <2> HIDE DEF q, z
  <2>2. q \in Seq(T) /\ Len(q) = 1 /\ q[1] = a /\ z \in T
    BY <1>7
  <2>3. r \in Seq(T) /\ Len(r) = 2 /\ r[1] = a /\ r[2] = z
    OBVIOUS
  <2> HIDE DEF T, r
  <2>4. live' \in Seq(T) /\ Len(live') = 2 /\ live'[1] = a /\ live'[2] = z
    <3>1. \A s \in Seq(T), e \in T :
             /\ Append(s, e) \in Seq(T) /\ Len(Append(s, e)) = Len(s) + 1
             /\ Append(s, e)[Len(s) + 1] = e
             /\ \A k \in 1..Len(s) : Append(s, e)[k] = s[k]
      BY AppendProperties
    <3>2. \A k \in 1..Len(q) : live'[k] = q[k]
      BY <2>1, <2>2, <3>1
    <3>3. live' \in Seq(T) /\ Len(live') = Len(q) + 1 /\ live'[Len(q) + 1] = z
      BY <2>1, <2>2, <3>1
    <3> QED BY <2>2, <3>2, <3>3
  <2>5. \A k \in 1..2 : k = 1 \/ k = 2
    OBVIOUS
  <2>6. \A k \in 1..Len(r) : live'[k] = r[k]
    BY <2>3, <2>4, <2>5
  <2>7. live' = r
    BY <2>3, <2>4, <2>6, SeqEqual
  <2> QED BY <2>7 DEF r, z
<1>9. live' \in SystemModels
  <2>1. CASE packages = <<>>
    <3>1. packages \in Seq(Package)
      BY <2>1
    <3> QED BY <1>8, <3>1 DEF SystemModels, a
  <2>2. CASE packages \in {<<r>> : r \in Package}
    <3>1. PICK r \in Package : packages = <<r>>
      BY <2>2
    <3>2. packages \in Seq(Package)
      BY <3>1
    <3> QED BY <1>8, <3>2 DEF SystemModels, a
  <2> QED BY <2>1, <2>2
<1>10. edits' \in 0..MaxEdits
  BY <1>1, DocumentsAssumption DEF DocsInv
<1>11. MergePrefersLive'
  BY <1>1 DEF DocsInv, MergePrefersLive
<1> QED BY <1>1, <1>9, <1>10, <1>11 DEF DocsInv, IsRecord

\* An import takes the fields from the record, the packages from the system-model.
LEMMA ImportStep ==
    ASSUME DocsInv, NEW install \in {<<>>, record, live},
           NEW system \in {<<>>, record, live}, Import(install, system)
    PROVE  DocsInv'
<1> DEFINE alone == ApplyInstallModel(DefaultModel, install)
           both == ApplySystemModel(alone, system)
<1>1. install = <<>> \/ IsRecord(install)
  BY FormsAre DEF Import
<1>2. system \in SystemModels \cup {<<>>}
  BY FormsAre, NothingIs DEF Import
<1>3. /\ model' = EnsureMandatory(both) /\ given' = [install |-> install, system |-> system]
      /\ record' = record /\ live' = live /\ fresh' = fresh /\ edits' = edits
  BY DEF Import
<1>4. alone \in ModelType
  BY <1>1, InstallModelIs
<1> HIDE DEF alone
<1>5. /\ both \in ModelType /\ both.text = alone.text
      /\ both.root = alone.root /\ both.user = alone.user
      /\ system # <<>> => both.packages = Names(KidsOf(system, "packages"))
  BY <1>2, <1>4, PackagesKept DEF ApplySystemModel
<1> HIDE DEF both
<1>6. /\ model' \in ModelType /\ model'.text = both.text
      /\ model'.root = both.root /\ model'.user = both.user
      /\ ToSet(model'.packages) = ToSet(both.packages) \cup Mandatory[both.text.desktop]
  BY <1>3, <1>5, Ensured
<1>7. install # <<>> => FromKdl(install) = alone
  BY <1>1, RecordIs DEF alone
<1>8. given'.install = install /\ given'.system = system
  BY <1>3
<1>9. MergePrefersLive'
  BY <1>5, <1>6, <1>7, <1>8 DEF MergePrefersLive
<1> QED BY <1>3, <1>6, <1>9 DEF DocsInv, Fields, IsRecord

\* So does a refresh, of the one document that is found.
LEMMA RefreshStep ==
    ASSUME DocsInv, ImportDiscovered
    PROVE  DocsInv'
<1> DEFINE x == FromKdl(Discovered)
<1>1. /\ Discovered # <<>> /\ model' = EnsureMandatory(x)
      /\ given' = IF record # <<>> THEN [install |-> record, system |-> <<>>]
                  ELSE [install |-> <<>>, system |-> live]
      /\ record' = record /\ live' = live /\ fresh' = fresh /\ edits' = edits
  BY DEF ImportDiscovered
<1>2. x \in ModelType
  <2>1. CASE record # <<>>
    <3>1. Discovered = record /\ IsRecord(record)
      BY <2>1 DEF Discovered, DocsInv
    <3>2. x = ApplyInstallModel(DefaultModel, record)
      BY <3>1, RecordIs
    <3> HIDE DEF x
    <3> QED BY <3>1, <3>2, InstallModelIs
  <2>2. CASE record = <<>>
    <3>1. Discovered = live /\ live \in SystemModels
      BY <1>1, <2>2 DEF Discovered, DocsInv
    <3>2. x = ApplyPackages(DefaultModel, live)
      BY <3>1, SystemModelReads DEF FromKdl, ApplySystemModel
    <3> HIDE DEF x
    <3> QED BY <3>1, <3>2, DefaultIsModel, PackagesKept
  <2> QED BY <2>1, <2>2
<1> HIDE DEF x
<1>3. model' \in ModelType
  BY <1>1, <1>2, Ensured
<1>4. given'.install = <<>> \/ given'.system = <<>>
  BY <1>1
<1>5. MergePrefersLive'
  BY <1>4 DEF MergePrefersLive
<1> QED BY <1>1, <1>3, <1>5 DEF DocsInv, Fields, IsRecord

LEMMA DocsNext ==
    DocsInv /\ [DocumentsNext]_documentsVars => DocsInv'
<1> SUFFICES ASSUME DocsInv, [DocumentsNext]_documentsVars PROVE DocsInv'
  OBVIOUS
<1>1. CASE Collect
  <2>1. /\ model' \in Collected /\ given' = Nothing
        /\ record' = record /\ live' = live /\ fresh' = fresh /\ edits' = edits
    BY <1>1 DEF Collect
  <2>2. model' \in ModelType
    BY <2>1, DocumentsAssumption
  <2>3. MergePrefersLive'
    BY <2>1 DEF Nothing, MergePrefersLive
  <2> QED BY <2>1, <2>2, <2>3 DEF DocsInv, Fields, IsRecord
<1>2. CASE Write
  BY <1>2, WriteStep
<1>3. CASE \E i \in DOMAIN Fields : RemoveNode(i)
  BY <1>3, RecordEdits
<1>4. CASE RemoveRecord
  BY <1>4, RecordEdits
<1>5. CASE \E field \in Field, arg \in Text \cup {Absent} : AddNode(field, arg)
  BY <1>5, RecordEdits
<1>6. CASE \E packages \in {<<p>> : p \in Package} \cup {<<>>} : ChangePackages(packages)
  BY <1>6, ChangePackagesStep
<1>7. CASE \E install \in {<<>>, record, live}, system \in {<<>>, record, live} :
              Import(install, system)
  BY <1>7, ImportStep
<1>8. CASE ImportDiscovered
  BY <1>8, RefreshStep
<1>9. CASE UNCHANGED documentsVars
  BY <1>9 DEF documentsVars, DocsInv, Fields, IsRecord, MergePrefersLive
<1> QED BY <1>1, <1>2, <1>3, <1>4, <1>5, <1>6, <1>7, <1>8, <1>9 DEF DocumentsNext

LEMMA DocsInvariant ==
    DocumentsSpec => []DocsInv
<1>1. DocumentsInit => DocsInv
  BY DocsInit
<1>2. DocsInv /\ [DocumentsNext]_documentsVars => DocsInv'
  BY DocsNext
<1> QED BY <1>1, <1>2, PTL DEF DocumentsSpec

\* The two documents of an installation agree on the packages.
LEMMA DocsAgree ==
    ASSUME DocsInv
    PROVE  DocumentsAgree
<1> SUFFICES ASSUME record # <<>>, fresh
             PROVE  /\ ApplySystemModel(FromKdl(record), live) = FromKdl(record)
                    /\ FromKdl(live).packages = FromKdl(record).packages
  BY DEF DocumentsAgree
<1> DEFINE x == FromKdl(record)
           q == Names(KidsOf(live, "packages"))
<1>1. IsRecord(record) /\ live \in SystemModels /\ KidsOf(Fields, "system-model") = live /\ live # <<>>
  BY DEF DocsInv
<1>2. x \in ModelType /\ x.packages = q
  <2>1. x = ApplyInstallModel(DefaultModel, record)
    BY <1>1, RecordIs
  <2> HIDE DEF x, q
  <2>2. LET y == ApplyInstallModel(DefaultModel, record)
        IN  /\ y \in ModelType
            /\ KidsOf(Fields, "system-model") # <<>> =>
                  y.packages = Names(KidsOf(KidsOf(Fields, "system-model"), "packages"))
    BY <1>1, InstallModelIs DEF Fields
  <2> QED BY <1>1, <2>1, <2>2 DEF q
<1> HIDE DEF x
<1>3. \A m : ApplySystemModel(m, live) = [m EXCEPT !.packages = q]
  BY <1>1, SystemModelReads
<1>4. FromKdl(live) = ApplySystemModel(DefaultModel, live)
  BY <1>1, SystemModelReads DEF FromKdl
<1>5. FromKdl(live).packages = q
  <2>1. FromKdl(live) = [DefaultModel EXCEPT !.packages = q]
    BY <1>3, <1>4
  <2> HIDE DEF q
  <2> QED BY <2>1, DefaultIsModel DEF ModelType
<1>6. ApplySystemModel(x, live) = x
  <2>1. ApplySystemModel(x, live) = [x EXCEPT !.packages = q]
    BY <1>3
  <2> HIDE DEF q
  <2> QED BY <1>2, <2>1 DEF ModelType
<1> QED BY <1>2, <1>5, <1>6 DEF x

\* Whatever is imported, refreshed and edited: the model is one that is read back as
\* it is written, and the two documents of an installation agree on the packages
\* until one of them is changed.
THEOREM DocumentsOKAlways ==
    DocumentsSpec => []DocumentsOK
<1>1. DocsInv => DocumentsOK
  <2> SUFFICES ASSUME DocsInv PROVE DocumentsOK
    OBVIOUS
  <2>1. DocumentsTypeOK
    <3>1. record # <<>> => Len(record) = 1 /\ IsInstallModel(record)
      BY RecordIs DEF DocsInv
    <3>2. record = <<>> => Len(record) = 0
      OBVIOUS
    <3>3. Len(record) = 0 \/ Len(record) = 1
      BY <3>1, <3>2
    <3>4. Len(record) <= 1
      <4>1. 0 <= 1 /\ 1 <= 1
        BY SMT
      <4> QED BY <3>3, <4>1, Zenon
    <3> QED BY <3>1, <3>4 DEF DocsInv, DocumentsTypeOK
  <2>2. RoundTrip
    BY RoundTripOf DEF DocsInv, RoundTrip
  <2> QED BY <2>1, <2>2, DocsAgree DEF DocumentsOK
<1>2. DocumentsSpec => []DocsInv
  BY DocsInvariant
<1> QED BY <1>1, <1>2, PTL

\* An import of both documents has the fields and the accounts of the record, and
\* the packages of the system-model with the mandatory ones.
THEOREM MergePrefersLiveAlways ==
    DocumentsSpec => []MergePrefersLive
<1>1. DocsInv => MergePrefersLive
  BY DEF DocsInv
<1>2. DocumentsSpec => []DocsInv
  BY DocsInvariant
<1> QED BY <1>1, <1>2, PTL

\* The last string of a name is found among the nodes of that name.
LEMMA ReadsNamed ==
    ASSUME NEW s \in Seq(RecordNode), NEW f, NEW t, NEW v, Reads(s, f, Len(s), t, v)
    PROVE  LET q == Named(s, f) IN Len(q) \in Nat /\ Reads(q, f, Len(q), t, v)
<1> DEFINE S == Places(s, f)
           q == Named(s, f)
           n == Len(s)
           c == Cardinality(S)
<1>1. DOMAIN s = 1..n /\ S \subseteq DOMAIN s /\ \A i \in 1..n : s[i].name = f => i \in S
  BY DEF Places
<1>2. q = Pick(s, S)
  BY DEF Named
<1> HIDE DEF S, q
<1>3. /\ q \in Seq(RecordNode) /\ Len(q) = c
      /\ \A j, k \in 1..c : j < k => InOrder(S)[j] < InOrder(S)[k]
      /\ \A k \in 1..c : InOrder(S)[k] \in S /\ q[k] = s[InOrder(S)[k]]
      /\ \A i \in S : \E k \in 1..c : InOrder(S)[k] = i /\ q[k] = s[i]
  BY <1>1, <1>2, PickIs
<1>4. Len(q) \in Nat /\ \A k \in 1..c : InOrder(S)[k] \in 1..n
  BY <1>1, <1>3
<1> HIDE DEF n, c
<1>5. CASE v = t /\ \A j \in 1..n : ~IsString(s[j], f)
  <2>1. \A k \in 1..c : ~IsString(q[k], f)
    BY <1>3, <1>4, <1>5
  <2> QED BY <1>3, <1>4, <1>5, <2>1 DEF Reads, q
<1>6. ASSUME NEW i \in 1..n, IsString(s[i], f), v = s[i].arg,
             \A j \in 1..n : i < j => ~IsString(s[j], f)
      PROVE  Reads(q, f, c, t, v)
  <2>1. i \in S
    BY <1>1, <1>6 DEF IsString
  <2>2. PICK k \in 1..c : InOrder(S)[k] = i /\ q[k] = s[i]
    BY <1>3, <2>1
  <2>3. \A j \in 1..c : k < j => ~IsString(q[j], f)
    <3> SUFFICES ASSUME NEW j \in 1..c, k < j PROVE ~IsString(q[j], f)
      OBVIOUS
    <3>1. i < InOrder(S)[j] /\ InOrder(S)[j] \in 1..n /\ q[j] = s[InOrder(S)[j]]
      BY <1>3, <1>4, <2>2
    <3> QED BY <1>6, <3>1
  <2> QED BY <1>6, <2>2, <2>3 DEF Reads
<1>7. Reads(s, f, n, t, v)
  BY DEF n
<1> QED BY <1>3, <1>4, <1>5, <1>6, <1>7 DEF Reads, q

\* A node that is removed, added or spoilt changes the import of its own field and
\* of nothing else.
THEOREM EditsAreLocalAlways ==
    DocumentsSpec => EditsAreLocal
<1> DEFINE A == record # <<>> /\ record' # <<>> /\ edits' > edits =>
                   \A field \in Field :
                       NodesOf(record, field) = NodesOf(record', field)
                           => FromKdl(record').text[field] = FromKdl(record).text[field]
<1>1. ASSUME NEW doc, IsRecord(doc), NEW field \in Field
      PROVE  LET q == NodesOf(doc, field)
             IN  Len(q) \in Nat /\ Reads(q, field, Len(q), DefaultOf[field], FromKdl(doc).text[field])
  <2> DEFINE kids == KidsOf(doc, "install-model")
             x == FromKdl(doc)
  <2>1. x = ApplyInstallModel(DefaultModel, doc)
    BY <1>1, RecordIs
  <2> HIDE DEF x
  <2>2. kids \in Seq(RecordNode) /\ Reads(kids, field, Len(kids), DefaultOf[field], x.text[field])
    BY <1>1, <2>1, InstallModelIs
  <2>3. NodesOf(doc, field) = Named(kids, field)
    BY DEF NodesOf
  <2> HIDE DEF kids
  <2> QED BY <2>2, <2>3, ReadsNamed DEF x
<1>2. DocsInv /\ DocsInv' => A
  <2> SUFFICES ASSUME IsRecord(record), IsRecord(record'), NEW field \in Field,
                      NodesOf(record, field) = NodesOf(record', field)
               PROVE  FromKdl(record').text[field] = FromKdl(record).text[field]
    BY DEF DocsInv, IsRecord
  <2> QED BY <1>1, ReadsOne
<1> HIDE DEF A
<1>3. DocsInv /\ DocsInv' /\ [DocumentsNext]_documentsVars => [A]_documentsVars
  BY <1>2
<1>4. DocumentsSpec => []DocsInv
  BY DocsInvariant
<1>5. DocumentsSpec => [][A]_documentsVars
  BY <1>3, <1>4, PTL DEF DocumentsSpec
<1> QED BY <1>5 DEF A, EditsAreLocal

=============================================================================
