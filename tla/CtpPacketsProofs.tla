-------------------------- MODULE CtpPacketsProofs --------------------------
(***************************************************************************)
(* Lemmas about the operators of CtpPackets, for packets, files and        *)
(* settings of any size.  The computations go over packets, captures,      *)
(* prefix lengths or batches with FoldLeft, and the totals over a set of   *)
(* bins, kids or files with MapThenSumSet; each fold is first unfolded     *)
(* into its steps, by an induction over the indices or the parts of the    *)
(* set, and what it computes is then followed from step to step: which     *)
(* packets a file or a window gets, what the bins of a series and the      *)
(* nodes of a tree add up to, what trimming keeps of an interval, and how  *)
(* often what is joined has a packet.                                      *)
(***************************************************************************)
EXTENDS CtpPackets, FiniteSetTheorems, TLAPS

-----------------------------------------------------------------------------
(* Numbers, sequences of numbers, and folds over them.                      *)

\* A set of natural numbers that is not empty has a least member.
LEMMA LeastOf ==
  ASSUME NEW T \in SUBSET Nat, T # {}
  PROVE  \E x \in T : \A y \in T : x <= y
<1> DEFINE R == OpToRel(<, Nat)
<1>1. IsWellFoundedOn(R, Nat)
  BY NatLessThanWellFounded
<1>2. \A x, y \in Nat : y < x => <<y, x>> \in R
  BY DEF OpToRel
<1> HIDE DEF R
<1>3. PICK x \in T : \A y \in T : <<y, x>> \notin R
  BY <1>1, WFMin, Zenon
<1>4. \A y \in T : ~ (y < x)
  BY <1>2, <1>3
<1> QED
  BY <1>4

\* Induction over the numbers up to n.
LEMMA UpTo ==
  ASSUME NEW n \in Nat, NEW Good, 0 \in Good, \A i \in 1 .. n : i - 1 \in Good => i \in Good
  PROVE  \A i \in 0 .. n : i \in Good
<1> DEFINE T == {i \in 0 .. n : i \notin Good}
<1> SUFFICES ASSUME T # {} PROVE FALSE
  OBVIOUS
<1>1. T \in SUBSET Nat
  OBVIOUS
<1>2. PICK x \in T : \A y \in T : x <= y
  BY <1>1, LeastOf, Zenon
<1>3. x \in 1 .. n /\ x - 1 \in 0 .. n /\ x - 1 < x
  BY <1>2
<1>4. x - 1 \in Good
  BY <1>2, <1>3
<1> QED
  BY <1>2, <1>3, <1>4

\* Max of a set of integers that is bounded is its greatest member.
LEMMA MaxOf ==
  ASSUME NEW n \in Int, NEW s \in SUBSET Int, s # {}, \A x \in s : x <= n
  PROVE  Max(s) \in s /\ \A y \in s : y <= Max(s)
<1> DEFINE T == {m \in Nat : n - m \in s}
<1>1. PICK x \in s : TRUE
  OBVIOUS
<1>2. n - x \in Nat /\ n - (n - x) = x
  BY <1>1
<1>3. T \in SUBSET Nat /\ T # {}
  BY <1>2
<1>4. PICK m \in T : \A y \in T : m <= y
  BY <1>3, LeastOf, Zenon
<1>5. \A y \in s : n - y \in T
  OBVIOUS
<1>6. n - m \in s /\ \A y \in s : n - m >= y
  BY <1>4, <1>5
<1> QED
  BY <1>6 DEF Max

\* The function by which FoldLeft goes over 1 .. n.
Fold(f, n, base, G) ==
  f = [s \in SUBSET (1 .. n) |-> IF s = {} THEN base ELSE G[Max(s)][f[s \ {Max(s)}]]]

\* f takes its values on the parts of 1 .. m in T[m].
Within(f, n, T) ==
  \A s \in SUBSET (1 .. n) : \A m \in 0 .. n : s \subseteq 1 .. m => f[s] \in T[m]

\* A fold with steps that stay within T is defined.
LEMMA FoldExists ==
  ASSUME NEW n \in Nat, NEW T, NEW base \in T[0], NEW G,
         \A i \in 1 .. n : T[i - 1] \subseteq T[i],
         \A i \in 1 .. n : \A t \in T[i - 1] : G[i][t] \in T[i]
  PROVE  \E f : Fold(f, n, base, G) /\ Within(f, n, T)
<1> DEFINE Good == {m \in 0 .. n : \E f : Fold(f, m, base, G) /\ Within(f, m, T)}
<1>1. 0 \in Good
  <2> DEFINE f == [s \in SUBSET (1 .. 0) |-> base]
  <2>1. \A s \in SUBSET (1 .. 0) : s = {}
    OBVIOUS
  <2>2. Fold(f, 0, base, G)
    BY <2>1 DEF Fold
  <2>3. Within(f, 0, T)
    BY DEF Within
  <2> QED
    BY <2>2, <2>3
<1>2. ASSUME NEW i \in 1 .. n, i - 1 \in Good
      PROVE  i \in Good
  <2>1. PICK f : Fold(f, i - 1, base, G) /\ Within(f, i - 1, T)
    BY <1>2
  <2> DEFINE g == [s \in SUBSET (1 .. i) |->
                     IF i \in s THEN G[i][f[s \ {i}]] ELSE f[s]]
  <2>2. ASSUME NEW s \in SUBSET (1 .. i)
        PROVE  /\ i \in s => Max(s) = i /\ s \ {i} \in SUBSET (1 .. i - 1)
               /\ i \notin s => s \in SUBSET (1 .. i - 1)
    <3>1. s \in SUBSET Int /\ i \in Int /\ \A x \in s : x <= i
      OBVIOUS
    <3>2. s # {} => Max(s) \in s /\ \A y \in s : y <= Max(s)
      BY <3>1, MaxOf, Zenon
    <3>3. ASSUME i \in s PROVE Max(s) = i
      <4>1. Max(s) \in s /\ i <= Max(s)
        BY <3>2, <3>3
      <4>2. Max(s) \in Int /\ Max(s) <= i
        BY <3>1, <4>1
      <4> QED
        BY <4>1, <4>2
    <3>4. ASSUME NEW x \in s, x # i PROVE x \in 1 .. i - 1
      BY <3>4
    <3> QED
      BY <3>3, <3>4
  <2>3. \A s \in SUBSET (1 .. i) : i \in s => g[s] = G[i][f[s \ {i}]]
    OBVIOUS
  <2>4. \A s \in SUBSET (1 .. i) : i \notin s => g[s] = f[s]
    OBVIOUS
  <2>5. g = [s \in SUBSET (1 .. i) |-> g[s]]
    OBVIOUS
  <2> HIDE DEF g
  <2>6. \A s \in SUBSET (1 .. i - 1) : s \in SUBSET (1 .. i) /\ i \notin s
    OBVIOUS
  <2>7. ASSUME NEW s \in SUBSET (1 .. i)
        PROVE  g[s] = IF s = {} THEN base ELSE G[Max(s)][g[s \ {Max(s)}]]
    <3>1. CASE i \in s
      <4>1. g[s \ {i}] = f[s \ {i}]
        BY <3>1, <2>2, <2>4, <2>6
      <4> QED
        BY <3>1, <4>1, <2>2, <2>3
    <3>2. CASE i \notin s
      <4>1. s \in SUBSET (1 .. i - 1) /\ g[s] = f[s]
        BY <3>2, <2>2, <2>4
      <4>2. f[s] = IF s = {} THEN base ELSE G[Max(s)][f[s \ {Max(s)}]]
        BY <4>1, <2>1 DEF Fold
      <4>3. s \ {Max(s)} \in SUBSET (1 .. i - 1)
        BY <4>1
      <4>4. g[s \ {Max(s)}] = f[s \ {Max(s)}]
        BY <4>3, <2>4, <2>6
      <4> QED
        BY <4>1, <4>2, <4>4
    <3> QED
      BY <3>1, <3>2
  <2>8. Fold(g, i, base, G)
    BY <2>5, <2>7, Zenon DEF Fold
  <2>9. ASSUME NEW s \in SUBSET (1 .. i), NEW m \in 0 .. i, s \subseteq 1 .. m
        PROVE  g[s] \in T[m]
    <3>1. CASE i \in s
      <4>1. m = i
        BY <3>1, <2>9
      <4>2. s \ {i} \subseteq 1 .. i - 1 /\ i - 1 \in 0 .. i - 1
        BY <3>1, <2>2
      <4>3. f[s \ {i}] \in T[i - 1]
        BY <4>2, <2>1 DEF Within
      <4> QED
        BY <3>1, <4>1, <4>3, <2>3
    <3>2. CASE i \notin s
      <4>1. s \in SUBSET (1 .. i - 1) /\ g[s] = f[s]
        BY <3>2, <2>2, <2>4
      <4>2. CASE m # i
        <5>1. m \in 0 .. i - 1
          BY <4>2
        <5> QED
          BY <5>1, <4>1, <2>1, <2>9 DEF Within
      <4>3. CASE m = i
        <5>1. i - 1 \in 0 .. i - 1
          OBVIOUS
        <5>2. f[s] \in T[i - 1]
          BY <5>1, <4>1, <2>1 DEF Within
        <5> QED
          BY <5>2, <4>1, <4>3
      <4> QED
        BY <4>2, <4>3
    <3> QED
      BY <3>1, <3>2
  <2>10. Within(g, i, T)
    BY <2>9 DEF Within
  <2>11. i \in 0 .. n
    OBVIOUS
  <2> QED
    BY <2>8, <2>10, <2>11
<1>3. n \in Good
  <2>1. \A i \in 0 .. n : i \in Good
    <3> HIDE DEF Good
    <3> QED
      BY <1>1, <1>2, UpTo, Zenon
  <2>2. n \in 0 .. n
    OBVIOUS
  <2> QED
    BY <2>1, <2>2, Zenon
<1> QED
  BY <1>3

\* The initial segments of 1 .. n, which FoldLeft goes over.
LEMMA Segments ==
  ASSUME NEW n \in Nat
  PROVE  /\ 1 .. 0 = {} /\ 1 .. n \in SUBSET (1 .. n)
         /\ \A i \in 1 .. n : /\ 1 .. i \in SUBSET (1 .. n) /\ 1 .. i # {}
                              /\ Max(1 .. i) = i /\ (1 .. i) \ {i} = 1 .. i - 1
<1>1. ASSUME NEW i \in 1 .. n
      PROVE  Max(1 .. i) = i
  <2>1. 1 .. i \in SUBSET Int /\ i \in 1 .. i /\ \A x \in 1 .. i : x <= i
    OBVIOUS
  <2>2. Max(1 .. i) \in 1 .. i /\ i <= Max(1 .. i)
    BY <2>1, MaxOf
  <2> QED
    BY <2>2
<1>2. ASSUME NEW i \in 1 .. n
      PROVE  /\ 1 .. i \in SUBSET (1 .. n) /\ 1 .. i # {}
             /\ (1 .. i) \ {i} = 1 .. i - 1
  OBVIOUS
<1>3. 1 .. 0 = {} /\ 1 .. n \in SUBSET (1 .. n)
  OBVIOUS
<1> QED
  BY <1>1, <1>2, <1>3, Zenon

-----------------------------------------------------------------------------
(* Sums over finite sets, as MapThenSumSet takes them: member by member.    *)

\* The element that a sum over a set takes first.
Elt(s) == CHOOSE x \in s : TRUE

\* Taking one element leaves a smaller set.
LEMMA EltLeaves ==
  ASSUME NEW s, IsFiniteSet(s), s # {}
  PROVE  /\ Elt(s) \in s /\ IsFiniteSet(s \ {Elt(s)})
         /\ Cardinality(s) \in Nat /\ Cardinality(s \ {Elt(s)}) = Cardinality(s) - 1
<1>1. Elt(s) \in s
  BY DEF Elt
<1> QED
  BY <1>1, FS_RemoveElement, FS_CardinalityType, FS_EmptySet

\* Induction over the parts of a finite set, one element at a time.
LEMMA SetBySet ==
  ASSUME NEW S, IsFiniteSet(S), NEW Good, {} \in Good,
         \A s \in SUBSET S : s # {} /\ s \ {Elt(s)} \in Good => s \in Good
  PROVE  \A s \in SUBSET S : s \in Good
<1> DEFINE T == {Cardinality(s) : s \in {r \in SUBSET S : r \notin Good}}
<1> SUFFICES ASSUME NEW r \in SUBSET S, r \notin Good PROVE FALSE
  OBVIOUS
<1>1. \A s \in SUBSET S : IsFiniteSet(s) /\ Cardinality(s) \in Nat
  BY FS_Subset, FS_CardinalityType
<1>2. T \in SUBSET Nat /\ T # {}
  BY <1>1
<1>3. PICK k \in T : \A j \in T : k <= j
  BY <1>2, LeastOf, Zenon
<1>4. PICK s \in SUBSET S : s \notin Good /\ k = Cardinality(s)
  BY <1>3
<1>5. s # {}
  BY <1>4
<1>6. Cardinality(s \ {Elt(s)}) = k - 1 /\ k \in Nat
  BY <1>1, <1>4, <1>5, EltLeaves
<1>7. s \ {Elt(s)} \in SUBSET S /\ s \ {Elt(s)} \notin Good
  BY <1>4, <1>5
<1>8. Cardinality(s \ {Elt(s)}) \in T
  BY <1>7
<1> HIDE DEF T
<1>9. k <= Cardinality(s \ {Elt(s)})
  BY <1>3, <1>8
<1> QED
  BY <1>6, <1>9

\* The function by which MapThenSumSet adds up v over S.
SumIter(f, v, S) ==
  f = [s \in SUBSET S |-> IF s = {} THEN 0 ELSE v[Elt(s)] + f[s \ {Elt(s)}]]

\* The recursive function behind a sum over a finite set is defined.
LEMMA SumExists ==
  ASSUME NEW S, IsFiniteSet(S), NEW v
  PROVE  \E f : SumIter(f, v, S)
<1> DEFINE Small(k) == {s \in SUBSET S : Cardinality(s) <= k}
           Upto(f, k) == f = [s \in Small(k) |->
                                IF s = {} THEN 0 ELSE v[Elt(s)] + f[s \ {Elt(s)}]]
           n == Cardinality(S)
           Good == {k \in 0 .. n : \E f : Upto(f, k)}
<1>1. \A s \in SUBSET S : /\ IsFiniteSet(s) /\ Cardinality(s) \in 0 .. n
                          /\ (Cardinality(s) = 0 <=> s = {})
  BY FS_Subset, FS_CardinalityType, FS_EmptySet
<1>2. n \in Nat
  BY FS_CardinalityType
<1>3. 0 \in Good
  <2> DEFINE f == [s \in Small(0) |-> 0]
  <2>1. \A s \in Small(0) : s = {}
    BY <1>1
  <2>2. Upto(f, 0)
    BY <2>1
  <2>3. 0 \in 0 .. n
    BY <1>2
  <2> HIDE DEF Upto
  <2> QED
    BY <2>2, <2>3
<1>4. ASSUME NEW i \in 1 .. n, i - 1 \in Good
      PROVE  i \in Good
  <2>1. PICK f : Upto(f, i - 1)
    BY <1>4
  <2> DEFINE g == [s \in Small(i) |-> IF Cardinality(s) = i THEN v[Elt(s)] + f[s \ {Elt(s)}]
                                      ELSE f[s]]
  <2>2. \A s \in Small(i) : Cardinality(s) = i => g[s] = v[Elt(s)] + f[s \ {Elt(s)}]
    OBVIOUS
  <2>3. \A s \in Small(i) : Cardinality(s) # i => g[s] = f[s]
    OBVIOUS
  <2>4. g = [s \in Small(i) |-> g[s]]
    OBVIOUS
  <2> HIDE DEF g
  <2>5. \A s \in Small(i - 1) : s \in Small(i) /\ Cardinality(s) # i
    BY <1>1
  <2>6. \A s \in Small(i) : Cardinality(s) # i => s \in Small(i - 1)
    BY <1>1
  <2>7. \A s \in Small(i) : s # {} => s \ {Elt(s)} \in Small(i - 1)
    <3> SUFFICES ASSUME NEW s \in Small(i), s # {}
                 PROVE  s \ {Elt(s)} \in Small(i - 1)
      OBVIOUS
    <3>1. Cardinality(s \ {Elt(s)}) = Cardinality(s) - 1 /\ Cardinality(s) \in Nat
      BY <1>1, EltLeaves
    <3> QED
      BY <3>1
  <2>8. \A s \in Small(i - 1) : f[s] = IF s = {} THEN 0 ELSE v[Elt(s)] + f[s \ {Elt(s)}]
    <3> HIDE DEF Small
    <3> QED
      BY <2>1
  <2>9. ASSUME NEW s \in Small(i)
        PROVE  g[s] = IF s = {} THEN 0 ELSE v[Elt(s)] + g[s \ {Elt(s)}]
    <3>1. s # {} => g[s \ {Elt(s)}] = f[s \ {Elt(s)}]
      <4> HIDE DEF Small
      <4> QED
        BY <2>3, <2>5, <2>7
    <3>2. CASE Cardinality(s) = i
      <4>1. s # {}
        BY <3>2, <1>1
      <4> QED
        BY <4>1, <3>1, <3>2, <2>2
    <3>3. CASE Cardinality(s) # i
      <4>1. g[s] = f[s]
        BY <2>3, <3>3
      <4>2. s \in Small(i - 1)
        BY <2>6, <3>3
      <4> HIDE DEF Small
      <4> QED
        BY <4>1, <4>2, <3>1, <2>8
    <3> QED
      BY <3>2, <3>3
  <2>10. Upto(g, i)
    <3> HIDE DEF Small
    <3> QED
      BY <2>4, <2>9, Zenon
  <2>11. i \in 0 .. n
    BY <1>2
  <2> HIDE DEF Upto
  <2> QED
    BY <2>10, <2>11
<1>5. n \in Good
  <2>1. \A i \in 0 .. n : i \in Good
    <3> HIDE DEF Good, n
    <3> QED
      BY <1>2, <1>3, <1>4, UpTo, Zenon
  <2>2. n \in 0 .. n
    BY <1>2
  <2> QED
    BY <2>1, <2>2, Zenon
<1>6. Small(n) = SUBSET S
  BY <1>1
<1> QED
  BY <1>5, <1>6 DEF SumIter

\* f gives the sum of v over every part of S.
Sums(f, v, S) ==
  /\ f \in [SUBSET S -> Nat]
  /\ f[{}] = 0
  /\ \A s \in SUBSET S : s # {} => f[s] = v[Elt(s)] + f[s \ {Elt(s)}]

\* That function gives natural numbers and adds one element at a time.
LEMMA SumIterSums ==
  ASSUME NEW S, IsFiniteSet(S), NEW v, \A x \in S : v[x] \in Nat, NEW f, SumIter(f, v, S)
  PROVE  Sums(f, v, S)
<1>1. f = [s \in SUBSET S |-> f[s]] /\ f[{}] = 0
      /\ \A s \in SUBSET S : s # {} => f[s] = v[Elt(s)] + f[s \ {Elt(s)}]
  BY DEF SumIter
<1> DEFINE Good == {s \in SUBSET S : f[s] \in Nat}
<1>2. ASSUME NEW s \in SUBSET S, s # {}, s \ {Elt(s)} \in Good
      PROVE  s \in Good
  <2>1. Elt(s) \in S
    BY <1>2 DEF Elt
  <2>2. v[Elt(s)] \in Nat /\ f[s \ {Elt(s)}] \in Nat
    BY <2>1, <1>2
  <2>3. f[s] = v[Elt(s)] + f[s \ {Elt(s)}]
    BY <1>1, <1>2
  <2> QED
    BY <2>2, <2>3
<1>3. {} \in Good
  BY <1>1
<1>4. \A s \in SUBSET S : s \in Good
  <2> HIDE DEF Good
  <2> QED
    BY <1>2, <1>3, SetBySet, Zenon
<1> QED
  BY <1>1, <1>4 DEF Sums

\* Total is the sum over all of its bins.
LEMMA SumOf ==
  ASSUME NEW v, IsFiniteSet(DOMAIN v), \A x \in DOMAIN v : v[x] \in Nat
  PROVE  \E f : Sums(f, v, DOMAIN v) /\ Total(v) = f[DOMAIN v]
<1> DEFINE h == CHOOSE f : SumIter(f, v, DOMAIN v)
<1>1. Total(v) = h[DOMAIN v]
  BY DEF Total, MapThenSumSet, MapThenFoldSet, SumIter, Elt
<1>2. SumIter(h, v, DOMAIN v)
  BY SumExists, Zenon
<1> HIDE DEF h
<1>3. Sums(h, v, DOMAIN v)
  BY <1>2, SumIterSums
<1> QED
  BY <1>1, <1>3

\* The sum of two amounts is the sum of their sums.
LEMMA SumAdds ==
  ASSUME NEW S, IsFiniteSet(S), NEW u, NEW v, NEW w,
         \A x \in S : u[x] \in Nat /\ v[x] \in Nat /\ w[x] = u[x] + v[x],
         NEW f, NEW g, NEW h, Sums(f, u, S), Sums(g, v, S), Sums(h, w, S)
  PROVE  h[S] = f[S] + g[S]
<1> DEFINE Good == {s \in SUBSET S : h[s] = f[s] + g[s]}
<1>1. {} \in Good
  BY DEF Sums
<1>2. ASSUME NEW s \in SUBSET S, s # {}, s \ {Elt(s)} \in Good
      PROVE  s \in Good
  <2>1. Elt(s) \in S
    BY <1>2 DEF Elt
  <2>2. /\ f[s] = u[Elt(s)] + f[s \ {Elt(s)}] /\ g[s] = v[Elt(s)] + g[s \ {Elt(s)}]
        /\ h[s] = w[Elt(s)] + h[s \ {Elt(s)}]
        /\ f[s \ {Elt(s)}] \in Nat /\ g[s \ {Elt(s)}] \in Nat
    BY <1>2 DEF Sums
  <2> QED
    BY <2>1, <2>2, <1>2
<1>3. \A s \in SUBSET S : s \in Good
  <2> HIDE DEF Good
  <2> QED
    BY <1>1, <1>2, SetBySet, Zenon
<1> QED
  BY <1>3

\* The total of a sum of two series is the sum of their totals.
LEMMA TotalAdds ==
  ASSUME NEW B, IsFiniteSet(B), NEW u, NEW v, NEW w, DOMAIN u = B, DOMAIN v = B, DOMAIN w = B,
         \A i \in B : u[i] \in Nat /\ v[i] \in Nat /\ w[i] = u[i] + v[i]
  PROVE  Total(w) = Total(u) + Total(v)
<1>1. \A i \in B : w[i] \in Nat
  OBVIOUS
<1>2. PICK f : Sums(f, u, B) /\ Total(u) = f[B]
  BY SumOf
<1>3. PICK g : Sums(g, v, B) /\ Total(v) = g[B]
  BY SumOf
<1>4. PICK h : Sums(h, w, B) /\ Total(w) = h[B]
  BY <1>1, SumOf
<1>5. h[B] = f[B] + g[B]
  BY <1>2, <1>3, <1>4, SumAdds
<1> QED
  BY <1>2, <1>3, <1>4, <1>5

\* A function that can be summed up.
Summable(v) == IsFiniteSet(DOMAIN v) /\ \A x \in DOMAIN v : v[x] \in Nat

\* Any member can be the one that a sum takes first.
LEMMA SumTakes ==
  ASSUME NEW S, IsFiniteSet(S), NEW v, \A x \in S : v[x] \in Nat, NEW f, Sums(f, v, S)
  PROVE  \A s \in SUBSET S : \A x \in s : f[s] = v[x] + f[s \ {x}]
<1> DEFINE n == Cardinality(S)
           Good == {k \in 0 .. n : \A s \in SUBSET S : Cardinality(s) = k =>
                                     \A x \in s : f[s] = v[x] + f[s \ {x}]}
<1>1. \A s \in SUBSET S : IsFiniteSet(s) /\ Cardinality(s) \in 0 .. n
  BY FS_Subset, FS_CardinalityType
<1>2. n \in Nat
  BY FS_CardinalityType
<1>3. 0 \in Good
  <2>1. \A s \in SUBSET S : Cardinality(s) = 0 => s = {}
    BY <1>1, FS_EmptySet
  <2> QED
    BY <1>2, <2>1
<1>4. ASSUME NEW k \in 1 .. n, k - 1 \in Good PROVE k \in Good
  <2> SUFFICES ASSUME NEW s \in SUBSET S, Cardinality(s) = k, NEW x \in s
               PROVE  f[s] = v[x] + f[s \ {x}]
    BY <1>2
  <2> DEFINE e == Elt(s)
  <2>1. e \in s /\ f[s] = v[e] + f[s \ {e}]
    BY DEF Elt, Sums
  <2> HIDE DEF e
  <2>2. CASE x = e
    BY <2>1, <2>2
  <2>3. CASE x # e
    <3>1. Cardinality(s \ {e}) = k - 1
      BY <1>1, <2>1, FS_RemoveElement
    <3>2. x \in s \ {e} /\ s \ {e} \in SUBSET S
      BY <2>3
    <3>3. f[s \ {e}] = v[x] + f[(s \ {e}) \ {x}]
      BY <3>1, <3>2, <1>4
    <3>4. Cardinality(s \ {x}) = k - 1
      BY <1>1, FS_RemoveElement
    <3>5. e \in s \ {x} /\ s \ {x} \in SUBSET S
      BY <2>1, <2>3
    <3>6. f[s \ {x}] = v[e] + f[(s \ {x}) \ {e}]
      BY <3>4, <3>5, <1>4
    <3> DEFINE r == (s \ {x}) \ {e}
    <3>7. (s \ {e}) \ {x} = r /\ r \in SUBSET S
      OBVIOUS
    <3> HIDE DEF r
    <3>8. f[r] \in Nat
      BY <3>7 DEF Sums
    <3>9. v[x] \in Nat /\ v[e] \in Nat
      BY <2>1
    <3>10. f[s \ {e}] = v[x] + f[r] /\ f[s \ {x}] = v[e] + f[r]
      BY <3>3, <3>6, <3>7 DEF r
    <3> QED
      BY <2>1, <3>8, <3>9, <3>10
  <2> QED
    BY <2>2, <2>3
<1>5. \A k \in 0 .. n : k \in Good
  <2> HIDE DEF Good, n
  <2> QED
    BY <1>2, <1>3, <1>4, UpTo, Zenon
<1> QED
  BY <1>1, <1>5

\* Sums of the same amounts are the same.
LEMMA SumsSame ==
  ASSUME NEW S, IsFiniteSet(S), NEW T, NEW v, NEW w, NEW f, NEW g,
         Sums(f, v, S), Sums(g, w, T)
  PROVE  \A s \in SUBSET S : s \subseteq T /\ (\A x \in s : v[x] = w[x]) => f[s] = g[s]
<1> DEFINE Good == {s \in SUBSET S : s \subseteq T /\ (\A x \in s : v[x] = w[x]) => f[s] = g[s]}
<1>1. {} \in Good
  BY DEF Sums
<1>2. ASSUME NEW s \in SUBSET S, s # {}, s \ {Elt(s)} \in Good
      PROVE  s \in Good
  <2> SUFFICES ASSUME s \subseteq T, \A x \in s : v[x] = w[x] PROVE f[s] = g[s]
    OBVIOUS
  <2>1. Elt(s) \in s
    BY <1>2 DEF Elt
  <2>2. f[s] = v[Elt(s)] + f[s \ {Elt(s)}] /\ g[s] = w[Elt(s)] + g[s \ {Elt(s)}]
    BY <1>2 DEF Sums
  <2>3. f[s \ {Elt(s)}] = g[s \ {Elt(s)}]
    BY <1>2
  <2> QED
    BY <2>1, <2>2, <2>3
<1>3. \A s \in SUBSET S : s \in Good
  <2> HIDE DEF Good
  <2> QED
    BY <1>1, <1>2, SetBySet, Zenon
<1> QED
  BY <1>3

\* The sum over two parts is the sum of theirs.
LEMMA SumsSplit ==
  ASSUME NEW S, IsFiniteSet(S), NEW v, \A x \in S : v[x] \in Nat, NEW f, Sums(f, v, S),
         NEW A \in SUBSET S, NEW B \in SUBSET S, A \cap B = {}
  PROVE  f[A \cup B] = f[A] + f[B]
<1> DEFINE Good == {s \in SUBSET B : f[A \cup s] = f[A] + f[s]}
<1>1. {} \in Good
  <2>1. A \cup {} = A /\ f[A] \in Nat /\ f[{}] = 0
    BY DEF Sums
  <2> QED
    BY <2>1
<1>2. ASSUME NEW s \in SUBSET B, s # {}, s \ {Elt(s)} \in Good
      PROVE  s \in Good
  <2> DEFINE e == Elt(s)
  <2>1. e \in s /\ e \in S /\ e \notin A
    BY <1>2 DEF Elt
  <2> HIDE DEF e
  <2>2. A \cup s \in SUBSET S /\ e \in A \cup s /\ (A \cup s) \ {e} = A \cup (s \ {e})
    BY <2>1
  <2>3. f[A \cup s] = v[e] + f[A \cup (s \ {e})]
    BY <2>2, SumTakes
  <2>4. f[s] = v[e] + f[s \ {e}]
    BY <2>1, SumTakes
  <2>5. f[A \cup (s \ {e})] = f[A] + f[s \ {e}]
    BY <1>2 DEF e
  <2>6. f[A] \in Nat /\ f[s \ {e}] \in Nat /\ v[e] \in Nat
    BY <2>1 DEF Sums
  <2> QED
    BY <2>3, <2>4, <2>5, <2>6
<1>3. \A s \in SUBSET B : s \in Good
  <2>1. IsFiniteSet(B)
    BY FS_Subset
  <2> HIDE DEF Good
  <2> QED
    BY <1>1, <1>2, <2>1, SetBySet, Zenon
<1> QED
  BY <1>3

\* A sum is a natural number, and 0 if there is nothing to add.
LEMMA TotalNat ==
  ASSUME NEW v, Summable(v)
  PROVE  Total(v) \in Nat /\ (DOMAIN v = {} => Total(v) = 0)
<1>1. PICK f : Sums(f, v, DOMAIN v) /\ Total(v) = f[DOMAIN v]
  BY SumOf DEF Summable
<1> QED
  BY <1>1 DEF Sums

\* Functions that agree have the same sum.
LEMMA TotalSame ==
  ASSUME NEW v, Summable(v), NEW w, DOMAIN w = DOMAIN v, \A x \in DOMAIN v : w[x] = v[x]
  PROVE  Summable(w) /\ Total(w) = Total(v)
<1>1. PICK f : Sums(f, v, DOMAIN v) /\ Total(v) = f[DOMAIN v]
  BY SumOf DEF Summable
<1>2. Summable(w)
  BY DEF Summable
<1>3. PICK g : Sums(g, w, DOMAIN w) /\ Total(w) = g[DOMAIN w]
  BY <1>2, SumOf DEF Summable
<1>4. f[DOMAIN v] = g[DOMAIN v]
  BY <1>1, <1>3, SumsSame DEF Summable
<1> QED
  BY <1>1, <1>2, <1>3, <1>4

\* The sum of a function is that of its two parts.
LEMMA TotalSplit ==
  ASSUME NEW v, Summable(v), NEW a, NEW b, DOMAIN v = DOMAIN a \cup DOMAIN b,
         DOMAIN a \cap DOMAIN b = {}, \A x \in DOMAIN a : a[x] = v[x],
         \A x \in DOMAIN b : b[x] = v[x]
  PROVE  Summable(a) /\ Summable(b) /\ Total(v) = Total(a) + Total(b)
<1>1. PICK f : Sums(f, v, DOMAIN v) /\ Total(v) = f[DOMAIN v]
  BY SumOf DEF Summable
<1>2. Summable(a) /\ Summable(b)
  BY FS_Subset DEF Summable
<1>3. PICK g : Sums(g, a, DOMAIN a) /\ Total(a) = g[DOMAIN a]
  BY <1>2, SumOf DEF Summable
<1>4. PICK h : Sums(h, b, DOMAIN b) /\ Total(b) = h[DOMAIN b]
  BY <1>2, SumOf DEF Summable
<1>5. g[DOMAIN a] = f[DOMAIN a]
  BY <1>1, <1>2, <1>3, SumsSame DEF Summable
<1>6. h[DOMAIN b] = f[DOMAIN b]
  BY <1>1, <1>2, <1>4, SumsSame DEF Summable
<1>7. f[DOMAIN v] = f[DOMAIN a] + f[DOMAIN b]
  <2>1. IsFiniteSet(DOMAIN v) /\ \A x \in DOMAIN v : v[x] \in Nat
    BY DEF Summable
  <2>2. DOMAIN a \in SUBSET DOMAIN v /\ DOMAIN b \in SUBSET DOMAIN v
    OBVIOUS
  <2>3. f[DOMAIN a \cup DOMAIN b] = f[DOMAIN a] + f[DOMAIN b]
    BY <1>1, <2>1, <2>2, SumsSplit, SMT
  <2> QED
    BY <2>3
<1> QED
  BY <1>1, <1>2, <1>3, <1>4, <1>5, <1>6, <1>7

\* The sum of one amount.
LEMMA TotalOne ==
  ASSUME NEW v, NEW x, DOMAIN v = {x}, v[x] \in Nat
  PROVE  Summable(v) /\ Total(v) = v[x]
<1>1. Summable(v)
  BY FS_Singleton DEF Summable
<1>2. PICK f : Sums(f, v, DOMAIN v) /\ Total(v) = f[DOMAIN v]
  BY <1>1, SumOf DEF Summable
<1>3. f[{x}] = v[x] + f[{x} \ {x}]
  <2> DEFINE T == {x}
  <2>1. IsFiniteSet(T) /\ (\A y \in T : v[y] \in Nat) /\ x \in T
    BY <1>1 DEF Summable
  <2>2. Sums(f, v, T)
    BY <1>2
  <2> HIDE DEF T
  <2>3. T \in SUBSET T
    OBVIOUS
  <2>4. f[T] = v[x] + f[T \ {x}]
    BY <2>1, <2>2, <2>3, SumTakes
  <2> QED
    BY <2>4 DEF T
<1>4. {x} \ {x} = {} /\ f[{}] = 0
  BY <1>2 DEF Sums
<1> QED
  BY <1>1, <1>2, <1>3, <1>4

\* One amount taken out of a sum.
LEMMA TotalTake ==
  ASSUME NEW v, Summable(v), NEW x \in DOMAIN v, NEW w, DOMAIN w = DOMAIN v \ {x},
         \A y \in DOMAIN w : w[y] = v[y]
  PROVE  Summable(w) /\ Total(v) = v[x] + Total(w)
<1> DEFINE a == [y \in {x} |-> v[y]]
<1>1. DOMAIN a = {x} /\ a[x] = v[x] /\ v[x] \in Nat
  BY DEF Summable
<1> HIDE DEF a
<1>2. Total(a) = v[x]
  BY <1>1, TotalOne
<1>3. Summable(w) /\ Total(v) = Total(a) + Total(w)
  BY <1>1, TotalSplit
<1> QED
  BY <1>2, <1>3

\* A sum over part of a function is at most the function's.
LEMMA TotalPart ==
  ASSUME NEW v, Summable(v), NEW w, DOMAIN w \subseteq DOMAIN v, \A y \in DOMAIN w : w[y] = v[y]
  PROVE  Summable(w) /\ Total(w) <= Total(v)
<1> DEFINE b == [y \in DOMAIN v \ DOMAIN w |-> v[y]]
<1>1. DOMAIN v = DOMAIN w \cup DOMAIN b /\ DOMAIN w \cap DOMAIN b = {}
      /\ \A y \in DOMAIN b : b[y] = v[y]
  OBVIOUS
<1> HIDE DEF b
<1>2. Summable(w) /\ Summable(b) /\ Total(v) = Total(w) + Total(b)
  BY <1>1, TotalSplit
<1> QED
  BY <1>2, TotalNat

\* Smaller amounts have a smaller sum.
LEMMA TotalLess ==
  ASSUME NEW v, Summable(v), NEW w, DOMAIN w = DOMAIN v, \A y \in DOMAIN v : w[y] \in 0 .. v[y]
  PROVE  Summable(w) /\ Total(w) <= Total(v)
<1> DEFINE b == [y \in DOMAIN v |-> v[y] - w[y]]
<1>1. DOMAIN b = DOMAIN v
      /\ \A y \in DOMAIN v : w[y] \in Nat /\ b[y] \in Nat /\ v[y] = w[y] + b[y]
  BY DEF Summable
<1> HIDE DEF b
<1>2. Summable(w) /\ Summable(b) /\ IsFiniteSet(DOMAIN v)
  BY <1>1 DEF Summable
<1>3. Total(v) = Total(w) + Total(b)
  BY <1>1, <1>2, TotalAdds
<1> QED
  BY <1>2, <1>3, TotalNat

\* A sum of nothing but zeros.
LEMMA TotalZero ==
  ASSUME NEW v, IsFiniteSet(DOMAIN v), \A x \in DOMAIN v : v[x] = 0
  PROVE  Summable(v) /\ Total(v) = 0
<1>1. Summable(v)
  BY DEF Summable
<1>2. Total(v) = Total(v) + Total(v)
  BY TotalAdds
<1> QED
  BY <1>1, <1>2, TotalNat

\* A sum of which one amount only is not zero.
LEMMA TotalAlone ==
  ASSUME NEW v, Summable(v), NEW x \in DOMAIN v, \A y \in DOMAIN v \ {x} : v[y] = 0
  PROVE  Total(v) = v[x]
<1> DEFINE w == [y \in DOMAIN v \ {x} |-> v[y]]
<1>1. DOMAIN w = DOMAIN v \ {x} /\ \A y \in DOMAIN w : w[y] = v[y] /\ w[y] = 0
  OBVIOUS
<1> HIDE DEF w
<1>2. Summable(w) /\ Total(v) = v[x] + Total(w)
  BY <1>1, TotalTake
<1>3. Total(w) = 0
  BY <1>1, <1>2, TotalZero DEF Summable
<1>4. v[x] \in Nat
  BY DEF Summable
<1> QED
  BY <1>2, <1>3, <1>4

\* A sum taken in parts: the parts are the members that c gives the same name.
LEMMA TotalParts ==
  ASSUME NEW v, Summable(v), NEW c, NEW W, IsFiniteSet(W), \A x \in DOMAIN v : c[x] \in W,
         NEW g, DOMAIN g = W,
         \A w \in W : g[w] = Total([x \in {y \in DOMAIN v : c[y] = w} |-> v[x]])
  PROVE  Summable(g) /\ Total(g) = Total(v)
<1> DEFINE S == DOMAIN v
           Of(w) == {y \in S : c[y] = w}
           In(t) == {y \in S : c[y] \in t}
<1>1. PICK f : Sums(f, v, S) /\ Total(v) = f[S]
  BY SumOf DEF Summable
<1>2. IsFiniteSet(S) /\ \A x \in S : v[x] \in Nat
  BY DEF Summable
<1>3. ASSUME NEW w \in W
      PROVE  g[w] = f[Of(w)] /\ g[w] \in Nat
  <2> DEFINE u == [x \in Of(w) |-> v[x]]
  <2>1. DOMAIN u = Of(w) /\ Of(w) \in SUBSET S /\ \A x \in Of(w) : u[x] = v[x]
    OBVIOUS
  <2>2. g[w] = Total(u)
    OBVIOUS
  <2> HIDE DEF u, Of
  <2>3. Summable(u)
    BY <1>2, <2>1, FS_Subset DEF Summable
  <2>4. PICK h : Sums(h, u, DOMAIN u) /\ Total(u) = h[DOMAIN u]
    BY <2>3, SumOf DEF Summable
  <2>5. h[Of(w)] = f[Of(w)]
    <3>1. IsFiniteSet(Of(w)) /\ Of(w) \in SUBSET (Of(w)) /\ Of(w) \subseteq S
      BY <2>1, <2>3 DEF Summable
    <3> HIDE DEF S
    <3> QED
      BY <1>1, <2>1, <2>4, <3>1, SumsSame
  <2> QED
    BY <2>1, <2>2, <2>3, <2>4, <2>5, TotalNat
<1>4. Summable(g)
  BY <1>3 DEF Summable
<1>5. PICK h : Sums(h, g, W) /\ Total(g) = h[W]
  BY <1>4, SumOf DEF Summable
<1> DEFINE Good == {t \in SUBSET W : h[t] = f[In(t)]}
<1>6. {} \in Good
  <2>1. In({}) = {}
    OBVIOUS
  <2> QED
    BY <1>1, <1>5, <2>1 DEF Sums
<1>7. ASSUME NEW t \in SUBSET W, t # {}, t \ {Elt(t)} \in Good
      PROVE  t \in Good
  <2> DEFINE e == Elt(t)
  <2>1. e \in t /\ e \in W
    BY <1>7 DEF Elt
  <2>2. h[t] = g[e] + h[t \ {e}]
    BY <1>5, <1>7 DEF Sums
  <2>3. h[t \ {e}] = f[In(t \ {e})]
    BY <1>7
  <2> HIDE DEF e
  <2>4. /\ In(t) = Of(e) \cup In(t \ {e}) /\ Of(e) \cap In(t \ {e}) = {}
        /\ Of(e) \in SUBSET S /\ In(t \ {e}) \in SUBSET S
    BY <2>1
  <2>5. g[e] = f[Of(e)]
    BY <1>3, <2>1
  <2>6. f[In(t)] = f[Of(e)] + f[In(t \ {e})]
    <3>1. Sums(f, v, S)
      BY <1>1
    <3> DEFINE A == Of(e)
               B == In(t \ {e})
    <3>2. A \in SUBSET S /\ B \in SUBSET S /\ A \cap B = {} /\ In(t) = A \cup B
      BY <2>4
    <3> HIDE DEF S, A, B
    <3>3. f[A \cup B] = f[A] + f[B]
      BY <3>1, <3>2, <1>2, SumsSplit
    <3> QED
      BY <3>2, <3>3 DEF A, B
  <2> HIDE DEF S, Of, In
  <2>7. h[t] = f[In(t)]
    BY <2>2, <2>3, <2>5, <2>6
  <2> QED
    BY <2>7
<1>8. \A t \in SUBSET W : t \in Good
  <2> HIDE DEF Good
  <2> QED
    BY <1>6, <1>7, SetBySet, Zenon
<1>9. In(W) = S
  OBVIOUS
<1>10. h[W] = f[In(W)]
  BY <1>8
<1> HIDE DEF S, In
<1> QED
  BY <1>1, <1>4, <1>5, <1>9, <1>10

\* No member is larger than the sum.
LEMMA SumMembers ==
  ASSUME NEW S, IsFiniteSet(S), NEW v, \A x \in S : v[x] \in Nat, NEW f, Sums(f, v, S)
  PROVE  \A x \in S : v[x] <= f[S]
<1> DEFINE Good == {s \in SUBSET S : \A x \in s : v[x] <= f[s]}
<1>1. {} \in Good
  OBVIOUS
<1>2. ASSUME NEW s \in SUBSET S, s # {}, s \ {Elt(s)} \in Good
      PROVE  s \in Good
  <2> DEFINE r == s \ {Elt(s)}
  <2>1. Elt(s) \in S
    BY <1>2 DEF Elt
  <2>2. f[s] = v[Elt(s)] + f[r] /\ f[r] \in Nat /\ v[Elt(s)] \in Nat
    BY <1>2, <2>1 DEF Sums
  <2>3. \A x \in s : x # Elt(s) => v[x] <= f[r] /\ v[x] \in Nat
    BY <1>2
  <2> HIDE DEF r
  <2>4. \A x \in s : v[x] <= f[s]
    BY <2>2, <2>3
  <2> QED
    BY <2>4
<1>3. \A s \in SUBSET S : s \in Good
  <2> HIDE DEF Good
  <2> QED
    BY <1>1, <1>2, SetBySet, Zenon
<1> QED
  BY <1>3

\* A sum is at most its largest member as often as there are members.
LEMMA SumBounds ==
  ASSUME NEW S, IsFiniteSet(S), NEW v, NEW m \in Nat, \A x \in S : v[x] \in 0 .. m,
         NEW f, Sums(f, v, S)
  PROVE  f[S] <= m * Cardinality(S)
<1>0. \A s \in SUBSET S : IsFiniteSet(s) /\ Cardinality(s) \in Nat
  BY FS_Subset, FS_CardinalityType
<1> DEFINE Good == {s \in SUBSET S : f[s] <= m * Cardinality(s)}
<1>1. {} \in Good
  <2>1. Cardinality({}) = 0
    BY FS_EmptySet
  <2> QED
    BY <2>1 DEF Sums
<1>2. ASSUME NEW s \in SUBSET S, s # {}, s \ {Elt(s)} \in Good
      PROVE  s \in Good
  <2> DEFINE r == s \ {Elt(s)}
             c == Cardinality(r)
  <2>1. Elt(s) \in s /\ Elt(s) \in S
    BY <1>2 DEF Elt
  <2>2. f[s] = v[Elt(s)] + f[r] /\ f[r] \in Nat
    BY <1>2 DEF Sums
  <2>3. c \in Nat /\ Cardinality(s) = c + 1
    BY <1>0, <1>2, EltLeaves
  <2>4. f[r] <= m * c
    BY <1>2
  <2> HIDE DEF c, r
  <2>6. m * (c + 1) = m * c + m /\ m * c \in Nat
    BY <2>3
  <2>7. f[s] <= m * Cardinality(s)
    BY <2>1, <2>2, <2>3, <2>4, <2>6
  <2> QED
    BY <2>7
<1>3. \A s \in SUBSET S : s \in Good
  <2> HIDE DEF Good
  <2> QED
    BY <1>1, <1>2, SetBySet, Zenon
<1> QED
  BY <1>3

-----------------------------------------------------------------------------
(* The on and off periods of a series (OnOffPeriods) and its crossings.     *)

\* OnOffPeriods, bin by bin.
NextPeriod(series, s, i) ==
  [prev |-> IF series[i - 1] > 0 THEN "on" ELSE "off",
   on   |-> s.on  + IF series[i - 1] > 0  /\ s.prev # "on"  THEN 1 ELSE 0,
   off  |-> s.off + IF ~(series[i - 1] > 0) /\ s.prev # "off" THEN 1 ELSE 0]

\* No bin yet; what is kept of the bins so far; the fold over a part of them.
NoPeriods == [prev |-> "none", on |-> 0, off |-> 0]
Periods == [prev : {"none", "on", "off"}, on : Nat, off : Nat]
PeriodsIter(f, series, n) ==
  f = [s \in SUBSET (DOMAIN [i \in 1 .. n |-> i]) |->
         IF s = {} THEN NoPeriods
         ELSE LET x == Max(s) IN NextPeriod(series, f[s \ {x}], [i \in 1 .. n |-> i][x])]

\* OnOffPeriods goes over the bins one by one.
LEMMA PeriodsScan ==
  ASSUME NEW n \in Nat, NEW series, DOMAIN series = 0 .. n - 1,
         \A i \in 0 .. n - 1 : series[i] \in Nat
  PROVE  \E f : /\ f[0] = NoPeriods /\ OnOffPeriods(series) = f[n]
                /\ \A i \in 1 .. n : f[i] = NextPeriod(series, f[i - 1], i)
<1> DEFINE h == CHOOSE f : PeriodsIter(f, series, n)
           T == [i \in 0 .. n |-> Periods]
           G == [i \in 1 .. n |-> [t \in Periods |-> NextPeriod(series, t, i)]]
           f == [i \in 0 .. n |-> h[1 .. i]]
<1>1. OnOffPeriods(series) = h[1 .. n]
  <2>1. Cardinality(DOMAIN series) = n
    BY FS_Interval
  <2>2. OnOffPeriods(series) =
          (CHOOSE g : PeriodsIter(g, series, Cardinality(DOMAIN series)))
             [DOMAIN [i \in 1 .. Cardinality(DOMAIN series) |-> i]]
    BY DEF OnOffPeriods, FoldLeft, MapThenFoldSet, PeriodsIter, NextPeriod, NoPeriods
  <2> QED
    BY <2>1, <2>2
<1>2. \E g : PeriodsIter(g, series, n)
  <2>1. NoPeriods \in T[0] /\ \A i \in 1 .. n : T[i - 1] \subseteq T[i]
    BY DEF NoPeriods, Periods
  <2>2. \A i \in 1 .. n : \A t \in T[i - 1] : G[i][t] \in T[i]
    <3> SUFFICES ASSUME NEW i \in 1 .. n, NEW t \in Periods
                 PROVE  NextPeriod(series, t, i) \in Periods
      OBVIOUS
    <3> QED
      BY DEF NextPeriod, Periods
  <2>3. \A s \in SUBSET (1 .. n) : s # {} =>
          Max(s) \in 1 .. n /\ \A t \in Periods : G[Max(s)][t] = NextPeriod(series, t, Max(s))
    <3> SUFFICES ASSUME NEW s \in SUBSET (1 .. n), s # {}
                 PROVE  Max(s) \in 1 .. n
      OBVIOUS
    <3>1. s \in SUBSET Int /\ n \in Int /\ \A x \in s : x <= n
      OBVIOUS
    <3>2. Max(s) \in s
      BY <3>1, MaxOf, Zenon
    <3> QED
      BY <3>2
  <2>4. \A g : Within(g, n, T) => \A s \in SUBSET (1 .. n) : g[s] \in Periods
    BY DEF Within
  <2> HIDE DEF T, G
  <2>5. PICK g : Fold(g, n, NoPeriods, G) /\ Within(g, n, T)
    BY <2>1, <2>2, FoldExists, Zenon
  <2>6. \A s \in SUBSET (1 .. n) : s # {} =>
          /\ G[Max(s)][g[s \ {Max(s)}]] = NextPeriod(series, g[s \ {Max(s)}], Max(s))
          /\ [i \in 1 .. n |-> i][Max(s)] = Max(s)
    BY <2>3, <2>4, <2>5
  <2>7. g = [s \in SUBSET (1 .. n) |-> g[s]] /\ \A s \in SUBSET (1 .. n) :
           g[s] = IF s = {} THEN NoPeriods ELSE G[Max(s)][g[s \ {Max(s)}]]
    BY <2>5 DEF Fold
  <2>8. \A s \in SUBSET (1 .. n) :
           g[s] = IF s = {} THEN NoPeriods
                  ELSE NextPeriod(series, g[s \ {Max(s)}], [i \in 1 .. n |-> i][Max(s)])
    BY <2>6, <2>7
  <2>9. DOMAIN [i \in 1 .. n |-> i] = 1 .. n
    OBVIOUS
  <2>10. PeriodsIter(g, series, n)
    BY <2>7, <2>8, <2>9, Zenon DEF PeriodsIter
  <2> QED
    BY <2>10
<1>3. PeriodsIter(h, series, n)
  BY <1>2, Zenon
<1> HIDE DEF h
<1>4. \A s \in SUBSET (1 .. n) :
        h[s] = IF s = {} THEN NoPeriods
               ELSE NextPeriod(series, h[s \ {Max(s)}], [i \in 1 .. n |-> i][Max(s)])
  BY <1>3 DEF PeriodsIter
<1>5. h[{}] = NoPeriods /\ \A i \in 1 .. n : h[1 .. i] = NextPeriod(series, h[1 .. i - 1], i)
  <2>1. h[{}] = NoPeriods
    BY <1>4, {} \in SUBSET (1 .. n)
  <2>2. ASSUME NEW i \in 1 .. n PROVE h[1 .. i] = NextPeriod(series, h[1 .. i - 1], i)
    <3>1. /\ 1 .. i \in SUBSET (1 .. n) /\ 1 .. i # {}
          /\ Max(1 .. i) = i /\ (1 .. i) \ {i} = 1 .. i - 1
      BY Segments, Zenon
    <3> QED
      BY <3>1, <1>4
  <2> QED
    BY <2>1, <2>2
<1>6. /\ f[0] = NoPeriods /\ f[n] = h[1 .. n]
      /\ \A i \in 1 .. n : f[i] = NextPeriod(series, f[i - 1], i)
  <2>1. 1 .. 0 = {}
    OBVIOUS
  <2>2. f[0] = h[1 .. 0] /\ f[n] = h[1 .. n]
    OBVIOUS
  <2>3. \A i \in 1 .. n : f[i] = h[1 .. i] /\ f[i - 1] = h[1 .. i - 1]
    OBVIOUS
  <2> QED
    BY <2>1, <2>2, <2>3, <1>5
<1> HIDE DEF f
<1> QED
  BY <1>1, <1>6

\* The upward crossings among the first k bins.
Ups(series, k) == {i \in 0 .. k - 1 : series[i] >= 1 /\ (i = 0 \/ series[i - 1] < 1)}

\* One more bin adds at most one upward crossing.
LEMMA UpsGrow ==
  ASSUME NEW n \in Nat, NEW series, \A i \in 0 .. n - 1 : series[i] \in Nat, NEW k \in 1 .. n
  PROVE  /\ IsFiniteSet(Ups(series, k - 1)) /\ Cardinality(Ups(series, k - 1)) \in Nat
         /\ Cardinality(Ups(series, k)) = Cardinality(Ups(series, k - 1)) +
              IF series[k - 1] >= 1 /\ (k = 1 \/ series[k - 2] < 1) THEN 1 ELSE 0
<1> DEFINE up == series[k - 1] >= 1 /\ (k = 1 \/ series[k - 2] < 1)
<1>1. IsFiniteSet(Ups(series, k - 1)) /\ Cardinality(Ups(series, k - 1)) \in Nat
  <2>1. IsFiniteSet(0 .. k - 2)
    BY FS_Interval
  <2>2. Ups(series, k - 1) \subseteq 0 .. k - 2
    BY DEF Ups
  <2> QED
    BY <2>1, <2>2, FS_Subset, FS_CardinalityType
<1>2. k - 1 \notin Ups(series, k - 1)
  BY DEF Ups
<1>3. CASE up
  <2>1. Ups(series, k) = Ups(series, k - 1) \cup {k - 1}
    BY <1>3 DEF Ups
  <2> QED
    BY <1>1, <1>2, <1>3, <2>1, FS_AddElement
<1>4. CASE ~up
  <2>1. Ups(series, k) = Ups(series, k - 1)
    BY <1>4 DEF Ups
  <2> QED
    BY <1>1, <1>4, <2>1
<1> QED
  BY <1>3, <1>4

\* How the periods alternate: which comes first is known from the first bin.
Alternate(first, s) ==
  s.off - s.on = IF first THEN (IF s.prev = "on" THEN -1 ELSE 0)
                 ELSE (IF s.prev = "on" THEN 0 ELSE 1)

\* The on periods are the upward crossings, and on and off alternate.
LEMMA PeriodsAre ==
  ASSUME NEW n \in Nat \ {0}, NEW series, DOMAIN series = 0 .. n - 1,
         \A i \in 0 .. n - 1 : series[i] \in Nat
  PROVE  LET s == OnOffPeriods(series)
         IN /\ s \in Periods
            /\ s.on = Cardinality(Ups(series, n))
            /\ s.off - s.on \in {-1, 0, 1}
            /\ s.on + s.off > 0
<1>0. n \in Nat
  OBVIOUS
<1>1. PICK f : /\ f[0] = NoPeriods /\ OnOffPeriods(series) = f[n]
               /\ \A i \in 1 .. n : f[i] = NextPeriod(series, f[i - 1], i)
  BY <1>0, PeriodsScan, SMTT(30)
<1> DEFINE Fits(k) == /\ f[k] \in Periods
                      /\ f[k].on = Cardinality(Ups(series, k))
                      /\ k = 0 => f[k] = NoPeriods
                      /\ k # 0 => /\ f[k].prev = IF series[k - 1] > 0 THEN "on" ELSE "off"
                                  /\ Alternate(series[0] > 0, f[k])
                                  /\ f[k].on + f[k].off > 0
           Good == {k \in 0 .. n : Fits(k)}
<1>2. Fits(0)
  <2>1. Ups(series, 0) = {}
    BY DEF Ups
  <2>2. Cardinality(Ups(series, 0)) = 0
    BY <2>1, FS_EmptySet
  <2> QED
    BY <1>1, <2>2 DEF NoPeriods, Periods
<1>3. ASSUME NEW k \in 1 .. n, Fits(k - 1)
      PROVE  Fits(k)
  <2> DEFINE s == f[k - 1]
             r == f[k]
  <2>1. r = NextPeriod(series, s, k) /\ s \in Periods
    BY <1>1, <1>3
  <2>2. series[k - 1] \in Nat /\ (k # 1 => series[k - 2] \in Nat) /\ series[0] \in Nat
    OBVIOUS
  <2>3. s.on = Cardinality(Ups(series, k - 1))
    BY <1>3
  <2>31. Cardinality(Ups(series, k)) = Cardinality(Ups(series, k - 1)) +
          IF series[k - 1] >= 1 /\ (k = 1 \/ series[k - 2] < 1) THEN 1 ELSE 0
    BY <1>0, UpsGrow, Zenon
  <2>4. Cardinality(Ups(series, k)) = s.on +
          IF series[k - 1] >= 1 /\ (k = 1 \/ series[k - 2] < 1) THEN 1 ELSE 0
    BY <2>3, <2>31, Zenon
  <2>5. k = 1 => s = NoPeriods
    BY <1>3
  <2>6. k # 1 => /\ s.prev = IF series[k - 2] > 0 THEN "on" ELSE "off"
                 /\ Alternate(series[0] > 0, s) /\ s.on + s.off > 0
    BY <1>3
  <2> HIDE DEF s, r
  <2>7. r \in Periods
    BY <2>1, <2>2 DEF NextPeriod, Periods
  <2>8. /\ r.prev = IF series[k - 1] > 0 THEN "on" ELSE "off"
        /\ r.on = s.on + IF series[k - 1] > 0 /\ s.prev # "on" THEN 1 ELSE 0
        /\ r.off = s.off + IF ~(series[k - 1] > 0) /\ s.prev # "off" THEN 1 ELSE 0
        /\ s.on \in Nat /\ s.off \in Nat
    BY <2>1 DEF NextPeriod, Periods
  <2>9. CASE k = 1
    <3>1. s.prev = "none" /\ s.on = 0 /\ s.off = 0
      BY <2>5, <2>9 DEF NoPeriods
    <3>2. r.on = Cardinality(Ups(series, k))
      BY <2>2, <2>4, <2>8, <2>9, <3>1
    <3>3. Alternate(series[0] > 0, r) /\ r.on + r.off > 0
      BY <2>2, <2>8, <2>9, <3>1 DEF Alternate
    <3> QED
      BY <2>7, <2>8, <3>2, <3>3, <2>9 DEF r
  <2>10. CASE k # 1
    <3>1. r.on = Cardinality(Ups(series, k))
      BY <2>2, <2>4, <2>6, <2>8, <2>10
    <3>2. /\ s.off - s.on = IF series[0] > 0 THEN (IF s.prev = "on" THEN -1 ELSE 0)
                            ELSE (IF s.prev = "on" THEN 0 ELSE 1)
          /\ s.on + s.off > 0 /\ s.prev \in {"on", "off"}
      BY <2>6, <2>10 DEF Alternate
    <3>3. r.off - r.on = IF series[0] > 0 THEN (IF r.prev = "on" THEN -1 ELSE 0)
                          ELSE (IF r.prev = "on" THEN 0 ELSE 1)
      BY <2>8, <3>2
    <3>4. r.on + r.off > 0
      BY <2>8, <3>2
    <3>5. Alternate(series[0] > 0, r) /\ r.on + r.off > 0
      BY <3>3, <3>4 DEF Alternate
    <3> QED
      BY <2>7, <2>8, <2>10, <3>1, <3>5 DEF r
  <2> QED
    BY <2>9, <2>10
<1>4. Fits(n)
  <2>1. 0 \in Good /\ \A i \in 1 .. n : i - 1 \in Good => i \in Good
    <3> HIDE DEF Fits
    <3> QED
      BY <1>2, <1>3
  <2> HIDE DEF Good
  <2>2. \A i \in 0 .. n : i \in Good
    BY <2>1, UpTo, Zenon
  <2>3. n \in Good
    BY <2>2
  <2> QED
    BY <2>3, Zenon DEF Good
<1>5. n # 0 /\ OnOffPeriods(series) = f[n]
  BY <1>1
<1> QED
  BY <1>4, <1>5 DEF Alternate, Periods

\* A series has an upward crossing if and only if it has a bin with bytes.
LEMMA UpsSome ==
  ASSUME NEW n \in Nat, NEW series, \A i \in 0 .. n - 1 : series[i] \in Nat
  PROVE  /\ Cardinality(Ups(series, n)) \in Nat
         /\ Cardinality(Ups(series, n)) > 0 <=> \E i \in 0 .. n - 1 : series[i] > 0
<1> DEFINE U == Ups(series, n)
           T == {i \in 0 .. n - 1 : series[i] >= 1}
<1>1. IsFiniteSet(U) /\ Cardinality(U) \in Nat
  <2>1. U \in SUBSET (0 .. n - 1) /\ IsFiniteSet(0 .. n - 1)
    BY FS_Interval DEF Ups
  <2> HIDE DEF U
  <2> QED
    BY <2>1, FS_Subset, FS_CardinalityType
<1>2. Cardinality(U) = 0 <=> U = {}
  <2> HIDE DEF U
  <2> QED
    BY <1>1, FS_EmptySet
<1>3. ASSUME T # {} PROVE U # {}
  <2>1. T \in SUBSET Nat
    OBVIOUS
  <2>2. PICK x \in T : \A y \in T : x <= y
    <3> HIDE DEF T
    <3> QED
      BY <1>3, <2>1, LeastOf
  <2>3. x = 0 \/ series[x - 1] < 1
    <3>1. x # 0 => x - 1 \in 0 .. n - 1 /\ x - 1 < x
      OBVIOUS
    <3>2. x # 0 => x - 1 \notin T
      BY <2>2, <3>1
    <3> QED
      BY <3>1, <3>2
  <2>4. x \in U
    BY <2>3 DEF Ups
  <2> QED
    BY <2>4
<1>4. U \subseteq T
  BY DEF Ups
<1>5. T # {} <=> \E i \in 0 .. n - 1 : series[i] > 0
  OBVIOUS
<1> HIDE DEF U, T
<1>6. Cardinality(U) > 0 <=> U # {}
  BY <1>1, <1>2
<1> QED
  BY <1>1, <1>3, <1>4, <1>5, <1>6 DEF U

-----------------------------------------------------------------------------
(* The descriptors of a node that has two series of bytes.                  *)

\* A window has finitely many bins, and none if a bin is longer than it.
LEMMA BinsAre ==
  /\ WindowLen \div BinLen \in Nat
  /\ Bins(WindowLen) = 0 .. (WindowLen \div BinLen) - 1
  /\ IsFiniteSet(Bins(WindowLen)) /\ Cardinality(Bins(WindowLen)) = WindowLen \div BinLen
<1> DEFINE m == WindowLen \div BinLen
<1>1. m \in Nat
  BY CtpAssumption
<1>2. Bins(WindowLen) = 0 .. m - 1
  BY DEF Bins
<1> HIDE DEF m
<1>3. IsFiniteSet(0 .. m - 1) /\ Cardinality(0 .. m - 1) = m
  BY <1>1, FS_Interval
<1> QED
  BY <1>1, <1>2, <1>3 DEF m

\* A series of bytes.
Amounts == [Bins(WindowLen) -> Nat]

\* The peak of a series carries its total.
LEMMA TotalIs ==
  ASSUME NEW v \in Amounts
  PROVE  /\ Total(v) \in Nat /\ \A i \in Bins(WindowLen) : v[i] <= Total(v)
         /\ Peak(v) \in Nat /\ Peak(v) <= Total(v)
         /\ \A i \in Bins(WindowLen) : v[i] <= Peak(v)
         /\ Total(v) <= Peak(v) * Cardinality(Bins(WindowLen))
<1> DEFINE B == Bins(WindowLen)
           S == {v[i] : i \in DOMAIN v} \cup {0}
<1>1. DOMAIN v = B /\ \A i \in B : v[i] \in Nat
  BY DEF Amounts
<1>2. IsFiniteSet(B)
  BY BinsAre
<1> HIDE DEF B
<1>3. PICK f : Sums(f, v, B) /\ Total(v) = f[B]
  BY <1>1, <1>2, SumOf
<1>4. f[B] \in Nat
  BY <1>3 DEF Sums
<1>5. \A i \in B : v[i] <= f[B]
  BY <1>1, <1>2, <1>3, <1>4, SumMembers
<1>6. S \in SUBSET Int /\ S # {} /\ \A x \in S : x <= f[B] /\ x \in Nat
  BY <1>1, <1>4, <1>5
<1>7. Max(S) \in S /\ \A x \in S : x <= Max(S)
  <2>1. f[B] \in Int
    BY <1>4
  <2> HIDE DEF S
  <2> QED
    BY <1>6, <2>1, MaxOf, Zenon
<1>8. Peak(v) = Max(S)
  BY DEF Peak
<1>9. Peak(v) \in Nat /\ Peak(v) <= f[B]
  <2> HIDE DEF S
  <2> QED
    BY <1>6, <1>7, <1>8
<1>10. \A i \in B : v[i] <= Peak(v)
  BY <1>1, <1>7, <1>8
<1>11. \A i \in B : v[i] \in 0 .. Peak(v)
  BY <1>1, <1>9, <1>10
<1>12. f[B] <= Peak(v) * Cardinality(B)
  BY <1>2, <1>3, <1>9, <1>11, SumBounds
<1> QED
  BY <1>3, <1>4, <1>5, <1>9, <1>10, <1>12 DEF B

\* The descriptors of a node with two series of bytes tell one story.
LEMMA Agreement ==
  ASSUME NEW node, node.series \in [Directions -> Amounts]
  PROVE  LET d == Descriptors(node)
             ups == OnTransitions(Combined(node), 1)
         IN /\ d.total = d.up + d.down
            /\ d.peak <= d.total /\ d.total <= d.peak * Cardinality(Bins(WindowLen))
            /\ d.on = Cardinality(ups)
            /\ d.off - d.on \in {-1, 0, 1}
            /\ d.on > 0 <=> d.total > 0
            /\ d.total = 0 => d.off = 0
<1> DEFINE u == node.series["upload"]
           v == node.series["download"]
           w == Combined(node)
           B == Bins(WindowLen)
           n == WindowLen \div BinLen
           d == Descriptors(node)
           p == Burstiness(w)
<1>1. u \in Amounts /\ v \in Amounts
  BY DEF Directions
<1>2. w = [i \in B |-> u[i] + v[i]]
  BY DEF Combined
<1>3. /\ d.total = Total(w) /\ d.peak = Peak(w) /\ d.up = Total(u) /\ d.down = Total(v)
      /\ d.on = p.on /\ d.off = p.off
  BY DEF Descriptors
<1> HIDE DEF u, v, w, d, p
<1>4. /\ DOMAIN u = B /\ DOMAIN v = B /\ DOMAIN w = B
      /\ \A i \in B : u[i] \in Nat /\ v[i] \in Nat /\ w[i] = u[i] + v[i]
  BY <1>1, <1>2 DEF Amounts
<1>5. w \in Amounts
  BY <1>2, <1>4 DEF Amounts
<1>6. n \in Nat /\ B = 0 .. n - 1 /\ IsFiniteSet(B)
  BY BinsAre
<1> HIDE DEF B
<1>7. Total(w) = Total(u) + Total(v)
  <2>1. IsFiniteSet(B)
    BY <1>6
  <2> QED
    BY <1>4, <2>1, TotalAdds
<1>8. Peak(w) <= Total(w) /\ Total(w) <= Peak(w) * Cardinality(B)
  BY <1>5, TotalIs, Zenon DEF B
<1>9. /\ DOMAIN w = 0 .. n - 1 /\ \A i \in 0 .. n - 1 : w[i] \in Nat
      /\ Total(w) \in Nat /\ \A i \in 0 .. n - 1 : w[i] <= Total(w)
  <2>1. DOMAIN w = 0 .. n - 1 /\ \A i \in 0 .. n - 1 : w[i] \in Nat
    BY <1>4, <1>6
  <2>2. Total(w) \in Nat /\ \A i \in B : w[i] <= Total(w)
    BY <1>5, TotalIs, Zenon DEF B
  <2> QED
    BY <1>6, <2>1, <2>2
<1> HIDE DEF n
<1> DEFINE some == \E i \in 0 .. n - 1 : w[i] > 0
<1>10. some <=> Total(w) > 0
  <2>1. ASSUME some PROVE Total(w) > 0
    BY <1>9, <2>1
  <2>2. ASSUME ~some PROVE Total(w) = 0
    <3>1. IsFiniteSet(DOMAIN w) /\ \A i \in DOMAIN w : w[i] = 0
      BY <1>6, <1>9, <2>2
    <3> QED
      BY <3>1, TotalZero
  <2> HIDE DEF some
  <2> QED
    BY <1>9, <2>1, <2>2
<1>11. Cardinality(Ups(w, n)) \in Nat /\ (Cardinality(Ups(w, n)) > 0 <=> some)
  BY <1>6, <1>9, UpsSome
<1>12. p.on = Cardinality(Ups(w, n)) /\ p.off - p.on \in {-1, 0, 1}
       /\ (Total(w) = 0 => p.off = 0)
  <2>1. CASE Total(w) = 0
    <3>1. Cardinality(Ups(w, n)) = 0
      <4> HIDE DEF some
      <4> QED
        BY <1>10, <1>11, <2>1
    <3>2. p.on = 0 /\ p.off = 0
      BY <2>1 DEF Burstiness, p
    <3> QED
      BY <3>1, <3>2
  <2>2. CASE Total(w) # 0
    <3>1. n # 0
      BY <1>9, <1>10, <2>2
    <3>2. /\ OnOffPeriods(w).on = Cardinality(Ups(w, n))
          /\ OnOffPeriods(w).off - OnOffPeriods(w).on \in {-1, 0, 1}
      BY <1>6, <1>9, <3>1, PeriodsAre
    <3>3. p.on = OnOffPeriods(w).on /\ p.off = OnOffPeriods(w).off
      BY <2>2 DEF Burstiness, p
    <3> QED
      BY <2>2, <3>2, <3>3
  <2> QED
    BY <2>1, <2>2
<1>13. OnTransitions(w, 1) = Ups(w, n)
  BY <1>9 DEF OnTransitions, Ups
<1>14. p.on > 0 <=> Total(w) > 0
  <2> HIDE DEF some
  <2> QED
    BY <1>10, <1>11, <1>12
<1> QED
  BY <1>3, <1>7, <1>8, <1>12, <1>13, <1>14, Zenon DEF d, w, B

-----------------------------------------------------------------------------
(* The folds over packets, captures and prefix lengths, unfolded.  FoldLeft *)
(* takes a set of indices by its last member.                               *)

\* i as the last of s, and s without it.
LastOf(s, i) ==
  /\ i \in s => Max(s) = i /\ s \ {i} \in SUBSET (1 .. i - 1)
  /\ i \notin s => s \in SUBSET (1 .. i - 1)

\* A part of 1 .. i has i for its last member, or is a part of 1 .. i - 1.
LEMMA Lasts ==
  ASSUME NEW i \in Nat \ {0}
  PROVE  \A s \in SUBSET (1 .. i) : LastOf(s, i)
<1> SUFFICES ASSUME NEW s \in SUBSET (1 .. i) PROVE LastOf(s, i)
  OBVIOUS
<1>1. s \in SUBSET Int /\ i \in Int /\ \A x \in s : x <= i
  OBVIOUS
<1>2. s # {} => Max(s) \in s /\ \A y \in s : y <= Max(s)
  BY <1>1, MaxOf, Zenon
<1>3. ASSUME i \in s PROVE Max(s) = i
  <2>1. Max(s) \in s /\ i <= Max(s)
    BY <1>2, <1>3
  <2>2. Max(s) \in Int /\ Max(s) <= i
    BY <1>1, <2>1
  <2> QED
    BY <2>1, <2>2
<1>4. ASSUME NEW x \in s, x # i PROVE x \in 1 .. i - 1
  BY <1>4
<1> QED
  BY <1>3, <1>4 DEF LastOf

\* SplitByIp, packet by packet.
IpStep(s, p) ==
  IF p.dst \in Internal
  THEN WritePacket(IF p.src \in Internal THEN WritePacket(s, <<p.src, "upload">>, p) ELSE s,
                   <<p.dst, "download">>, p)
  ELSE IF p.src \in Internal THEN WritePacket(s, <<p.src, "upload">>, p) ELSE s

\* No packet yet, and the fold over a part of the packets.
NoWriters == [files |-> NoFiles, open |-> <<>>]
IpUpto(f, pcap, n) ==
  f = [s \in SUBSET (1 .. n) |->
         IF s = {} THEN NoWriters ELSE IpStep(f[s \ {Max(s)}], pcap[Max(s)])]

\* The fold of SplitByIp is defined.
LEMMA IpExists ==
  ASSUME NEW n \in Nat, NEW pcap
  PROVE  \E f : IpUpto(f, pcap, n)
<1> DEFINE Good == {m \in 0 .. n : \E f : IpUpto(f, pcap, m)}
<1>1. 0 \in Good
  <2> DEFINE f == [s \in SUBSET (1 .. 0) |-> NoWriters]
  <2>1. \A s \in SUBSET (1 .. 0) : s = {}
    OBVIOUS
  <2>2. IpUpto(f, pcap, 0)
    BY <2>1 DEF IpUpto
  <2> QED
    BY <2>2
<1>2. ASSUME NEW i \in 1 .. n, i - 1 \in Good
      PROVE  i \in Good
  <2>1. PICK f : IpUpto(f, pcap, i - 1)
    BY <1>2
  <2> DEFINE g == [s \in SUBSET (1 .. i) |->
                     IF i \in s THEN IpStep(f[s \ {i}], pcap[i]) ELSE f[s]]
  <2>2. \A s \in SUBSET (1 .. i) : i \in s => g[s] = IpStep(f[s \ {i}], pcap[i])
    OBVIOUS
  <2>3. \A s \in SUBSET (1 .. i) : i \notin s => g[s] = f[s]
    OBVIOUS
  <2>4. g = [s \in SUBSET (1 .. i) |-> g[s]]
    OBVIOUS
  <2> HIDE DEF g
  <2>5. \A s \in SUBSET (1 .. i) : LastOf(s, i)
    BY Lasts
  <2>6. \A s \in SUBSET (1 .. i - 1) : s \in SUBSET (1 .. i) /\ i \notin s
    OBVIOUS
  <2>7. ASSUME NEW s \in SUBSET (1 .. i)
        PROVE  g[s] = IF s = {} THEN NoWriters
                      ELSE IpStep(g[s \ {Max(s)}], pcap[Max(s)])
    <3>1. CASE i \in s
      <4>1. Max(s) = i /\ s \ {i} \in SUBSET (1 .. i - 1)
        BY <3>1, <2>5 DEF LastOf
      <4>2. g[s \ {i}] = f[s \ {i}]
        BY <4>1, <2>3, <2>6
      <4> QED
        BY <3>1, <4>1, <4>2, <2>2
    <3>2. CASE i \notin s
      <4>1. s \in SUBSET (1 .. i - 1) /\ g[s] = f[s]
        BY <3>2, <2>3, <2>5 DEF LastOf
      <4>2. f[s] = IF s = {} THEN NoWriters
                   ELSE IpStep(f[s \ {Max(s)}], pcap[Max(s)])
        BY <4>1, <2>1 DEF IpUpto
      <4>3. s \ {Max(s)} \in SUBSET (1 .. i - 1)
        BY <4>1
      <4>4. g[s \ {Max(s)}] = f[s \ {Max(s)}]
        BY <4>3, <2>3, <2>6
      <4> QED
        BY <4>1, <4>2, <4>4
    <3> QED
      BY <3>1, <3>2
  <2>8. IpUpto(g, pcap, i)
    BY <2>4, <2>7, Zenon DEF IpUpto
  <2>9. i \in 0 .. n
    OBVIOUS
  <2> QED
    BY <2>8, <2>9
<1>3. \A i \in 0 .. n : i \in Good
  <2> HIDE DEF Good
  <2> QED
    BY <1>1, <1>2, UpTo, Zenon
<1>4. n \in 0 .. n
  OBVIOUS
<1> QED
  BY <1>3, <1>4

\* SplitByIp goes over the packets one by one.
LEMMA IpScan ==
  ASSUME NEW n \in Nat, NEW pcap, DOMAIN pcap = 1 .. n
  PROVE  \E f : /\ f[0] = NoWriters /\ SplitByIp(pcap) = f[n].files
                /\ \A i \in 1 .. n : f[i] = IpStep(f[i - 1], pcap[i])
<1> DEFINE h == CHOOSE f : IpUpto(f, pcap, n)
           f == [i \in 0 .. n |-> h[1 .. i]]
<1>1. SplitByIp(pcap) = h[1 .. n].files
  BY DEF SplitByIp, FoldLeft, MapThenFoldSet, IpUpto, IpStep, NoWriters
<1>2. IpUpto(h, pcap, n)
  BY IpExists, Zenon
<1> HIDE DEF h
<1>3. \A s \in SUBSET (1 .. n) :
        h[s] = IF s = {} THEN NoWriters
               ELSE IpStep(h[s \ {Max(s)}], pcap[Max(s)])
  BY <1>2 DEF IpUpto
<1>4. h[{}] = NoWriters
  BY <1>3, {} \in SUBSET (1 .. n)
<1>5. ASSUME NEW i \in 1 .. n PROVE h[1 .. i] = IpStep(h[1 .. i - 1], pcap[i])
  <2>1. /\ 1 .. i \in SUBSET (1 .. n) /\ 1 .. i # {}
        /\ Max(1 .. i) = i /\ (1 .. i) \ {i} = 1 .. i - 1
    BY Segments, Zenon
  <2> QED
    BY <2>1, <1>3
<1>6. 1 .. 0 = {}
  OBVIOUS
<1>7. f[0] = h[1 .. 0] /\ f[n] = h[1 .. n]
  OBVIOUS
<1>8. \A i \in 1 .. n : f[i] = h[1 .. i] /\ f[i - 1] = h[1 .. i - 1]
  OBVIOUS
<1> HIDE DEF f
<1>9. f[0] = NoWriters /\ SplitByIp(pcap) = f[n].files
  BY <1>1, <1>4, <1>6, <1>7
<1>10. \A i \in 1 .. n : f[i] = IpStep(f[i - 1], pcap[i])
  BY <1>5, <1>8
<1> QED
  BY <1>9, <1>10

\* Series, packet by packet.
SeriesStep(ts, p, first) ==
  [i \in Bins(WindowLen) |-> IF i = (p.t - first.t) \div BinLen THEN ts[i] + p.len ELSE ts[i]]

\* No packet yet, and the fold over a part of the packets.
NoBytes == [i \in Bins(WindowLen) |-> 0]
SeriesUpto(f, pcap, n) ==
  f = [s \in SUBSET (1 .. n) |->
         IF s = {} THEN NoBytes ELSE SeriesStep(f[s \ {Max(s)}], pcap[Max(s)], pcap[1])]

\* The fold of Series is defined.
LEMMA SeriesExists ==
  ASSUME NEW n \in Nat, NEW pcap
  PROVE  \E f : SeriesUpto(f, pcap, n)
<1> DEFINE Good == {m \in 0 .. n : \E f : SeriesUpto(f, pcap, m)}
<1>1. 0 \in Good
  <2> DEFINE f == [s \in SUBSET (1 .. 0) |-> NoBytes]
  <2>1. \A s \in SUBSET (1 .. 0) : s = {}
    OBVIOUS
  <2>2. SeriesUpto(f, pcap, 0)
    BY <2>1 DEF SeriesUpto
  <2> QED
    BY <2>2
<1>2. ASSUME NEW i \in 1 .. n, i - 1 \in Good
      PROVE  i \in Good
  <2>1. PICK f : SeriesUpto(f, pcap, i - 1)
    BY <1>2
  <2> DEFINE g == [s \in SUBSET (1 .. i) |->
                     IF i \in s THEN SeriesStep(f[s \ {i}], pcap[i], pcap[1]) ELSE f[s]]
  <2>2. \A s \in SUBSET (1 .. i) : i \in s => g[s] = SeriesStep(f[s \ {i}], pcap[i], pcap[1])
    OBVIOUS
  <2>3. \A s \in SUBSET (1 .. i) : i \notin s => g[s] = f[s]
    OBVIOUS
  <2>4. g = [s \in SUBSET (1 .. i) |-> g[s]]
    OBVIOUS
  <2> HIDE DEF g
  <2>5. \A s \in SUBSET (1 .. i) : LastOf(s, i)
    BY Lasts
  <2>6. \A s \in SUBSET (1 .. i - 1) : s \in SUBSET (1 .. i) /\ i \notin s
    OBVIOUS
  <2>7. ASSUME NEW s \in SUBSET (1 .. i)
        PROVE  g[s] = IF s = {} THEN NoBytes
                      ELSE SeriesStep(g[s \ {Max(s)}], pcap[Max(s)], pcap[1])
    <3>1. CASE i \in s
      <4>1. Max(s) = i /\ s \ {i} \in SUBSET (1 .. i - 1)
        BY <3>1, <2>5 DEF LastOf
      <4>2. g[s \ {i}] = f[s \ {i}]
        BY <4>1, <2>3, <2>6
      <4> QED
        BY <3>1, <4>1, <4>2, <2>2
    <3>2. CASE i \notin s
      <4>1. s \in SUBSET (1 .. i - 1) /\ g[s] = f[s]
        BY <3>2, <2>3, <2>5 DEF LastOf
      <4>2. f[s] = IF s = {} THEN NoBytes
                   ELSE SeriesStep(f[s \ {Max(s)}], pcap[Max(s)], pcap[1])
        BY <4>1, <2>1 DEF SeriesUpto
      <4>3. s \ {Max(s)} \in SUBSET (1 .. i - 1)
        BY <4>1
      <4>4. g[s \ {Max(s)}] = f[s \ {Max(s)}]
        BY <4>3, <2>3, <2>6
      <4> QED
        BY <4>1, <4>2, <4>4
    <3> QED
      BY <3>1, <3>2
  <2>8. SeriesUpto(g, pcap, i)
    BY <2>4, <2>7, Zenon DEF SeriesUpto
  <2>9. i \in 0 .. n
    OBVIOUS
  <2> QED
    BY <2>8, <2>9
<1>3. \A i \in 0 .. n : i \in Good
  <2> HIDE DEF Good
  <2> QED
    BY <1>1, <1>2, UpTo, Zenon
<1>4. n \in 0 .. n
  OBVIOUS
<1> QED
  BY <1>3, <1>4

\* Series goes over the packets one by one.
LEMMA SeriesScan ==
  ASSUME NEW n \in Nat, NEW pcap, DOMAIN pcap = 1 .. n
  PROVE  \E f : /\ f[0] = NoBytes /\ Series(pcap, WindowLen) = f[n]
                /\ \A i \in 1 .. n : f[i] = SeriesStep(f[i - 1], pcap[i], pcap[1])
<1> DEFINE h == CHOOSE f : SeriesUpto(f, pcap, n)
           f == [i \in 0 .. n |-> h[1 .. i]]
<1>1. Series(pcap, WindowLen) = h[1 .. n]
  BY DEF Series, FoldLeft, MapThenFoldSet, SeriesUpto, SeriesStep, NoBytes
<1>2. SeriesUpto(h, pcap, n)
  BY SeriesExists, Zenon
<1> HIDE DEF h
<1>3. \A s \in SUBSET (1 .. n) :
        h[s] = IF s = {} THEN NoBytes
               ELSE SeriesStep(h[s \ {Max(s)}], pcap[Max(s)], pcap[1])
  BY <1>2 DEF SeriesUpto
<1>4. h[{}] = NoBytes
  BY <1>3, {} \in SUBSET (1 .. n)
<1>5. ASSUME NEW i \in 1 .. n PROVE h[1 .. i] = SeriesStep(h[1 .. i - 1], pcap[i], pcap[1])
  <2>1. /\ 1 .. i \in SUBSET (1 .. n) /\ 1 .. i # {}
        /\ Max(1 .. i) = i /\ (1 .. i) \ {i} = 1 .. i - 1
    BY Segments, Zenon
  <2> QED
    BY <2>1, <1>3
<1>6. 1 .. 0 = {}
  OBVIOUS
<1>7. f[0] = h[1 .. 0] /\ f[n] = h[1 .. n]
  OBVIOUS
<1>8. \A i \in 1 .. n : f[i] = h[1 .. i] /\ f[i - 1] = h[1 .. i - 1]
  OBVIOUS
<1> HIDE DEF f
<1>9. f[0] = NoBytes /\ Series(pcap, WindowLen) = f[n]
  BY <1>1, <1>4, <1>6, <1>7
<1>10. \A i \in 1 .. n : f[i] = SeriesStep(f[i - 1], pcap[i], pcap[1])
  BY <1>5, <1>8
<1> QED
  BY <1>9, <1>10

\* SplitByWindow, packet by packet.
WinStep(s, p, first) ==
  IF p.t < first.t THEN s
  ELSE [at    |-> (p.t - first.t) \div WindowLen + 1,
        files |-> [k \in DOMAIN s.files \cup {(p.t - first.t) \div WindowLen + 1} |->
                     IF k # (p.t - first.t) \div WindowLen + 1 THEN s.files[k]
                     ELSE IF (p.t - first.t) \div WindowLen + 1 = s.at
                          THEN Append(s.files[(p.t - first.t) \div WindowLen + 1], p)
                          ELSE <<p>>]]

\* No packet yet, and the fold over a part of the packets.
NoWindows == [at |-> 0, files |-> NoFiles]
WinUpto(f, pcap, n) ==
  f = [s \in SUBSET (1 .. n) |->
         IF s = {} THEN NoWindows ELSE WinStep(f[s \ {Max(s)}], pcap[Max(s)], pcap[1])]

\* The fold of SplitByWindow is defined.
LEMMA WinExists ==
  ASSUME NEW n \in Nat, NEW pcap
  PROVE  \E f : WinUpto(f, pcap, n)
<1> DEFINE Good == {m \in 0 .. n : \E f : WinUpto(f, pcap, m)}
<1>1. 0 \in Good
  <2> DEFINE f == [s \in SUBSET (1 .. 0) |-> NoWindows]
  <2>1. \A s \in SUBSET (1 .. 0) : s = {}
    OBVIOUS
  <2>2. WinUpto(f, pcap, 0)
    BY <2>1 DEF WinUpto
  <2> QED
    BY <2>2
<1>2. ASSUME NEW i \in 1 .. n, i - 1 \in Good
      PROVE  i \in Good
  <2>1. PICK f : WinUpto(f, pcap, i - 1)
    BY <1>2
  <2> DEFINE g == [s \in SUBSET (1 .. i) |->
                     IF i \in s THEN WinStep(f[s \ {i}], pcap[i], pcap[1]) ELSE f[s]]
  <2>2. \A s \in SUBSET (1 .. i) : i \in s => g[s] = WinStep(f[s \ {i}], pcap[i], pcap[1])
    OBVIOUS
  <2>3. \A s \in SUBSET (1 .. i) : i \notin s => g[s] = f[s]
    OBVIOUS
  <2>4. g = [s \in SUBSET (1 .. i) |-> g[s]]
    OBVIOUS
  <2> HIDE DEF g
  <2>5. \A s \in SUBSET (1 .. i) : LastOf(s, i)
    BY Lasts
  <2>6. \A s \in SUBSET (1 .. i - 1) : s \in SUBSET (1 .. i) /\ i \notin s
    OBVIOUS
  <2>7. ASSUME NEW s \in SUBSET (1 .. i)
        PROVE  g[s] = IF s = {} THEN NoWindows
                      ELSE WinStep(g[s \ {Max(s)}], pcap[Max(s)], pcap[1])
    <3>1. CASE i \in s
      <4>1. Max(s) = i /\ s \ {i} \in SUBSET (1 .. i - 1)
        BY <3>1, <2>5 DEF LastOf
      <4>2. g[s \ {i}] = f[s \ {i}]
        BY <4>1, <2>3, <2>6
      <4> QED
        BY <3>1, <4>1, <4>2, <2>2
    <3>2. CASE i \notin s
      <4>1. s \in SUBSET (1 .. i - 1) /\ g[s] = f[s]
        BY <3>2, <2>3, <2>5 DEF LastOf
      <4>2. f[s] = IF s = {} THEN NoWindows
                   ELSE WinStep(f[s \ {Max(s)}], pcap[Max(s)], pcap[1])
        BY <4>1, <2>1 DEF WinUpto
      <4>3. s \ {Max(s)} \in SUBSET (1 .. i - 1)
        BY <4>1
      <4>4. g[s \ {Max(s)}] = f[s \ {Max(s)}]
        BY <4>3, <2>3, <2>6
      <4> QED
        BY <4>1, <4>2, <4>4
    <3> QED
      BY <3>1, <3>2
  <2>8. WinUpto(g, pcap, i)
    BY <2>4, <2>7, Zenon DEF WinUpto
  <2>9. i \in 0 .. n
    OBVIOUS
  <2> QED
    BY <2>8, <2>9
<1>3. \A i \in 0 .. n : i \in Good
  <2> HIDE DEF Good
  <2> QED
    BY <1>1, <1>2, UpTo, Zenon
<1>4. n \in 0 .. n
  OBVIOUS
<1> QED
  BY <1>3, <1>4

\* SplitByWindow goes over the packets one by one.
LEMMA WinScan ==
  ASSUME NEW n \in Nat, NEW pcap, DOMAIN pcap = 1 .. n
  PROVE  \E f : /\ f[0] = NoWindows /\ SplitByWindow(pcap) = f[n].files
                /\ \A i \in 1 .. n : f[i] = WinStep(f[i - 1], pcap[i], pcap[1])
<1> DEFINE h == CHOOSE f : WinUpto(f, pcap, n)
           f == [i \in 0 .. n |-> h[1 .. i]]
<1>1. SplitByWindow(pcap) = h[1 .. n].files
  BY DEF SplitByWindow, FoldLeft, MapThenFoldSet, WinUpto, WinStep, NoWindows
<1>2. WinUpto(h, pcap, n)
  BY WinExists, Zenon
<1> HIDE DEF h
<1>3. \A s \in SUBSET (1 .. n) :
        h[s] = IF s = {} THEN NoWindows
               ELSE WinStep(h[s \ {Max(s)}], pcap[Max(s)], pcap[1])
  BY <1>2 DEF WinUpto
<1>4. h[{}] = NoWindows
  BY <1>3, {} \in SUBSET (1 .. n)
<1>5. ASSUME NEW i \in 1 .. n PROVE h[1 .. i] = WinStep(h[1 .. i - 1], pcap[i], pcap[1])
  <2>1. /\ 1 .. i \in SUBSET (1 .. n) /\ 1 .. i # {}
        /\ Max(1 .. i) = i /\ (1 .. i) \ {i} = 1 .. i - 1
    BY Segments, Zenon
  <2> QED
    BY <2>1, <1>3
<1>6. 1 .. 0 = {}
  OBVIOUS
<1>7. f[0] = h[1 .. 0] /\ f[n] = h[1 .. n]
  OBVIOUS
<1>8. \A i \in 1 .. n : f[i] = h[1 .. i] /\ f[i - 1] = h[1 .. i - 1]
  OBVIOUS
<1> HIDE DEF f
<1>9. f[0] = NoWindows /\ SplitByWindow(pcap) = f[n].files
  BY <1>1, <1>4, <1>6, <1>7
<1>10. \A i \in 1 .. n : f[i] = WinStep(f[i - 1], pcap[i], pcap[1])
  BY <1>5, <1>8
<1> QED
  BY <1>9, <1>10

\* Tree, level by level.
TreeStep(s, len) ==
  [level |-> Aggregate(s.level, len),
   all   |-> [n \in DOMAIN s.all \cup DOMAIN Aggregate(s.level, len) |->
                IF n \in DOMAIN Aggregate(s.level, len) THEN Aggregate(s.level, len)[n]
                ELSE s.all[n]]]

\* The prefix lengths above the leaves.
Lengths == [i \in 1 .. (AddrBits - TopPrefix) |-> AddrBits - i] \o <<0>>

\* The leaves alone, and the fold over a part of the levels.
Leaves0(leaves) == [level |-> leaves, all |-> leaves]
TreeUpto(f, leaves, n) ==
  f = [s \in SUBSET (1 .. n) |->
         IF s = {} THEN Leaves0(leaves) ELSE TreeStep(f[s \ {Max(s)}], Lengths[Max(s)])]

\* The fold of Tree is defined.
LEMMA TreeExists ==
  ASSUME NEW n \in Nat, NEW leaves
  PROVE  \E f : TreeUpto(f, leaves, n)
<1> DEFINE Good == {m \in 0 .. n : \E f : TreeUpto(f, leaves, m)}
<1>1. 0 \in Good
  <2> DEFINE f == [s \in SUBSET (1 .. 0) |-> Leaves0(leaves)]
  <2>1. \A s \in SUBSET (1 .. 0) : s = {}
    OBVIOUS
  <2>2. TreeUpto(f, leaves, 0)
    BY <2>1 DEF TreeUpto
  <2> QED
    BY <2>2
<1>2. ASSUME NEW i \in 1 .. n, i - 1 \in Good
      PROVE  i \in Good
  <2>1. PICK f : TreeUpto(f, leaves, i - 1)
    BY <1>2
  <2> DEFINE g == [s \in SUBSET (1 .. i) |->
                     IF i \in s THEN TreeStep(f[s \ {i}], Lengths[i]) ELSE f[s]]
  <2>2. \A s \in SUBSET (1 .. i) : i \in s => g[s] = TreeStep(f[s \ {i}], Lengths[i])
    OBVIOUS
  <2>3. \A s \in SUBSET (1 .. i) : i \notin s => g[s] = f[s]
    OBVIOUS
  <2>4. g = [s \in SUBSET (1 .. i) |-> g[s]]
    OBVIOUS
  <2> HIDE DEF g
  <2>5. \A s \in SUBSET (1 .. i) : LastOf(s, i)
    BY Lasts
  <2>6. \A s \in SUBSET (1 .. i - 1) : s \in SUBSET (1 .. i) /\ i \notin s
    OBVIOUS
  <2>7. ASSUME NEW s \in SUBSET (1 .. i)
        PROVE  g[s] = IF s = {} THEN Leaves0(leaves)
                      ELSE TreeStep(g[s \ {Max(s)}], Lengths[Max(s)])
    <3>1. CASE i \in s
      <4>1. Max(s) = i /\ s \ {i} \in SUBSET (1 .. i - 1)
        BY <3>1, <2>5 DEF LastOf
      <4>2. g[s \ {i}] = f[s \ {i}]
        BY <4>1, <2>3, <2>6
      <4> QED
        BY <3>1, <4>1, <4>2, <2>2
    <3>2. CASE i \notin s
      <4>1. s \in SUBSET (1 .. i - 1) /\ g[s] = f[s]
        BY <3>2, <2>3, <2>5 DEF LastOf
      <4>2. f[s] = IF s = {} THEN Leaves0(leaves)
                   ELSE TreeStep(f[s \ {Max(s)}], Lengths[Max(s)])
        BY <4>1, <2>1 DEF TreeUpto
      <4>3. s \ {Max(s)} \in SUBSET (1 .. i - 1)
        BY <4>1
      <4>4. g[s \ {Max(s)}] = f[s \ {Max(s)}]
        BY <4>3, <2>3, <2>6
      <4> QED
        BY <4>1, <4>2, <4>4
    <3> QED
      BY <3>1, <3>2
  <2>8. TreeUpto(g, leaves, i)
    BY <2>4, <2>7, Zenon DEF TreeUpto
  <2>9. i \in 0 .. n
    OBVIOUS
  <2> QED
    BY <2>8, <2>9
<1>3. \A i \in 0 .. n : i \in Good
  <2> HIDE DEF Good
  <2> QED
    BY <1>1, <1>2, UpTo, Zenon
<1>4. n \in 0 .. n
  OBVIOUS
<1> QED
  BY <1>3, <1>4

\* Tree goes over the prefix lengths one by one.
LEMMA TreeScan ==
  ASSUME NEW n \in Nat, NEW leaves, DOMAIN Lengths = 1 .. n
  PROVE  \E f : /\ f[0] = Leaves0(leaves) /\ Tree(leaves) = f[n].all
                /\ \A i \in 1 .. n : f[i] = TreeStep(f[i - 1], Lengths[i])
<1> DEFINE h == CHOOSE f : TreeUpto(f, leaves, n)
           f == [i \in 0 .. n |-> h[1 .. i]]
<1>1. Tree(leaves) = h[1 .. n].all
  BY DEF Tree, FoldLeft, MapThenFoldSet, TreeUpto, TreeStep, Leaves0, Lengths
<1>2. TreeUpto(h, leaves, n)
  BY TreeExists, Zenon
<1> HIDE DEF h
<1>3. \A s \in SUBSET (1 .. n) :
        h[s] = IF s = {} THEN Leaves0(leaves)
               ELSE TreeStep(h[s \ {Max(s)}], Lengths[Max(s)])
  BY <1>2 DEF TreeUpto
<1>4. h[{}] = Leaves0(leaves)
  BY <1>3, {} \in SUBSET (1 .. n)
<1>5. ASSUME NEW i \in 1 .. n PROVE h[1 .. i] = TreeStep(h[1 .. i - 1], Lengths[i])
  <2>1. /\ 1 .. i \in SUBSET (1 .. n) /\ 1 .. i # {}
        /\ Max(1 .. i) = i /\ (1 .. i) \ {i} = 1 .. i - 1
    BY Segments, Zenon
  <2> QED
    BY <2>1, <1>3
<1>6. 1 .. 0 = {}
  OBVIOUS
<1>7. f[0] = h[1 .. 0] /\ f[n] = h[1 .. n]
  OBVIOUS
<1>8. \A i \in 1 .. n : f[i] = h[1 .. i] /\ f[i - 1] = h[1 .. i - 1]
  OBVIOUS
<1> HIDE DEF f
<1>9. f[0] = Leaves0(leaves) /\ Tree(leaves) = f[n].all
  BY <1>1, <1>4, <1>6, <1>7
<1>10. \A i \in 1 .. n : f[i] = TreeStep(f[i - 1], Lengths[i])
  BY <1>5, <1>8
<1> QED
  BY <1>9, <1>10

-----------------------------------------------------------------------------
(* What the computations make of packets: files, series, trees.             *)

\* F has files under names of K.
Pcaps(F, K) ==
  /\ F = [k \in DOMAIN F |-> F[k]]
  /\ DOMAIN F \subseteq K
  /\ \A k \in DOMAIN F : F[k] \in Seq(Packet)

\* Writing a packet leaves files of packets.
LEMMA WriteTyped ==
  ASSUME NEW s, NEW K, Pcaps(s.files, K), NEW key \in K, NEW p \in Packet
  PROVE  Pcaps(WritePacket(s, key, p).files, K)
<1> DEFINE file == IF key \in DOMAIN s.files THEN s.files[key] ELSE <<>>
           F == [k \in DOMAIN s.files \cup {key} |->
                   IF k = key THEN Append(file, p) ELSE s.files[k]]
<1>1. WritePacket(s, key, p).files = F
  BY DEF WritePacket
<1>2. file \in Seq(Packet)
  BY DEF Pcaps
<1> HIDE DEF file
<1>3. Append(file, p) \in Seq(Packet)
  BY <1>2
<1>4. Pcaps(F, K)
  BY <1>3 DEF Pcaps
<1> QED
  BY <1>1, <1>4

\* The names SplitByIp gives a file.
Keys == Internal \X Directions

\* A capture is split into files of packets, by user and direction.
LEMMA SplitByIpTyped ==
  ASSUME NEW pcap \in Seq(Packet)
  PROVE  Pcaps(SplitByIp(pcap), Keys)
<1> DEFINE n == Len(pcap)
<1>1. n \in Nat /\ DOMAIN pcap = 1 .. n /\ \A i \in 1 .. n : pcap[i] \in Packet
  OBVIOUS
<1> HIDE DEF n
<1>2. PICK f : /\ f[0] = NoWriters /\ SplitByIp(pcap) = f[n].files
               /\ \A i \in 1 .. n : f[i] = IpStep(f[i - 1], pcap[i])
  BY <1>1, IpScan
<1> DEFINE Good == {i \in 0 .. n : Pcaps(f[i].files, Keys)}
<1>3. 0 \in Good
  <2>1. Pcaps(NoFiles, Keys)
    BY DEF Pcaps, NoFiles
  <2>2. f[0].files = NoFiles
    BY <1>2 DEF NoWriters
  <2> QED
    BY <2>1, <2>2, <1>1
<1>4. ASSUME NEW i \in 1 .. n, i - 1 \in Good PROVE i \in Good
  <2> DEFINE s == f[i - 1]
             p == pcap[i]
             up == IF p.src \in Internal THEN WritePacket(s, <<p.src, "upload">>, p) ELSE s
  <2>1. Pcaps(s.files, Keys) /\ p \in Packet
    BY <1>1, <1>4
  <2> HIDE DEF s, p
  <2>2. \A a \in Internal, d \in Directions : <<a, d>> \in Keys
    BY DEF Keys
  <2>3. Pcaps(up.files, Keys)
    <3>1. CASE p.src \in Internal
      <4>1. <<p.src, "upload">> \in Keys
        BY <2>2, <3>1 DEF Directions
      <4> QED
        BY <2>1, <3>1, <4>1, WriteTyped
    <3>2. CASE p.src \notin Internal
      BY <2>1, <3>2
    <3> QED
      BY <3>1, <3>2
  <2> HIDE DEF up
  <2>4. IpStep(s, p) = IF p.dst \in Internal THEN WritePacket(up, <<p.dst, "download">>, p) ELSE up
    BY DEF IpStep, up
  <2>5. Pcaps(IpStep(s, p).files, Keys)
    <3>1. CASE p.dst \in Internal
      <4>1. <<p.dst, "download">> \in Keys
        BY <2>2, <3>1 DEF Directions
      <4> QED
        BY <2>1, <2>3, <2>4, <3>1, <4>1, WriteTyped
    <3>2. CASE p.dst \notin Internal
      BY <2>3, <2>4, <3>2
    <3> QED
      BY <3>1, <3>2
  <2>6. i \in 0 .. n /\ f[i] = IpStep(s, p)
    BY <1>1, <1>2 DEF s, p
  <2> QED
    BY <2>5, <2>6
<1>5. \A i \in 0 .. n : i \in Good
  <2> HIDE DEF Good
  <2> QED
    BY <1>1, <1>3, <1>4, UpTo, Zenon
<1>6. n \in 0 .. n
  BY <1>1
<1> QED
  BY <1>2, <1>5, <1>6

\* The window of the last packet has a file.
WinFits(s) ==
  /\ s.at = 0 \/ s.at \in DOMAIN s.files
  /\ \A k \in DOMAIN s.files : s.files[k] \in Seq(Packet)

\* A file is split into files of packets.
LEMMA SplitByWindowTyped ==
  ASSUME NEW pcap \in Seq(Packet)
  PROVE  \A w \in DOMAIN SplitByWindow(pcap) : SplitByWindow(pcap)[w] \in Seq(Packet)
<1> DEFINE n == Len(pcap)
<1>1. n \in Nat /\ DOMAIN pcap = 1 .. n /\ \A i \in 1 .. n : pcap[i] \in Packet
  OBVIOUS
<1> HIDE DEF n
<1>2. PICK f : /\ f[0] = NoWindows /\ SplitByWindow(pcap) = f[n].files
               /\ \A i \in 1 .. n : f[i] = WinStep(f[i - 1], pcap[i], pcap[1])
  BY <1>1, WinScan
<1> DEFINE Good == {i \in 0 .. n : WinFits(f[i])}
<1>3. 0 \in Good
  BY <1>1, <1>2 DEF WinFits, NoWindows, NoFiles
<1>4. ASSUME NEW i \in 1 .. n, i - 1 \in Good PROVE i \in Good
  <2> DEFINE s == f[i - 1]
             p == pcap[i]
             q == pcap[1]
             w == (p.t - q.t) \div WindowLen + 1
  <2>1. WinFits(s) /\ p \in Packet /\ q \in Packet
    BY <1>1, <1>4
  <2>2. i \in 0 .. n /\ f[i] = WinStep(s, p, q)
    BY <1>1, <1>2
  <2> HIDE DEF s, p, q
  <2>3. CASE p.t < q.t
    BY <2>1, <2>2, <2>3 DEF WinStep
  <2>4. CASE ~(p.t < q.t)
    <3>1. w # 0
      <4>1. p.t - q.t \in Nat /\ WindowLen \in Nat /\ WindowLen > 0
        BY <2>1, <2>4, CtpAssumption DEF Packet
      <4>2. (p.t - q.t) \div WindowLen \in Nat
        BY <4>1
      <4> QED
        BY <4>2
    <3> DEFINE F == [k \in DOMAIN s.files \cup {w} |->
                     IF k # w THEN s.files[k]
                     ELSE IF w = s.at THEN Append(s.files[w], p) ELSE <<p>>]
    <3>2. WinStep(s, p, q) = [at |-> w, files |-> F]
      BY <2>4 DEF WinStep
    <3> HIDE DEF w
    <3>3. w = s.at => w \in DOMAIN s.files
      BY <2>1, <3>1 DEF WinFits
    <3>4. \A k \in DOMAIN F : F[k] \in Seq(Packet)
      BY <2>1, <3>3 DEF WinFits
    <3>5. w \in DOMAIN F
      OBVIOUS
    <3> HIDE DEF F
    <3>6. WinFits(WinStep(s, p, q))
      BY <3>2, <3>4, <3>5 DEF WinFits
    <3> QED
      BY <3>6, <2>2
  <2> QED
    BY <2>3, <2>4
<1>5. \A i \in 0 .. n : i \in Good
  <2> HIDE DEF Good
  <2> QED
    BY <1>1, <1>3, <1>4, UpTo, Zenon
<1>6. n \in 0 .. n
  BY <1>1
<1> QED
  BY <1>2, <1>5, <1>6 DEF WinFits

\* The series of a file of packets has an amount in every bin.
LEMMA SeriesTyped ==
  ASSUME NEW pcap \in Seq(Packet)
  PROVE  Series(pcap, WindowLen) \in Amounts
<1> DEFINE n == Len(pcap)
<1>1. n \in Nat /\ DOMAIN pcap = 1 .. n /\ \A i \in 1 .. n : pcap[i] \in Packet
  OBVIOUS
<1> HIDE DEF n
<1>2. PICK f : /\ f[0] = NoBytes /\ Series(pcap, WindowLen) = f[n]
               /\ \A i \in 1 .. n : f[i] = SeriesStep(f[i - 1], pcap[i], pcap[1])
  BY <1>1, SeriesScan
<1> DEFINE Good == {i \in 0 .. n : f[i] \in Amounts}
<1>3. 0 \in Good
  BY <1>1, <1>2 DEF NoBytes, Amounts
<1>4. ASSUME NEW i \in 1 .. n, i - 1 \in Good PROVE i \in Good
  <2>1. pcap[i].len \in Nat
    BY <1>1 DEF Packet
  <2>2. SeriesStep(f[i - 1], pcap[i], pcap[1]) \in Amounts
    BY <1>4, <2>1 DEF SeriesStep, Amounts
  <2> QED
    BY <1>1, <1>2, <2>2
<1>5. \A i \in 0 .. n : i \in Good
  <2> HIDE DEF Good
  <2> QED
    BY <1>1, <1>3, <1>4, UpTo, Zenon
<1>6. n \in 0 .. n
  BY <1>1
<1> QED
  BY <1>2, <1>5, <1>6

\* A level of the tree.
Level(l) == /\ IsFiniteSet(DOMAIN l)
            /\ \A n \in DOMAIN l : l[n].series \in [Directions -> Amounts]

\* The parents of a level are a level.
LEMMA AggregateTyped ==
  ASSUME NEW l, Level(l), NEW len
  PROVE  Level(Aggregate(l, len))
<1> DEFINE up == {SuperNet(n, len) : n \in DOMAIN l}
<1>1. DOMAIN Aggregate(l, len) = up
  BY DEF Aggregate
<1>2. IsFiniteSet(up)
  <2> DEFINE g == [n \in DOMAIN l |-> SuperNet(n, len)]
  <2>1. g \in Surjection(DOMAIN l, up)
    BY DEF Surjection
  <2> QED
    BY <2>1, FS_Surjection DEF Level
<1>3. ASSUME NEW net \in up
      PROVE  Aggregate(l, len)[net].series \in [Directions -> Amounts]
  <2> DEFINE kids == {n \in DOMAIN l : SuperNet(n, len) = net}
             ser == [d \in Directions |-> [i \in Bins(WindowLen) |->
                     Total([k \in kids |-> l[k].series[d][i]])]]
  <2>1. Aggregate(l, len)[net].series = ser
    BY <1>3 DEF Aggregate
  <2>2. IsFiniteSet(kids)
    <3>1. kids \subseteq DOMAIN l
      OBVIOUS
    <3> QED
      BY <3>1, FS_Subset DEF Level
  <2>3. \A d \in Directions, i \in Bins(WindowLen) : \A k \in kids : l[k].series[d][i] \in Nat
    BY DEF Level, Amounts
  <2> HIDE DEF kids
  <2>4. ASSUME NEW d \in Directions, NEW i \in Bins(WindowLen)
        PROVE  Total([k \in kids |-> l[k].series[d][i]]) \in Nat
    <3> DEFINE v == [k \in kids |-> l[k].series[d][i]]
    <3>1. Summable(v)
      BY <2>2, <2>3 DEF Summable
    <3> HIDE DEF v
    <3>2. Total(v) \in Nat
      BY <3>1, TotalNat
    <3> QED
      BY <3>2 DEF v
  <2> QED
    BY <2>1, <2>4 DEF Amounts
<1> QED
  BY <1>1, <1>2, <1>3 DEF Level

\* The tree over a level of leaves is a level.
LEMMA TreeTyped ==
  ASSUME NEW leaves, Level(leaves)
  PROVE  Level(Tree(leaves))
<1> DEFINE n == Len(Lengths)
<1>1. n \in Nat /\ DOMAIN Lengths = 1 .. n
  <2>1. Lengths \in Seq(Int)
    BY CtpAssumption DEF Lengths
  <2> QED
    BY <2>1
<1> HIDE DEF n
<1>2. PICK f : /\ f[0] = Leaves0(leaves) /\ Tree(leaves) = f[n].all
               /\ \A i \in 1 .. n : f[i] = TreeStep(f[i - 1], Lengths[i])
  BY <1>1, TreeScan
<1> DEFINE Good == {i \in 0 .. n : Level(f[i].level) /\ Level(f[i].all)}
<1>3. 0 \in Good
  BY <1>1, <1>2 DEF Leaves0
<1>4. ASSUME NEW i \in 1 .. n, i - 1 \in Good PROVE i \in Good
  <2> DEFINE s == f[i - 1]
             up == Aggregate(s.level, Lengths[i])
  <2>1. Level(s.level) /\ Level(s.all)
    BY <1>4
  <2>2. Level(up)
    BY <2>1, AggregateTyped
  <2>3. f[i] = TreeStep(s, Lengths[i]) /\ i \in 0 .. n
    BY <1>1, <1>2
  <2>4. /\ f[i].level = up
        /\ f[i].all = [m \in DOMAIN s.all \cup DOMAIN up |->
                         IF m \in DOMAIN up THEN up[m] ELSE s.all[m]]
    BY <2>3 DEF TreeStep
  <2> HIDE DEF s, up
  <2>5. IsFiniteSet(DOMAIN s.all \cup DOMAIN up)
    BY <2>1, <2>2, FS_Union DEF Level
  <2>6. Level(f[i].all)
    BY <2>1, <2>2, <2>4, <2>5 DEF Level
  <2> QED
    BY <2>2, <2>3, <2>4, <2>6
<1>5. \A i \in 0 .. n : i \in Good
  <2> HIDE DEF Good
  <2> QED
    BY <1>1, <1>3, <1>4, UpTo, Zenon
<1>6. n \in 0 .. n
  BY <1>1
<1> QED
  BY <1>2, <1>5, <1>6

-----------------------------------------------------------------------------
(* What is picked from a file, and intervals of time.                       *)

\* How many members of a set are no greater than x.
Rank(set, x) == Cardinality({j \in set : j <= x})

\* The members of a set of numbers are ranked in order, and Nth inverts this.
LEMMA Ranks ==
  ASSUME NEW S \in SUBSET Int, IsFiniteSet(S)
  PROVE  /\ Cardinality(S) \in Nat
         /\ \A x \in S : Rank(S, x) \in 1 .. Cardinality(S) /\ Nth(S, Rank(S, x)) = x
         /\ \A k \in 1 .. Cardinality(S) : Nth(S, k) \in S /\ Rank(S, Nth(S, k)) = k
         /\ \A x, y \in S : x < y => Rank(S, x) < Rank(S, y)
<1> DEFINE n == Cardinality(S)
           Low(x) == {j \in S : j <= x}
           g == [x \in S |-> Rank(S, x)]
<1>1. n \in Nat
  BY FS_CardinalityType
<1>2. \A x \in S : IsFiniteSet(Low(x)) /\ Cardinality(Low(x)) \in Nat /\ Cardinality(Low(x)) <= n
                   /\ Low(x) # {}
  BY FS_Subset, FS_CardinalityType
<1>3. \A x \in S : Rank(S, x) \in 1 .. n
  <2> SUFFICES ASSUME NEW x \in S PROVE Cardinality(Low(x)) \in 1 .. n
    BY DEF Rank
  <2>1. Cardinality(Low(x)) # 0
    BY <1>2, FS_EmptySet
  <2> HIDE DEF Low
  <2> QED
    BY <1>1, <1>2, <2>1
<1>4. ASSUME NEW x \in S, NEW y \in S, x < y
      PROVE  Rank(S, x) < Rank(S, y)
  <2>0. x \in Int /\ y \in Int /\ \A j \in S : j \in Int
    OBVIOUS
  <2>1. Low(x) \cup {y} \subseteq Low(y) /\ y \notin Low(x)
    <3>1. \A j \in S : j <= x => j <= y
      BY <1>4, <2>0
    <3>2. y <= y /\ ~ (y <= x)
      BY <1>4, <2>0
    <3> QED
      BY <3>1, <3>2
  <2>2. IsFiniteSet(Low(x)) /\ IsFiniteSet(Low(y)) /\ Cardinality(Low(x)) \in Nat
    BY <1>2
  <2> HIDE DEF Low
  <2>3. Cardinality(Low(x) \cup {y}) = Cardinality(Low(x)) + 1
    BY <2>1, <2>2, FS_AddElement
  <2>4. Cardinality(Low(x) \cup {y}) <= Cardinality(Low(y)) /\ Cardinality(Low(y)) \in Nat
    BY <2>1, <2>2, FS_Subset, FS_CardinalityType
  <2> QED
    BY <2>2, <2>3, <2>4 DEF Rank, Low
<1>5. g \in Injection(S, 1 .. n)
  <2>1. \A x, y \in S : g[x] = g[y] => x = y
    <3> SUFFICES ASSUME NEW x \in S, NEW y \in S, g[x] = g[y], x # y PROVE FALSE
      OBVIOUS
    <3>1. x < y \/ y < x
      OBVIOUS
    <3>2. Rank(S, x) \in 1 .. n /\ Rank(S, y) \in 1 .. n /\ Rank(S, x) = Rank(S, y)
      BY <1>3
    <3> QED
      BY <1>1, <1>4, <3>1, <3>2
  <2> QED
    BY <1>3, <2>1 DEF Injection, IsInjective
<1>6. g \in Surjection(S, 1 .. n)
  <2>1. IsFiniteSet(1 .. n) /\ Cardinality(1 .. n) = n
    BY <1>1, FS_Interval
  <2> HIDE DEF g
  <2> QED
    BY <1>5, <2>1, FS_Injection DEF n
<1>7. ASSUME NEW k \in 1 .. n
      PROVE  Nth(S, k) \in S /\ Rank(S, Nth(S, k)) = k
  <2>1. \E x \in S : Cardinality(Low(x)) = k
    BY <1>6 DEF Surjection, Rank
  <2> QED
    BY <2>1 DEF Nth, Rank
<1>8. \A x, y \in S : Rank(S, x) = Rank(S, y) => x = y
  BY <1>5 DEF Injection, IsInjective
<1>9. ASSUME NEW x \in S
      PROVE  Nth(S, Rank(S, x)) = x
  BY <1>3, <1>7, <1>8
<1> QED
  BY <1>1, <1>3, <1>4, <1>7, <1>9

\* A set of numbers in order: the positions of the first k of them.
LEMMA NthOrder ==
  ASSUME NEW S \in SUBSET Int, IsFiniteSet(S), NEW j \in 1 .. Cardinality(S),
         NEW k \in 1 .. Cardinality(S), j < k
  PROVE  Nth(S, j) < Nth(S, k)
<1>1. /\ Nth(S, j) \in S /\ Rank(S, Nth(S, j)) = j /\ Nth(S, k) \in S /\ Rank(S, Nth(S, k)) = k
      /\ \A x, y \in S : x < y => Rank(S, x) < Rank(S, y)
  BY Ranks
<1>2. Nth(S, j) \in Int /\ Nth(S, k) \in Int /\ Cardinality(S) \in Nat
  BY <1>1, FS_CardinalityType
<1>3. Nth(S, j) # Nth(S, k) /\ ~ (Nth(S, k) < Nth(S, j))
  BY <1>1, <1>2
<1> QED
  BY <1>2, <1>3

\* A picked sequence has one packet for every position.
LEMMA PickTyped ==
  ASSUME NEW T, NEW pcap \in Seq(T), NEW at \in SUBSET DOMAIN pcap
  PROVE  /\ IsFiniteSet(at) /\ at \in SUBSET Int /\ Cardinality(at) \in Nat
         /\ Pick(pcap, at) \in Seq(T) /\ Len(Pick(pcap, at)) = Cardinality(at)
         /\ \A k \in 1 .. Cardinality(at) :
              Nth(at, k) \in at /\ Pick(pcap, at)[k] = pcap[Nth(at, k)]
<1>1. IsFiniteSet(at) /\ at \in SUBSET Int
  <2>1. IsFiniteSet(1 .. Len(pcap))
    BY FS_Interval
  <2> QED
    BY <2>1, FS_Subset
<1>2. Cardinality(at) \in Nat /\ \A k \in 1 .. Cardinality(at) : Nth(at, k) \in at
  BY <1>1, Ranks
<1>3. \A k \in 1 .. Cardinality(at) : pcap[Nth(at, k)] \in T
  BY <1>2
<1> DEFINE n == Cardinality(at)
           s == [k \in 1 .. n |-> pcap[Nth(at, k)]]
<1>4. s \in Seq(T) /\ Len(s) = n
  <2> HIDE DEF n
  <2>1. n \in Nat
    BY <1>2 DEF n
  <2>2. \A k \in 1 .. n : pcap[Nth(at, k)] \in T
    BY <1>3 DEF n
  <2> QED
    BY <2>1, <2>2
<1> QED
  BY <1>1, <1>2, <1>4 DEF Pick

\* Nothing is picked at no position.
LEMMA PickNone ==
  ASSUME NEW pcap
  PROVE  Pick(pcap, {}) = <<>>
<1>1. Cardinality({}) = 0
  BY FS_EmptySet
<1> QED
  BY <1>1 DEF Pick

\* A position behind all the others is picked last.
LEMMA PickLast ==
  ASSUME NEW T, NEW pcap \in Seq(T), NEW at \in SUBSET DOMAIN pcap, NEW k \in DOMAIN pcap,
         \A j \in at : j < k
  PROVE  Pick(pcap, at \cup {k}) = Append(Pick(pcap, at), pcap[k])
<1> DEFINE B == at \cup {k}
           n == Cardinality(at)
<1>1. IsFiniteSet(at) /\ at \in SUBSET Int /\ n \in Nat /\ k \notin at
  BY PickTyped
<1>2. B \in SUBSET DOMAIN pcap
  OBVIOUS
<1>3. IsFiniteSet(B) /\ B \in SUBSET Int /\ Cardinality(B) = n + 1
  BY <1>1, <1>2, PickTyped, FS_AddElement
<1>4. ASSUME NEW x \in at PROVE Rank(B, x) = Rank(at, x)
  <2>1. {j \in B : j <= x} = {j \in at : j <= x}
    OBVIOUS
  <2> QED
    BY <2>1 DEF Rank
<1>5. Rank(B, k) = n + 1
  <2>1. {j \in B : j <= k} = B
    OBVIOUS
  <2> QED
    BY <1>3, <2>1 DEF Rank
<1>6. Nth(B, n + 1) = k
  BY <1>3, <1>5, Ranks
<1>7. ASSUME NEW i \in 1 .. n PROVE Nth(B, i) = Nth(at, i)
  <2>1. Nth(at, i) \in at /\ Rank(at, Nth(at, i)) = i
    BY <1>1, Ranks
  <2>2. Nth(at, i) \in B /\ Rank(B, Nth(at, i)) = i
    BY <1>4, <2>1
  <2> QED
    BY <1>3, <2>2, Ranks
<1>8. Pick(pcap, B) = [i \in 1 .. n + 1 |-> pcap[Nth(B, i)]]
  BY <1>3 DEF Pick
<1>9. /\ Pick(pcap, at) \in Seq(T) /\ Len(Pick(pcap, at)) = n
      /\ \A i \in 1 .. n : Pick(pcap, at)[i] = pcap[Nth(at, i)]
  BY PickTyped
<1> HIDE DEF B, n
<1> DEFINE s == Pick(pcap, at)
<1>10. Append(s, pcap[k]) = [i \in 1 .. n + 1 |-> IF i = n + 1 THEN pcap[k] ELSE s[i]]
  <2> DEFINE e == pcap[k]
             r == [i \in 1 .. n + 1 |-> IF i = n + 1 THEN e ELSE s[i]]
  <2>1. s \in Seq(T) /\ Len(s) = n /\ e \in T /\ n \in Nat
    BY <1>1, <1>9 DEF n
  <2> HIDE DEF s, e
  <2>2. r \in Seq(T) /\ Len(r) = n + 1
    BY <2>1
  <2>3. Append(s, e) \in Seq(T) /\ Len(Append(s, e)) = n + 1
    BY <2>1
  <2>4. \A i \in 1 .. n + 1 : Append(s, e)[i] = r[i]
    BY <2>1
  <2> HIDE DEF r
  <2>5. Append(s, e) = r
    BY <2>1, <2>2, <2>3, <2>4
  <2> QED
    BY <2>5 DEF r, e
<1>11. \A i \in 1 .. n + 1 : pcap[Nth(B, i)] = IF i = n + 1 THEN pcap[k] ELSE s[i]
  <2> SUFFICES ASSUME NEW i \in 1 .. n + 1
               PROVE  pcap[Nth(B, i)] = IF i = n + 1 THEN pcap[k] ELSE s[i]
    OBVIOUS
  <2>1. CASE i = n + 1
    BY <1>6, <2>1
  <2>2. CASE i # n + 1
    <3>1. i \in 1 .. n
      BY <1>1, <2>2 DEF n
    <3> QED
      BY <1>7, <1>9, <2>2, <3>1
  <2> QED
    BY <2>1, <2>2
<1> QED
  BY <1>8, <1>10, <1>11 DEF B

\* An amount is below a multiple of a length as its whole lengths are.
LEMMA DivLess ==
  ASSUME NEW x \in Nat, NEW len \in Nat \ {0}, NEW c \in Int
  PROVE  x \div len \in Nat /\ (x < c * len <=> x \div len < c)
<1> DEFINE q == x \div len
           r == x % len
<1>1. q \in Nat /\ r \in 0 .. len - 1 /\ x = len * q + r
  OBVIOUS
<1> HIDE DEF q, r
<1>2. ASSUME q < c PROVE x < c * len
  <2>1. c - q >= 1 /\ c - q \in Int
    BY <1>1, <1>2
  <2>2. (c - q) * len >= len
    BY <2>1
  <2>3. (c - q) * len = c * len - len * q /\ c * len \in Int /\ len * q \in Int
    BY <1>1
  <2> QED
    BY <1>1, <2>2, <2>3
<1>3. ASSUME ~ (q < c) PROVE ~ (x < c * len)
  <2>1. q - c \in Nat
    BY <1>1, <1>3
  <2>2. (q - c) * len >= 0
    BY <2>1
  <2>3. (q - c) * len = len * q - c * len /\ c * len \in Int /\ len * q \in Int
    BY <1>1
  <2> QED
    BY <1>1, <2>2, <2>3
<1>4. q \in Nat /\ (x < c * len <=> q < c)
  BY <1>1, <1>2, <1>3
<1> QED
  BY <1>4 DEF q

\* More has at least as many whole lengths.
LEMMA DivGrows ==
  ASSUME NEW x \in Nat, NEW y \in Nat, x <= y, NEW len \in Nat \ {0}
  PROVE  x \div len <= y \div len
<1> DEFINE q == y \div len
<1>1. q \in Nat
  BY DivLess
<1> HIDE DEF q
<1>2. y < (q + 1) * len
  BY <1>1, DivLess DEF q
<1>3. x < (q + 1) * len
  BY <1>1, <1>2
<1>4. x \div len \in Nat /\ x \div len < q + 1
  BY <1>1, <1>3, DivLess
<1> QED
  BY <1>1, <1>4 DEF q

\* The fields of the packets of a file.
LEMMA Fields ==
  ASSUME NEW pcap \in Seq(Packet)
  PROVE  /\ Len(pcap) \in Nat /\ DOMAIN pcap = 1 .. Len(pcap)
         /\ \A k \in DOMAIN pcap : /\ pcap[k] \in Packet /\ pcap[k].t \in Nat /\ pcap[k].len \in Nat
                                   /\ pcap[k].src \in Address /\ pcap[k].dst \in Address
<1>1. \A k \in DOMAIN pcap : pcap[k] \in Packet
  OBVIOUS
<1>2. \A p \in Packet : p.t \in Nat /\ p.len \in Nat /\ p.src \in Address /\ p.dst \in Address
  BY DEF Packet
<1> QED
  BY <1>1, <1>2

\* In order means in order throughout.
LEMMA Ordered ==
  ASSUME NEW pcap \in Seq(Packet), InOrder(pcap), NEW i \in DOMAIN pcap, NEW j \in DOMAIN pcap,
         i <= j
  PROVE  pcap[i].t <= pcap[j].t
<1> DEFINE n == Len(pcap)
           Good == {k \in 0 .. n : k >= i => pcap[i].t <= pcap[k].t}
<1>1. n \in Nat /\ DOMAIN pcap = 1 .. n /\ \A k \in 1 .. n : pcap[k].t \in Nat
  BY Fields
<1>2. \A k \in 2 .. n : pcap[k - 1].t <= pcap[k].t
  BY DEF InOrder
<1> HIDE DEF n
<1>3. 0 \in Good
  BY <1>1
<1>4. ASSUME NEW k \in 1 .. n, k - 1 \in Good PROVE k \in Good
  <2> SUFFICES ASSUME k >= i PROVE pcap[i].t <= pcap[k].t
    BY <1>1
  <2>1. CASE k = i
    BY <1>1, <2>1
  <2>2. CASE k # i
    <3>1. k \in 2 .. n /\ k - 1 \in 1 .. n /\ k - 1 >= i
      BY <1>1, <2>2
    <3>2. pcap[i].t <= pcap[k - 1].t
      BY <1>4, <3>1
    <3> QED
      BY <1>1, <1>2, <3>1, <3>2
  <2> QED
    BY <2>1, <2>2
<1>5. \A k \in 0 .. n : k \in Good
  <2> HIDE DEF Good
  <2> QED
    BY <1>1, <1>3, <1>4, UpTo, Zenon
<1> QED
  BY <1>1, <1>5

-----------------------------------------------------------------------------
(* Putting in order, clipping, trimming and joining.                        *)

\* ByTime, packet by packet.
TimeUpto(f, pcap, n) ==
  f = [s \in SUBSET (1 .. n) |->
         IF s = {} THEN <<>> ELSE InsertByTime(f[s \ {Max(s)}], pcap[Max(s)])]

\* ByTime goes over the packets one by one.
LEMMA TimeExists ==
  ASSUME NEW n \in Nat, NEW pcap
  PROVE  \E f : TimeUpto(f, pcap, n)
<1> DEFINE Good == {m \in 0 .. n : \E f : TimeUpto(f, pcap, m)}
<1>1. 0 \in Good
  <2> DEFINE f == [s \in SUBSET (1 .. 0) |-> <<>>]
  <2>1. \A s \in SUBSET (1 .. 0) : s = {}
    OBVIOUS
  <2>2. TimeUpto(f, pcap, 0)
    BY <2>1 DEF TimeUpto
  <2> QED
    BY <2>2
<1>2. ASSUME NEW i \in 1 .. n, i - 1 \in Good
      PROVE  i \in Good
  <2>1. PICK f : TimeUpto(f, pcap, i - 1)
    BY <1>2
  <2> DEFINE g == [s \in SUBSET (1 .. i) |->
                     IF i \in s THEN InsertByTime(f[s \ {i}], pcap[i]) ELSE f[s]]
  <2>2. \A s \in SUBSET (1 .. i) : i \in s => g[s] = InsertByTime(f[s \ {i}], pcap[i])
    OBVIOUS
  <2>3. \A s \in SUBSET (1 .. i) : i \notin s => g[s] = f[s]
    OBVIOUS
  <2>4. g = [s \in SUBSET (1 .. i) |-> g[s]]
    OBVIOUS
  <2> HIDE DEF g
  <2>5. \A s \in SUBSET (1 .. i) : LastOf(s, i)
    BY Lasts
  <2>6. \A s \in SUBSET (1 .. i - 1) : s \in SUBSET (1 .. i) /\ i \notin s
    OBVIOUS
  <2>7. ASSUME NEW s \in SUBSET (1 .. i)
        PROVE  g[s] = IF s = {} THEN <<>>
                      ELSE InsertByTime(g[s \ {Max(s)}], pcap[Max(s)])
    <3>1. CASE i \in s
      <4>1. Max(s) = i /\ s \ {i} \in SUBSET (1 .. i - 1)
        BY <3>1, <2>5 DEF LastOf
      <4>2. g[s \ {i}] = f[s \ {i}]
        BY <4>1, <2>3, <2>6
      <4> QED
        BY <3>1, <4>1, <4>2, <2>2
    <3>2. CASE i \notin s
      <4>1. s \in SUBSET (1 .. i - 1) /\ g[s] = f[s]
        BY <3>2, <2>3, <2>5 DEF LastOf
      <4>2. f[s] = IF s = {} THEN <<>>
                   ELSE InsertByTime(f[s \ {Max(s)}], pcap[Max(s)])
        BY <4>1, <2>1 DEF TimeUpto
      <4>3. s \ {Max(s)} \in SUBSET (1 .. i - 1)
        BY <4>1
      <4>4. g[s \ {Max(s)}] = f[s \ {Max(s)}]
        BY <4>3, <2>3, <2>6
      <4> QED
        BY <4>1, <4>2, <4>4
    <3> QED
      BY <3>1, <3>2
  <2>8. TimeUpto(g, pcap, i)
    BY <2>4, <2>7, Zenon DEF TimeUpto
  <2>9. i \in 0 .. n
    OBVIOUS
  <2> QED
    BY <2>8, <2>9
<1>3. \A i \in 0 .. n : i \in Good
  <2> HIDE DEF Good
  <2> QED
    BY <1>1, <1>2, UpTo, Zenon
<1>4. n \in 0 .. n
  OBVIOUS
<1> QED
  BY <1>3, <1>4

\* ByTime goes over the packets one by one.
LEMMA TimeScan ==
  ASSUME NEW n \in Nat, NEW pcap, DOMAIN pcap = 1 .. n
  PROVE  \E f : /\ f[0] = <<>> /\ ByTime(pcap) = f[n]
                /\ \A i \in 1 .. n : f[i] = InsertByTime(f[i - 1], pcap[i])
<1> DEFINE h == CHOOSE f : TimeUpto(f, pcap, n)
           f == [i \in 0 .. n |-> h[1 .. i]]
<1>1. ByTime(pcap) = h[1 .. n]
  BY DEF ByTime, FoldLeft, MapThenFoldSet, TimeUpto
<1>2. TimeUpto(h, pcap, n)
  BY TimeExists, Zenon
<1> HIDE DEF h
<1>3. \A s \in SUBSET (1 .. n) :
        h[s] = IF s = {} THEN <<>>
               ELSE InsertByTime(h[s \ {Max(s)}], pcap[Max(s)])
  BY <1>2 DEF TimeUpto
<1>4. h[{}] = <<>>
  BY <1>3, {} \in SUBSET (1 .. n)
<1>5. ASSUME NEW i \in 1 .. n PROVE h[1 .. i] = InsertByTime(h[1 .. i - 1], pcap[i])
  <2>1. /\ 1 .. i \in SUBSET (1 .. n) /\ 1 .. i # {}
        /\ Max(1 .. i) = i /\ (1 .. i) \ {i} = 1 .. i - 1
    BY Segments, Zenon
  <2> QED
    BY <2>1, <1>3
<1>6. 1 .. 0 = {}
  OBVIOUS
<1>7. f[0] = h[1 .. 0] /\ f[n] = h[1 .. n]
  OBVIOUS
<1>8. \A i \in 1 .. n : f[i] = h[1 .. i] /\ f[i - 1] = h[1 .. i - 1]
  OBVIOUS
<1> HIDE DEF f
<1>9. f[0] = <<>> /\ ByTime(pcap) = f[n]
  BY <1>1, <1>4, <1>6, <1>7
<1>10. \A i \in 1 .. n : f[i] = InsertByTime(f[i - 1], pcap[i])
  BY <1>5, <1>8
<1> QED
  BY <1>9, <1>10

\* Trim, packet by packet.
TrimStep(bin, s, p, threshold) ==
  IF p.t - s.start < bin
  THEN [s EXCEPT !.out = IF s.bytes <= threshold THEN Append(@, p) ELSE @,
                 !.bytes = @ + p.len]
  ELSE [start |-> s.start + bin, bytes |-> p.len, out |-> Append(s.out, p)]

\* No packet yet, and the fold over a part of the packets.
Untrimmed(pcap) == [start |-> pcap[1].t, bytes |-> 0, out |-> <<>>]
TrimUpto(bin, f, pcap, threshold, n) ==
  f = [s \in SUBSET (1 .. n) |->
         IF s = {} THEN Untrimmed(pcap)
         ELSE TrimStep(bin, f[s \ {Max(s)}], pcap[Max(s)], threshold)]

\* Trim goes over the packets one by one.
LEMMA TrimExists ==
  ASSUME NEW bin, NEW n \in Nat, NEW pcap, NEW threshold
  PROVE  \E f : TrimUpto(bin, f, pcap, threshold, n)
<1> DEFINE Good == {m \in 0 .. n : \E f : TrimUpto(bin, f, pcap, threshold, m)}
<1>1. 0 \in Good
  <2> DEFINE f == [s \in SUBSET (1 .. 0) |-> Untrimmed(pcap)]
  <2>1. \A s \in SUBSET (1 .. 0) : s = {}
    OBVIOUS
  <2>2. TrimUpto(bin, f, pcap, threshold, 0)
    BY <2>1 DEF TrimUpto
  <2> QED
    BY <2>2
<1>2. ASSUME NEW i \in 1 .. n, i - 1 \in Good
      PROVE  i \in Good
  <2>1. PICK f : TrimUpto(bin, f, pcap, threshold, i - 1)
    BY <1>2
  <2> DEFINE g == [s \in SUBSET (1 .. i) |->
                     IF i \in s THEN TrimStep(bin, f[s \ {i}], pcap[i], threshold) ELSE f[s]]
  <2>2. \A s \in SUBSET (1 .. i) : i \in s => g[s] = TrimStep(bin, f[s \ {i}], pcap[i], threshold)
    OBVIOUS
  <2>3. \A s \in SUBSET (1 .. i) : i \notin s => g[s] = f[s]
    OBVIOUS
  <2>4. g = [s \in SUBSET (1 .. i) |-> g[s]]
    OBVIOUS
  <2> HIDE DEF g
  <2>5. \A s \in SUBSET (1 .. i) : LastOf(s, i)
    BY Lasts
  <2>6. \A s \in SUBSET (1 .. i - 1) : s \in SUBSET (1 .. i) /\ i \notin s
    OBVIOUS
  <2>7. ASSUME NEW s \in SUBSET (1 .. i)
        PROVE  g[s] = IF s = {} THEN Untrimmed(pcap)
                      ELSE TrimStep(bin, g[s \ {Max(s)}], pcap[Max(s)], threshold)
    <3>1. CASE i \in s
      <4>1. Max(s) = i /\ s \ {i} \in SUBSET (1 .. i - 1)
        BY <3>1, <2>5 DEF LastOf
      <4>2. g[s \ {i}] = f[s \ {i}]
        BY <4>1, <2>3, <2>6
      <4> QED
        BY <3>1, <4>1, <4>2, <2>2
    <3>2. CASE i \notin s
      <4>1. s \in SUBSET (1 .. i - 1) /\ g[s] = f[s]
        BY <3>2, <2>3, <2>5 DEF LastOf
      <4>2. f[s] = IF s = {} THEN Untrimmed(pcap)
                   ELSE TrimStep(bin, f[s \ {Max(s)}], pcap[Max(s)], threshold)
        BY <4>1, <2>1 DEF TrimUpto
      <4>3. s \ {Max(s)} \in SUBSET (1 .. i - 1)
        BY <4>1
      <4>4. g[s \ {Max(s)}] = f[s \ {Max(s)}]
        BY <4>3, <2>3, <2>6
      <4> QED
        BY <4>1, <4>2, <4>4
    <3> QED
      BY <3>1, <3>2
  <2>8. TrimUpto(bin, g, pcap, threshold, i)
    BY <2>4, <2>7, Zenon DEF TrimUpto
  <2>9. i \in 0 .. n
    OBVIOUS
  <2> QED
    BY <2>8, <2>9
<1>3. \A i \in 0 .. n : i \in Good
  <2> HIDE DEF Good
  <2> QED
    BY <1>1, <1>2, UpTo, Zenon
<1>4. n \in 0 .. n
  OBVIOUS
<1> QED
  BY <1>3, <1>4

\* Trim goes over the packets one by one.
TrimRuns(bin, f, pcap, threshold, n) ==
  /\ f[0] = Untrimmed(pcap) /\ Trim(pcap, threshold, bin) = f[n].out
  /\ \A i \in 1 .. n : f[i] = TrimStep(bin, f[i - 1], pcap[i], threshold)

\* Trim goes over the packets one by one.
LEMMA TrimScan ==
  ASSUME NEW bin, NEW n \in Nat, NEW pcap, NEW threshold, DOMAIN pcap = 1 .. n, pcap # <<>>
  PROVE  \E f : TrimRuns(bin, f, pcap, threshold, n)
<1> DEFINE h == CHOOSE f : TrimUpto(bin, f, pcap, threshold, n)
           f == [i \in 0 .. n |-> h[1 .. i]]
<1>1. Trim(pcap, threshold, bin) = h[1 .. n].out
  BY DEF Trim, FoldLeft, MapThenFoldSet, TrimUpto, TrimStep, Untrimmed
<1>2. TrimUpto(bin, h, pcap, threshold, n)
  BY TrimExists, Zenon
<1> HIDE DEF h
<1>3. \A s \in SUBSET (1 .. n) :
        h[s] = IF s = {} THEN Untrimmed(pcap)
               ELSE TrimStep(bin, h[s \ {Max(s)}], pcap[Max(s)], threshold)
  BY <1>2 DEF TrimUpto
<1>4. h[{}] = Untrimmed(pcap)
  BY <1>3, {} \in SUBSET (1 .. n)
<1>5. ASSUME NEW i \in 1 .. n PROVE h[1 .. i] = TrimStep(bin, h[1 .. i - 1], pcap[i], threshold)
  <2>1. /\ 1 .. i \in SUBSET (1 .. n) /\ 1 .. i # {}
        /\ Max(1 .. i) = i /\ (1 .. i) \ {i} = 1 .. i - 1
    BY Segments, Zenon
  <2> QED
    BY <2>1, <1>3
<1>6. 1 .. 0 = {}
  OBVIOUS
<1>7. f[0] = h[1 .. 0] /\ f[n] = h[1 .. n]
  OBVIOUS
<1>8. \A i \in 1 .. n : f[i] = h[1 .. i] /\ f[i - 1] = h[1 .. i - 1]
  OBVIOUS
<1> HIDE DEF f
<1>9. f[0] = Untrimmed(pcap) /\ Trim(pcap, threshold, bin) = f[n].out
  BY <1>1, <1>4, <1>6, <1>7
<1>10. \A i \in 1 .. n : f[i] = TrimStep(bin, f[i - 1], pcap[i], threshold)
  BY <1>5, <1>8
<1>11. TrimRuns(bin, f, pcap, threshold, n)
  BY <1>9, <1>10, Zenon DEF TrimRuns
<1> QED
  BY <1>11

\* Two files joined, position by position.
LEMMA Cat ==
  ASSUME NEW T, NEW a \in Seq(T), NEW b \in Seq(T)
  PROVE  /\ a \o b \in Seq(T) /\ Len(a \o b) = Len(a) + Len(b)
         /\ Len(a) \in Nat /\ Len(b) \in Nat
         /\ \A i \in 1 .. Len(a) : (a \o b)[i] = a[i] /\ i \in DOMAIN a
         /\ \A i \in 1 .. Len(b) : (a \o b)[Len(a) + i] = b[i] /\ i \in DOMAIN b
<1>1. a \o b \in Seq(T) /\ Len(a \o b) = Len(a) + Len(b) /\ Len(a) \in Nat /\ Len(b) \in Nat
  OBVIOUS
<1>2. ASSUME NEW i \in 1 .. Len(a) PROVE (a \o b)[i] = a[i] /\ i \in DOMAIN a
  BY <1>1
<1>3. ASSUME NEW i \in 1 .. Len(b) PROVE (a \o b)[Len(a) + i] = b[i] /\ i \in DOMAIN b
  BY <1>1
<1> QED
  BY <1>1, <1>2, <1>3

\* A part of a file, position by position.
LEMMA Part ==
  ASSUME NEW T, NEW s \in Seq(T), NEW m \in Nat, NEW n \in Nat, m <= n, n <= Len(s)
  PROVE  /\ SubSeq(s, m + 1, n) \in Seq(T) /\ Len(SubSeq(s, m + 1, n)) = n - m
         /\ \A i \in 1 .. n - m : SubSeq(s, m + 1, n)[i] = s[m + i]
<1> DEFINE u == SubSeq(s, m + 1, n)
<1>1. Len(s) \in Nat /\ \A i \in 1 .. Len(s) : s[i] \in T
  OBVIOUS
<1>2. u = [i \in 1 .. n - m |-> s[m + i]]
  BY <1>1
<1>3. ASSUME NEW i \in 1 .. n - m PROVE s[m + i] \in T
  BY <1>1
<1>4. n - m \in Nat
  OBVIOUS
<1> HIDE DEF u
<1>5. u \in Seq(T) /\ Len(u) = n - m
  BY <1>2, <1>3, <1>4
<1> QED
  BY <1>2, <1>5 DEF u

\* Files are equal that agree position by position.
LEMMA SameFile ==
  ASSUME NEW T, NEW a \in Seq(T), NEW b \in Seq(T), Len(a) = Len(b),
         \A i \in 1 .. Len(a) : a[i] = b[i]
  PROVE  a = b
<1>1. DOMAIN a = 1 .. Len(a) /\ DOMAIN b = 1 .. Len(b)
  OBVIOUS
<1>2. a = [i \in DOMAIN a |-> a[i]] /\ b = [i \in DOMAIN b |-> b[i]]
  OBVIOUS
<1> QED
  BY <1>1, <1>2

\* What the community module's operator is.
LEMMA InsertAtIs ==
  ASSUME NEW s, NEW n \in Nat, NEW e
  PROVE  InsertAt(s, n + 1, e) = SubSeq(s, 1, n) \o <<e>> \o SubSeq(s, n + 1, Len(s))
<1>1. (n + 1) - 1 = n
  OBVIOUS
<1>2. InsertAt(s, n + 1, e) = SubSeq(s, 1, (n + 1) - 1) \o <<e>> \o SubSeq(s, n + 1, Len(s))
  BY Zenon DEF InsertAt
<1> QED
  BY <1>1, <1>2, Zenon

\* The positions up to some position, as many as there are of them.
LEMMA Initial ==
  ASSUME NEW n \in Nat, NEW S \in SUBSET (1 .. n), \A i \in S : \A j \in 1 .. n : j < i => j \in S
  PROVE  Cardinality(S) \in 0 .. n /\ S = 1 .. Cardinality(S)
<1>1. CASE S = {}
  BY <1>1, FS_EmptySet
<1>2. CASE S # {}
  <2>1. S \in SUBSET Int /\ n \in Int /\ \A x \in S : x <= n
    OBVIOUS
  <2>2. Max(S) \in S /\ \A y \in S : y <= Max(S)
    BY <1>2, <2>1, MaxOf
  <2> DEFINE m == Max(S)
  <2> HIDE DEF m
  <2>3. m \in 1 .. n /\ m \in S /\ \A y \in S : y <= m
    BY <2>2 DEF m
  <2>4. S = 1 .. m
    <3>1. \A j \in 1 .. m : j \in S
      BY <2>3
    <3>2. \A j \in S : j \in 1 .. m
      BY <2>3
    <3> QED
      BY <3>1, <3>2
  <2>5. Cardinality(1 .. m) = m
    BY <2>3, FS_Interval
  <2> QED
    BY <2>3, <2>4, <2>5
<1> QED
  BY <1>1, <1>2

\* Where a packet is inserted: behind those that are not later.
Place(s, p) == Cardinality({i \in DOMAIN s : s[i].t <= p.t})

\* A packet inserted into a file in order of time.
LEMMA Inserted ==
  ASSUME NEW s \in Seq(Packet), InOrder(s), NEW p \in Packet
  PROVE  LET r == InsertByTime(s, p)
             n == Place(s, p)
         IN /\ n \in 0 .. Len(s) /\ \A i \in DOMAIN s : s[i].t <= p.t <=> i <= n
            /\ r = SubSeq(s, 1, n) \o <<p>> \o SubSeq(s, n + 1, Len(s))
            /\ r \in Seq(Packet) /\ Len(r) = Len(s) + 1
            /\ \A i \in 1 .. Len(s) + 1 :
                 r[i] = IF i <= n THEN s[i] ELSE IF i = n + 1 THEN p ELSE s[i - 1]
<1> DEFINE r == InsertByTime(s, p)
           n == Place(s, p)
           len == Len(s)
           S == {i \in DOMAIN s : s[i].t <= p.t}
<1>1. len \in Nat /\ DOMAIN s = 1 .. len /\ \A i \in 1 .. len : s[i] \in Packet /\ s[i].t \in Nat
  BY Fields
<1>2. p.t \in Nat
  BY DEF Packet
<1>3. S \in SUBSET (1 .. len) /\ \A i \in S : \A j \in 1 .. len : j < i => j \in S
  <2> SUFFICES ASSUME NEW i \in S, NEW j \in 1 .. len, j < i PROVE s[j].t <= p.t
    BY <1>1
  <2>1. s[j].t <= s[i].t
    BY <1>1, Ordered
  <2> QED
    BY <1>1, <1>2, <2>1
<1>4. n \in 0 .. len /\ S = 1 .. n
  <2> HIDE DEF S
  <2>1. Cardinality(S) \in 0 .. len /\ S = 1 .. Cardinality(S)
    BY <1>1, <1>3, Initial
  <2> QED
    BY <2>1 DEF S, Place
<1>5. \A i \in DOMAIN s : s[i].t <= p.t <=> i <= n
  BY <1>1, <1>4
<1>6. r = SubSeq(s, 1, n) \o <<p>> \o SubSeq(s, n + 1, len)
  <2>1. r = InsertAt(s, Cardinality({i \in DOMAIN s : s[i].t <= p.t}) + 1, p)
    BY DEF InsertByTime
  <2>2. r = InsertAt(s, n + 1, p)
    BY <2>1 DEF Place
  <2> HIDE DEF r, n
  <2>3. n \in Nat
    BY <1>1, <1>4
  <2>4. InsertAt(s, n + 1, p) = SubSeq(s, 1, n) \o <<p>> \o SubSeq(s, n + 1, Len(s))
    BY <2>3, InsertAtIs, Zenon
  <2> QED
    BY <2>2, <2>4, Zenon DEF len
<1> HIDE DEF S, n, len
<1> DEFINE a == SubSeq(s, 1, n)
           b == SubSeq(s, n + 1, len)
           c == a \o <<p>>
<1>7. a \in Seq(Packet) /\ Len(a) = n /\ \A i \in 1 .. n : a[i] = s[i]
  BY <1>1, <1>4 DEF len
<1>8. b \in Seq(Packet) /\ Len(b) = len - n /\ \A i \in 1 .. len - n : b[i] = s[n + i]
  <2>1. n \in Nat /\ n <= len
    BY <1>1, <1>4
  <2> HIDE DEF n, len
  <2>2. len = Len(s)
    BY DEF len
  <2>3. b \in Seq(Packet) /\ Len(b) = len - n
        /\ \A i \in 1 .. len - n : b[i] = s[n + i]
    <3>1. len <= Len(s)
      BY <1>1, <2>2
    <3> QED
      BY <1>1, <2>1, <3>1, Part, Zenon
  <2> QED
    BY <2>3
<1> HIDE DEF a, b
<1>9. c \in Seq(Packet) /\ Len(c) = n + 1 /\ \A i \in 1 .. n + 1 : c[i] = IF i <= n THEN s[i] ELSE p
  BY <1>4, <1>7
<1> HIDE DEF c
<1>10. r = c \o b
  BY <1>6 DEF a, b, c
<1>11. r \in Seq(Packet) /\ Len(r) = len + 1
  <2> HIDE DEF r
  <2>1. c \o b \in Seq(Packet) /\ Len(c \o b) = Len(c) + Len(b)
    BY <1>8, <1>9, Cat, Zenon
  <2>2. r \in Seq(Packet) /\ Len(r) = Len(c) + Len(b)
    BY <1>10, <2>1
  <2> QED
    BY <1>1, <1>4, <1>8, <1>9, <2>2
<1>12. ASSUME NEW i \in 1 .. len + 1
       PROVE  r[i] = IF i <= n THEN s[i] ELSE IF i = n + 1 THEN p ELSE s[i - 1]
  <2>1. CASE i <= n + 1
    <3>1. i \in 1 .. n + 1
      BY <1>1, <1>4, <2>1
    <3>2. r[i] = c[i]
      BY <1>8, <1>9, <1>10, <3>1
    <3> QED
      BY <1>1, <1>4, <1>9, <3>1, <3>2
  <2>2. CASE ~ (i <= n + 1)
    <3>1. i - (n + 1) \in 1 .. len - n /\ n + (i - (n + 1)) = i - 1
      BY <1>1, <1>4, <2>2
    <3>2. r[i] = b[i - (n + 1)]
      BY <1>1, <1>4, <1>8, <1>9, <1>10, <2>2
    <3>3. r[i] = s[i - 1]
      BY <1>8, <3>1, <3>2
    <3> QED
      BY <1>1, <1>4, <2>2, <3>3
  <2> QED
    BY <2>1, <2>2
<1> HIDE DEF r
<1> QED
  BY <1>4, <1>5, <1>6, <1>11, <1>12 DEF n, len, r

\* The order of time is kept.
LEMMA InsertedInOrder ==
  ASSUME NEW s \in Seq(Packet), InOrder(s), NEW p \in Packet
  PROVE  InOrder(InsertByTime(s, p))
<1> DEFINE r == InsertByTime(s, p)
           n == Place(s, p)
           len == Len(s)
<1>1. len \in Nat /\ DOMAIN s = 1 .. len /\ \A i \in 1 .. len : s[i].t \in Nat
  BY Fields
<1>2. p.t \in Nat
  BY DEF Packet
<1>3. /\ n \in 0 .. len /\ \A i \in 1 .. len : s[i].t <= p.t <=> i <= n
      /\ Len(r) = len + 1
      /\ \A i \in 1 .. len + 1 : r[i] = IF i <= n THEN s[i] ELSE IF i = n + 1 THEN p ELSE s[i - 1]
  BY <1>1, Inserted
<1>4. \A i \in 2 .. len : s[i - 1].t <= s[i].t
  BY DEF InOrder
<1> HIDE DEF r, n, len
<1>5. ASSUME NEW i \in 2 .. len + 1 PROVE r[i - 1].t <= r[i].t
  <2>1. i - 1 \in 1 .. len + 1 /\ i \in 1 .. len + 1
    BY <1>1
  <2>2. CASE i <= n
    <3>1. r[i] = s[i] /\ r[i - 1] = s[i - 1] /\ i \in 2 .. len
      BY <1>1, <1>3, <2>1, <2>2
    <3> QED
      BY <1>4, <3>1
  <2>3. CASE i = n + 1
    <3>1. r[i] = p /\ r[i - 1] = s[i - 1] /\ i - 1 \in 1 .. len /\ i - 1 <= n
      BY <1>1, <1>3, <2>1, <2>3
    <3> QED
      BY <1>3, <3>1
  <2>4. CASE i = n + 2
    <3>1. r[i] = s[i - 1] /\ r[i - 1] = p /\ i - 1 \in 1 .. len /\ ~ (i - 1 <= n)
      BY <1>1, <1>3, <2>1, <2>4
    <3>2. ~ (s[i - 1].t <= p.t) /\ s[i - 1].t \in Nat
      BY <1>1, <1>3, <3>1
    <3> QED
      BY <1>2, <3>1, <3>2
  <2>5. CASE i > n + 2
    <3>1. r[i] = s[i - 1] /\ r[i - 1] = s[i - 2] /\ i - 1 \in 2 .. len /\ i - 2 = (i - 1) - 1
      BY <1>1, <1>3, <2>1, <2>5
    <3> QED
      BY <1>4, <3>1
  <2> QED
    BY <1>3, <2>2, <2>3, <2>4, <2>5
<1>6. InOrder(r)
  BY <1>1, <1>3, <1>5 DEF InOrder
<1> QED
  BY <1>6 DEF r

\* How often a packet is among the first k of a file.
CountTo(pcap, k, q) == Cardinality({i \in 1 .. k : pcap[i] = q})

\* One packet more is counted once more.
LEMMA CountNext ==
  ASSUME NEW pcap, NEW k \in Nat \ {0}, NEW q
  PROVE  /\ CountTo(pcap, k - 1, q) \in Nat
         /\ CountTo(pcap, k, q) = CountTo(pcap, k - 1, q) + IF pcap[k] = q THEN 1 ELSE 0
<1> DEFINE S == {i \in 1 .. k - 1 : pcap[i] = q}
           T == {i \in 1 .. k : pcap[i] = q}
<1>1. IsFiniteSet(S) /\ Cardinality(S) \in Nat
  <2>1. IsFiniteSet(1 .. k - 1)
    BY FS_Interval
  <2> QED
    BY <2>1, FS_Subset, FS_CardinalityType
<1>2. T = IF pcap[k] = q THEN S \cup {k} ELSE S
  OBVIOUS
<1>3. k \notin S
  OBVIOUS
<1> HIDE DEF S, T
<1>4. Cardinality(T) = Cardinality(S) + IF pcap[k] = q THEN 1 ELSE 0
  <2>1. CASE pcap[k] = q
    BY <1>1, <1>2, <1>3, <2>1, FS_AddElement
  <2>2. CASE pcap[k] # q
    BY <1>1, <1>2, <2>2
  <2> QED
    BY <2>1, <2>2
<1> QED
  BY <1>1, <1>4 DEF CountTo, S, T

\* Files joined have the packets of both.
LEMMA CountCat ==
  ASSUME NEW T, NEW a \in Seq(T), NEW b \in Seq(T), NEW q
  PROVE  /\ Count(a, q) \in Nat /\ Count(b, q) \in Nat
         /\ Count(a \o b, q) = Count(a, q) + Count(b, q)
<1> DEFINE m == Len(a)
           n == Len(b)
           c == a \o b
<1>1. m \in Nat /\ n \in Nat /\ DOMAIN a = 1 .. m /\ DOMAIN b = 1 .. n
      /\ DOMAIN c = 1 .. m + n /\ Len(c) = m + n
      /\ (\A i \in 1 .. m : c[i] = a[i]) /\ (\A i \in 1 .. n : c[m + i] = b[i])
  BY Cat
<1>3. Count(a, q) = CountTo(a, m, q) /\ Count(b, q) = CountTo(b, n, q)
      /\ Count(c, q) = CountTo(c, m + n, q)
  BY <1>1 DEF Count, CountTo
<1> HIDE DEF m, n, c
<1>4. CountTo(c, m, q) = CountTo(a, m, q)
  <2>1. {i \in 1 .. m : c[i] = q} = {i \in 1 .. m : a[i] = q}
    BY <1>1
  <2> QED
    BY <2>1 DEF CountTo
<1> DEFINE Good == {k \in 0 .. n : /\ CountTo(c, m + k, q) = CountTo(c, m, q) + CountTo(b, k, q)
                                   /\ CountTo(b, k, q) \in Nat}
<1>5. 0 \in Good
  <2>1. {i \in 1 .. 0 : b[i] = q} = {} /\ m + 0 = m
    BY <1>1
  <2>2. CountTo(b, 0, q) = 0
    BY <2>1, FS_EmptySet DEF CountTo
  <2>3. CountTo(c, m, q) \in Nat
    <3>1. m + 1 \in Nat \ {0} /\ (m + 1) - 1 = m
      BY <1>1
    <3> QED
      BY <3>1, CountNext
  <2> QED
    BY <1>1, <2>1, <2>2, <2>3
<1>6. ASSUME NEW k \in 1 .. n, k - 1 \in Good PROVE k \in Good
  <2>1. m + k \in Nat \ {0} /\ (m + k) - 1 = m + (k - 1) /\ k \in Nat \ {0} /\ k \in 0 .. n
    BY <1>1
  <2>2. CountTo(c, m + k, q) = CountTo(c, m + (k - 1), q) + IF c[m + k] = q THEN 1 ELSE 0
    BY <2>1, CountNext
  <2>3. /\ CountTo(b, k, q) = CountTo(b, k - 1, q) + IF b[k] = q THEN 1 ELSE 0
        /\ CountTo(b, k - 1, q) \in Nat
    BY <2>1, CountNext
  <2>4. CountTo(c, m + (k - 1), q) = CountTo(c, m, q) + CountTo(b, k - 1, q)
    BY <1>6
  <2>5. CountTo(c, m, q) \in Nat
    <3>1. m + 1 \in Nat \ {0} /\ (m + 1) - 1 = m
      BY <1>1
    <3> QED
      BY <3>1, CountNext
  <2>6. c[m + k] = b[k]
    BY <1>1
  <2> QED
    BY <2>1, <2>2, <2>3, <2>4, <2>5, <2>6
<1>7. \A k \in 0 .. n : k \in Good
  <2> HIDE DEF Good
  <2> QED
    BY <1>1, <1>5, <1>6, UpTo, Zenon
<1>8. CountTo(a, m, q) \in Nat
  <2>1. m + 1 \in Nat \ {0} /\ (m + 1) - 1 = m
    BY <1>1
  <2> QED
    BY <2>1, CountNext
<1>9. n \in 0 .. n
  BY <1>1
<1> QED
  BY <1>3, <1>4, <1>7, <1>8, <1>9 DEF c

\* A file of one packet.
LEMMA CountOne ==
  ASSUME NEW p, NEW q
  PROVE  Count(<<p>>, q) = IF p = q THEN 1 ELSE 0
<1>1. DOMAIN <<p>> = {1} /\ <<p>>[1] = p
  OBVIOUS
<1>2. {i \in DOMAIN <<p>> : <<p>>[i] = q} = IF p = q THEN {1} ELSE {}
  BY <1>1
<1>3. Cardinality({1}) = 1 /\ Cardinality({}) = 0
  BY FS_Singleton, FS_EmptySet
<1> QED
  BY <1>2, <1>3 DEF Count

\* Inserting a packet adds that packet.
LEMMA InsertedCount ==
  ASSUME NEW s \in Seq(Packet), InOrder(s), NEW p \in Packet, NEW q
  PROVE  /\ Count(s, q) \in Nat
         /\ Count(InsertByTime(s, p), q) = Count(s, q) + IF p = q THEN 1 ELSE 0
<1> DEFINE n == Place(s, p)
           len == Len(s)
           a == SubSeq(s, 1, n)
           b == SubSeq(s, n + 1, len)
           c == <<p>>
<1>1. n \in 0 .. len /\ InsertByTime(s, p) = a \o c \o b /\ len \in Nat
  <2>1. n \in 0 .. len /\ InsertByTime(s, p) = a \o c \o b
    BY Inserted, Zenon
  <2> QED
    BY <2>1
<1> HIDE DEF n
<1>2. a \in Seq(Packet) /\ b \in Seq(Packet) /\ c \in Seq(Packet)
  <2>1. n \in Nat /\ n <= len /\ len <= Len(s)
    BY <1>1
  <2>2. b \in Seq(Packet)
    BY <1>1, <2>1, Part
  <2>3. a \in Seq(Packet) /\ c \in Seq(Packet)
    BY <1>1
  <2> QED
    BY <2>2, <2>3
<1>3. s = a \o b
  <2>1. Len(a) = n /\ \A i \in 1 .. n : a[i] = s[i]
    BY <1>1
  <2>2. Len(b) = len - n /\ \A i \in 1 .. len - n : b[i] = s[n + i]
    BY <1>1, Part
  <2> HIDE DEF a, b
  <2> DEFINE u == a \o b
  <2>3. /\ u \in Seq(Packet) /\ Len(u) = Len(a) + Len(b)
        /\ \A i \in 1 .. Len(a) : u[i] = a[i]
        /\ \A i \in 1 .. Len(b) : u[Len(a) + i] = b[i]
    BY <1>2, Cat
  <2> HIDE DEF u
  <2>4. ASSUME NEW i \in 1 .. len PROVE s[i] = u[i]
    <3>1. CASE i <= n
      BY <1>1, <2>1, <2>3, <3>1
    <3>2. CASE ~ (i <= n)
      <4>1. i - n \in 1 .. len - n /\ n + (i - n) = i
        BY <1>1, <3>2
      <4> QED
        BY <2>1, <2>2, <2>3, <4>1
    <3> QED
      BY <3>1, <3>2
  <2>5. Len(u) = len
    BY <1>1, <2>1, <2>2, <2>3
  <2>6. s = u
    BY <2>3, <2>4, <2>5, SameFile
  <2> QED
    BY <2>6 DEF u
<1> HIDE DEF a, b, c
<1>4. a \o c \in Seq(Packet)
  BY <1>2
<1>5. Count(a \o c, q) = Count(a, q) + Count(c, q) /\ Count(a, q) \in Nat
  BY <1>2, CountCat
<1>6. Count((a \o c) \o b, q) = Count(a \o c, q) + Count(b, q) /\ Count(b, q) \in Nat
  BY <1>2, <1>4, CountCat
<1>7. Count(a \o b, q) = Count(a, q) + Count(b, q)
  BY <1>2, CountCat
<1>8. Count(c, q) = IF p = q THEN 1 ELSE 0
  BY CountOne DEF c
<1> QED
  BY <1>1, <1>3, <1>5, <1>6, <1>7, <1>8

\* Files put in order of time, and those that were.
LEMMA ByTimeGives ==
  ASSUME NEW pcap \in Seq(Packet)
  PROVE  /\ ByTime(pcap) \in Seq(Packet) /\ InOrder(ByTime(pcap)) /\ Len(ByTime(pcap)) = Len(pcap)
         /\ \A q : Count(ByTime(pcap), q) = Count(pcap, q) /\ Count(pcap, q) \in Nat
         /\ InOrder(pcap) => ByTime(pcap) = pcap
<1> DEFINE n == Len(pcap)
<1>1. /\ n \in Nat /\ DOMAIN pcap = 1 .. n
      /\ \A i \in 1 .. n : pcap[i] \in Packet /\ pcap[i].t \in Nat
  BY Fields
<1>2. PICK f : /\ f[0] = <<>> /\ ByTime(pcap) = f[n]
               /\ \A i \in 1 .. n : f[i] = InsertByTime(f[i - 1], pcap[i])
  BY <1>1, TimeScan
<1> HIDE DEF n
<1> DEFINE Good == {i \in 0 .. n : f[i] \in Seq(Packet) /\ InOrder(f[i]) /\ Len(f[i]) = i}
<1>3. 0 \in Good
  <2>1. <<>> \in Seq(Packet) /\ InOrder(<<>>) /\ Len(<<>>) = 0
    BY DEF InOrder
  <2>2. f[0] \in Seq(Packet) /\ InOrder(f[0]) /\ Len(f[0]) = 0
    BY <1>2, <2>1, Zenon
  <2>3. 0 \in 0 .. n
    BY <1>1
  <2> QED
    BY <2>2, <2>3
<1>4. ASSUME NEW i \in 1 .. n, i - 1 \in Good PROVE i \in Good
  <2> DEFINE s == f[i - 1]
  <2>1. s \in Seq(Packet) /\ InOrder(s) /\ Len(s) = i - 1 /\ pcap[i] \in Packet
    BY <1>1, <1>4
  <2> HIDE DEF s
  <2> DEFINE r == InsertByTime(s, pcap[i])
  <2>2. r \in Seq(Packet) /\ Len(r) = Len(s) + 1
    BY <2>1, Inserted, Zenon
  <2>3. InOrder(r)
    BY <2>1, InsertedInOrder, Zenon
  <2>4. f[i] = r
    BY <1>2 DEF s
  <2> HIDE DEF r
  <2> QED
    BY <1>1, <2>1, <2>2, <2>3, <2>4
<1>5. \A i \in 0 .. n : i \in Good
  <2> HIDE DEF Good
  <2> QED
    BY <1>1, <1>3, <1>4, UpTo, Zenon
<1>6. \A i \in 0 .. n : f[i] \in Seq(Packet) /\ InOrder(f[i]) /\ Len(f[i]) = i
  BY <1>5
<1> HIDE DEF Good
<1>7. ASSUME NEW q PROVE Count(f[n], q) = Count(pcap, q) /\ Count(pcap, q) \in Nat
  <2> DEFINE Same == {i \in 0 .. n : Count(f[i], q) = CountTo(pcap, i, q)}
  <2>1. 0 \in Same
    <3>1. {i \in DOMAIN <<>> : (<<>>)[i] = q} = {} /\ {i \in 1 .. 0 : pcap[i] = q} = {}
      OBVIOUS
    <3>2. Count(<<>>, q) = CountTo(pcap, 0, q)
      BY <3>1, Zenon DEF Count, CountTo
    <3> QED
      BY <1>1, <1>2, <3>2
  <2>2. ASSUME NEW i \in 1 .. n, i - 1 \in Same PROVE i \in Same
    <3> DEFINE s == f[i - 1]
               p == pcap[i]
    <3>1. s \in Seq(Packet) /\ InOrder(s) /\ p \in Packet
      BY <1>1, <1>6
    <3>2. f[i] = InsertByTime(s, p)
      BY <1>2
    <3>3. i \in Nat \ {0} /\ i \in 0 .. n
      BY <1>1
    <3>4. Count(s, q) = CountTo(pcap, i - 1, q)
      BY <2>2
    <3> HIDE DEF s
    <3>5. Count(f[i], q) = Count(s, q) + IF p = q THEN 1 ELSE 0
      <4>1. Count(InsertByTime(s, p), q) = Count(s, q) + IF p = q THEN 1 ELSE 0
        BY <3>1, InsertedCount, Zenon
      <4> QED
        BY <3>2, <4>1
    <3>6. CountTo(pcap, i, q) = CountTo(pcap, i - 1, q) + IF p = q THEN 1 ELSE 0
      BY <3>3, CountNext
    <3> QED
      BY <3>3, <3>4, <3>5, <3>6
  <2>3. \A i \in 0 .. n : i \in Same
    <3> HIDE DEF Same
    <3> QED
      BY <1>1, <2>1, <2>2, UpTo, Zenon
  <2>4. n \in 0 .. n
    BY <1>1
  <2>5. Count(f[n], q) = CountTo(pcap, n, q)
    BY <2>3, <2>4
  <2>6. Count(pcap, q) = CountTo(pcap, n, q)
    BY <1>1 DEF Count, CountTo
  <2>7. CountTo(pcap, n, q) \in Nat
    <3>1. n + 1 \in Nat \ {0} /\ (n + 1) - 1 = n
      BY <1>1
    <3> QED
      BY <3>1, CountNext
  <2> QED
    BY <2>5, <2>6, <2>7
<1>8. ASSUME InOrder(pcap) PROVE f[n] = pcap
  <2> DEFINE Same == {i \in 0 .. n : \A j \in 1 .. i : f[i][j] = pcap[j]}
  <2>1. 0 \in Same
    BY <1>1
  <2>2. ASSUME NEW i \in 1 .. n, i - 1 \in Same PROVE i \in Same
    <3> DEFINE s == f[i - 1]
               p == pcap[i]
               m == Place(s, p)
    <3>1. s \in Seq(Packet) /\ InOrder(s) /\ Len(s) = i - 1 /\ p \in Packet /\ i - 1 \in 0 .. n
      BY <1>1, <1>6
    <3>2. f[i] = InsertByTime(s, p)
      BY <1>2
    <3>3. \A j \in 1 .. i - 1 : s[j] = pcap[j]
      BY <2>2
    <3> HIDE DEF s
    <3> DEFINE r == InsertByTime(s, p)
    <3>4. /\ m \in 0 .. Len(s) /\ \A j \in DOMAIN s : s[j].t <= p.t <=> j <= m
          /\ \A j \in 1 .. Len(s) + 1 :
               r[j] = IF j <= m THEN s[j] ELSE IF j = m + 1 THEN p ELSE s[j - 1]
      BY <3>1, Inserted, Zenon
    <3>5. m = i - 1
      <4>1. CASE i = 1
        BY <3>1, <3>4, <4>1
      <4>2. CASE i # 1
        <5>1. i - 1 \in DOMAIN s /\ i - 1 \in DOMAIN pcap /\ i \in DOMAIN pcap
          BY <1>1, <3>1, <4>2
        <5>2. pcap[i - 1].t <= pcap[i].t
          BY <1>8, <5>1, Ordered
        <5>3. s[i - 1] = pcap[i - 1]
          BY <1>1, <3>3, <4>2
        <5>4. i - 1 <= m
          BY <3>4, <5>1, <5>2, <5>3
        <5> HIDE DEF m
        <5> QED
          BY <3>1, <3>4, <5>4
      <4> QED
        BY <4>1, <4>2
    <3> HIDE DEF r, m
    <3>6. \A j \in 1 .. i : r[j] = pcap[j]
      BY <3>1, <3>3, <3>4, <3>5
    <3> QED
      BY <1>1, <3>2, <3>6 DEF r
  <2>3. \A i \in 0 .. n : i \in Same
    <3> HIDE DEF Same
    <3> QED
      BY <1>1, <2>1, <2>2, UpTo, Zenon
  <2>4. n \in 0 .. n
    BY <1>1
  <2> DEFINE g == f[n]
  <2>5. g \in Seq(Packet) /\ Len(g) = n /\ \A j \in 1 .. n : g[j] = pcap[j]
    BY <1>6, <2>3, <2>4
  <2> HIDE DEF g
  <2>6. g = pcap
    BY <2>5, SameFile DEF n
  <2> QED
    BY <2>6 DEF g
<1>9. n \in 0 .. n
  BY <1>1
<1> QED
  BY <1>2, <1>6, <1>7, <1>8, <1>9 DEF n

\* The least of some positions, when one behind all of them is added.
LEMMA LeastStays ==
  ASSUME NEW X \in SUBSET Nat, NEW m \in Nat, \A x \in X : x < m
  PROVE  /\ Min(X \cup {m}) = IF X = {} THEN m ELSE Min(X)
         /\ X # {} => Min(X) \in X /\ \A y \in X : Min(X) <= y
<1>1. CASE X = {}
  <2> DEFINE Y == X \cup {m}
  <2>1. Y = {m}
    BY <1>1
  <2> HIDE DEF Y
  <2>2. \E x \in Y : \A y \in Y : x <= y
    BY <2>1
  <2>3. Min(Y) \in Y
    BY <2>2 DEF Min
  <2>4. Min(Y) = m
    BY <2>1, <2>3
  <2> QED
    BY <1>1, <2>4 DEF Y
<1>2. CASE X # {}
  <2> DEFINE Y == X \cup {m}
  <2>1. \E x \in X : \A y \in X : x <= y
    BY <1>2, LeastOf
  <2>2. Min(X) \in X /\ \A y \in X : Min(X) <= y
    BY <2>1 DEF Min
  <2> DEFINE a == Min(X)
             b == Min(Y)
  <2> HIDE DEF a
  <2>3. a \in X /\ \A y \in X : a <= y
    BY <2>2 DEF a
  <2>4. a \in Y /\ \A y \in Y : a <= y
    BY <2>3
  <2>5. Y \in SUBSET Nat
    OBVIOUS
  <2> HIDE DEF Y
  <2>6. b \in Y /\ \A y \in Y : b <= y
    BY <2>4 DEF Min
  <2> HIDE DEF b
  <2>7. a = b
    BY <2>4, <2>5, <2>6
  <2> QED
    BY <1>2, <2>3, <2>7 DEF a, b, Y
<1> QED
  BY <1>1, <1>2

\* The length of an interval is not zero.
Positive(bin) == bin \in Nat \ {0}

\* The interval of a packet, and the positions of an interval in a file.
BinAt(bin, t, p) == (p.t - t) \div bin
InBin(bin, pcap, t, i) == {k \in DOMAIN pcap : BinAt(bin, t, pcap[k]) = i}
ToBin(bin, pcap, t, k, i) == {j \in 1 .. k : BinAt(bin, t, pcap[j]) = i}

\* The bytes at some positions of a file are a number.
LEMMA BytesTyped ==
  ASSUME NEW pcap \in Seq(Packet), NEW at \in SUBSET DOMAIN pcap
  PROVE  /\ Summable([k \in at |-> pcap[k].len]) /\ BytesAt(pcap, at) \in Nat
         /\ BytesAt(pcap, {}) = 0
<1>1. IsFiniteSet(at) /\ \A k \in at : pcap[k].len \in Nat
  BY Fields, PickTyped
<1> DEFINE v == [k \in at |-> pcap[k].len]
<1>2. DOMAIN v = at /\ \A k \in at : v[k] = pcap[k].len
  OBVIOUS
<1> HIDE DEF v
<1>3. Summable(v)
  BY <1>1, <1>2 DEF Summable
<1>4. Total(v) \in Nat
  BY <1>3, TotalNat
<1> DEFINE w == [k \in {} |-> pcap[k].len]
<1>5. DOMAIN w = {} /\ IsFiniteSet({})
  BY FS_EmptySet
<1> HIDE DEF w
<1>6. Summable(w)
  BY <1>5 DEF Summable
<1>7. Total(w) = 0
  BY <1>5, <1>6, TotalNat
<1> QED
  BY <1>3, <1>4, <1>7 DEF BytesAt, v, w

\* One position more has its bytes more.
LEMMA BytesMore ==
  ASSUME NEW pcap \in Seq(Packet), NEW at \in SUBSET DOMAIN pcap, NEW k \in DOMAIN pcap, k \notin at
  PROVE  BytesAt(pcap, at \cup {k}) = BytesAt(pcap, at) + pcap[k].len
<1> DEFINE B == at \cup {k}
           v == [j \in B |-> pcap[j].len]
           w == [j \in at |-> pcap[j].len]
<1>1. B \in SUBSET DOMAIN pcap
  OBVIOUS
<1>2. Summable(v)
  BY <1>1, BytesTyped, Zenon
<1>3. DOMAIN v = B /\ k \in DOMAIN v /\ v[k] = pcap[k].len /\ DOMAIN w = DOMAIN v \ {k}
      /\ \A j \in DOMAIN w : w[j] = v[j]
  OBVIOUS
<1>4. Total(v) = BytesAt(pcap, B) /\ Total(w) = BytesAt(pcap, at)
  BY Zenon DEF BytesAt
<1> HIDE DEF v, w, B
<1>5. Total(v) = v[k] + Total(w)
  BY <1>2, <1>3, TotalTake
<1>6. Total(w) \in Nat /\ v[k] \in Nat
  BY <1>3, <1>4, BytesTyped, Fields
<1> QED
  BY <1>3, <1>4, <1>5, <1>6 DEF B

\* Files that agree at some positions have the same bytes there.
LEMMA BytesSame ==
  ASSUME NEW pcap \in Seq(Packet), NEW at \in SUBSET DOMAIN pcap, NEW other,
         \A k \in at : other[k] = pcap[k]
  PROVE  BytesAt(other, at) = BytesAt(pcap, at)
<1> DEFINE v == [k \in at |-> pcap[k].len]
           w == [k \in at |-> other[k].len]
<1>1. Summable(v)
  BY BytesTyped, Zenon
<1>2. DOMAIN w = DOMAIN v /\ \A k \in DOMAIN v : w[k] = v[k]
  OBVIOUS
<1>3. Total(v) = BytesAt(pcap, at) /\ Total(w) = BytesAt(other, at)
  BY Zenon DEF BytesAt
<1> HIDE DEF v, w
<1> QED
  BY <1>1, <1>2, <1>3, TotalSame

\* A packet appended is in its own interval.
Appended(bin, s, p, t, i, r) ==
  LET X == InBin(bin, s, t, i)
      Y == InBin(bin, r, t, i)
  IN /\ r \in Seq(Packet) /\ X \in SUBSET DOMAIN s /\ BytesAt(s, X) \in Nat
     /\ BytesAt(r, Y) = BytesAt(s, X) + IF BinAt(bin, t, p) = i THEN p.len ELSE 0
     /\ X # {} => Y # {} /\ r[Min(Y)] = s[Min(X)]
     /\ X = {} /\ BinAt(bin, t, p) = i => Y # {} /\ r[Min(Y)] = p
     /\ BinAt(bin, t, p) # i => Y = X

\* A packet put at the end is in its own interval only.
LEMMA AppendedBin ==
  ASSUME NEW bin,
         NEW s \in Seq(Packet), NEW p \in Packet, NEW t \in Nat, NEW i, NEW r, r = Append(s, p)
  PROVE  Appended(bin, s, p, t, i, r)
<1> DEFINE n == Len(s)
           X == InBin(bin, s, t, i)
           Y == InBin(bin, r, t, i)
<1>1. /\ n \in Nat /\ DOMAIN s = 1 .. n /\ r \in Seq(Packet) /\ DOMAIN r = 1 .. n + 1
      /\ r[n + 1] = p /\ \A k \in 1 .. n : r[k] = s[k]
  OBVIOUS
<1> HIDE DEF n
<1>2. X \in SUBSET (1 .. n) /\ Y \in SUBSET (1 .. n + 1)
      /\ Y = IF BinAt(bin, t, p) = i THEN X \cup {n + 1} ELSE X
  <2>1. X \in SUBSET (1 .. n)
    BY <1>1 DEF InBin
  <2>2. Y = {k \in 1 .. n : BinAt(bin, t, r[k]) = i} \cup {k \in {n + 1} : BinAt(bin, t, r[k]) = i}
    BY <1>1 DEF InBin
  <2>3. {k \in 1 .. n : BinAt(bin, t, r[k]) = i} = X
    BY <1>1 DEF InBin
  <2>4. {k \in {n + 1} : BinAt(bin, t, r[k]) = i} = IF BinAt(bin, t, p) = i THEN {n + 1} ELSE {}
    BY <1>1
  <2> HIDE DEF X, Y
  <2>5. Y = X \cup IF BinAt(bin, t, p) = i THEN {n + 1} ELSE {}
    BY <2>2, <2>3, <2>4
  <2> QED
    BY <1>1, <2>1, <2>5
<1> HIDE DEF X, Y
<1>3. n + 1 \notin X /\ (\A x \in X : x < n + 1) /\ X \in SUBSET Nat /\ n + 1 \in Nat
  BY <1>1, <1>2
<1>4. BytesAt(r, X) = BytesAt(s, X) /\ BytesAt(s, X) \in Nat
  BY <1>1, <1>2, BytesSame, BytesTyped
<1>5. BytesAt(r, Y) = BytesAt(s, X) + IF BinAt(bin, t, p) = i THEN p.len ELSE 0
  <2>1. CASE BinAt(bin, t, p) = i
    <3>1. n + 1 \in DOMAIN r /\ X \in SUBSET DOMAIN r /\ r \in Seq(Packet)
      BY <1>1, <1>2
    <3>2. BytesAt(r, X \cup {n + 1}) = BytesAt(r, X) + r[n + 1].len
      BY <1>3, <3>1, BytesMore, Zenon
    <3> QED
      BY <1>1, <1>2, <1>4, <2>1, <3>2
  <2>2. CASE BinAt(bin, t, p) # i
    BY <1>2, <1>4, <2>2
  <2> QED
    BY <2>1, <2>2
<1>6. /\ Min(X \cup {n + 1}) = IF X = {} THEN n + 1 ELSE Min(X)
      /\ X # {} => Min(X) \in X /\ \A y \in X : Min(X) <= y
  BY <1>3, LeastStays
<1>7. X # {} => Y # {} /\ r[Min(Y)] = s[Min(X)]
  <2> SUFFICES ASSUME X # {} PROVE Y # {} /\ r[Min(Y)] = s[Min(X)]
    OBVIOUS
  <2>1. Min(Y) = Min(X)
    BY <1>2, <1>6
  <2>2. Min(X) \in 1 .. n
    BY <1>2, <1>6
  <2>3. Y # {}
    BY <1>2
  <2> QED
    BY <1>1, <2>1, <2>2, <2>3
<1>8. X = {} /\ BinAt(bin, t, p) = i => Y # {} /\ r[Min(Y)] = p
  BY <1>1, <1>2, <1>6
<1>9. BinAt(bin, t, p) # i => Y = X
  BY <1>2
<1>10. X \in SUBSET DOMAIN s
  BY <1>1, <1>2
<1> QED
  BY <1>1, <1>4, <1>5, <1>7, <1>8, <1>9, <1>10, Zenon DEF X, Y, Appended

\* The longest packet is as long as any.
LEMMA Longest ==
  ASSUME NEW pcap \in Seq(Packet)
  PROVE  LongestPacket(pcap) \in Nat /\ \A k \in DOMAIN pcap : pcap[k].len <= LongestPacket(pcap)
<1> DEFINE S == {pcap[i].len : i \in DOMAIN pcap} \cup {0}
           v == [k \in DOMAIN pcap |-> pcap[k].len]
<1>1. \A k \in DOMAIN pcap : pcap[k].len \in Nat
  BY Fields
<1>2. Summable(v)
  BY BytesTyped, Zenon
<1>3. DOMAIN v = DOMAIN pcap /\ \A k \in DOMAIN pcap : v[k] = pcap[k].len
  OBVIOUS
<1> HIDE DEF v
<1>4. Total(v) \in Nat
  BY <1>2, TotalNat
<1>5. ASSUME NEW k \in DOMAIN pcap PROVE pcap[k].len <= Total(v)
  <2> DEFINE w == [x \in {k} |-> v[x]]
  <2>1. DOMAIN w = {k} /\ w[k] = v[k] /\ v[k] \in Nat
    BY <1>1, <1>3
  <2> HIDE DEF w
  <2>2. Total(w) = v[k]
    BY <2>1, TotalOne
  <2>3. Total(w) <= Total(v)
    BY <1>2, <1>3, <2>1, TotalPart
  <2> QED
    BY <1>3, <2>2, <2>3
<1>6. S \in SUBSET Int /\ S # {} /\ 0 \in S /\ \A x \in S : x \in Nat /\ x <= Total(v)
  BY <1>1, <1>4, <1>5
<1>7. \A k \in DOMAIN pcap : pcap[k].len \in S
  OBVIOUS
<1> DEFINE m == Max(S)
<1> HIDE DEF S
<1>8. m \in S /\ \A y \in S : y <= m
  <2>1. Total(v) \in Int /\ S \in SUBSET Int /\ S # {} /\ \A x \in S : x <= Total(v)
    BY <1>4, <1>6
  <2> QED
    BY <2>1, MaxOf, Zenon DEF m
<1> HIDE DEF m
<1>9. m \in Nat /\ \A k \in DOMAIN pcap : pcap[k].len <= m
  BY <1>6, <1>7, <1>8
<1> QED
  BY <1>9 DEF m, S, LongestPacket

\* The first packet of an interval is the output's first of that interval.
FirstKept(bin, out, pcap, t, k, i) ==
  \/ ToBin(bin, pcap, t, k, i) = {} /\ InBin(bin, out, t, i) = {}
  \/ /\ ToBin(bin, pcap, t, k, i) # {} /\ InBin(bin, out, t, i) # {}
     /\ out[Min(InBin(bin, out, t, i))] = pcap[Min(ToBin(bin, pcap, t, k, i))]

\* What trimming has done with the first k packets, if no interval is empty:
\* the interval is the one of the last packet, number c.
RateKept(bin, s, pcap, threshold, k, c) ==
  LET t == pcap[1].t
  IN /\ s = [start |-> s.start, bytes |-> s.bytes, out |-> s.out]
     /\ c \in Nat /\ s.start = t + c * bin /\ s.bytes \in Nat /\ s.out \in Seq(Packet)
     /\ \A j \in 1 .. k : BinAt(bin, t, pcap[j]) <= c
     /\ k = 0 => c = 0 /\ s.bytes = 0
     /\ k # 0 => BinAt(bin, t, pcap[k]) = c
     /\ BytesAt(s.out, InBin(bin, s.out, t, c)) <= s.bytes
     /\ \A i \in Nat : BytesAt(s.out, InBin(bin, s.out, t, i)) <= threshold + LongestPacket(pcap)
     /\ \A i \in Nat : FirstKept(bin, s.out, pcap, t, k, i)

\* The positions of an interval, one packet further.
Further(bin, pcap, t, k, i) ==
  LET X == ToBin(bin, pcap, t, k - 1, i)
      Y == ToBin(bin, pcap, t, k, i)
  IN /\ X \in SUBSET Nat /\ \A x \in X : x < k
     /\ BinAt(bin, t, pcap[k]) # i => Y = X
     /\ BinAt(bin, t, pcap[k]) = i => Y = X \cup {k} /\ Min(Y) = IF X = {} THEN k ELSE Min(X)

\* One packet further, its own interval has it too.
LEMMA ToBinNext ==
  ASSUME NEW bin, NEW pcap, NEW t, NEW k \in Nat \ {0}, NEW i
  PROVE  Further(bin, pcap, t, k, i)
<1> DEFINE X == ToBin(bin, pcap, t, k - 1, i)
           Y == ToBin(bin, pcap, t, k, i)
<1>1. X \in SUBSET Nat /\ \A x \in X : x < k
  BY DEF ToBin
<1>2. Y = IF BinAt(bin, t, pcap[k]) = i THEN X \cup {k} ELSE X
  BY DEF ToBin
<1> HIDE DEF X, Y
<1>3. Min(X \cup {k}) = IF X = {} THEN k ELSE Min(X)
  BY <1>1, LeastStays
<1>4. /\ X \in SUBSET Nat /\ \A x \in X : x < k
      /\ BinAt(bin, t, pcap[k]) # i => Y = X
      /\ BinAt(bin, t, pcap[k]) = i => Y = X \cup {k} /\ Min(Y) = IF X = {} THEN k ELSE Min(X)
  BY <1>1, <1>2, <1>3
<1> QED
  BY <1>4, Zenon DEF Further, X, Y

\* A packet appended to the output keeps the first of every interval.
LEMMA FirstAppended ==
  ASSUME NEW bin, NEW pcap, NEW t, NEW k \in Nat \ {0}, NEW i, NEW out, NEW r,
         InBin(bin, out, t, i) # {} => /\ InBin(bin, r, t, i) # {}
                                  /\ r[Min(InBin(bin, r, t, i))] = out[Min(InBin(bin, out, t, i))],
         InBin(bin, out, t, i) = {} /\ BinAt(bin, t, pcap[k]) = i =>
           InBin(bin, r, t, i) # {} /\ r[Min(InBin(bin, r, t, i))] = pcap[k],
         BinAt(bin, t, pcap[k]) # i => InBin(bin, r, t, i) = InBin(bin, out, t, i),
         FirstKept(bin, out, pcap, t, k - 1, i)
  PROVE  FirstKept(bin, r, pcap, t, k, i)
<1> DEFINE p == pcap[k]
           X == ToBin(bin, pcap, t, k - 1, i)
           Y == ToBin(bin, pcap, t, k, i)
           A == InBin(bin, out, t, i)
           B == InBin(bin, r, t, i)
<1>1. /\ BinAt(bin, t, p) # i => Y = X
      /\ BinAt(bin, t, p) = i => Y # {} /\ Min(Y) = IF X = {} THEN k ELSE Min(X)
  <2>1. Further(bin, pcap, t, k, i)
    BY ToBinNext
  <2>2. /\ BinAt(bin, t, p) # i => Y = X
        /\ BinAt(bin, t, p) = i => Y = X \cup {k} /\ Min(Y) = IF X = {} THEN k ELSE Min(X)
    BY <2>1, Zenon DEF Further
  <2> HIDE DEF X, Y
  <2> QED
    BY <2>2
<1>2. /\ A # {} => B # {} /\ r[Min(B)] = out[Min(A)]
      /\ A = {} /\ BinAt(bin, t, p) = i => B # {} /\ r[Min(B)] = p
      /\ BinAt(bin, t, p) # i => B = A
  OBVIOUS
<1>3. \/ X = {} /\ A = {}
      \/ X # {} /\ A # {} /\ out[Min(A)] = pcap[Min(X)]
  BY DEF FirstKept
<1> HIDE DEF X, Y, A, B
<1>4. \/ Y = {} /\ B = {}
      \/ Y # {} /\ B # {} /\ r[Min(B)] = pcap[Min(Y)]
  BY <1>1, <1>2, <1>3
<1> QED
  BY <1>4 DEF FirstKept, Y, B

\* A packet left out was not the first of its interval.
LEMMA FirstLeft ==
  ASSUME NEW bin,
         NEW pcap, NEW t, NEW k \in Nat \ {0}, NEW i, NEW out,
         FirstKept(bin, out, pcap, t, k - 1, i),
         BinAt(bin, t, pcap[k]) = i => ToBin(bin, pcap, t, k - 1, i) # {}
  PROVE  FirstKept(bin, out, pcap, t, k, i)
<1> DEFINE p == pcap[k]
           X == ToBin(bin, pcap, t, k - 1, i)
           Y == ToBin(bin, pcap, t, k, i)
<1>1. /\ BinAt(bin, t, p) # i => Y = X
      /\ BinAt(bin, t, p) = i => Y = X \cup {k} /\ Min(Y) = IF X = {} THEN k ELSE Min(X)
  <2>1. Further(bin, pcap, t, k, i)
    BY ToBinNext
  <2> QED
    BY <2>1, Zenon DEF Further
<1>2. BinAt(bin, t, p) = i => X # {}
  OBVIOUS
<1> HIDE DEF X, Y
<1>3. X = {} <=> Y = {}
  BY <1>1, <1>2
<1>4. Y # {} => Min(X) = Min(Y)
  BY <1>1, <1>2
<1> QED
  BY <1>3, <1>4 DEF FirstKept, X, Y

\* Without a gap, the next packet is in the last one's interval or the one after.
LEMMA NextBin ==
  ASSUME NEW bin, Positive(bin),
         NEW pcap \in Seq(Packet), InOrder(pcap), NoGap(pcap, bin), NEW k \in DOMAIN pcap,
         NEW c \in Nat, k = 1 => c = 0, k # 1 => BinAt(bin, pcap[1].t, pcap[k - 1]) = c
  PROVE  /\ BinAt(bin, pcap[1].t, pcap[k]) \in {c, c + 1}
         /\ pcap[k].t - (pcap[1].t + c * bin) < bin <=> BinAt(bin, pcap[1].t, pcap[k]) = c
<1> DEFINE t == pcap[1].t
           x == pcap[k].t - t
           n == Len(pcap)
<1>1. bin \in Nat \ {0}
  BY DEF Positive
<1>2. n \in Nat /\ DOMAIN pcap = 1 .. n /\ \A j \in 1 .. n : pcap[j].t \in Nat
  BY Fields
<1> HIDE DEF n
<1>3. k \in 1 .. n /\ 1 \in DOMAIN pcap /\ 1 <= k
  BY <1>2
<1>4. x \in Nat /\ t \in Nat
  <2>1. t <= pcap[k].t
    BY <1>3, Ordered
  <2> QED
    BY <1>2, <1>3, <2>1
<1>5. x \div bin \in {c, c + 1}
  <2>1. CASE k = 1
    <3>1. x = 0 /\ c = 0
      BY <1>2, <2>1
    <3> HIDE DEF x
    <3>2. x < 1 * bin
      BY <1>1, <3>1
    <3>3. x \div bin \in Nat /\ x \div bin < 1
      BY <1>1, <1>4, <3>2, DivLess
    <3> QED
      BY <3>1, <3>3
  <2>2. CASE k # 1
    <3> DEFINE y == pcap[k - 1].t - t
    <3>1. k - 1 \in DOMAIN pcap /\ k \in 2 .. n /\ k - 1 <= k /\ 1 <= k - 1
      BY <1>2, <1>3, <2>2
    <3>2. t <= pcap[k - 1].t /\ pcap[k - 1].t <= pcap[k].t
      BY <1>3, <3>1, Ordered
    <3>3. pcap[k].t - pcap[k - 1].t < bin
      BY <3>1 DEF NoGap, n
    <3>4. y \in Nat /\ y <= x /\ x < y + bin
      <4>1. pcap[k].t \in Nat /\ pcap[k - 1].t \in Nat
        BY <1>2, <3>1
      <4> DEFINE a == pcap[k].t
                 b == pcap[k - 1].t
      <4>2. t \in Nat /\ a \in Nat /\ b \in Nat /\ t <= b /\ b <= a /\ a - b < bin
        BY <1>4, <3>2, <3>3, <4>1
      <4>3. x = a - t /\ y = b - t
        OBVIOUS
      <4> HIDE DEF a, b, x, y, t
      <4> QED
        BY <1>1, <4>2, <4>3
    <3>5. y \div bin = c
      BY <2>2 DEF BinAt
    <3> HIDE DEF x, y
    <3>6. c <= x \div bin /\ x \div bin \in Nat
      <4>1. x \in Nat /\ y \in Nat /\ y <= x /\ bin \in Nat \ {0} /\ 0 \in Int
        BY <1>1, <1>4, <3>4
      <4>2. x \div bin \in Nat /\ y \div bin <= x \div bin
        BY <4>1, DivGrows, DivLess, Zenon
      <4> QED
        BY <3>5, <4>2
    <3>7. y < (c + 1) * bin
      <4>1. c + 1 \in Int /\ y \div bin < c + 1
        BY <3>5
      <4> QED
        BY <1>1, <3>4, <4>1, DivLess, Zenon
    <3>8. (c + 2) * bin = (c + 1) * bin + bin
      BY <1>1
    <3>9. x < (c + 2) * bin
      BY <1>1, <1>4, <3>4, <3>7, <3>8
    <3>10. x \div bin < c + 2
      <4>1. c + 2 \in Int
        OBVIOUS
      <4> QED
        BY <1>1, <1>4, <3>9, <4>1, DivLess, Zenon
    <3> QED
      BY <3>6, <3>10
  <2> QED
    BY <2>1, <2>2
<1>6. pcap[k].t - (t + c * bin) < bin <=> x < (c + 1) * bin
  <2>1. c * bin \in Nat /\ (c + 1) * bin = c * bin + bin
    BY <1>1
  <2>2. pcap[k].t \in Nat
    BY <1>2, <1>3
  <2> QED
    BY <1>1, <1>4, <2>1, <2>2
<1>7. x < (c + 1) * bin <=> x \div bin < c + 1
  <2> HIDE DEF x
  <2>1. c + 1 \in Int
    OBVIOUS
  <2> QED
    BY <1>1, <1>4, <2>1, DivLess, Zenon
<1>8. x \div bin < c + 1 <=> x \div bin = c
  <2> HIDE DEF x
  <2> QED
    BY <1>5
<1>9. BinAt(bin, t, pcap[k]) = x \div bin
  BY DEF BinAt
<1> HIDE DEF x
<1> QED
  BY <1>5, <1>6, <1>7, <1>8, <1>9

\* Trimming keeps the rate with every packet.
LEMMA RateNext ==
  ASSUME NEW bin, Positive(bin),
         NEW pcap \in Seq(Packet), InOrder(pcap), NoGap(pcap, bin), NEW threshold \in Nat,
         NEW k \in DOMAIN pcap, NEW c, NEW s, RateKept(bin, s, pcap, threshold, k - 1, c)
  PROVE  \E e : RateKept(bin, TrimStep(bin, s, pcap[k], threshold), pcap, threshold, k, e)
<1> DEFINE t == pcap[1].t
           p == pcap[k]
           out == s.out
           long == LongestPacket(pcap)
<1>1. /\ k \in Nat \ {0} /\ p \in Packet /\ t \in Nat /\ p.len \in Nat /\ p.t \in Nat
      /\ bin \in Nat \ {0}
      /\ \A j \in 1 .. k : j \in DOMAIN pcap
  BY Fields DEF Positive
<1>2. long \in Nat /\ p.len <= long
  BY Longest
<1> HIDE DEF long
<1>3. /\ s = [start |-> s.start, bytes |-> s.bytes, out |-> out]
      /\ c \in Nat /\ s.start = t + c * bin /\ s.bytes \in Nat /\ out \in Seq(Packet)
      /\ \A j \in 1 .. k - 1 : BinAt(bin, t, pcap[j]) <= c
      /\ k - 1 = 0 => c = 0 /\ s.bytes = 0
      /\ k - 1 # 0 => BinAt(bin, t, pcap[k - 1]) = c
      /\ BytesAt(out, InBin(bin, out, t, c)) <= s.bytes
      /\ \A i \in Nat : BytesAt(out, InBin(bin, out, t, i)) <= threshold + long
      /\ \A i \in Nat : FirstKept(bin, out, pcap, t, k - 1, i)
  BY DEF RateKept, long
<1>4. /\ BinAt(bin, t, p) \in {c, c + 1}
      /\ p.t - (t + c * bin) < bin <=> BinAt(bin, t, p) = c
  <2>1. /\ k = 1 => c = 0
        /\ k # 1 => BinAt(bin, pcap[1].t, pcap[k - 1]) = c
        /\ c \in Nat
    BY <1>1, <1>3
  <2> QED
    BY <2>1, NextBin
<1> DEFINE e == BinAt(bin, t, p)
<1> HIDE DEF e
<1>5. e \in Nat /\ (e = c \/ e = c + 1) /\ e = BinAt(bin, t, p)
  BY <1>3, <1>4 DEF e
<1>6. \A j \in 1 .. k : BinAt(bin, t, pcap[j]) <= e
  <2> SUFFICES ASSUME NEW j \in 1 .. k PROVE BinAt(bin, t, pcap[j]) <= e
    OBVIOUS
  <2>1. CASE j = k
    BY <1>5, <2>1
  <2>2. CASE j # k
    <3>1. j \in 1 .. k - 1
      BY <1>1, <2>2
    <3>2. t <= pcap[j].t /\ pcap[j].t \in Nat
      <4>1. 1 \in DOMAIN pcap /\ j \in DOMAIN pcap /\ 1 <= j
        BY <1>1, <3>1
      <4>2. pcap[1].t <= pcap[j].t
        BY <4>1, Ordered
      <4>3. pcap[j].t \in Nat
        BY <4>1, Fields
      <4> QED
        BY <4>2, <4>3
    <3>3. t \in Nat /\ bin \in Nat \ {0}
      BY <1>1
    <3>4. pcap[j].t - t \in Nat
      BY <3>2, <3>3
    <3>5. (pcap[j].t - t) \div bin \in Nat
      BY <3>3, <3>4, DivLess
    <3>6. BinAt(bin, t, pcap[j]) \in Nat
      BY <3>5 DEF BinAt
    <3>7. BinAt(bin, t, pcap[j]) <= c
      BY <1>3, <3>1
    <3> QED
      BY <1>3, <1>5, <3>6, <3>7
  <2> QED
    BY <2>1, <2>2
<1> DEFINE r == Append(out, p)
           s2 == TrimStep(bin, s, p, threshold)
<1>7. \A i : Appended(bin, out, p, t, i, r)
  BY <1>1, <1>3, AppendedBin
<1>8. /\ \A i \in Nat : BytesAt(out, InBin(bin, out, t, i)) \in Nat
      /\ \A i \in Nat : BytesAt(r, InBin(bin, r, t, i)) =
                          BytesAt(out, InBin(bin, out, t, i)) + IF e = i THEN p.len ELSE 0
      /\ r \in Seq(Packet)
  <2> SUFFICES ASSUME NEW i
               PROVE  /\ BytesAt(out, InBin(bin, out, t, i)) \in Nat
                      /\ BytesAt(r, InBin(bin, r, t, i)) =
                           BytesAt(out, InBin(bin, out, t, i))
                             + IF BinAt(bin, t, p) = i THEN p.len ELSE 0
                      /\ r \in Seq(Packet)
    BY <1>5
  <2>1. Appended(bin, out, p, t, i, r)
    BY <1>7, Zenon
  <2> QED
    BY <2>1, Zenon DEF Appended
<1>9. \A i \in Nat : FirstKept(bin, r, pcap, t, k, i)
  <2> TAKE i \in Nat
  <2>1. Appended(bin, out, p, t, i, r)
    BY <1>7, Zenon
  <2> HIDE DEF r
  <2>2. /\ InBin(bin, out, t, i) # {} => /\ InBin(bin, r, t, i) # {}
                                    /\ r[Min(InBin(bin, r, t, i))] = out[Min(InBin(bin, out, t, i))]
        /\ InBin(bin, out, t, i) = {} /\ BinAt(bin, t, pcap[k]) = i =>
             InBin(bin, r, t, i) # {} /\ r[Min(InBin(bin, r, t, i))] = pcap[k]
        /\ BinAt(bin, t, pcap[k]) # i => InBin(bin, r, t, i) = InBin(bin, out, t, i)
    BY <2>1, Zenon DEF Appended
  <2>3. FirstKept(bin, out, pcap, t, k - 1, i)
    BY <1>3, Zenon
  <2> QED
    BY <1>1, <2>2, <2>3, FirstAppended
<1> HIDE DEF r
<1> DEFINE O == [i \in Nat |-> BytesAt(out, InBin(bin, out, t, i))]
           Q == [i \in Nat |-> BytesAt(r, InBin(bin, r, t, i))]
           l == p.len
<1>B. /\ \A i \in Nat : O[i] = BytesAt(out, InBin(bin, out, t, i))
      /\ \A i \in Nat : Q[i] = BytesAt(r, InBin(bin, r, t, i))
  OBVIOUS
<1> HIDE DEF O, Q
<1>A. /\ \A i \in Nat : O[i] \in Nat /\ O[i] <= threshold + long
      /\ \A i \in Nat : i # e => Q[i] = O[i]
      /\ Q[e] = O[e] + l /\ O[c] <= s.bytes
      /\ l \in Nat /\ l <= long
  <2>1. \A i \in Nat : O[i] \in Nat
    BY <1>8, <1>B
  <2>2. \A i \in Nat : O[i] <= threshold + long
    BY <1>3, <1>B
  <2>3. \A i \in Nat : Q[i] = O[i] + IF e = i THEN p.len ELSE 0
    BY <1>8, <1>B
  <2>4. O[c] <= s.bytes
    BY <1>3, <1>B
  <2> HIDE DEF t, p, out
  <2> QED
    BY <1>1, <1>2, <1>5, <2>1, <2>2, <2>3, <2>4 DEF l
<1>C. c * bin \in Nat /\ (c + 1) * bin = c * bin + bin
  <2>1. c \in Nat /\ bin \in Nat
    BY <1>1, <1>3
  <2> QED
    BY <2>1
<1> HIDE DEF l
\* The interval goes on and the packet is kept.
<1>10. CASE e = c /\ s.bytes <= threshold
  <2>1. s2.start = s.start /\ s2.bytes = s.bytes + l /\ s2.out = r
        /\ s2 = [start |-> s2.start, bytes |-> s2.bytes, out |-> s2.out]
    BY <1>3, <1>4, <1>5, <1>10 DEF TrimStep, r, l
  <2>2. BytesAt(r, InBin(bin, r, t, c)) <= s.bytes + l /\ s.bytes + l \in Nat
    <3>1. Q[c] <= s.bytes + l /\ s.bytes + l \in Nat
      BY <1>A, <1>3, <1>10
    <3> QED
      BY <1>B, <1>3, <3>1
  <2>3. ASSUME NEW i \in Nat PROVE BytesAt(r, InBin(bin, r, t, i)) <= threshold + long
    <3>1. CASE i = c
      <4>1. Q[c] <= threshold + long
        BY <1>A, <1>2, <1>3, <1>10
      <4> QED
        BY <1>B, <3>1, <4>1
    <3>2. CASE i # c
      BY <1>A, <1>B, <1>10, <3>2
    <3> QED
      BY <3>1, <3>2
  <2> HIDE DEF s2
  <2>4. RateKept(bin, s2, pcap, threshold, k, c)
    <3>1. k # 0
      BY <1>1
    <3> QED
      BY <1>3, <1>5, <1>6, <1>8, <1>9, <1>10, <2>1, <2>2, <2>3, <3>1 DEF RateKept, long
  <2> QED
    BY <2>4 DEF s2
\* The interval goes on and the packet is left out.
<1>11. CASE e = c /\ ~ (s.bytes <= threshold)
  <2>1. s2.start = s.start /\ s2.bytes = s.bytes + l /\ s2.out = out
        /\ s2 = [start |-> s2.start, bytes |-> s2.bytes, out |-> s2.out]
    BY <1>3, <1>4, <1>5, <1>11 DEF TrimStep, l
  <2>2. BytesAt(out, InBin(bin, out, t, c)) <= s.bytes + l /\ s.bytes + l \in Nat
    <3>1. O[c] <= s.bytes + l /\ s.bytes + l \in Nat
      BY <1>A, <1>3
    <3> QED
      BY <1>B, <1>3, <3>1
  <2>3. k - 1 # 0
    BY <1>3, <1>11
  <2>4. ASSUME NEW i \in Nat PROVE FirstKept(bin, out, pcap, t, k, i)
    <3>1. BinAt(bin, t, pcap[k]) = i => ToBin(bin, pcap, t, k - 1, i) # {}
      <4>1. BinAt(bin, t, pcap[k - 1]) = c /\ k - 1 \in 1 .. k - 1
        BY <1>1, <1>3, <2>3
      <4> QED
        BY <1>5, <1>11, <4>1 DEF ToBin
    <3>2. FirstKept(bin, out, pcap, t, k - 1, i)
      BY <1>3, Zenon
    <3> QED
      BY <1>1, <3>1, <3>2, FirstLeft
  <2> HIDE DEF s2
  <2>5. RateKept(bin, s2, pcap, threshold, k, c)
    <3>1. k # 0
      BY <1>1
    <3> QED
      BY <1>3, <1>5, <1>6, <1>11, <2>1, <2>2, <2>4, <3>1 DEF RateKept, long
  <2> QED
    BY <2>5 DEF s2
\* The next interval begins, with a packet that is kept.
<1>12. CASE e = c + 1
  <2>1. s2.start = s.start + bin /\ s2.bytes = l /\ s2.out = r
        /\ s2 = [start |-> s2.start, bytes |-> s2.bytes, out |-> s2.out]
    <3>1. ~ (p.t - s.start < bin)
      BY <1>3, <1>4, <1>5, <1>12
    <3> QED
      BY <3>1 DEF TrimStep, r, l
  <2>2. s2.start = t + e * bin
    <3> HIDE DEF t, s2
    <3> DEFINE x == c * bin
    <3>1. s2.start = (t + x) + bin /\ e * bin = x + bin /\ x \in Nat
      BY <1>3, <1>12, <1>C, <2>1
    <3> HIDE DEF x
    <3> QED
      BY <1>1, <3>1
  <2>3. InBin(bin, out, t, e) = {}
    <3>1. ToBin(bin, pcap, t, k - 1, e) = {}
      <4> SUFFICES ASSUME NEW j \in 1 .. k - 1, BinAt(bin, t, pcap[j]) = e PROVE FALSE
        BY DEF ToBin
      <4>1. e <= c
        BY <1>3
      <4> QED
        BY <1>3, <1>12, <4>1
    <3>2. FirstKept(bin, out, pcap, t, k - 1, e)
      BY <1>3, <1>5
    <3> QED
      BY <3>1, <3>2 DEF FirstKept
  <2>4. BytesAt(r, InBin(bin, r, t, e)) = p.len
    <3>1. BytesAt(out, {}) = 0
      BY <1>3, BytesTyped
    <3>2. O[e] = 0
      BY <1>5, <1>B, <2>3, <3>1
    <3>3. Q[e] = l
      BY <1>A, <3>2
    <3> QED
      BY <1>5, <1>B, <3>3 DEF l
  <2>5. ASSUME NEW i \in Nat PROVE BytesAt(r, InBin(bin, r, t, i)) <= threshold + long
    <3>1. CASE i = e
      BY <1>1, <1>2, <2>4, <3>1
    <3>2. CASE i # e
      BY <1>A, <1>B, <3>2
    <3> QED
      BY <3>1, <3>2
  <2> HIDE DEF s2
  <2>6. RateKept(bin, s2, pcap, threshold, k, e)
    <3>1. k # 0 /\ l \in Nat
      BY <1>1 DEF l
    <3>2. /\ s2 = [start |-> s2.start, bytes |-> s2.bytes, out |-> s2.out]
          /\ e \in Nat /\ s2.start = t + e * bin /\ s2.bytes \in Nat /\ s2.out = r
          /\ k # 0 => BinAt(bin, t, pcap[k]) = e
          /\ BytesAt(r, InBin(bin, r, t, e)) <= s2.bytes
      BY <1>5, <2>1, <2>2, <2>4, <3>1 DEF l
    <3>3. /\ r \in Seq(Packet)
          /\ \A i \in Nat : BytesAt(r, InBin(bin, r, t, i)) <= threshold + LongestPacket(pcap)
          /\ \A i \in Nat : FirstKept(bin, r, pcap, t, k, i)
      BY <1>8, <1>9, <2>5 DEF long
    <3> QED
      BY <1>6, <3>1, <3>2, <3>3 DEF RateKept
  <2> QED
    BY <2>6 DEF s2
<1> QED
  BY <1>5, <1>10, <1>11, <1>12

\* What trimming keeps of a file, interval by interval.
RateOf(bin, in, out, threshold) ==
  LET t == in[1].t
  IN \A i \in Nat :
       /\ BytesAt(out, InBin(bin, out, t, i)) <= threshold + LongestPacket(in)
       /\ InBin(bin, in, t, i) # {} =>
            /\ InBin(bin, out, t, i) # {}
            /\ out[Min(InBin(bin, out, t, i))] = in[Min(InBin(bin, in, t, i))]

\* Trimming keeps the rate of a file without a gap.
LEMMA TrimRate ==
  ASSUME NEW bin, Positive(bin),
         NEW in \in Seq(Packet), InOrder(in), NoGap(in, bin), NEW threshold \in Nat
  PROVE  RateOf(bin, in, Trim(in, threshold, bin), threshold)
<1> DEFINE t == in[1].t
           n == Len(in)
           out == Trim(in, threshold, bin)
           long == LongestPacket(in)
<1>1. n \in Nat /\ DOMAIN in = 1 .. n
  OBVIOUS
<1>2. long \in Nat
  BY Longest
<1> HIDE DEF long
<1>3. CASE in = <<>>
  <2>1. out = <<>>
    BY <1>3 DEF Trim
  <2>2. InBin(bin, in, t, 0) = InBin(bin, in, t, 0) /\ \A i : InBin(bin, <<>>, t, i) = {}
    BY DEF InBin
  <2>3. <<>> \in Seq(Packet) /\ {} \in SUBSET DOMAIN <<>>
    OBVIOUS
  <2>4. BytesAt(<<>>, {}) = 0
    BY <2>3, BytesTyped
  <2> HIDE DEF out, t
  <2>5. \A i \in Nat :
          InBin(bin, in, t, i) = {} /\ InBin(bin, out, t, i) = {} /\ BytesAt(out, {}) = 0
    BY <1>3, <2>1, <2>2, <2>4
  <2>6. 0 <= threshold + long
    BY <1>2
  <2> QED
    BY <2>5, <2>6 DEF RateOf, out, t, long
<1>4. CASE in # <<>>
  <2> HIDE DEF n
  <2>0. PICK f : TrimRuns(bin, f, in, threshold, n)
    <3>1. in # <<>> /\ DOMAIN in = 1 .. n /\ n \in Nat
      BY <1>1, <1>4
    <3> HIDE DEF t, out, long
    <3> QED
      BY <3>1, TrimScan
  <2>1. /\ f[0] = Untrimmed(in) /\ Trim(in, threshold, bin) = f[n].out
        /\ \A k \in 1 .. n : f[k] = TrimStep(bin, f[k - 1], in[k], threshold)
    BY <2>0, Zenon DEF TrimRuns
  <2> DEFINE Good == {k \in 0 .. n : \E c : RateKept(bin, f[k], in, threshold, k, c)}
  <2>2. 0 \in Good
    <3> DEFINE s == Untrimmed(in)
    <3>1. s = [start |-> s.start, bytes |-> s.bytes, out |-> s.out]
          /\ s.start = t /\ s.bytes = 0 /\ s.out = <<>>
      BY DEF Untrimmed
    <3>2. t \in Nat /\ bin \in Nat
      <4>1. 1 \in DOMAIN in
        BY <1>4
      <4> QED
        BY <4>1, Fields DEF Positive
    <3>3. \A i : InBin(bin, <<>>, t, i) = {} /\ ToBin(bin, in, t, 0, i) = {}
      BY DEF InBin, ToBin
    <3>4. <<>> \in Seq(Packet) /\ {} \in SUBSET DOMAIN <<>>
      OBVIOUS
    <3>5. BytesAt(<<>>, {}) = 0
      BY <3>4, BytesTyped
    <3> HIDE DEF s
    <3>6. \A i : FirstKept(bin, <<>>, in, t, 0, i)
      BY <3>3 DEF FirstKept
    <3>7. RateKept(bin, s, in, threshold, 0, 0)
      <4>1. s.start = t + 0 * bin /\ 0 <= threshold + long
        BY <1>2, <3>1, <3>2
      <4>2. /\ BytesAt(s.out, InBin(bin, s.out, t, 0)) <= s.bytes
            /\ \A i \in Nat : BytesAt(s.out, InBin(bin, s.out, t, i)) <= threshold + long
            /\ \A i \in Nat : FirstKept(bin, s.out, in, t, 0, i)
        <5> HIDE DEF t
        <5>1. \A i : BytesAt(<<>>, InBin(bin, <<>>, t, i)) = 0
          BY <3>3, <3>5
        <5>2. \A i : BytesAt(s.out, InBin(bin, s.out, t, i)) = 0
          BY <3>1, <5>1, Zenon
        <5>3. \A i \in Nat : FirstKept(bin, s.out, in, t, 0, i)
          BY <3>1, <3>6, Zenon
        <5> QED
          BY <3>1, <4>1, <5>2, <5>3
      <4> QED
        BY <3>1, <3>4, <4>1, <4>2 DEF RateKept, long
    <3> QED
      BY <1>1, <2>1, <3>7 DEF s
  <2>3. ASSUME NEW k \in 1 .. n, k - 1 \in Good PROVE k \in Good
    <3>1. PICK c : RateKept(bin, f[k - 1], in, threshold, k - 1, c)
      BY <2>3
    <3>2. k \in DOMAIN in
      BY <1>1
    <3>3. \E e : RateKept(bin, TrimStep(bin, f[k - 1], in[k], threshold), in, threshold, k, e)
      BY <3>1, <3>2, RateNext
    <3>4. f[k] = TrimStep(bin, f[k - 1], in[k], threshold)
      BY <2>1
    <3> QED
      BY <1>1, <3>3, <3>4
  <2>4. \A k \in 0 .. n : k \in Good
    <3> HIDE DEF Good
    <3> QED
      BY <1>1, <2>2, <2>3, UpTo, Zenon
  <2>5. PICK c : RateKept(bin, f[n], in, threshold, n, c)
    <3>1. n \in 0 .. n
      BY <1>1
    <3> QED
      BY <2>4, <3>1
  <2>6. f[n].out = out
    BY <2>1
  <2> HIDE DEF out
  <2>7. ASSUME NEW i \in Nat
        PROVE  /\ BytesAt(out, InBin(bin, out, t, i)) <= threshold + LongestPacket(in)
               /\ FirstKept(bin, out, in, t, n, i)
    BY <2>5, <2>6 DEF RateKept
  <2>8. \A i : ToBin(bin, in, t, n, i) = InBin(bin, in, t, i)
    BY <1>1 DEF ToBin, InBin
  <2> QED
    BY <2>7, <2>8 DEF RateOf, FirstKept, out
<1> QED
  BY <1>3, <1>4

\* A file is clipped to a file, which has its first packets.
LEMMA ClipTyped ==
  ASSUME NEW pcap \in Seq(Packet), NEW len
  PROVE  /\ Clip(pcap, len) \in Seq(Packet)
         /\ (\A i \in DOMAIN pcap : ~ (pcap[i].t - pcap[1].t > len)) => Clip(pcap, len) = pcap
<1> DEFINE late == {i \in DOMAIN pcap : pcap[i].t - pcap[1].t > len}
<1>1. CASE late = {}
  BY <1>1 DEF Clip
<1>2. CASE late # {}
  <2>1. late \in SUBSET Nat /\ late \in SUBSET DOMAIN pcap
    OBVIOUS
  <2> DEFINE m == Min(late)
  <2>2. Clip(pcap, len) = SubSeq(pcap, 1, m - 1)
    BY <1>2 DEF Clip
  <2> HIDE DEF late
  <2>3. \E x \in late : \A y \in late : x <= y
    BY <1>2, <2>1, LeastOf
  <2>4. m \in DOMAIN pcap
    BY <2>1, <2>3 DEF Min
  <2> HIDE DEF m
  <2>5. m - 1 \in Nat /\ m - 1 <= Len(pcap) /\ Len(pcap) \in Nat
    BY <2>4
  <2>6. SubSeq(pcap, 1, m - 1) \in Seq(Packet)
    BY <2>5
  <2>7. ~ (\A i \in DOMAIN pcap : ~ (pcap[i].t - pcap[1].t > len))
    BY <1>2 DEF late
  <2> QED
    BY <2>2, <2>6, <2>7
<1> QED
  BY <1>1, <1>2

\* Two files joined.
Glue(a, b) == a \o b

\* Two files joined have the packets of both.
LEMMA Glued ==
  ASSUME NEW T, NEW a \in Seq(T), NEW b \in Seq(T)
  PROVE  /\ Glue(a, b) \in Seq(T)
         /\ \A q : Count(Glue(a, b), q) = Count(a, q) + Count(b, q)
<1>1. ASSUME NEW q PROVE Count(a \o b, q) = Count(a, q) + Count(b, q)
  BY CountCat
<1>2. a \o b \in Seq(T)
  OBVIOUS
<1> QED
  BY <1>1, <1>2, Zenon DEF Glue

\* FlattenSeq goes over the sequences one by one.
FlatUpto(f, seqs, n) ==
  f = [i \in 1 .. n |-> IF i = 1 THEN seqs[i] ELSE Glue(f[i - 1], seqs[i])]

\* The fold of FlattenSeq is defined.
LEMMA FlatExists ==
  ASSUME NEW n \in Nat, NEW seqs
  PROVE  \E f : FlatUpto(f, seqs, n)
<1> DEFINE Good == {m \in 0 .. n : \E f : FlatUpto(f, seqs, m)}
<1>1. 0 \in Good
  <2> DEFINE f == [i \in 1 .. 0 |-> seqs[i]]
  <2>1. f = [i \in 1 .. 0 |-> IF i = 1 THEN seqs[i] ELSE Glue(f[i - 1], seqs[i])]
    OBVIOUS
  <2> HIDE DEF f
  <2>2. FlatUpto(f, seqs, 0)
    BY <2>1 DEF FlatUpto
  <2> QED
    BY <2>2
<1>2. ASSUME NEW k \in 1 .. n, k - 1 \in Good PROVE k \in Good
  <2>1. PICK f : FlatUpto(f, seqs, k - 1)
    BY <1>2
  <2> DEFINE g == [i \in 1 .. k |-> IF i = k THEN IF k = 1 THEN seqs[k] ELSE Glue(f[k - 1], seqs[k])
                                    ELSE f[i]]
  <2>2. /\ g[k] = IF k = 1 THEN seqs[k] ELSE Glue(f[k - 1], seqs[k])
        /\ \A i \in 1 .. k - 1 : g[i] = f[i]
        /\ g = [i \in 1 .. k |-> g[i]]
    OBVIOUS
  <2> HIDE DEF g
  <2>3. \A i \in 1 .. k - 1 : f[i] = IF i = 1 THEN seqs[i] ELSE Glue(f[i - 1], seqs[i])
    BY <2>1 DEF FlatUpto
  <2>4. ASSUME NEW i \in 1 .. k
        PROVE  g[i] = IF i = 1 THEN seqs[i] ELSE Glue(g[i - 1], seqs[i])
    <3>1. CASE i = k
      <4>1. k # 1 => k - 1 \in 1 .. k - 1
        OBVIOUS
      <4> QED
        BY <2>2, <3>1, <4>1
    <3>2. CASE i # k
      <4>1. i \in 1 .. k - 1 /\ (i # 1 => i - 1 \in 1 .. k - 1)
        BY <3>2
      <4> QED
        BY <2>2, <2>3, <4>1
    <3> QED
      BY <3>1, <3>2
  <2>5. FlatUpto(g, seqs, k)
    BY <2>2, <2>4, Zenon DEF FlatUpto
  <2>6. k \in 0 .. n
    OBVIOUS
  <2> QED
    BY <2>5, <2>6
<1>3. \A k \in 0 .. n : k \in Good
  <2> HIDE DEF Good
  <2> QED
    BY <1>1, <1>2, UpTo, Zenon
<1>4. n \in 0 .. n
  OBVIOUS
<1> QED
  BY <1>3, <1>4

\* FlattenSeq goes over the sequences one by one.
LEMMA FlatScan ==
  ASSUME NEW seqs, Len(seqs) \in Nat \ {0}
  PROVE  \E f : FlatUpto(f, seqs, Len(seqs)) /\ FlattenSeq(seqs) = f[Len(seqs)]
<1> DEFINE h == CHOOSE f : FlatUpto(f, seqs, Len(seqs))
<1>1. Len(seqs) # 0
  OBVIOUS
<1>2. FlattenSeq(seqs) = h[Len(seqs)]
  BY <1>1, Zenon DEF FlattenSeq, FlatUpto, Glue
<1>3. FlatUpto(h, seqs, Len(seqs))
  BY FlatExists, Zenon
<1> QED
  BY <1>2, <1>3

\* What is flattened has the packets of all the files.
CountsOf(seqs, q) == [i \in DOMAIN seqs |-> Count(seqs[i], q)]

\* What is flattened has the packets of all the files, and is the file if there
\* is one.
LEMMA Flat ==
  ASSUME NEW T, NEW seqs \in Seq(Seq(T))
  PROVE  /\ FlattenSeq(seqs) \in Seq(T)
         /\ \A q : /\ Summable(CountsOf(seqs, q))
                   /\ Count(FlattenSeq(seqs), q) = Total(CountsOf(seqs, q))
         /\ Len(seqs) = 1 => FlattenSeq(seqs) = seqs[1]
<1> DEFINE n == Len(seqs)
<1>1. n \in Nat /\ DOMAIN seqs = 1 .. n /\ \A i \in 1 .. n : seqs[i] \in Seq(T)
  OBVIOUS
<1>2. \A i \in 1 .. n : \A q : Count(seqs[i], q) \in Nat
  BY <1>1, CountCat
<1>3. CASE n = 0
  <2>1. seqs = <<>> /\ FlattenSeq(seqs) = <<>>
    BY <1>3 DEF FlattenSeq
  <2>2. ASSUME NEW q
        PROVE  Summable(CountsOf(seqs, q)) /\ Count(FlattenSeq(seqs), q) = Total(CountsOf(seqs, q))
    <3> DEFINE counts == CountsOf(seqs, q)
    <3>1. DOMAIN counts = {}
      BY <2>1 DEF CountsOf
    <3> HIDE DEF counts
    <3>2. Summable(counts) /\ Total(counts) = 0
      BY <3>1, FS_EmptySet, TotalNat DEF Summable
    <3>3. Count(<<>>, q) = 0
      <4>1. {i \in DOMAIN <<>> : (<<>>)[i] = q} = {}
        OBVIOUS
      <4> QED
        BY <4>1, FS_EmptySet DEF Count
    <3> QED
      BY <2>1, <3>2, <3>3, Zenon DEF counts
  <2> QED
    <3>1. FlattenSeq(seqs) \in Seq(T)
      <4>1. <<>> \in Seq(T)
        OBVIOUS
      <4> QED
        BY <2>1, <4>1, Zenon
    <3>2. Len(seqs) # 1
      BY <1>3
    <3> QED
      BY <2>2, <3>1, <3>2, Zenon
<1>4. CASE n # 0
  <2>1. PICK f : FlatUpto(f, seqs, n) /\ FlattenSeq(seqs) = f[n]
    BY <1>1, <1>4, FlatScan
  <2> HIDE DEF n
  <2>2. \A i \in 1 .. n : f[i] = IF i = 1 THEN seqs[i] ELSE Glue(f[i - 1], seqs[i])
    BY <2>1 DEF FlatUpto
  <2> DEFINE Good == {k \in 0 .. n : k # 0 => f[k] \in Seq(T)}
  <2>3. 0 \in Good
    BY <1>1
  <2>4. ASSUME NEW k \in 1 .. n, k - 1 \in Good PROVE k \in Good
    <3>1. k \in 0 .. n
      BY <1>1
    <3>2. CASE k = 1
      BY <1>1, <2>2, <3>1, <3>2
    <3>3. CASE k # 1
      <4>1. f[k - 1] \in Seq(T) /\ seqs[k] \in Seq(T) /\ f[k] = Glue(f[k - 1], seqs[k])
        BY <1>1, <2>2, <2>4, <3>3
      <4>2. f[k] \in Seq(T)
        BY <4>1, Glued
      <4> QED
        BY <3>1, <4>2
    <3> QED
      BY <3>2, <3>3
  <2>5. \A k \in 0 .. n : k \in Good
    <3> HIDE DEF Good
    <3> QED
      BY <1>1, <2>3, <2>4, UpTo, Zenon
  <2>6. \A k \in 1 .. n : f[k] \in Seq(T)
    BY <1>1, <2>5
  <2> HIDE DEF Good
  <2>7. ASSUME NEW q
        PROVE  Summable(CountsOf(seqs, q)) /\ Count(FlattenSeq(seqs), q) = Total(CountsOf(seqs, q))
    <3> DEFINE To(k) == [i \in 1 .. k |-> Count(seqs[i], q)]
               Same == {k \in 0 .. n : k # 0 => Count(f[k], q) = Total(To(k))}
    <3>1. ASSUME NEW k \in 0 .. n PROVE Summable(To(k))
      <4>1. IsFiniteSet(1 .. k) /\ \A i \in 1 .. k : Count(seqs[i], q) \in Nat
        BY <1>1, <1>2, FS_Interval
      <4> QED
        BY <4>1 DEF Summable
    <3>2. 0 \in Same
      BY <1>1
    <3>3. ASSUME NEW k \in 1 .. n, k - 1 \in Same PROVE k \in Same
      <4>1. k \in 0 .. n /\ k - 1 \in 0 .. n
        BY <1>1
      <4>2. Count(f[k], q) = Total(To(k))
        <5> DEFINE v == To(k)
                   w == To(k - 1)
        <5>1. /\ DOMAIN v = 1 .. k /\ k \in DOMAIN v /\ v[k] = Count(seqs[k], q)
              /\ DOMAIN w = DOMAIN v \ {k} /\ \A y \in DOMAIN w : w[y] = v[y]
          BY <1>1
        <5>2. Summable(v) /\ Summable(w)
          BY <3>1, <4>1
        <5>3. k - 1 # 0 => Count(f[k - 1], q) = Total(w)
          BY <3>3
        <5> HIDE DEF v, w
        <5>4. Total(v) = v[k] + Total(w) /\ Total(w) \in Nat
          BY <5>1, <5>2, TotalTake, TotalNat, ZenonT(60)
        <5>5. CASE k = 1
          <6>1. Total(w) = 0
            <7>1. DOMAIN w = {}
              BY <5>1, <5>5
            <7> QED
              BY <5>2, <7>1, TotalNat
          <6>2. f[k] = seqs[k]
            BY <2>2, <5>5
          <6>3. v[k] \in Nat
            BY <1>2, <5>1
          <6> QED
            BY <5>1, <5>4, <6>1, <6>2, <6>3 DEF v
        <5>6. CASE k # 1
          <6>1. k - 1 \in 1 .. n /\ f[k] = Glue(f[k - 1], seqs[k])
            BY <1>1, <2>2, <5>6
          <6>2. f[k - 1] \in Seq(T) /\ seqs[k] \in Seq(T)
            BY <1>1, <2>6, <6>1
          <6>3. Count(Glue(f[k - 1], seqs[k]), q) = Count(f[k - 1], q) + Count(seqs[k], q)
            BY <6>2, Glued
          <6>4. Count(f[k - 1], q) = Total(w)
            BY <1>1, <5>3, <5>6
          <6>5. v[k] \in Nat
            BY <1>2, <5>1
          <6> QED
            BY <5>1, <5>4, <6>1, <6>3, <6>4, <6>5 DEF v
        <5> QED
          BY <5>5, <5>6
      <4> QED
        BY <4>1, <4>2
    <3>4. \A k \in 0 .. n : k \in Same
      <4> HIDE DEF Same
      <4> QED
        BY <1>1, <3>2, <3>3, UpTo, Zenon
    <3>5. n \in 0 .. n
      BY <1>1
    <3>6. Count(f[n], q) = Total(To(n)) /\ Summable(To(n))
      BY <1>4, <3>1, <3>4, <3>5
    <3>7. To(n) = CountsOf(seqs, q)
      BY <1>1 DEF CountsOf
    <3> QED
      BY <2>1, <3>6, <3>7, Zenon
  <2>8. n = 1 => f[n] = seqs[1]
    BY <1>1, <2>2
  <2>9. f[n] \in Seq(T)
    BY <1>1, <1>4, <2>6
  <2> QED
    BY <2>1, <2>7, <2>8, <2>9 DEF n
<1> QED
  BY <1>3, <1>4

-----------------------------------------------------------------------------
(* The windows of a file and their numbers.                                 *)

\* The windows of a file are numbered from 1, and there are finitely many.
LEMMA WindowsNumbered ==
  ASSUME NEW pcap \in Seq(Packet)
  PROVE  /\ DOMAIN SplitByWindow(pcap) \in SUBSET (Nat \ {0})
         /\ IsFiniteSet(DOMAIN SplitByWindow(pcap))
<1> DEFINE n == Len(pcap)
<1>1. n \in Nat /\ DOMAIN pcap = 1 .. n /\ \A i \in 1 .. n : pcap[i].t \in Nat
  BY Fields
<1> HIDE DEF n
<1>2. PICK f : /\ f[0] = NoWindows /\ SplitByWindow(pcap) = f[n].files
               /\ \A i \in 1 .. n : f[i] = WinStep(f[i - 1], pcap[i], pcap[1])
  BY <1>1, WinScan
<1> DEFINE Good == {i \in 0 .. n : /\ DOMAIN f[i].files \in SUBSET (Nat \ {0})
                                   /\ IsFiniteSet(DOMAIN f[i].files)}
<1>3. 0 \in Good
  <2>1. DOMAIN f[0].files = {}
    BY <1>2 DEF NoWindows, NoFiles
  <2>2. IsFiniteSet(DOMAIN f[0].files)
    BY <2>1, FS_EmptySet
  <2>3. {} \in SUBSET (Nat \ {0}) /\ 0 \in 0 .. n
    BY <1>1
  <2> QED
    BY <2>1, <2>2, <2>3, Zenon
<1>4. ASSUME NEW i \in 1 .. n, i - 1 \in Good PROVE i \in Good
  <2> DEFINE s == f[i - 1]
             p == pcap[i]
             q == pcap[1]
             w == (p.t - q.t) \div WindowLen + 1
  <2>1. /\ DOMAIN s.files \in SUBSET (Nat \ {0}) /\ IsFiniteSet(DOMAIN s.files)
        /\ p.t \in Nat /\ q.t \in Nat
    BY <1>1, <1>4
  <2>2. i \in 0 .. n /\ f[i] = WinStep(s, p, q)
    BY <1>1, <1>2
  <2> HIDE DEF s, p, q
  <2>3. CASE p.t < q.t
    BY <2>1, <2>2, <2>3 DEF WinStep
  <2>4. CASE ~(p.t < q.t)
    <3>1. w \in Nat \ {0}
      <4>1. p.t - q.t \in Nat /\ WindowLen \in Nat /\ WindowLen > 0
        BY <2>1, <2>4, CtpAssumption
      <4>2. (p.t - q.t) \div WindowLen \in Nat
        BY <4>1
      <4> QED
        BY <4>2
    <3>2. DOMAIN WinStep(s, p, q).files = DOMAIN s.files \cup {w}
      BY <2>4 DEF WinStep
    <3> HIDE DEF w
    <3>3. IsFiniteSet(DOMAIN s.files \cup {w})
      BY <2>1, FS_AddElement
    <3> QED
      BY <2>1, <2>2, <3>1, <3>2, <3>3
  <2> QED
    BY <2>3, <2>4
<1>5. \A i \in 0 .. n : i \in Good
  <2> HIDE DEF Good
  <2> QED
    BY <1>1, <1>3, <1>4, UpTo, Zenon
<1>6. n \in 0 .. n
  BY <1>1
<1> QED
  BY <1>2, <1>5, <1>6

\* The greatest of finitely many numbers.
LEMMA Greatest ==
  ASSUME NEW S \in SUBSET Int, IsFiniteSet(S), S # {}
  PROVE  Max(S) \in S /\ \A y \in S : y <= Max(S)
<1>1. Cardinality(S) \in Nat /\ Cardinality(S) # 0
  BY FS_CardinalityType, FS_EmptySet
<1> DEFINE n == Cardinality(S)
           m == Nth(S, n)
<1>2. n \in 1 .. n /\ m \in S
  BY <1>1, Ranks
<1>3. ASSUME NEW y \in S PROVE y <= m
  <2>1. Rank(S, y) \in 1 .. n /\ Nth(S, Rank(S, y)) = y /\ Rank(S, m) = n
    BY <1>2, Ranks
  <2>2. m < y => Rank(S, m) < Rank(S, y)
    BY <1>2, Ranks
  <2>3. Rank(S, y) \in Int /\ Rank(S, y) <= n
    BY <2>1
  <2> HIDE DEF m
  <2> QED
    BY <1>1, <1>2, <2>1, <2>2, <2>3
<1> HIDE DEF m
<1> QED
  BY <1>2, <1>3, MaxOf

\* The last window is a number, and no window comes after it.
LEMMA LastWindow ==
  ASSUME NEW W, IsFiniteSet(W), \A k \in W : k[4] \in Nat \ {0}
  PROVE  /\ Max({k[4] : k \in W} \cup {0}) \in Nat
         /\ \A k \in W : k[4] <= Max({j[4] : j \in W} \cup {0})
<1> DEFINE S == {k[4] : k \in W} \cup {0}
<1>1. IsFiniteSet({k[4] : k \in W})
  <2> DEFINE g == [k \in W |-> k[4]]
  <2>1. g \in Surjection(W, {k[4] : k \in W})
    BY DEF Surjection
  <2> QED
    BY <2>1, FS_Surjection
<1>2. IsFiniteSet(S)
  BY <1>1, FS_AddElement
<1>3. S \in SUBSET Nat /\ S # {} /\ \A k \in W : k[4] \in S
  OBVIOUS
<1> HIDE DEF S
<1>4. Max(S) \in S /\ \A y \in S : y <= Max(S)
  BY <1>2, <1>3, Greatest
<1> QED
  BY <1>3, <1>4 DEF S

\* A name and a number.
LEMMA Named ==
  ASSUME NEW a, NEW d, NEW s, NEW w
  PROVE  <<a, d, s>> \o <<w>> = <<a, d, s, w>>
<1> DEFINE u == <<a, d, s>> \o <<w>>
           z == <<a, d, s, w>>
<1>1. u = [i \in 1 .. 4 |-> u[i]]
  OBVIOUS
<1>2. z = [i \in 1 .. 4 |-> z[i]]
  OBVIOUS
<1>3. u[1] = a /\ u[2] = d /\ u[3] = s
  OBVIOUS
<1>4. u[4] = w
  OBVIOUS
<1>5. z[1] = a /\ z[2] = d /\ z[3] = s /\ z[4] = w
  OBVIOUS
<1> HIDE DEF u, z
<1>6. \A i \in 1 .. 4 : u[i] = z[i]
  BY <1>3, <1>4, <1>5
<1>7. u = z
  BY <1>1, <1>2, <1>6
<1> QED
  BY <1>7, Zenon DEF u, z

\* The name of a window's file: that of the user's file it is cut from, and the
\* number of the window.
WindowNames(F) == {<<k[1], k[2], k[3], w>> : k \in DOMAIN F, w \in Nat \ {0}}

-----------------------------------------------------------------------------
(* JoinCap.                                                                 *)

\* Joined files are a file in order of time.
LEMMA JoinCapTyped ==
  ASSUME NEW pcaps \in Seq(Seq(Packet))
  PROVE  /\ JoinCap(pcaps) \in Seq(Packet) /\ InOrder(JoinCap(pcaps))
         /\ \A q : /\ Summable(CountsOf(pcaps, q))
                   /\ Count(JoinCap(pcaps), q) = Total(CountsOf(pcaps, q))
         /\ Len(pcaps) = 1 /\ InOrder(pcaps[1]) => JoinCap(pcaps) = pcaps[1]
<1> DEFINE all == FlattenSeq(pcaps)
<1>1. /\ all \in Seq(Packet)
      /\ \A q : Summable(CountsOf(pcaps, q)) /\ Count(all, q) = Total(CountsOf(pcaps, q))
      /\ Len(pcaps) = 1 => all = pcaps[1]
  BY Flat
<1>2. JoinCap(pcaps) = ByTime(all)
  BY DEF JoinCap
<1> HIDE DEF all
<1>3. /\ ByTime(all) \in Seq(Packet) /\ InOrder(ByTime(all))
      /\ \A q : Count(ByTime(all), q) = Count(all, q)
      /\ InOrder(all) => ByTime(all) = all
  BY <1>1, ByTimeGives
<1> QED
  BY <1>1, <1>2, <1>3, Zenon

-----------------------------------------------------------------------------
(* How often a packet is in some files, and the batches of a merge.         *)

\* A sum stays the same under other names.
LEMMA TotalMoved ==
  ASSUME NEW v, Summable(v), NEW g, NEW c,
         \A x \in DOMAIN v : c[x] \in DOMAIN g /\ g[c[x]] = v[x],
         \A x, y \in DOMAIN v : c[x] = c[y] => x = y,
         \A w \in DOMAIN g : \E x \in DOMAIN v : c[x] = w
  PROVE  Summable(g) /\ Total(g) = Total(v)
<1> DEFINE W == DOMAIN g
           h == [x \in DOMAIN v |-> c[x]]
<1>1. IsFiniteSet(W)
  <2>1. h \in Surjection(DOMAIN v, W)
    BY DEF Surjection
  <2>2. IsFiniteSet(DOMAIN v)
    BY DEF Summable
  <2> HIDE DEF W, h
  <2> QED
    BY <2>1, <2>2, FS_Surjection
<1>2. ASSUME NEW w \in W
      PROVE  g[w] = Total([x \in {y \in DOMAIN v : c[y] = w} |-> v[x]])
  <2>1. PICK x \in DOMAIN v : c[x] = w
    OBVIOUS
  <2> DEFINE u == [z \in {y \in DOMAIN v : c[y] = w} |-> v[z]]
  <2>2. DOMAIN u = {x} /\ u[x] = v[x] /\ v[x] \in Nat /\ g[w] = v[x]
    BY <2>1 DEF Summable
  <2> HIDE DEF u
  <2>3. Total(u) = u[x]
    BY <2>2, TotalOne
  <2>4. g[w] = Total(u)
    BY <2>2, <2>3
  <2> QED
    BY <2>4 DEF u
<1>3. (\A x \in DOMAIN v : c[x] \in W) /\ DOMAIN g = W
  OBVIOUS
<1> HIDE DEF W
<1> QED
  BY <1>1, <1>2, <1>3, TotalParts

\* How often a packet is in some files.
Weigh(pcaps, q) == Total(CountsOf(pcaps, q))

\* A packet is a number of times in some files.
LEMMA WeighTyped ==
  ASSUME NEW pcaps \in Seq(Seq(Packet)), NEW q
  PROVE  Summable(CountsOf(pcaps, q)) /\ Weigh(pcaps, q) \in Nat
<1>1. Summable(CountsOf(pcaps, q))
  BY Flat
<1> QED
  BY <1>1, TotalNat DEF Weigh

\* No packet is in no file.
LEMMA WeighNone ==
  ASSUME NEW q
  PROVE  Weigh(<<>>, q) = 0
<1> DEFINE v == CountsOf(<<>>, q)
<1>1. DOMAIN v = {}
  BY DEF CountsOf
<1> HIDE DEF v
<1>2. Total(v) = 0
  BY <1>1, FS_EmptySet, TotalZero
<1> QED
  BY <1>2, Zenon DEF Weigh, v

\* The sum of a sequence of two parts.
TwoParts(v, x, y, m, n) ==
  /\ DOMAIN v = 1 .. m + n /\ DOMAIN x = 1 .. m /\ DOMAIN y = 1 .. n
  /\ \A i \in 1 .. m : x[i] = v[i]
  /\ \A i \in 1 .. n : y[i] = v[m + i]

\* The total of a series is that of its two parts.
LEMMA TotalTwo ==
  ASSUME NEW m \in Nat, NEW n \in Nat, NEW v, NEW x, NEW y,
         Summable(v), Summable(x), Summable(y), TwoParts(v, x, y, m, n)
  PROVE  Total(v) = Total(x) + Total(y)
<1> DEFINE z == [i \in m + 1 .. m + n |-> v[i]]
           c == [i \in m + 1 .. m + n |-> i - m]
<1>1. /\ DOMAIN z = m + 1 .. m + n /\ (\A i \in DOMAIN z : z[i] = v[i])
      /\ \A i \in DOMAIN z : c[i] = i - m
  OBVIOUS
<1> HIDE DEF z, c
<1>2. Total(v) = Total(x) + Total(z) /\ Summable(z)
  <2>1. DOMAIN v = DOMAIN x \cup DOMAIN z /\ DOMAIN x \cap DOMAIN z = {}
    BY <1>1 DEF TwoParts
  <2>2. \A i \in DOMAIN x : x[i] = v[i]
    BY DEF TwoParts
  <2>3. \A i \in DOMAIN z : z[i] = v[i]
    BY <1>1
  <2> QED
    BY <2>1, <2>2, <2>3, TotalSplit
<1>3. ASSUME NEW i \in DOMAIN z PROVE c[i] \in DOMAIN y /\ y[c[i]] = z[i]
  <2>1. i \in m + 1 .. m + n /\ c[i] = i - m
    BY <1>1
  <2> DEFINE j == i - m
  <2>2. j \in 1 .. n /\ m + j = i
    BY <2>1
  <2> HIDE DEF j
  <2>3. y[j] = v[m + j] /\ j \in DOMAIN y
    BY <2>2 DEF TwoParts
  <2> QED
    BY <1>1, <2>1, <2>2, <2>3 DEF j
<1>4. \A i, j \in DOMAIN z : c[i] = c[j] => i = j
  BY <1>1
<1>5. \A w \in DOMAIN y : \E i \in DOMAIN z : c[i] = w
  <2> SUFFICES ASSUME NEW w \in DOMAIN y PROVE m + w \in DOMAIN z /\ c[m + w] = w
    OBVIOUS
  <2> QED
    BY <1>1 DEF TwoParts
<1>6. Total(y) = Total(z)
  BY <1>2, <1>3, <1>4, <1>5, TotalMoved
<1> QED
  BY <1>2, <1>6

\* What is joined of two lists of files has the packets of both.
LEMMA WeighGlued ==
  ASSUME NEW a \in Seq(Seq(Packet)), NEW b \in Seq(Seq(Packet)), NEW q
  PROVE  Weigh(Glue(a, b), q) = Weigh(a, q) + Weigh(b, q)
<1> DEFINE m == Len(a)
           n == Len(b)
           r == a \o b
<1>1. /\ m \in Nat /\ n \in Nat /\ DOMAIN a = 1 .. m /\ DOMAIN b = 1 .. n /\ DOMAIN r = 1 .. m + n
      /\ \A i \in 1 .. m : r[i] = a[i]
      /\ \A i \in 1 .. n : r[m + i] = b[i]
  BY Cat
<1>2. r \in Seq(Seq(Packet))
  OBVIOUS
<1>3. Glue(a, b) = r
  BY Zenon DEF Glue
<1> HIDE DEF m, n, r
<1> DEFINE v == CountsOf(r, q)
           x == CountsOf(a, q)
           y == CountsOf(b, q)
<1>4. /\ DOMAIN v = 1 .. m + n /\ DOMAIN x = 1 .. m /\ DOMAIN y = 1 .. n
      /\ \A i \in 1 .. m : x[i] = v[i]
      /\ \A i \in 1 .. n : y[i] = v[m + i]
  BY <1>1 DEF CountsOf
<1>5. Summable(v) /\ Summable(x) /\ Summable(y)
  BY <1>2, WeighTyped
<1> HIDE DEF v, x, y
<1>6. Total(v) = Total(x) + Total(y)
  <2>1. TwoParts(v, x, y, m, n)
    BY <1>4, Zenon DEF TwoParts
  <2> QED
    <3>1. m \in Nat /\ n \in Nat
      BY <1>1
    <3> QED
      BY <1>5, <2>1, <3>1, TotalTwo
<1> QED
  BY <1>3, <1>6 DEF Weigh, v, x, y

\* What is flattened has the packets of all its parts.
WeighsOf(parts, q) == [i \in DOMAIN parts |-> Weigh(parts[i], q)]

\* What is flattened of lists of files has the packets of all of them.
LEMMA PartsWeigh ==
  ASSUME NEW T, T = Seq(Packet), NEW parts \in Seq(Seq(T)), NEW q
  PROVE  /\ Summable(WeighsOf(parts, q))
         /\ Weigh(FlattenSeq(parts), q) = Total(WeighsOf(parts, q))
<1> DEFINE n == Len(parts)
<1>1. n \in Nat /\ DOMAIN parts = 1 .. n /\ \A i \in 1 .. n : parts[i] \in Seq(T)
  OBVIOUS
<1>2. \A i \in 1 .. n : Weigh(parts[i], q) \in Nat
  BY <1>1, WeighTyped
<1>3. CASE n = 0
  <2> DEFINE v == WeighsOf(parts, q)
  <2>1. FlattenSeq(parts) = <<>>
    BY <1>3 DEF FlattenSeq
  <2>2. DOMAIN v = {}
    BY <1>1, <1>3 DEF WeighsOf
  <2> HIDE DEF v
  <2>3. Summable(v) /\ Total(v) = 0
    BY <2>2, FS_EmptySet, TotalZero
  <2> QED
    BY <2>1, <2>3, WeighNone, Zenon DEF v
<1>4. CASE n # 0
  <2>1. PICK f : FlatUpto(f, parts, n) /\ FlattenSeq(parts) = f[n]
    BY <1>1, <1>4, FlatScan
  <2> HIDE DEF n
  <2>2. \A i \in 1 .. n : f[i] = IF i = 1 THEN parts[i] ELSE Glue(f[i - 1], parts[i])
    BY <2>1 DEF FlatUpto
  <2> DEFINE Good == {k \in 0 .. n : k # 0 => f[k] \in Seq(T)}
  <2>3. 0 \in Good
    BY <1>1
  <2>4. ASSUME NEW k \in 1 .. n, k - 1 \in Good PROVE k \in Good
    <3>1. k \in 0 .. n
      BY <1>1
    <3>2. CASE k = 1
      BY <1>1, <2>2, <3>1, <3>2
    <3>3. CASE k # 1
      <4>1. f[k - 1] \in Seq(T) /\ parts[k] \in Seq(T) /\ f[k] = Glue(f[k - 1], parts[k])
        BY <1>1, <2>2, <2>4, <3>3
      <4>2. f[k] \in Seq(T)
        BY <4>1, Glued
      <4> QED
        BY <3>1, <4>2
    <3> QED
      BY <3>2, <3>3
  <2>5. \A k \in 0 .. n : k \in Good
    <3> HIDE DEF Good
    <3> QED
      BY <1>1, <2>3, <2>4, UpTo, Zenon
  <2>6. \A k \in 1 .. n : f[k] \in Seq(T)
    BY <1>1, <2>5
  <2> HIDE DEF Good
  <2> DEFINE To(k) == [i \in 1 .. k |-> Weigh(parts[i], q)]
             Same == {k \in 0 .. n : k # 0 => Weigh(f[k], q) = Total(To(k))}
  <2>7. ASSUME NEW k \in 0 .. n PROVE Summable(To(k))
    <3>1. IsFiniteSet(1 .. k)
      BY <1>1, FS_Interval
    <3>2. \A i \in 1 .. k : Weigh(parts[i], q) \in Nat
      BY <1>1, <1>2
    <3> QED
      BY <3>1, <3>2 DEF Summable
  <2>8. 0 \in Same
    BY <1>1
  <2>9. ASSUME NEW k \in 1 .. n, k - 1 \in Same PROVE k \in Same
    <3>1. k \in 0 .. n /\ k - 1 \in 0 .. n
      BY <1>1
    <3>2. Weigh(f[k], q) = Total(To(k))
      <4> DEFINE v == To(k)
                 w == To(k - 1)
      <4>1. /\ DOMAIN v = 1 .. k /\ k \in DOMAIN v /\ v[k] = Weigh(parts[k], q)
            /\ DOMAIN w = DOMAIN v \ {k} /\ \A y \in DOMAIN w : w[y] = v[y]
        BY <1>1
      <4>2. Summable(v) /\ Summable(w)
        BY <2>7, <3>1
      <4>3. k - 1 # 0 => Weigh(f[k - 1], q) = Total(w)
        BY <2>9
      <4> HIDE DEF v, w
      <4>4. Total(v) = v[k] + Total(w) /\ Total(w) \in Nat
        BY <4>1, <4>2, TotalTake, TotalNat, ZenonT(60)
      <4>5. CASE k = 1
        <5>1. Total(w) = 0
          <6>1. DOMAIN w = {}
            BY <4>1, <4>5
          <6> QED
            BY <4>2, <6>1, TotalNat
        <5>2. f[k] = parts[k]
          BY <2>2, <4>5
        <5>3. v[k] \in Nat
          BY <1>2, <4>1
        <5> QED
          BY <4>1, <4>4, <5>1, <5>2, <5>3 DEF v
      <4>6. CASE k # 1
        <5>1. k - 1 \in 1 .. n /\ f[k] = Glue(f[k - 1], parts[k])
          BY <1>1, <2>2, <4>6
        <5>2. f[k - 1] \in Seq(T) /\ parts[k] \in Seq(T)
          BY <1>1, <2>6, <5>1
        <5>3. Weigh(Glue(f[k - 1], parts[k]), q) = Weigh(f[k - 1], q) + Weigh(parts[k], q)
          BY <5>2, WeighGlued
        <5>4. Weigh(f[k - 1], q) = Total(w)
          BY <1>1, <4>3, <4>6
        <5>5. v[k] \in Nat
          BY <1>2, <4>1
        <5> QED
          BY <4>1, <4>4, <5>1, <5>3, <5>4, <5>5 DEF v
      <4> QED
        BY <4>5, <4>6
    <3> QED
      BY <3>1, <3>2
  <2>10. \A k \in 0 .. n : k \in Same
    <3> HIDE DEF Same
    <3> QED
      BY <1>1, <2>8, <2>9, UpTo, Zenon
  <2>11. n \in 0 .. n
    BY <1>1
  <2>12. Weigh(f[n], q) = Total(To(n)) /\ Summable(To(n))
    BY <1>4, <2>7, <2>10, <2>11
  <2>13. To(n) = WeighsOf(parts, q)
    BY <1>1 DEF WeighsOf
  <2> QED
    BY <2>1, <2>12, <2>13, Zenon
<1> QED
  BY <1>3, <1>4

\* What is flattened of lists of files of packets has the packets of all of
\* them.
LEMMA FlatWeighs ==
  ASSUME NEW parts \in Seq(Seq(Seq(Packet))), NEW q
  PROVE  /\ Summable(WeighsOf(parts, q))
         /\ Weigh(FlattenSeq(parts), q) = Total(WeighsOf(parts, q))
BY PartsWeigh, Zenon

\* What is flattened has something if a part has.
LEMMA FlatHas ==
  ASSUME NEW T, NEW seqs \in Seq(Seq(T)), NEW i \in DOMAIN seqs, seqs[i] # <<>>
  PROVE  FlattenSeq(seqs) # <<>>
<1> DEFINE q == seqs[i][1]
           v == CountsOf(seqs, q)
           at == {k \in DOMAIN seqs[i] : seqs[i][k] = q}
           n == Len(seqs[i])
<1>1. n \in Nat /\ n # 0 /\ DOMAIN seqs[i] = 1 .. n
  BY seqs[i] \in Seq(T)
<1>2. at \in SUBSET (1 .. n) /\ 1 \in at
  BY <1>1
<1> HIDE DEF n
<1>a. IsFiniteSet(1 .. n)
  BY <1>1, FS_Interval
<1>3. IsFiniteSet(at) /\ at # {}
  BY <1>2, <1>a, FS_Subset
<1> HIDE DEF at
<1>4. Cardinality(at) \in Nat /\ Cardinality(at) # 0
  BY <1>3, FS_CardinalityType, FS_EmptySet
<1>5. v[i] = Cardinality(at) /\ i \in DOMAIN v
  BY DEF CountsOf, Count, at
<1> HIDE DEF q
<1>6. Summable(v) /\ Count(FlattenSeq(seqs), q) = Total(v)
  BY Flat
<1> HIDE DEF v
<1>7. v[i] <= Total(v) /\ Total(v) \in Nat
  <2> DEFINE w == [x \in {i} |-> v[x]]
  <2>1. DOMAIN w = {i} /\ DOMAIN w \subseteq DOMAIN v /\ (\A y \in DOMAIN w : w[y] = v[y])
        /\ w[i] = v[i]
    BY <1>5
  <2> HIDE DEF w
  <2>2. Total(w) <= Total(v)
    BY <1>6, <2>1, TotalPart
  <2>3. Total(w) = w[i]
    BY <1>4, <1>5, <2>1, TotalOne
  <2> QED
    BY <1>6, <2>1, <2>2, <2>3, TotalNat
<1>8. Count(<<>>, q) = 0
  <2>1. {k \in DOMAIN <<>> : (<<>>)[k] = q} = {}
    OBVIOUS
  <2> QED
    BY <2>1, FS_EmptySet DEF Count
<1>9. Count(FlattenSeq(seqs), q) # 0
  BY <1>4, <1>5, <1>6, <1>7
<1> QED
  BY <1>8, <1>9, Zenon

\* The files of a batch of users, and what joining it makes of the output.
BatchOf(userSeq, filesOf, b) ==
  FlattenSeq([i \in 1 .. Min({BatchSize, Len(userSeq) - (b - 1) * BatchSize}) |->
                filesOf[userSeq[(b - 1) * BatchSize + i]]])

\* JoinInBatches, batch by batch: the output so far goes along.
BatchStep(out, userSeq, filesOf, b) ==
  IF BatchOf(userSeq, filesOf, b) = <<>> THEN out
  ELSE JoinCap(IF b = 1 THEN BatchOf(userSeq, filesOf, b)
               ELSE Append(BatchOf(userSeq, filesOf, b), out))

\* The numbers of the batches, and the fold over a part of them.
Batches(userSeq) == [b \in 1 .. (Len(userSeq) + BatchSize - 1) \div BatchSize |-> b]
BatchUpto(f, userSeq, filesOf, stale, n) ==
  f = [s \in SUBSET (1 .. n) |->
         IF s = {} THEN stale
         ELSE BatchStep(f[s \ {Max(s)}], userSeq, filesOf, Batches(userSeq)[Max(s)])]

\* JoinInBatches goes over the batches one by one.
LEMMA BatchExists ==
  ASSUME NEW n \in Nat, NEW userSeq, NEW filesOf, NEW stale
  PROVE  \E f : BatchUpto(f, userSeq, filesOf, stale, n)
<1> DEFINE Good == {m \in 0 .. n : \E f : BatchUpto(f, userSeq, filesOf, stale, m)}
<1>1. 0 \in Good
  <2> DEFINE f == [s \in SUBSET (1 .. 0) |-> stale]
  <2>1. \A s \in SUBSET (1 .. 0) : s = {}
    OBVIOUS
  <2>2. BatchUpto(f, userSeq, filesOf, stale, 0)
    BY <2>1 DEF BatchUpto
  <2> QED
    BY <2>2
<1>2. ASSUME NEW i \in 1 .. n, i - 1 \in Good
      PROVE  i \in Good
  <2>1. PICK f : BatchUpto(f, userSeq, filesOf, stale, i - 1)
    BY <1>2
  <2> DEFINE g == [s \in SUBSET (1 .. i) |->
                     IF i \in s
                       THEN BatchStep(f[s \ {i}], userSeq, filesOf, Batches(userSeq)[i]) ELSE f[s]]
  <2>2. \A s \in SUBSET (1 .. i) :
          i \in s => g[s] = BatchStep(f[s \ {i}], userSeq, filesOf, Batches(userSeq)[i])
    OBVIOUS
  <2>3. \A s \in SUBSET (1 .. i) : i \notin s => g[s] = f[s]
    OBVIOUS
  <2>4. g = [s \in SUBSET (1 .. i) |-> g[s]]
    OBVIOUS
  <2> HIDE DEF g
  <2>5. \A s \in SUBSET (1 .. i) : LastOf(s, i)
    BY Lasts
  <2>6. \A s \in SUBSET (1 .. i - 1) : s \in SUBSET (1 .. i) /\ i \notin s
    OBVIOUS
  <2>7. ASSUME NEW s \in SUBSET (1 .. i)
        PROVE  g[s] = IF s = {} THEN stale
                      ELSE BatchStep(g[s \ {Max(s)}], userSeq, filesOf, Batches(userSeq)[Max(s)])
    <3>1. CASE i \in s
      <4>1. Max(s) = i /\ s \ {i} \in SUBSET (1 .. i - 1)
        BY <3>1, <2>5 DEF LastOf
      <4>2. g[s \ {i}] = f[s \ {i}]
        BY <4>1, <2>3, <2>6
      <4> QED
        BY <3>1, <4>1, <4>2, <2>2
    <3>2. CASE i \notin s
      <4>1. s \in SUBSET (1 .. i - 1) /\ g[s] = f[s]
        BY <3>2, <2>3, <2>5 DEF LastOf
      <4>2. f[s] = IF s = {} THEN stale
                   ELSE BatchStep(f[s \ {Max(s)}], userSeq, filesOf, Batches(userSeq)[Max(s)])
        BY <4>1, <2>1 DEF BatchUpto
      <4>3. s \ {Max(s)} \in SUBSET (1 .. i - 1)
        BY <4>1
      <4>4. g[s \ {Max(s)}] = f[s \ {Max(s)}]
        BY <4>3, <2>3, <2>6
      <4> QED
        BY <4>1, <4>2, <4>4
    <3> QED
      BY <3>1, <3>2
  <2>8. BatchUpto(g, userSeq, filesOf, stale, i)
    BY <2>4, <2>7, Zenon DEF BatchUpto
  <2>9. i \in 0 .. n
    OBVIOUS
  <2> QED
    BY <2>8, <2>9
<1>3. \A i \in 0 .. n : i \in Good
  <2> HIDE DEF Good
  <2> QED
    BY <1>1, <1>2, UpTo, Zenon
<1>4. n \in 0 .. n
  OBVIOUS
<1> QED
  BY <1>3, <1>4

\* JoinInBatches goes over the batches one by one.
BatchRuns(f, userSeq, filesOf, stale, n) ==
  /\ f[0] = stale /\ JoinInBatches(userSeq, filesOf, stale) = f[n]
  /\ \A i \in 1 .. n : f[i] = BatchStep(f[i - 1], userSeq, filesOf, Batches(userSeq)[i])

\* JoinInBatches goes over the batches one by one.
LEMMA BatchScan ==
  ASSUME NEW n \in Nat, NEW userSeq, NEW filesOf, NEW stale, DOMAIN Batches(userSeq) = 1 .. n
  PROVE  \E f : BatchRuns(f, userSeq, filesOf, stale, n)
<1> DEFINE h == CHOOSE f : BatchUpto(f, userSeq, filesOf, stale, n)
           f == [i \in 0 .. n |-> h[1 .. i]]
<1>1. JoinInBatches(userSeq, filesOf, stale) = h[1 .. n]
  BY DEF JoinInBatches, FoldLeft, MapThenFoldSet, BatchUpto, BatchStep, BatchOf, Batches
<1>2. BatchUpto(h, userSeq, filesOf, stale, n)
  BY BatchExists, Zenon
<1> HIDE DEF h
<1>3. \A s \in SUBSET (1 .. n) :
        h[s] = IF s = {} THEN stale
               ELSE BatchStep(h[s \ {Max(s)}], userSeq, filesOf, Batches(userSeq)[Max(s)])
  BY <1>2 DEF BatchUpto
<1>4. h[{}] = stale
  BY <1>3, {} \in SUBSET (1 .. n)
<1>5. ASSUME NEW i \in 1 .. n PROVE h[1 .. i] =
               BatchStep(h[1 .. i - 1], userSeq, filesOf, Batches(userSeq)[i])
  <2>1. /\ 1 .. i \in SUBSET (1 .. n) /\ 1 .. i # {}
        /\ Max(1 .. i) = i /\ (1 .. i) \ {i} = 1 .. i - 1
    BY Segments, Zenon
  <2> QED
    BY <2>1, <1>3
<1>6. 1 .. 0 = {}
  OBVIOUS
<1>7. f[0] = h[1 .. 0] /\ f[n] = h[1 .. n]
  OBVIOUS
<1>8. \A i \in 1 .. n : f[i] = h[1 .. i] /\ f[i - 1] = h[1 .. i - 1]
  OBVIOUS
<1> HIDE DEF f
<1>9. f[0] = stale /\ JoinInBatches(userSeq, filesOf, stale) = f[n]
  BY <1>1, <1>4, <1>6, <1>7
<1>10. \A i \in 1 .. n : f[i] = BatchStep(f[i - 1], userSeq, filesOf, Batches(userSeq)[i])
  BY <1>5, <1>8
<1> QED
  BY <1>9, <1>10, Zenon DEF BatchRuns

\* How many users the first b batches have.
Taken(len, b) == IF b * BatchSize <= len THEN b * BatchSize ELSE len

\* The users of a batch are those at its places.
LEMMA TakenAre ==
  ASSUME NEW len \in Nat, NEW n, n = (len + BatchSize - 1) \div BatchSize
  PROVE  /\ n \in Nat /\ Taken(len, 0) = 0 /\ Taken(len, n) = len
         /\ \A b \in 1 .. n :
              LET lo == (b - 1) * BatchSize
                  m  == Taken(len, b) - lo
              IN /\ lo \in Nat /\ m \in Nat \ {0} /\ lo + m <= len /\ Taken(len, b - 1) = lo
                 /\ Taken(len, b) = lo + m /\ Min({BatchSize, len - lo}) = m
<1> DEFINE x == len + BatchSize - 1
<1>1. BatchSize \in Nat \ {0} /\ x \in Nat
  BY CtpAssumption
<1>2. \A c \in Int : x < c * BatchSize <=> n < c
  BY <1>1, DivLess, Zenon
<1>3. n \in Nat
  BY <1>1, DivLess
<1>4. Taken(len, 0) = 0
  BY <1>1 DEF Taken
<1>5. Taken(len, n) = len
  <2> DEFINE v == n * BatchSize
  <2>1. (n + 1) * BatchSize = v + BatchSize /\ v \in Int
    BY <1>1, <1>3
  <2>2. x < (n + 1) * BatchSize
    <3>1. n + 1 \in Int /\ n < n + 1
      BY <1>3
    <3> QED
      BY <1>2, <3>1, Zenon
  <2> HIDE DEF v
  <2>3. len <= v
    BY <1>1, <2>1, <2>2
  <2> QED
    BY <2>1, <2>3 DEF Taken, v
<1>6. ASSUME NEW b \in 1 .. n
      PROVE  LET lo == (b - 1) * BatchSize
                 m  == Taken(len, b) - lo
             IN /\ lo \in Nat /\ m \in Nat \ {0} /\ lo + m <= len /\ Taken(len, b - 1) = lo
                /\ Taken(len, b) = lo + m /\ Min({BatchSize, len - lo}) = m
  <2> DEFINE lo == (b - 1) * BatchSize
             v == b * BatchSize
             m == Taken(len, b) - lo
  <2>1. b - 1 \in Nat /\ b \in Int /\ ~ (n < b)
    BY <1>3
  <2>2. lo \in Nat /\ v = lo + BatchSize
    BY <1>1, <2>1
  <2>3. ~ (x < v)
    BY <1>2, <2>1, Zenon
  <2>4. Taken(len, b) = IF v <= len THEN v ELSE len
    BY DEF Taken
  <2>5. Taken(len, b - 1) = IF lo <= len THEN lo ELSE len
    BY DEF Taken
  <2> HIDE DEF lo, v
  <2>6. lo < len
    BY <1>1, <2>2, <2>3
  <2>7. m = IF BatchSize <= len - lo THEN BatchSize ELSE len - lo
    BY <1>1, <2>2, <2>4, <2>6
  <2>8. /\ m \in Nat \ {0} /\ lo + m <= len /\ Taken(len, b - 1) = lo /\ Taken(len, b) = lo + m
    BY <1>1, <2>2, <2>4, <2>5, <2>6
  <2>9. Min({BatchSize, len - lo}) = m
    <3> DEFINE e == len - lo
               M == {BatchSize, e}
    <3>1. e \in Int /\ m = IF BatchSize <= e THEN BatchSize ELSE e
      BY <2>2, <2>7
    <3> HIDE DEF e, m
    <3>2. m \in M /\ \A y \in M : m <= y
      BY <1>1, <3>1
    <3>3. \A y \in M : y \in Int
      BY <1>1, <3>1
    <3> HIDE DEF M
    <3>4. Min(M) \in M /\ \A y \in M : Min(M) <= y
      BY <3>2 DEF Min
    <3>5. Min(M) = m
      BY <3>2, <3>3, <3>4
    <3> QED
      BY <3>5, Zenon DEF M, e
  <2> HIDE DEF m
  <2> QED
    BY <2>2, <2>8, <2>9 DEF lo, m
<1> QED
  BY <1>3, <1>4, <1>5, <1>6

\* A file more among some files.
LEMMA WeighMore ==
  ASSUME NEW pcaps \in Seq(Seq(Packet)), NEW pcap \in Seq(Packet), NEW q
  PROVE  /\ Append(pcaps, pcap) \in Seq(Seq(Packet))
         /\ Weigh(Append(pcaps, pcap), q) = Weigh(pcaps, q) + Count(pcap, q)
<1> DEFINE one == <<pcap>>
           T == Seq(Packet)
<1>1. one \in Seq(T) /\ Append(pcaps, pcap) = pcaps \o one /\ Append(pcaps, pcap) \in Seq(T)
  OBVIOUS
<1>2. Weigh(Glue(pcaps, one), q) = Weigh(pcaps, q) + Weigh(one, q)
  BY <1>1, WeighGlued
<1>3. Weigh(one, q) = Count(pcap, q)
  <2> DEFINE v == CountsOf(one, q)
  <2>1. DOMAIN v = {1} /\ v[1] = Count(pcap, q)
    BY DEF CountsOf
  <2>2. Count(pcap, q) \in Nat
    BY CountCat
  <2> HIDE DEF v
  <2>3. Total(v) = v[1]
    BY <2>1, <2>2, TotalOne
  <2> QED
    BY <2>1, <2>3 DEF Weigh, v
<1>4. Glue(pcaps, one) = Append(pcaps, pcap)
  BY <1>1, Zenon DEF Glue
<1> QED
  BY <1>1, <1>2, <1>3, <1>4

\* How often a packet is in the files of each of the first k users.
WeighTo(userSeq, filesOf, k, q) == [i \in 1 .. k |-> Weigh(filesOf[userSeq[i]], q)]
\* A file has the packets of the first k users, in order of time.
Joins(out, userSeq, filesOf, k) ==
  /\ out \in Seq(Packet) /\ InOrder(out)
  /\ \A q : Count(out, q) = Total(WeighTo(userSeq, filesOf, k, q))

\* A batch has the files of its users.
LEMMA BatchWeighs ==
  ASSUME NEW userSeq, Len(userSeq) \in Nat, NEW filesOf, NEW n,
         \A i \in 1 .. Len(userSeq) : filesOf[userSeq[i]] \in Seq(Seq(Packet)),
         n = (Len(userSeq) + BatchSize - 1) \div BatchSize, NEW b \in 1 .. n
  PROVE  /\ BatchOf(userSeq, filesOf, b) \in Seq(Seq(Packet))
         /\ \A q : Total(WeighTo(userSeq, filesOf, Taken(Len(userSeq), b), q)) =
                     Total(WeighTo(userSeq, filesOf, Taken(Len(userSeq), b - 1), q))
                       + Weigh(BatchOf(userSeq, filesOf, b), q)
<1> DEFINE len == Len(userSeq)
           lo == (b - 1) * BatchSize
           m == Taken(len, b) - lo
           F == [i \in 1 .. m |-> filesOf[userSeq[lo + i]]]
<1>1. /\ lo \in Nat /\ m \in Nat \ {0} /\ lo + m <= len /\ Taken(len, b - 1) = lo
      /\ Taken(len, b) = lo + m /\ Min({BatchSize, len - lo}) = m /\ len \in Nat
  BY TakenAre, ZenonT(60)
<1>2. BatchOf(userSeq, filesOf, b) = FlattenSeq(F)
  BY <1>1 DEF BatchOf
<1> HIDE DEF lo, m, len
<1>3. \A i \in 1 .. m : lo + i \in 1 .. len /\ F[i] = filesOf[userSeq[lo + i]]
  BY <1>1
<1>4. DOMAIN F = 1 .. m /\ F = [i \in 1 .. m |-> F[i]]
  OBVIOUS
<1> HIDE DEF F
<1>5. \A i \in 1 .. m : F[i] \in Seq(Seq(Packet))
  BY <1>3 DEF len
<1>6. F \in Seq(Seq(Seq(Packet)))
  <2> DEFINE T == Seq(Seq(Packet))
  <2>1. \A i \in 1 .. m : F[i] \in T
    BY <1>5
  <2> HIDE DEF T
  <2>2. F \in Seq(T)
    BY <1>1, <1>4, <2>1, SMTT(30)
  <2> QED
    BY <2>2 DEF T
<1>7. FlattenSeq(F) \in Seq(Seq(Packet))
  BY <1>6, Flat
<1>8. ASSUME NEW q
      PROVE  Total(WeighTo(userSeq, filesOf, lo + m, q)) =
               Total(WeighTo(userSeq, filesOf, lo, q)) + Weigh(FlattenSeq(F), q)
  <2> DEFINE v == WeighTo(userSeq, filesOf, lo + m, q)
             x == WeighTo(userSeq, filesOf, lo, q)
             y == WeighsOf(F, q)
  <2>1. /\ DOMAIN v = 1 .. lo + m /\ DOMAIN x = 1 .. lo
        /\ (\A i \in 1 .. lo + m : v[i] = Weigh(filesOf[userSeq[i]], q))
        /\ \A i \in 1 .. lo : x[i] = Weigh(filesOf[userSeq[i]], q)
    BY DEF WeighTo
  <2>2. DOMAIN y = 1 .. m /\ \A i \in 1 .. m : y[i] = Weigh(filesOf[userSeq[lo + i]], q)
    BY <1>3, <1>4 DEF WeighsOf
  <2>3. Summable(y) /\ Weigh(FlattenSeq(F), q) = Total(y)
    BY <1>6, FlatWeighs
  <2> HIDE DEF v, x, y
  <2>4. TwoParts(v, x, y, lo, m)
    <3>1. \A i \in 1 .. lo : i \in 1 .. lo + m
      BY <1>1
    <3>2. \A i \in 1 .. m : lo + i \in 1 .. lo + m
      BY <1>1
    <3> QED
      BY <2>1, <2>2, <3>1, <3>2, Zenon DEF TwoParts
  <2>5. \A i \in 1 .. len : Weigh(filesOf[userSeq[i]], q) \in Nat
    BY WeighTyped DEF len
  <2>6. IsFiniteSet(1 .. lo + m) /\ IsFiniteSet(1 .. lo)
    <3>1. lo + m \in Int /\ lo \in Int
      BY <1>1
    <3> QED
      BY <3>1, FS_Interval
  <2>7. \A i \in 1 .. lo + m : i \in 1 .. len
    BY <1>1
  <2>8. \A i \in 1 .. lo : i \in 1 .. len
    BY <1>1
  <2>9. Summable(v) /\ Summable(x)
    <3>1. \A i \in 1 .. lo + m : v[i] \in Nat
      BY <2>1, <2>5, <2>7, Zenon
    <3>2. \A i \in 1 .. lo : x[i] \in Nat
      BY <2>1, <2>5, <2>8, Zenon
    <3> QED
      BY <2>1, <2>6, <3>1, <3>2, Zenon DEF Summable
  <2>10. Total(v) = Total(x) + Total(y)
    BY <1>1, <2>3, <2>4, <2>9, TotalTwo
  <2> QED
    BY <2>3, <2>10 DEF v, x
<1> QED
  BY <1>1, <1>2, <1>7, <1>8 DEF len

\* What the first batches have joined has the packets of their users, and one
\* batch more those of one more.
LEMMA BatchJoins ==
  ASSUME NEW userSeq, Len(userSeq) \in Nat, NEW filesOf, NEW n,
         \A i \in 1 .. Len(userSeq) : filesOf[userSeq[i]] \in Seq(Seq(Packet)),
         n = (Len(userSeq) + BatchSize - 1) \div BatchSize, NEW b \in 1 .. n, NEW out,
         Joins(out, userSeq, filesOf, Taken(Len(userSeq), b - 1)) \/
           (b = 1 /\ BatchOf(userSeq, filesOf, b) # <<>>)
  PROVE  Joins(BatchStep(out, userSeq, filesOf, b), userSeq, filesOf, Taken(Len(userSeq), b))
<1> DEFINE batch == BatchOf(userSeq, filesOf, b)
           before(q) == Total(WeighTo(userSeq, filesOf, Taken(Len(userSeq), b - 1), q))
           after(q) == Total(WeighTo(userSeq, filesOf, Taken(Len(userSeq), b), q))
           new == BatchStep(out, userSeq, filesOf, b)
<1>1. batch \in Seq(Seq(Packet)) /\ \A q : after(q) = before(q) + Weigh(batch, q)
  BY BatchWeighs, ZenonT(60)
<1>2. new = IF batch = <<>> THEN out ELSE JoinCap(IF b = 1 THEN batch ELSE Append(batch, out))
  BY DEF BatchStep
<1>3. \A q : Weigh(batch, q) \in Nat
  BY <1>1, WeighTyped
<1>4. b = 1 => \A q : before(q) = 0
  <2> SUFFICES ASSUME b = 1, NEW q PROVE before(q) = 0
    OBVIOUS
  <2> DEFINE v == WeighTo(userSeq, filesOf, 0, q)
  <2>1. DOMAIN v = {}
    BY DEF WeighTo
  <2> HIDE DEF v
  <2>2. Total(v) = 0
    BY <2>1, FS_EmptySet, TotalZero
  <2>3. Taken(Len(userSeq), b - 1) = 0
    BY CtpAssumption DEF Taken
  <2> QED
    BY <2>2, <2>3 DEF v
<1> HIDE DEF batch, before, after, new
<1>5. CASE batch = <<>>
  <2>1. Joins(out, userSeq, filesOf, Taken(Len(userSeq), b - 1)) /\ new = out
    BY <1>2, <1>5 DEF batch
  <2>2. \A q : Weigh(batch, q) = 0
    BY <1>5, WeighNone
  <2>3. \A q : Count(out, q) = before(q) /\ Count(out, q) \in Nat
    <3>1. out \in Seq(Packet)
      BY <2>1 DEF Joins
    <3> QED
      BY <2>1, <3>1, CountCat DEF Joins, before
  <2>4. \A q : after(q) = Count(new, q)
    BY <1>1, <2>1, <2>2, <2>3
  <2> QED
    BY <2>1, <2>4 DEF Joins, after, new
<1>6. CASE batch # <<>> /\ b = 1
  <2>1. new = JoinCap(batch)
    BY <1>2, <1>6
  <2>2. /\ JoinCap(batch) \in Seq(Packet) /\ InOrder(JoinCap(batch))
        /\ \A q : Count(JoinCap(batch), q) = Weigh(batch, q)
    BY <1>1, JoinCapTyped, Zenon DEF Weigh
  <2>3. \A q : after(q) = Weigh(batch, q)
    BY <1>1, <1>3, <1>4, <1>6
  <2> QED
    BY <2>1, <2>2, <2>3 DEF Joins, after, new
<1>7. CASE batch # <<>> /\ b # 1
  <2> DEFINE more == Append(batch, out)
  <2>1. new = JoinCap(more)
    BY <1>2, <1>7
  <2>2. Joins(out, userSeq, filesOf, Taken(Len(userSeq), b - 1))
    BY <1>7
  <2>3. out \in Seq(Packet) /\ \A q : Count(out, q) = before(q)
    BY <2>2 DEF Joins, before
  <2>4. more \in Seq(Seq(Packet)) /\ \A q : Weigh(more, q) = Weigh(batch, q) + Count(out, q)
    BY <1>1, <2>3, WeighMore, Zenon
  <2> HIDE DEF more
  <2>5. /\ JoinCap(more) \in Seq(Packet) /\ InOrder(JoinCap(more))
        /\ \A q : Count(JoinCap(more), q) = Weigh(more, q)
    BY <2>4, JoinCapTyped, Zenon DEF Weigh
  <2>6. \A q : Count(out, q) \in Nat
    BY <2>3, CountCat
  <2>7. \A q : after(q) = Weigh(more, q)
    BY <1>1, <1>3, <2>3, <2>4, <2>6
  <2> QED
    BY <2>1, <2>5, <2>7 DEF Joins, after, new
<1> QED
  BY <1>5, <1>6, <1>7 DEF new

\* A merge joins the files of all its users, whatever the number of batches.
LEMMA JoinsAll ==
  ASSUME NEW userSeq, Len(userSeq) \in Nat, NEW filesOf, NEW stale,
         \A i \in 1 .. Len(userSeq) : filesOf[userSeq[i]] \in Seq(Seq(Packet)),
         stale = <<>> \/ (Len(userSeq) # 0 /\ BatchOf(userSeq, filesOf, 1) # <<>>)
  PROVE  Joins(JoinInBatches(userSeq, filesOf, stale), userSeq, filesOf, Len(userSeq))
<1> DEFINE len == Len(userSeq)
           n == (len + BatchSize - 1) \div BatchSize
<1>1. n \in Nat /\ Taken(len, 0) = 0 /\ Taken(len, n) = len
  BY TakenAre, Zenon
<1>2. DOMAIN Batches(userSeq) = 1 .. n /\ \A b \in 1 .. n : Batches(userSeq)[b] = b
  BY DEF Batches
<1>3. len # 0 => n # 0
  <2> SUFFICES ASSUME n = 0 PROVE len = 0
    OBVIOUS
  <2> HIDE DEF n
  <2> QED
    BY <1>1
<1> DEFINE Good(out, b) == Joins(out, userSeq, filesOf, Taken(len, b))
<1>4. \A b \in 1 .. n : \A out :
        Good(out, b - 1) \/ (b = 1 /\ BatchOf(userSeq, filesOf, b) # <<>>)
          => Good(BatchStep(out, userSeq, filesOf, b), b)
  BY BatchJoins, Zenon
<1> HIDE DEF n
<1>5. PICK f : BatchRuns(f, userSeq, filesOf, stale, n)
  <2>1. n \in Nat /\ DOMAIN Batches(userSeq) = 1 .. n
    BY <1>1, <1>2
  <2> QED
    BY <2>1, BatchScan, Zenon
<1>a. /\ f[0] = stale /\ JoinInBatches(userSeq, filesOf, stale) = f[n]
      /\ \A i \in 1 .. n : f[i] = BatchStep(f[i - 1], userSeq, filesOf, Batches(userSeq)[i])
  BY <1>5, Zenon DEF BatchRuns
<1>6. \A i \in 1 .. n : f[i] = BatchStep(f[i - 1], userSeq, filesOf, i)
  BY <1>2, <1>a
<1>7. stale = <<>> => Good(stale, 0)
  <2> SUFFICES ASSUME stale = <<>> PROVE Joins(<<>>, userSeq, filesOf, 0)
    BY <1>1
  <2>1. <<>> \in Seq(Packet) /\ InOrder(<<>>)
    BY DEF InOrder
  <2>2. ASSUME NEW q PROVE Count(<<>>, q) = Total(WeighTo(userSeq, filesOf, 0, q))
    <3> DEFINE v == WeighTo(userSeq, filesOf, 0, q)
    <3>1. DOMAIN v = {}
      BY DEF WeighTo
    <3> HIDE DEF v
    <3>2. Total(v) = 0
      BY <3>1, FS_EmptySet, TotalZero
    <3>3. {k \in DOMAIN <<>> : (<<>>)[k] = q} = {}
      OBVIOUS
    <3>4. Count(<<>>, q) = 0
      BY <3>3, FS_EmptySet DEF Count
    <3> QED
      BY <3>2, <3>4 DEF v
  <2> QED
    BY <2>1, <2>2 DEF Joins
<1> DEFINE Fine == {b \in 0 .. n : Good(f[b], b) \/ (b = 0 /\ stale # <<>>)}
<1> HIDE DEF Good
<1>8. 0 \in Fine
  BY <1>1, <1>a, <1>7
<1>9. ASSUME NEW b \in 1 .. n, b - 1 \in Fine PROVE b \in Fine
  <2>1. Good(f[b - 1], b - 1) \/ (b = 1 /\ BatchOf(userSeq, filesOf, b) # <<>>)
    <3>1. b - 1 = 0 => b = 1
      BY <1>1
    <3> QED
      BY <1>9, <3>1
  <2>2. Good(f[b], b)
    BY <1>4, <1>6, <2>1
  <2> QED
    BY <1>1, <2>2
<1>10. \A b \in 0 .. n : b \in Fine
  <2> HIDE DEF Fine
  <2> QED
    BY <1>1, <1>8, <1>9, UpTo, Zenon
<1>11. Good(f[n], n)
  <2>1. n \in 0 .. n /\ (n = 0 => stale = <<>>)
    BY <1>1, <1>3
  <2> QED
    BY <1>10, <2>1
<1> QED
  BY <1>1, <1>a, <1>11 DEF Good

-----------------------------------------------------------------------------
(* Networks, and the tree over leaves.                                      *)

\* One more member, twice as many subsets.
LEMMA PowNext ==
  ASSUME NEW n \in Nat
  PROVE  2 ^ (n + 1) = 2 * 2 ^ n /\ 2 ^ n \in Nat
<1> DEFINE S == 1 .. n
           A == SUBSET S
           x == n + 1
           g == [s \in A |-> s \cup {x}]
           C == {s \cup {x} : s \in A}
<1>1. IsFiniteSet(S) /\ Cardinality(S) = n
  BY FS_Interval
<1>2. IsFiniteSet(A) /\ Cardinality(A) = 2 ^ n
  BY <1>1, FS_SUBSET
<1>3. IsFiniteSet(1 .. x) /\ Cardinality(1 .. x) = x
  BY FS_Interval
<1>4. Cardinality(SUBSET (1 .. x)) = 2 ^ x
  BY <1>3, FS_SUBSET
<1>5. x \notin S /\ 1 .. x = S \cup {x}
  OBVIOUS
<1> HIDE DEF S, x
<1>6. SUBSET (1 .. x) = A \cup C
  <2>1. ASSUME NEW s \in SUBSET (S \cup {x}), x \in s PROVE s \in C
    <3>1. s \ {x} \in A /\ s = (s \ {x}) \cup {x}
      BY <2>1
    <3> QED
      BY <3>1
  <2>2. A \subseteq SUBSET (S \cup {x}) /\ C \subseteq SUBSET (S \cup {x})
    OBVIOUS
  <2> QED
    BY <1>5, <2>1, <2>2
<1>7. A \cap C = {}
  BY <1>5
<1>8. g \in Bijection(A, C)
  <2>1. ASSUME NEW s \in A, NEW r \in A, s \cup {x} = r \cup {x} PROVE s = r
    BY <1>5, <2>1
  <2>2. \A s \in A : g[s] = s \cup {x} /\ g[s] \in C
    OBVIOUS
  <2>3. \A t \in C : \E s \in A : g[s] = t
    BY <2>2
  <2>4. g \in [A -> C]
    OBVIOUS
  <2> HIDE DEF g, A, C
  <2>5. \A s, r \in A : g[s] = g[r] => s = r
    BY <2>1, <2>2, Zenon DEF A, C
  <2> QED
    BY <2>3, <2>4, <2>5 DEF Bijection, Injection, Surjection, IsInjective
<1>9. ExistsBijection(A, C)
  BY <1>8 DEF ExistsBijection
<1> HIDE DEF A, C, g
<1>10. IsFiniteSet(C) /\ Cardinality(C) = Cardinality(A)
  BY <1>2, <1>9, FS_Bijection
<1>11. Cardinality(A \cup C) = Cardinality(A) + Cardinality(C) - Cardinality(A \cap C)
  BY <1>2, <1>10, FS_Union
<1>12. Cardinality(A \cap C) = 0 /\ Cardinality(A) \in Nat
  BY <1>2, <1>7, FS_EmptySet, FS_CardinalityType
<1>13. 2 ^ x = Cardinality(A) + Cardinality(A)
  <2>1. Cardinality(SUBSET (1 .. x)) = Cardinality(A \cup C)
    BY <1>6, Zenon
  <2> QED
    BY <1>4, <1>10, <1>11, <1>12, <2>1
<1> QED
  BY <1>2, <1>12, <1>13 DEF x

\* The powers of two.
LEMMA PowPos ==
  ASSUME NEW n \in Nat
  PROVE  2 ^ n \in Nat \ {0}
<1> DEFINE Good == {k \in 0 .. n : 2 ^ k \in Nat \ {0}}
<1>1. 0 \in Good
  <2>1. 2 ^ 0 = 1
    OBVIOUS
  <2> QED
    BY <2>1
<1>2. ASSUME NEW i \in 1 .. n, i - 1 \in Good PROVE i \in Good
  <2>1. i - 1 \in Nat /\ (i - 1) + 1 = i
    OBVIOUS
  <2>2. 2 ^ i = 2 * 2 ^ (i - 1)
    <3>1. 2 ^ ((i - 1) + 1) = 2 * 2 ^ (i - 1)
      BY <2>1, PowNext
    <3> QED
      BY <2>1, <3>1
  <2>3. 2 ^ (i - 1) \in Nat \ {0}
    BY <1>2
  <2>4. 2 * 2 ^ (i - 1) \in Nat \ {0}
    BY <2>3
  <2> QED
    BY <2>2, <2>4
<1> HIDE DEF Good
<1>3. \A i \in 0 .. n : i \in Good
  BY <1>1, <1>2, UpTo, Zenon
<1> QED
  BY <1>3 DEF Good

\* Powers of two multiply as their exponents add.
LEMMA PowAdd ==
  ASSUME NEW a \in Nat, NEW b \in Nat
  PROVE  2 ^ (a + b) = 2 ^ a * 2 ^ b
<1> DEFINE Good == {k \in 0 .. b : 2 ^ (a + k) = 2 ^ a * 2 ^ k}
<1>1. 0 \in Good
  <2>1. 2 ^ 0 = 1 /\ a + 0 = a /\ 2 ^ a \in Nat
    BY PowPos
  <2>2. 2 ^ a * 1 = 2 ^ a
    BY <2>1
  <2> QED
    BY <2>1, <2>2
<1>2. ASSUME NEW i \in 1 .. b, i - 1 \in Good PROVE i \in Good
  <2>1. i - 1 \in Nat /\ (i - 1) + 1 = i /\ a + (i - 1) \in Nat /\ (a + (i - 1)) + 1 = a + i
    OBVIOUS
  <2> DEFINE x == 2 ^ a
             y == 2 ^ (i - 1)
  <2>2. 2 ^ i = 2 * y
    <3>1. 2 ^ ((i - 1) + 1) = 2 * 2 ^ (i - 1)
      BY <2>1, PowNext
    <3> QED
      BY <2>1, <3>1
  <2>3. 2 ^ (a + i) = 2 * 2 ^ (a + (i - 1))
    <3>1. 2 ^ ((a + (i - 1)) + 1) = 2 * 2 ^ (a + (i - 1))
      BY <2>1, PowNext
    <3> QED
      BY <2>1, <3>1
  <2>4. 2 ^ (a + (i - 1)) = x * y
    BY <1>2
  <2>5. x \in Nat /\ y \in Nat
    BY <2>1, PowPos
  <2> HIDE DEF x, y
  <2>6. 2 * (x * y) = x * (2 * y)
    BY <2>5
  <2>7. 2 ^ (a + i) = x * 2 ^ i
    BY <2>2, <2>3, <2>4, <2>6
  <2> QED
    BY <2>7 DEF x
<1> HIDE DEF Good
<1>3. \A i \in 0 .. b : i \in Good
  BY <1>1, <1>2, UpTo, Zenon
<1>4. b \in 0 .. b
  OBVIOUS
<1> QED
  BY <1>3, <1>4 DEF Good

\* A quotient of a quotient.
LEMMA DivDiv ==
  ASSUME NEW x \in Nat, NEW a \in Nat \ {0}, NEW b \in Nat \ {0}
  PROVE  a * b \in Nat \ {0} /\ (x \div a) \div b = x \div (a * b)
<1> DEFINE q == x \div a
           p == q \div b
           ab == a * b
           z == x \div ab
<1>1. ab \in Nat \ {0}
  <2>1. ab \in Nat
    OBVIOUS
  <2>2. ab >= a
    OBVIOUS
  <2> QED
    BY <2>1, <2>2
<1>2. \A c \in Int : (x < c * a <=> q < c)
  BY DivLess
<1>3. q \in Nat
  BY DivLess
<1> HIDE DEF q, ab
<1>4. p \in Nat /\ \A c \in Int : (q < c * b <=> p < c)
  BY <1>3, DivLess
<1>5. z \in Nat /\ \A c \in Int : (x < c * ab <=> z < c)
  BY <1>1, DivLess
<1> HIDE DEF p, z
<1>6. \A c \in Int : c * b \in Int /\ (c * b) * a = c * ab
  BY DEF ab
<1>7. \A c \in Int : p < c <=> z < c
  BY <1>2, <1>4, <1>5, <1>6
<1>8. p = z
  <2>1. p < p + 1 /\ z < z + 1 /\ p + 1 \in Int /\ z + 1 \in Int
    BY <1>4, <1>5
  <2>2. z < p + 1 /\ p < z + 1
    BY <1>7, <2>1
  <2> QED
    BY <1>4, <1>5, <2>2
<1> QED
  BY <1>1, <1>8 DEF p, z, q, ab

\* The networks of a user: one of every length, each below the shorter ones.
LEMMA NetworksNest ==
  ASSUME NEW u \in Nat, NEW a \in 0 .. AddrBits, NEW b \in 0 .. a
  PROVE  /\ Leaf(u) = [len |-> AddrBits, top |-> u]
         /\ SuperNet(Leaf(u), a).len = a
         /\ SuperNet(Leaf(u), AddrBits) = Leaf(u)
         /\ SuperNet(SuperNet(Leaf(u), a), b) = SuperNet(Leaf(u), b)
<1>0. AddrBits \in Nat
  BY CtpAssumption
<1>1. 2 ^ 0 = 1 /\ u \div 1 = u /\ AddrBits - AddrBits = 0
  BY <1>0
<1>2. Leaf(u) = [len |-> AddrBits, top |-> u]
  BY <1>1 DEF Leaf, Network
<1> DEFINE n == Leaf(u)
<1>3. n.len = AddrBits /\ n.top = u
  BY <1>2
<1> HIDE DEF n
<1>4. \A c : SuperNet(n, c) = [len |-> c, top |-> u \div 2 ^ (AddrBits - c)]
  BY <1>3 DEF SuperNet
<1>5. SuperNet(n, AddrBits) = n
  BY <1>1, <1>2, <1>4 DEF n
<1>6. SuperNet(n, a).len = a /\ SuperNet(n, a).top = u \div 2 ^ (AddrBits - a)
  BY <1>4
<1>7. SuperNet(SuperNet(n, a), b) =
        [len |-> b, top |-> (u \div 2 ^ (AddrBits - a)) \div 2 ^ (a - b)]
  BY <1>6 DEF SuperNet
<1>8. (u \div 2 ^ (AddrBits - a)) \div 2 ^ (a - b) = u \div 2 ^ (AddrBits - b)
  <2> DEFINE i == AddrBits - a
             j == a - b
  <2>1. i \in Nat /\ j \in Nat /\ i + j = AddrBits - b
    BY <1>0
  <2> HIDE DEF i, j
  <2>2. 2 ^ i \in Nat \ {0} /\ 2 ^ j \in Nat \ {0} /\ 2 ^ (i + j) = 2 ^ i * 2 ^ j
    BY <2>1, PowPos, PowAdd
  <2>3. (u \div 2 ^ i) \div 2 ^ j = u \div (2 ^ i * 2 ^ j)
    BY <2>2, DivDiv
  <2> QED
    BY <2>1, <2>2, <2>3 DEF i, j
<1> QED
  BY <1>2, <1>4, <1>5, <1>6, <1>7, <1>8 DEF n

\* The users of K below a network; and a node that has them and the sums of
\* their series.
Under(K, net) == {u \in K : SuperNet(Leaf(u), net.len) = net}
NodeSums(node, net, K, leaves) ==
  /\ node.users = Under(K, net)
  /\ \A d \in Directions, i \in Bins(WindowLen) :
       node.series[d][i] = Total([u \in Under(K, net) |-> leaves[Leaf(u)].series[d][i]])

\* The leaves of the users of K, and a level of their tree.
LeafLevel(leaves, K) ==
  /\ DOMAIN leaves = {Leaf(u) : u \in K}
  /\ \A u \in K : leaves[Leaf(u)].users = {u} /\ leaves[Leaf(u)].series \in [Directions -> Amounts]
Covers(l, len, K, leaves) ==
  /\ DOMAIN l = {SuperNet(Leaf(u), len) : u \in K}
  /\ \A n \in DOMAIN l : NodeSums(l[n], n, K, leaves)

\* Below its leaf there is a user alone.
LEMMA UnderLeaf ==
  ASSUME NEW K \in SUBSET Nat, NEW u \in K
  PROVE  Under(K, Leaf(u)) = {u}
<1>0. AddrBits \in 0 .. AddrBits
  BY CtpAssumption
<1>1. \A x \in Nat : Leaf(x) = [len |-> AddrBits, top |-> x]
      /\ SuperNet(Leaf(x), AddrBits) = Leaf(x)
  BY <1>0, NetworksNest
<1>2. \A x \in Nat : Leaf(x).len = AddrBits /\ Leaf(x).top = x
  BY <1>1
<1>3. \A x \in K : SuperNet(Leaf(x), Leaf(u).len) = Leaf(u) <=> x = u
  <2> SUFFICES ASSUME NEW x \in K PROVE SuperNet(Leaf(x), Leaf(u).len) = Leaf(u) <=> x = u
    OBVIOUS
  <2>1. x \in Nat /\ u \in Nat
    OBVIOUS
  <2>2. SuperNet(Leaf(x), Leaf(u).len) = Leaf(x)
    BY <1>1, <1>2, <2>1
  <2>3. Leaf(x) = Leaf(u) => x = u
    BY <1>2, <2>1
  <2> QED
    BY <2>2, <2>3
<1> QED
  BY <1>3 DEF Under

\* The series of users are amounts that can be added.
LEMMA UnderTyped ==
  ASSUME NEW K \in SUBSET Nat, IsFiniteSet(K), NEW leaves, LeafLevel(leaves, K), NEW S \in SUBSET K,
         NEW d \in Directions, NEW i \in Bins(WindowLen)
  PROVE  Summable([u \in S |-> leaves[Leaf(u)].series[d][i]])
<1>1. IsFiniteSet(S)
  BY FS_Subset
<1>2. \A u \in S : leaves[Leaf(u)].series[d][i] \in Nat
  BY DEF LeafLevel, Amounts
<1> QED
  BY <1>1, <1>2 DEF Summable

\* The leaves are a level.
LEMMA LeavesCover ==
  ASSUME NEW K \in SUBSET Nat, IsFiniteSet(K), NEW leaves, LeafLevel(leaves, K)
  PROVE  Covers(leaves, AddrBits, K, leaves)
<1>0. AddrBits \in 0 .. AddrBits
  BY CtpAssumption
<1>1. \A u \in K : SuperNet(Leaf(u), AddrBits) = Leaf(u)
  BY <1>0, NetworksNest
<1>2. DOMAIN leaves = {SuperNet(Leaf(u), AddrBits) : u \in K}
  <2>1. DOMAIN leaves = {Leaf(u) : u \in K}
    BY DEF LeafLevel
  <2>2. {SuperNet(Leaf(u), AddrBits) : u \in K} = {Leaf(u) : u \in K}
    BY <1>1
  <2> QED
    BY <2>1, <2>2, Zenon
<1>3. ASSUME NEW u \in K PROVE NodeSums(leaves[Leaf(u)], Leaf(u), K, leaves)
  <2>1. Under(K, Leaf(u)) = {u} /\ leaves[Leaf(u)].users = {u}
    BY UnderLeaf DEF LeafLevel
  <2>2. ASSUME NEW d \in Directions, NEW i \in Bins(WindowLen)
        PROVE  leaves[Leaf(u)].series[d][i] =
                 Total([x \in Under(K, Leaf(u)) |-> leaves[Leaf(x)].series[d][i]])
    <3> DEFINE v == [x \in Under(K, Leaf(u)) |-> leaves[Leaf(x)].series[d][i]]
    <3>1. DOMAIN v = {u} /\ v[u] = leaves[Leaf(u)].series[d][i]
      BY <2>1
    <3>2. leaves[Leaf(u)].series[d][i] \in Nat
      BY DEF LeafLevel, Amounts
    <3> HIDE DEF v
    <3>3. Total(v) = v[u]
      BY <3>1, <3>2, TotalOne
    <3> QED
      BY <3>1, <3>3 DEF v
  <2> QED
    BY <2>1, <2>2, Zenon DEF NodeSums
<1>4. \A n \in DOMAIN leaves : NodeSums(leaves[n], n, K, leaves)
  BY <1>3 DEF LeafLevel
<1> QED
  BY <1>2, <1>4 DEF Covers

\* The parents of a level are one.
LEMMA ParentsCover ==
  ASSUME NEW K \in SUBSET Nat, IsFiniteSet(K), NEW leaves, LeafLevel(leaves, K),
         NEW a \in 0 .. AddrBits, NEW b \in 0 .. a, NEW l, Covers(l, a, K, leaves)
  PROVE  Covers(Aggregate(l, b), b, K, leaves)
<1> DEFINE up == Aggregate(l, b)
           At(u, c) == SuperNet(Leaf(u), c)
<1>1. \A u \in K : /\ At(u, a).len = a /\ At(u, b).len = b
                   /\ SuperNet(At(u, a), b) = At(u, b)
  <2>1. b \in 0 .. AddrBits /\ b \in 0 .. b
    BY CtpAssumption
  <2> QED
    BY <2>1, NetworksNest
<1>2. DOMAIN l = {At(u, a) : u \in K} /\ \A n \in DOMAIN l : NodeSums(l[n], n, K, leaves)
  BY DEF Covers
<1>3. DOMAIN up = {SuperNet(n, b) : n \in DOMAIN l}
  BY DEF Aggregate
<1> HIDE DEF At
<1>4. DOMAIN up = {At(u, b) : u \in K}
  BY <1>1, <1>2, <1>3
<1>5. ASSUME NEW net \in DOMAIN up PROVE NodeSums(up[net], net, K, leaves)
  <2> DEFINE kids == {n \in DOMAIN l : SuperNet(n, b) = net}
             S == Under(K, net)
             ser == [d \in Directions |-> [i \in Bins(WindowLen) |->
                       Total([k \in kids |-> l[k].series[d][i]])]]
             all == UNION {l[k].users : k \in kids}
  <2>1. up[net].users = all /\ up[net].series = ser
    BY <1>3 DEF Aggregate
  <2>2. PICK v \in K : net = At(v, b)
    BY <1>4
  <2>3. net.len = b
    BY <1>1, <2>2
  <2>4. S = {u \in K : At(u, b) = net}
    BY <2>3 DEF Under, At
  <2>5. \A k \in kids : k.len = a /\ Under(K, k) = {u \in S : At(u, a) = k}
    <3> SUFFICES ASSUME NEW k \in kids PROVE k.len = a /\ Under(K, k) = {u \in S : At(u, a) = k}
      OBVIOUS
    <3>1. PICK x \in K : k = At(x, a)
      BY <1>2
    <3>2. k.len = a
      BY <1>1, <3>1
    <3>3. Under(K, k) = {u \in K : At(u, a) = k}
      BY <3>2 DEF Under, At
    <3>4. \A u \in K : At(u, a) = k => At(u, b) = net
      BY <1>1
    <3> QED
      BY <2>4, <3>2, <3>3, <3>4
  <2>6. \A u \in S : At(u, a) \in kids
    BY <1>1, <1>2, <2>4
  <2>7. \A k \in kids : NodeSums(l[k], k, K, leaves)
    BY <1>2
  <2>8. IsFiniteSet(kids)
    <3> DEFINE g == [u \in S |-> At(u, a)]
    <3>1. \A k \in kids : \E u \in S : At(u, a) = k
      <4> SUFFICES ASSUME NEW k \in kids PROVE \E u \in S : At(u, a) = k
        OBVIOUS
      <4>1. PICK x \in K : k = At(x, a)
        BY <1>2
      <4>2. At(x, b) = net
        BY <1>1, <4>1
      <4> QED
        BY <2>4, <4>1, <4>2
    <3>2. \A u \in S : g[u] = At(u, a)
      OBVIOUS
    <3>3. g \in [S -> kids]
      BY <2>6
    <3> HIDE DEF S, kids, g
    <3>4. g \in Surjection(S, kids)
      BY <3>1, <3>2, <3>3 DEF Surjection
    <3>5. IsFiniteSet(S)
      BY FS_Subset DEF S, Under
    <3> QED
      BY <3>4, <3>5, FS_Surjection
  <2> HIDE DEF kids, S
  <2>9. all = S
    <3>1. \A k \in kids : l[k].users = {u \in S : At(u, a) = k}
      BY <2>5, <2>7 DEF NodeSums
    <3> QED
      BY <2>6, <3>1
  <2>10. ASSUME NEW d \in Directions, NEW i \in Bins(WindowLen)
         PROVE  ser[d][i] = Total([u \in S |-> leaves[Leaf(u)].series[d][i]])
    <3> DEFINE v1 == [u \in S |-> leaves[Leaf(u)].series[d][i]]
               c == [u \in S |-> At(u, a)]
               g == [k \in kids |-> l[k].series[d][i]]
    <3>1. Summable(v1)
      BY UnderTyped DEF S, Under
    <3>2. DOMAIN v1 = S /\ (\A u \in S : c[u] = At(u, a) /\ c[u] \in kids) /\ DOMAIN g = kids
      BY <2>6
    <3>3. ASSUME NEW k \in kids PROVE g[k] = Total([u \in {y \in DOMAIN v1 : c[y] = k} |-> v1[u]])
      <4> DEFINE U == Under(K, k)
                 D == {y \in DOMAIN v1 : c[y] = k}
      <4>1. g[k] = l[k].series[d][i]
        OBVIOUS
      <4>2. l[k].series[d][i] = Total([u \in U |-> leaves[Leaf(u)].series[d][i]])
        BY <2>7 DEF NodeSums
      <4>3. U = D /\ D \subseteq S
        BY <2>5, <3>2
      <4>4. \A u \in S : v1[u] = leaves[Leaf(u)].series[d][i]
        OBVIOUS
      <4> HIDE DEF U, D, v1, g
      <4>5. [u \in U |-> leaves[Leaf(u)].series[d][i]] = [u \in D |-> v1[u]]
        BY <4>3, <4>4
      <4>6. g[k] = Total([u \in D |-> v1[u]])
        BY <4>1, <4>2, <4>5
      <4> QED
        BY <4>6 DEF D
    <3> HIDE DEF v1, c, g
    <3>4. \A x \in DOMAIN v1 : c[x] \in kids
      BY <3>2
    <3>5. Total(g) = Total(v1)
      BY <2>8, <3>1, <3>2, <3>3, <3>4, TotalParts
    <3> QED
      BY <3>5 DEF g, v1
  <2> HIDE DEF ser, all, up
  <2> QED
    BY <2>1, <2>9, <2>10 DEF NodeSums, S
<1> QED
  BY <1>4, <1>5 DEF Covers, At

\* The prefix length of a level, and what the tree has when it is there.
LengthAt(i) == IF i = 0 THEN AddrBits ELSE Lengths[i]

\* The prefix lengths fall, level by level, to the root.
LEMMA LengthsFall ==
  ASSUME NEW n, n = Len(Lengths)
  PROVE  /\ n \in Nat /\ DOMAIN Lengths = 1 .. n
         /\ \A i \in 1 .. n : Lengths[i] \in 0 .. AddrBits - 1 /\ LengthAt(i) = Lengths[i]
                              /\ LengthAt(i - 1) \in Lengths[i] .. AddrBits
<1> DEFINE m == AddrBits - TopPrefix
           a == [i \in 1 .. m |-> AddrBits - i]
<1>1. AddrBits \in Nat \ {0} /\ TopPrefix \in 1 .. AddrBits /\ m \in 0 .. AddrBits - 1
  BY CtpAssumption
<1> HIDE DEF m
<1>2. a \in Seq(Int) /\ Len(a) = m /\ \A i \in 1 .. m : a[i] = AddrBits - i
  BY <1>1
<1>3. Lengths = a \o <<0>>
  BY DEF Lengths, m
<1> HIDE DEF a
<1>4. Lengths \in Seq(Int) /\ Len(Lengths) = m + 1
  BY <1>1, <1>2, <1>3
<1>5. \A i \in 1 .. m + 1 : Lengths[i] = IF i <= m THEN AddrBits - i ELSE 0
  BY <1>1, <1>2, <1>3
<1> HIDE DEF Lengths
<1>6. n = m + 1 /\ n \in Nat /\ DOMAIN Lengths = 1 .. n
  BY <1>1, <1>4
<1>7. \A i \in 1 .. n : Lengths[i] \in 0 .. AddrBits - 1 /\ LengthAt(i) = Lengths[i]
  BY <1>1, <1>5, <1>6 DEF LengthAt
<1>8. ASSUME NEW i \in 1 .. n PROVE LengthAt(i - 1) \in Lengths[i] .. AddrBits
  <2>1. CASE i = 1
    BY <1>1, <1>7, <2>1 DEF LengthAt
  <2>2. CASE i # 1
    <3>1. i - 1 \in 1 .. m /\ i - 1 # 0
      BY <1>1, <1>6, <2>2
    <3>2. Lengths[i - 1] = AddrBits - (i - 1)
      BY <1>1, <1>5, <3>1
    <3>3. Lengths[i] <= AddrBits - (i - 1) /\ Lengths[i] \in Int
      BY <1>1, <1>5, <1>6, <3>1
    <3> QED
      BY <1>1, <1>6, <3>1, <3>2, <3>3 DEF LengthAt
  <2> QED
    BY <2>1, <2>2
<1> QED
  BY <1>6, <1>7, <1>8

\* A tree of the users of K: it keeps the leaves, and every node is a network
\* of users, with those below it and the sums of their series.
TreeFits(tree, K, leaves) ==
  /\ IsFiniteSet(DOMAIN tree)
  /\ \A u \in K : Leaf(u) \in DOMAIN tree /\ tree[Leaf(u)] = leaves[Leaf(u)]
  /\ \A n \in DOMAIN tree :
       /\ n.len \in 0 .. AddrBits /\ \E u \in K : n = SuperNet(Leaf(u), n.len)
       /\ NodeSums(tree[n], n, K, leaves)

\* The tree over the leaves of K is one.
LEMMA TreeGives ==
  ASSUME NEW K \in SUBSET Nat, IsFiniteSet(K), NEW leaves, LeafLevel(leaves, K)
  PROVE  TreeFits(Tree(leaves), K, leaves)
<1> DEFINE n == Len(Lengths)
<1>1. /\ n \in Nat /\ DOMAIN Lengths = 1 .. n
      /\ \A i \in 1 .. n : Lengths[i] \in 0 .. AddrBits - 1 /\ LengthAt(i) = Lengths[i]
                           /\ LengthAt(i - 1) \in Lengths[i] .. AddrBits
  BY LengthsFall
<1>0. AddrBits \in Nat
  BY CtpAssumption
<1> HIDE DEF n
<1>a. n \in Nat /\ DOMAIN Lengths = 1 .. n
  BY <1>1
<1>2. PICK f : /\ f[0] = Leaves0(leaves) /\ Tree(leaves) = f[n].all
               /\ \A i \in 1 .. n : f[i] = TreeStep(f[i - 1], Lengths[i])
  BY <1>a, TreeScan
<1> DEFINE Good == {i \in 0 .. n : /\ Covers(f[i].level, LengthAt(i), K, leaves)
                                   /\ TreeFits(f[i].all, K, leaves)}
<1>3. 0 \in Good
  <2>1. f[0].level = leaves /\ f[0].all = leaves /\ LengthAt(0) = AddrBits
    BY <1>2 DEF Leaves0, LengthAt
  <2>2. Covers(leaves, AddrBits, K, leaves)
    BY LeavesCover
  <2>3. IsFiniteSet(DOMAIN leaves)
    <3> DEFINE g == [u \in K |-> Leaf(u)]
    <3>1. g \in Surjection(K, DOMAIN leaves)
      BY DEF Surjection, LeafLevel
    <3> QED
      BY <3>1, FS_Surjection
  <2>4. ASSUME NEW u \in K
        PROVE  /\ Leaf(u) \in DOMAIN leaves
               /\ Leaf(u).len \in 0 .. AddrBits /\ Leaf(u) = SuperNet(Leaf(u), Leaf(u).len)
               /\ NodeSums(leaves[Leaf(u)], Leaf(u), K, leaves)
    <3>1. Leaf(u) = [len |-> AddrBits, top |-> u] /\ SuperNet(Leaf(u), AddrBits) = Leaf(u)
      <4>1. AddrBits \in 0 .. AddrBits
        BY <1>0
      <4> QED
        BY <4>1, NetworksNest
    <3>2. Leaf(u).len = AddrBits /\ AddrBits \in 0 .. AddrBits
      BY <1>0, <3>1
    <3>3. Leaf(u) \in DOMAIN leaves
      BY DEF LeafLevel
    <3> QED
      BY <2>2, <3>1, <3>2, <3>3 DEF Covers
  <2>5. \A x \in DOMAIN leaves : \E u \in K : x = Leaf(u)
    BY DEF LeafLevel
  <2>6. TreeFits(leaves, K, leaves)
    BY <2>3, <2>4, <2>5 DEF TreeFits
  <2> QED
    BY <1>1, <2>1, <2>2, <2>6
<1>4. ASSUME NEW i \in 1 .. n, i - 1 \in Good PROVE i \in Good
  <2> DEFINE s == f[i - 1]
             b == Lengths[i]
             a == LengthAt(i - 1)
             up == Aggregate(s.level, b)
  <2>1. Covers(s.level, a, K, leaves) /\ TreeFits(s.all, K, leaves)
    BY <1>4
  <2>2. a \in 0 .. AddrBits /\ b \in 0 .. a /\ b \in 0 .. AddrBits - 1 /\ LengthAt(i) = b
    BY <1>0, <1>1
  <2>3. f[i] = TreeStep(s, b) /\ i \in 0 .. n
    BY <1>1, <1>2
  <2>4. /\ f[i].level = up
        /\ f[i].all = [m \in DOMAIN s.all \cup DOMAIN up |->
                         IF m \in DOMAIN up THEN up[m] ELSE s.all[m]]
    BY <2>3 DEF TreeStep
  <2> HIDE DEF s, a, b
  <2>5. Covers(up, b, K, leaves)
    BY <2>1, <2>2, ParentsCover
  <2> HIDE DEF up
  <2> DEFINE all == f[i].all
  <2>6. DOMAIN all = DOMAIN s.all \cup DOMAIN up
        /\ \A m \in DOMAIN all : all[m] = IF m \in DOMAIN up THEN up[m] ELSE s.all[m]
    BY <2>4
  <2> HIDE DEF all
  <2>7. ASSUME NEW m \in DOMAIN up
        PROVE  m.len = b /\ \E u \in K : m = SuperNet(Leaf(u), b)
    <3>1. PICK u \in K : m = SuperNet(Leaf(u), b)
      BY <2>5 DEF Covers
    <3>2. b \in 0 .. AddrBits /\ b \in 0 .. b
      BY <1>0, <2>2
    <3> QED
      BY <3>1, <3>2, NetworksNest
  <2>8. IsFiniteSet(DOMAIN up)
    <3> DEFINE g == [u \in K |-> SuperNet(Leaf(u), b)]
    <3>1. g \in Surjection(K, DOMAIN up)
      BY <2>5 DEF Surjection, Covers
    <3> QED
      BY <3>1, FS_Surjection
  <2>9. IsFiniteSet(DOMAIN all)
    <3>1. IsFiniteSet(DOMAIN s.all)
      BY <2>1 DEF TreeFits
    <3>2. IsFiniteSet(DOMAIN s.all \cup DOMAIN up)
      BY <2>8, <3>1, FS_Union
    <3> QED
      BY <2>6, <3>2
  <2>10. ASSUME NEW u \in K PROVE Leaf(u) \in DOMAIN all /\ all[Leaf(u)] = leaves[Leaf(u)]
    <3>1. Leaf(u).len = AddrBits
      <4>1. AddrBits \in 0 .. AddrBits
        BY <1>0
      <4>2. Leaf(u) = [len |-> AddrBits, top |-> u]
        BY <4>1, NetworksNest
      <4> QED
        BY <4>2
    <3>2. Leaf(u) \notin DOMAIN up
      BY <1>0, <2>2, <2>7, <3>1
    <3> QED
      BY <2>1, <2>6, <3>2 DEF TreeFits
  <2>11. ASSUME NEW m \in DOMAIN all
         PROVE  /\ m.len \in 0 .. AddrBits /\ \E u \in K : m = SuperNet(Leaf(u), m.len)
                /\ NodeSums(all[m], m, K, leaves)
    <3>1. CASE m \in DOMAIN up
      <4>1. b \in 0 .. AddrBits
        BY <1>0, <2>2
      <4> QED
        BY <2>5, <2>6, <2>7, <3>1, <4>1 DEF Covers
    <3>2. CASE m \notin DOMAIN up
      BY <2>1, <2>6, <3>2 DEF TreeFits
    <3> QED
      BY <3>1, <3>2
  <2>12. TreeFits(all, K, leaves)
    BY <2>9, <2>10, <2>11 DEF TreeFits
  <2> QED
    BY <2>2, <2>3, <2>4, <2>5, <2>12 DEF all
<1> HIDE DEF Good
<1>5. \A i \in 0 .. n : i \in Good
  BY <1>1, <1>3, <1>4, UpTo, Zenon
<1>6. n \in 0 .. n
  BY <1>1
<1> QED
  BY <1>2, <1>5, <1>6 DEF Good

-----------------------------------------------------------------------------
(* What the splits keep of a capture.                                       *)

\* The file of a name, and the bytes of a file.
FileOf(F, key) == IF key \in DOMAIN F THEN F[key] ELSE <<>>
BytesOf(pcap) == BytesAt(pcap, DOMAIN pcap)

\* A file in order of time, with nothing later than t.
OrderedTo(pcap, t) == InOrder(pcap) /\ \A i \in DOMAIN pcap : pcap[i].t <= t

\* A packet more.
MorePacket(r, s, p) ==
  /\ r \in Seq(Packet) /\ Len(r) = Len(s) + 1 /\ r[Len(r)] = p
  /\ \A i \in 1 .. Len(s) : r[i] = s[i]
  /\ BytesOf(r) = BytesOf(s) + p.len
  /\ \A t \in Nat : OrderedTo(s, t) /\ t <= p.t => OrderedTo(r, p.t)

\* A packet appended is one packet more.
LEMMA PacketMore ==
  ASSUME NEW s \in Seq(Packet), NEW p \in Packet, NEW r, r = Append(s, p)
  PROVE  MorePacket(r, s, p)
<1> DEFINE n == Len(s)
<1>1. /\ n \in Nat /\ DOMAIN s = 1 .. n /\ r \in Seq(Packet) /\ DOMAIN r = 1 .. n + 1
      /\ Len(r) = n + 1 /\ r[n + 1] = p /\ \A k \in 1 .. n : r[k] = s[k]
  OBVIOUS
<1>2. p.t \in Nat /\ p.len \in Nat /\ \A k \in 1 .. n : s[k].t \in Nat
  BY <1>1, Fields DEF Packet
<1> HIDE DEF n
<1>3. BytesOf(r) = BytesOf(s) + p.len
  <2> DEFINE A == 1 .. n
             x == n + 1
  <2>1. A \in SUBSET DOMAIN r /\ x \in DOMAIN r /\ x \notin A /\ A = DOMAIN s
        /\ A \cup {x} = DOMAIN r
    BY <1>1
  <2>2. \A k \in A : r[k] = s[k]
    BY <1>1
  <2>3. r[x] = p
    BY <1>1
  <2> HIDE DEF A, x
  <2>4. BytesAt(r, A \cup {x}) = BytesAt(r, A) + r[x].len
    BY <1>1, <2>1, BytesMore, ZenonT(60)
  <2>5. A \in SUBSET DOMAIN s
    BY <2>1
  <2>6. BytesAt(r, A) = BytesAt(s, A)
    BY <2>2, <2>5, BytesSame
  <2> QED
    BY <2>1, <2>3, <2>4, <2>6 DEF BytesOf
<1>4. ASSUME NEW t \in Nat, OrderedTo(s, t), t <= p.t PROVE OrderedTo(r, p.t)
  <2>1. \A i \in 1 .. n : s[i].t <= t
    BY <1>1, <1>4 DEF OrderedTo
  <2>2. \A i \in 2 .. n : s[i - 1].t <= s[i].t
    BY <1>4 DEF OrderedTo, InOrder, n
  <2>3. ASSUME NEW i \in 1 .. n + 1 PROVE r[i].t <= p.t
    <3>1. CASE i = n + 1
      BY <1>1, <1>2, <3>1
    <3>2. CASE i # n + 1
      <4>1. i \in 1 .. n
        BY <1>1, <3>2
      <4> QED
        BY <1>1, <1>2, <1>4, <2>1, <4>1
    <3> QED
      BY <3>1, <3>2
  <2>4. ASSUME NEW i \in 2 .. n + 1 PROVE r[i - 1].t <= r[i].t
    <3>1. CASE i = n + 1
      <4>1. i - 1 \in 1 .. n + 1 /\ r[i] = p
        BY <1>1, <3>1
      <4> QED
        BY <2>3, <4>1
    <3>2. CASE i # n + 1
      <4>1. i \in 2 .. n /\ i \in 1 .. n /\ i - 1 \in 1 .. n
        BY <1>1, <3>2
      <4> QED
        BY <1>1, <2>2, <4>1
    <3> QED
      BY <3>1, <3>2
  <2> QED
    BY <1>1, <2>3, <2>4 DEF OrderedTo, InOrder
<1> QED
  BY <1>1, <1>3, <1>4, Zenon DEF MorePacket, n

\* Nothing is in order and has no bytes.
LEMMA NothingOrdered ==
  /\ <<>> \in Seq(Packet) /\ BytesOf(<<>>) = 0 /\ InOrder(<<>>) /\ \A t : OrderedTo(<<>>, t)
<1>1. <<>> \in Seq(Packet) /\ DOMAIN <<>> = {} /\ Len(<<>>) = 0
  OBVIOUS
<1>2. BytesAt(<<>>, {}) = 0
  <2> DEFINE e == <<>>
             N == {}
  <2>1. e \in Seq(Packet) /\ N \in SUBSET DOMAIN e
    BY <1>1
  <2> HIDE DEF e
  <2> QED
    BY <2>1, BytesTyped DEF e
<1>3. \A i \in 2 .. 0 : FALSE
  OBVIOUS
<1> QED
  BY <1>1, <1>2, <1>3 DEF BytesOf, InOrder, OrderedTo

\* Writing a packet appends it to its file and no other.
LEMMA WriteAdds ==
  ASSUME NEW s, NEW key, NEW p
  PROVE  /\ FileOf(WritePacket(s, key, p).files, key) = Append(FileOf(s.files, key), p)
         /\ \A k : k # key => FileOf(WritePacket(s, key, p).files, k) = FileOf(s.files, k)
<1> DEFINE file == IF key \in DOMAIN s.files THEN s.files[key] ELSE <<>>
           F == [k \in DOMAIN s.files \cup {key} |->
                   IF k = key THEN Append(file, p) ELSE s.files[k]]
<1>1. WritePacket(s, key, p).files = F
  BY DEF WritePacket
<1>2. FileOf(s.files, key) = file
  BY DEF FileOf
<1> HIDE DEF file
<1>3. FileOf(F, key) = Append(file, p)
  BY DEF FileOf
<1>4. \A k : k # key => FileOf(F, k) = FileOf(s.files, k)
  BY DEF FileOf
<1> HIDE DEF F
<1> QED
  BY <1>1, <1>2, <1>3, <1>4

\* The end of a packet that a direction is about.
EndOf(p, dir) == IF dir = "upload" THEN p.src ELSE p.dst

\* A step of the first split.
LEMMA IpStepAdds ==
  ASSUME NEW s, NEW p, NEW u \in Internal, NEW d \in Directions
  PROVE  FileOf(IpStep(s, p).files, <<u, d>>) =
           IF EndOf(p, d) = u
             THEN Append(FileOf(s.files, <<u, d>>), p) ELSE FileOf(s.files, <<u, d>>)
<1> DEFINE up == IF p.src \in Internal THEN WritePacket(s, <<p.src, "upload">>, p) ELSE s
           key == <<u, d>>
<1>1. IpStep(s, p) = IF p.dst \in Internal THEN WritePacket(up, <<p.dst, "download">>, p) ELSE up
  BY DEF IpStep
<1>2. FileOf(up.files, key) = IF d = "upload" /\ p.src = u THEN Append(FileOf(s.files, key), p)
                              ELSE FileOf(s.files, key)
  <2> DEFINE x == <<p.src, "upload">>
  <2>1. key = x <=> d = "upload" /\ p.src = u
    OBVIOUS
  <2>2. /\ FileOf(WritePacket(s, x, p).files, x) = Append(FileOf(s.files, x), p)
        /\ \A k : k # x => FileOf(WritePacket(s, x, p).files, k) = FileOf(s.files, k)
    BY WriteAdds
  <2> HIDE DEF key
  <2>3. up = IF p.src \in Internal THEN WritePacket(s, x, p) ELSE s
    OBVIOUS
  <2> HIDE DEF up, x
  <2> QED
    BY <2>1, <2>2, <2>3
<1> HIDE DEF up
<1>3. FileOf(IpStep(s, p).files, key) =
        IF d = "download" /\ p.dst = u THEN Append(FileOf(up.files, key), p)
        ELSE FileOf(up.files, key)
  <2> DEFINE x == <<p.dst, "download">>
  <2>1. key = x <=> d = "download" /\ p.dst = u
    OBVIOUS
  <2>2. /\ FileOf(WritePacket(up, x, p).files, x) = Append(FileOf(up.files, x), p)
        /\ \A k : k # x => FileOf(WritePacket(up, x, p).files, k) = FileOf(up.files, k)
    BY WriteAdds
  <2>3. IpStep(s, p) = IF p.dst \in Internal THEN WritePacket(up, x, p) ELSE up
    BY <1>1
  <2> HIDE DEF key, x
  <2> QED
    BY <2>1, <2>2, <2>3
<1> HIDE DEF key
<1>4. d = "upload" \/ d = "download"
  BY DEF Directions
<1> QED
  BY <1>2, <1>3, <1>4 DEF EndOf, key

\* The file of a user and a direction has the bytes of the user's packets, and
\* is in order if the capture is.
LEMMA SplitByIpKeeps ==
  ASSUME NEW cap \in Seq(Packet), NEW u \in Internal, NEW d \in Directions
  PROVE  /\ FileOf(SplitByIp(cap), <<u, d>>) \in Seq(Packet)
         /\ BytesOf(FileOf(SplitByIp(cap), <<u, d>>)) =
              BytesAt(cap, {k \in DOMAIN cap : EndOf(cap[k], d) = u})
         /\ InOrder(cap) => InOrder(FileOf(SplitByIp(cap), <<u, d>>))
<1> DEFINE n == Len(cap)
           key == <<u, d>>
           To(i) == {k \in 1 .. i : EndOf(cap[k], d) = u}
           Time(i) == IF i = 0 THEN 0 ELSE cap[i].t
<1>1. n \in Nat /\ DOMAIN cap = 1 .. n /\ \A i \in 1 .. n : cap[i] \in Packet /\ cap[i].t \in Nat
  BY Fields
<1> HIDE DEF n
<1>2. PICK f : /\ f[0] = NoWriters /\ SplitByIp(cap) = f[n].files
               /\ \A i \in 1 .. n : f[i] = IpStep(f[i - 1], cap[i])
  BY <1>1, IpScan
<1> DEFINE G(i) == FileOf(f[i].files, key)
           Done(i) == /\ G(i) \in Seq(Packet) /\ BytesOf(G(i)) = BytesAt(cap, To(i))
                      /\ InOrder(cap) => OrderedTo(G(i), Time(i))
           Good == {i \in 0 .. n : Done(i)}
<1>3. 0 \in Good
  <2>1. G(0) = <<>>
    BY <1>2 DEF FileOf, NoWriters, NoFiles
  <2>2. To(0) = {} /\ Time(0) = 0
    OBVIOUS
  <2>3. BytesAt(cap, {}) = 0
    <3> DEFINE N == {}
    <3>1. N \in SUBSET DOMAIN cap
      OBVIOUS
    <3> QED
      BY <3>1, BytesTyped
  <2> HIDE DEF G, To, Time
  <2>4. Done(0)
    BY <2>1, <2>2, <2>3, NothingOrdered, Zenon
  <2> HIDE DEF Done
  <2> QED
    BY <1>1, <2>4
<1>4. ASSUME NEW i \in 1 .. n, i - 1 \in Good PROVE i \in Good
  <2> DEFINE p == cap[i]
             old == G(i - 1)
             new == G(i)
  <2>1. /\ old \in Seq(Packet) /\ BytesOf(old) = BytesAt(cap, To(i - 1))
        /\ InOrder(cap) => OrderedTo(old, Time(i - 1))
    BY <1>4, Zenon
  <2>2. new = IF EndOf(p, d) = u THEN Append(old, p) ELSE old
    <3>1. f[i] = IpStep(f[i - 1], p)
      BY <1>2
    <3> QED
      BY <3>1, IpStepAdds
  <2>3. p \in Packet /\ p.t \in Nat /\ Time(i) = p.t
    BY <1>1
  <2>4. InOrder(cap) => Time(i - 1) \in Nat /\ Time(i - 1) <= p.t
    <3>1. CASE i = 1
      BY <2>3, <3>1
    <3>2. CASE i # 1
      <4>1. i \in 2 .. Len(cap) /\ i - 1 \in 1 .. n /\ i - 1 # 0
        BY <1>1, <3>2 DEF n
      <4>2. Time(i - 1) = cap[i - 1].t /\ cap[i - 1].t \in Nat
        BY <1>1, <4>1
      <4> QED
        BY <4>1, <4>2 DEF InOrder
    <3> QED
      BY <3>1, <3>2
  <2>5. To(i) = IF EndOf(p, d) = u THEN To(i - 1) \cup {i} ELSE To(i - 1)
    BY <1>1
  <2>6. To(i - 1) \in SUBSET DOMAIN cap /\ i \in DOMAIN cap /\ i \notin To(i - 1)
    BY <1>1
  <2>7. i \in 0 .. n
    BY <1>1
  <2> HIDE DEF old, new, p, Time, To, G
  <2>8. CASE EndOf(p, d) = u
    <3>1. new = Append(old, p)
      BY <2>2, <2>8
    <3>2. MorePacket(new, old, p)
      BY <2>1, <2>3, <3>1, PacketMore, Zenon
    <3>3. BytesAt(cap, To(i)) = BytesAt(cap, To(i - 1)) + p.len
      <4>1. BytesAt(cap, To(i - 1) \cup {i}) = BytesAt(cap, To(i - 1)) + cap[i].len
        BY <2>6, BytesMore
      <4> QED
        BY <2>5, <2>8, <4>1 DEF p
    <3>4. new \in Seq(Packet) /\ BytesOf(new) = BytesOf(old) + p.len
          /\ \A t \in Nat : OrderedTo(old, t) /\ t <= p.t => OrderedTo(new, p.t)
      BY <3>2, Zenon DEF MorePacket
    <3>5. Done(i)
      BY <2>1, <2>3, <2>4, <3>3, <3>4 DEF new, old
    <3> HIDE DEF Done
    <3> QED
      BY <2>7, <3>5
  <2>9. CASE EndOf(p, d) # u
    <3>1. new = old /\ To(i) = To(i - 1)
      BY <2>2, <2>5, <2>9
    <3>2. InOrder(cap) => OrderedTo(old, Time(i))
      <4> SUFFICES ASSUME InOrder(cap) PROVE OrderedTo(old, Time(i))
        OBVIOUS
      <4>1. \A k \in DOMAIN old : old[k].t \in Nat
        BY <2>1, Fields
      <4> QED
        BY <2>1, <2>3, <2>4, <4>1 DEF OrderedTo
    <3>3. Done(i)
      BY <2>1, <3>1, <3>2, Zenon DEF new, old
    <3> HIDE DEF Done
    <3> QED
      BY <2>7, <3>3
  <2> QED
    BY <2>8, <2>9
<1>5. \A i \in 0 .. n : i \in Good
  <2> HIDE DEF Good
  <2> QED
    BY <1>1, <1>3, <1>4, UpTo, Zenon
<1>6. n \in 0 .. n
  BY <1>1
<1>7. Done(n)
  <2> HIDE DEF Done
  <2> QED
    BY <1>5, <1>6
<1>8. G(n) = FileOf(SplitByIp(cap), key)
  BY <1>2
<1>9. To(n) = {k \in DOMAIN cap : EndOf(cap[k], d) = u}
  BY <1>1
<1>10. InOrder(cap) => InOrder(G(n))
  BY <1>7 DEF OrderedTo
<1> HIDE DEF G, To
<1> QED
  BY <1>7, <1>8, <1>9, <1>10, Zenon DEF key

\* The window a packet of a file belongs in, by the file's first packet.
WindowAt(p, first) == (p.t - first.t) \div WindowLen + 1
Inside(p, first, w) == first.t <= p.t /\ WindowAt(p, first) = w
AllInside(file, first, w) == \A j \in DOMAIN file : Inside(file[j], first, w)

\* A step of the second split, for a packet not before those read so far.
WinAdds(r, s, p, v) ==
  /\ r.at = v
  /\ DOMAIN r.files = DOMAIN s.files \cup {v}
  /\ \A w : FileOf(r.files, w) = IF w = v THEN Append(FileOf(s.files, w), p) ELSE FileOf(s.files, w)

\* A step of the second split adds the packet to its window, and no other.
LEMMA WinStepAdds ==
  ASSUME NEW s, NEW p, NEW first, ~ (p.t < first.t),
         (WindowAt(p, first) = s.at) <=> (WindowAt(p, first) \in DOMAIN s.files)
  PROVE  WinAdds(WinStep(s, p, first), s, p, WindowAt(p, first))
<1> DEFINE v == WindowAt(p, first)
<1> DEFINE F == [k \in DOMAIN s.files \cup {v} |->
                   IF k # v THEN s.files[k]
                   ELSE IF v = s.at THEN Append(s.files[v], p) ELSE <<p>>]
<1>1. WinStep(s, p, first) = [at |-> v, files |-> F]
  BY DEF WinStep, WindowAt
<1>0. v = s.at <=> v \in DOMAIN s.files
  OBVIOUS
<1> HIDE DEF v
<1>2. DOMAIN F = DOMAIN s.files \cup {v}
  OBVIOUS
<1>3. ASSUME NEW w, w # v PROVE FileOf(F, w) = FileOf(s.files, w)
  BY <1>3 DEF FileOf
<1>4. FileOf(F, v) = Append(FileOf(s.files, v), p)
  <2>1. <<p>> = Append(<<>>, p)
    OBVIOUS
  <2> QED
    BY <1>0, <2>1 DEF FileOf
<1>5. WinStep(s, p, first).at = v /\ WinStep(s, p, first).files = F
  BY <1>1
<1> HIDE DEF F
<1> QED
  BY <1>2, <1>3, <1>4, <1>5 DEF WinAdds, v

\* A packet more in a window.
LEMMA InsideMore ==
  ASSUME NEW file \in Seq(Packet), NEW p \in Packet, NEW first, NEW w, AllInside(file, first, w),
         Inside(p, first, w)
  PROVE  AllInside(Append(file, p), first, w) /\ Append(file, p) # <<>>
<1> DEFINE r == Append(file, p)
           n == Len(file)
<1>1. /\ n \in Nat /\ DOMAIN file = 1 .. n /\ DOMAIN r = 1 .. n + 1 /\ r[n + 1] = p
      /\ \A k \in 1 .. n : r[k] = file[k]
  OBVIOUS
<1>2. r # <<>>
  <2>1. n + 1 \in DOMAIN r /\ DOMAIN <<>> = {}
    BY <1>1
  <2> HIDE DEF r
  <2> QED
    BY <2>1
<1> HIDE DEF r, n
<1>3. ASSUME NEW j \in DOMAIN r PROVE Inside(r[j], first, w)
  <2>1. CASE j = n + 1
    BY <1>1, <2>1
  <2>2. CASE j # n + 1
    <3>1. j \in DOMAIN file /\ r[j] = file[j]
      BY <1>1, <2>2
    <3> QED
      BY <3>1 DEF AllInside
  <2> QED
    BY <2>1, <2>2
<1> QED
  BY <1>2, <1>3 DEF AllInside, r

\* What a window has of a file, of which the packets up to the i-th are read.
WindowKept(win, pcap, i, w, t) ==
  /\ win \in Seq(Packet) /\ OrderedTo(win, t) /\ AllInside(win, pcap[1], w)
  /\ BytesOf(win) = BytesAt(pcap, {k \in 1 .. i : WindowAt(pcap[k], pcap[1]) = w})
  /\ (\E k \in 1 .. i : WindowAt(pcap[k], pcap[1]) = w) => win # <<>>

\* The windows of a file in order have its packets, each those of its window.
LEMMA SplitByWindowKeeps ==
  ASSUME NEW pcap \in Seq(Packet), InOrder(pcap), NEW w, NEW i0, i0 = Len(pcap), i0 # 0
  PROVE  /\ WindowKept(FileOf(SplitByWindow(pcap), w), pcap, i0, w, pcap[i0].t)
         /\ DOMAIN SplitByWindow(pcap) = {WindowAt(pcap[k], pcap[1]) : k \in 1 .. i0}
<1> DEFINE n == Len(pcap)
           V(i) == WindowAt(pcap[i], pcap[1])
           To(i) == {k \in 1 .. i : V(k) = w}
           All(i) == {V(k) : k \in 1 .. i}
           Time(i) == IF i = 0 THEN 0 ELSE pcap[i].t
           At(i) == IF i = 0 THEN 0 ELSE V(i)
<1>1. /\ n \in Nat /\ DOMAIN pcap = 1 .. n
      /\ \A i \in 1 .. n : pcap[i] \in Packet /\ pcap[i].t \in Nat
  BY Fields
<1>2. \A i, k \in 1 .. n : i <= k => pcap[i].t <= pcap[k].t
  BY Ordered DEF n
<1> HIDE DEF n
<1>3. ASSUME NEW i \in 1 .. n, NEW k \in 1 .. n, i <= k
      PROVE  V(i) \in Nat \ {0} /\ V(k) \in Nat \ {0} /\ V(i) <= V(k) /\ pcap[1].t <= pcap[k].t
  <2>1. 1 \in 1 .. n /\ 1 <= i /\ 1 <= k
    BY <1>1
  <2>2. pcap[1].t <= pcap[i].t /\ pcap[i].t <= pcap[k].t /\ pcap[1].t <= pcap[k].t
    BY <1>2, <1>3, <2>1
  <2> DEFINE x == pcap[i].t - pcap[1].t
             y == pcap[k].t - pcap[1].t
  <2>3. x \in Nat /\ y \in Nat /\ x <= y
    BY <1>1, <2>1, <2>2
  <2>4. V(i) = x \div WindowLen + 1 /\ V(k) = y \div WindowLen + 1
    BY DEF WindowAt
  <2>5. WindowLen \in Nat \ {0}
    BY CtpAssumption
  <2> HIDE DEF x, y, V
  <2>6. x \div WindowLen <= y \div WindowLen
    BY <2>3, <2>5, DivGrows
  <2>7. x \div WindowLen \in Nat /\ y \div WindowLen \in Nat
    BY <2>3, <2>5, DivLess
  <2> QED
    BY <2>2, <2>4, <2>6, <2>7
<1>4. PICK f : /\ f[0] = NoWindows /\ SplitByWindow(pcap) = f[n].files
               /\ \A i \in 1 .. n : f[i] = WinStep(f[i - 1], pcap[i], pcap[1])
  BY <1>1, WinScan
<1> DEFINE G(i) == FileOf(f[i].files, w)
           Done(i) == /\ f[i].at = At(i) /\ DOMAIN f[i].files = All(i)
                      /\ G(i) \in Seq(Packet) /\ OrderedTo(G(i), Time(i))
                      /\ AllInside(G(i), pcap[1], w)
                      /\ BytesOf(G(i)) = BytesAt(pcap, To(i))
                      /\ To(i) # {} => G(i) # <<>>
           Good == {i \in 0 .. n : Done(i)}
<1>5. 0 \in Good
  <2>1. f[0].at = 0 /\ DOMAIN f[0].files = {} /\ G(0) = <<>>
    BY <1>4 DEF FileOf, NoWindows, NoFiles
  <2>2. To(0) = {} /\ All(0) = {} /\ Time(0) = 0 /\ At(0) = 0
    OBVIOUS
  <2>3. BytesAt(pcap, {}) = 0
    <3> DEFINE N == {}
    <3>1. N \in SUBSET DOMAIN pcap
      OBVIOUS
    <3> QED
      BY <3>1, BytesTyped
  <2>4. AllInside(<<>>, pcap[1], w)
    BY DEF AllInside
  <2> HIDE DEF G, To, All, Time, At
  <2>5. Done(0)
    BY <2>1, <2>2, <2>3, <2>4, NothingOrdered, Zenon
  <2> HIDE DEF Done
  <2> QED
    BY <1>1, <2>5
<1>6. ASSUME NEW i \in 1 .. n, i - 1 \in Good PROVE i \in Good
  <2> DEFINE p == pcap[i]
             s == f[i - 1]
             v == V(i)
  <2>1. Done(i - 1) /\ i \in 0 .. n /\ i - 1 \in 0 .. n /\ i \in Nat \ {0}
    BY <1>1, <1>6
  <2>2. p \in Packet /\ p.t \in Nat /\ pcap[1].t \in Nat /\ Time(i) = p.t /\ At(i) = v
    BY <1>1
  <2>3. v \in Nat \ {0} /\ pcap[1].t <= p.t
    BY <1>3
  <2>4. \A k \in 1 .. i - 1 : V(k) \in Nat \ {0} /\ V(k) <= V(i - 1) /\ V(i - 1) <= v
    <3> TAKE k \in 1 .. i - 1
    <3>1. k \in 1 .. n /\ i - 1 \in 1 .. n /\ k <= i - 1 /\ i - 1 <= i
      BY <1>1
    <3> HIDE DEF V
    <3> QED
      BY <1>3, <3>1
  <2>5. v = s.at <=> v \in DOMAIN s.files
    <3>1. s.at = At(i - 1) /\ DOMAIN s.files = All(i - 1)
      BY <2>1
    <3> HIDE DEF V, s
    <3>2. CASE i = 1
      <4>1. At(i - 1) = 0 /\ All(i - 1) = {}
        BY <3>2
      <4> QED
        BY <2>3, <3>1, <4>1
    <3>3. CASE i # 1
      <4>1. At(i - 1) = V(i - 1) /\ i - 1 \in 1 .. i - 1
        BY <2>1, <3>3
      <4>2. v = V(i - 1) => v \in All(i - 1)
        BY <4>1
      <4>3. ASSUME v \in All(i - 1) PROVE v = V(i - 1)
        <5>1. PICK k \in 1 .. i - 1 : v = V(k)
          BY <4>3
        <5>2. V(i - 1) \in Nat \ {0}
          BY <2>4, <4>1
        <5> QED
          BY <2>3, <2>4, <5>1, <5>2
      <4> QED
        BY <3>1, <4>1, <4>2, <4>3
    <3> QED
      BY <3>2, <3>3
  <2>6. /\ f[i].at = v /\ DOMAIN f[i].files = DOMAIN s.files \cup {v}
        /\ G(i) = IF w = v THEN Append(G(i - 1), p) ELSE G(i - 1)
    <3>1. f[i] = WinStep(s, p, pcap[1])
      BY <1>4
    <3>2. ~ (p.t < pcap[1].t)
      BY <2>2, <2>3
    <3>3. v = WindowAt(p, pcap[1])
      OBVIOUS
    <3> HIDE DEF v, p, s, G, Done, Good, All, To, Time, At
    <3>4. WinAdds(WinStep(s, p, pcap[1]), s, p, v)
      <4>1. (WindowAt(p, pcap[1]) = s.at) <=> (WindowAt(p, pcap[1]) \in DOMAIN s.files)
        BY <2>5, <3>3, Zenon
      <4>2. WinAdds(WinStep(s, p, pcap[1]), s, p, WindowAt(p, pcap[1]))
        BY <3>2, <4>1, WinStepAdds
      <4> QED
        BY <3>3, <4>2, Zenon
    <3>5. G(i - 1) = FileOf(s.files, w)
      BY DEF s, G
    <3> QED
      BY <3>1, <3>4, <3>5 DEF G, WinAdds
  <2>7. All(i) = All(i - 1) \cup {v} /\ To(i) = IF w = v THEN To(i - 1) \cup {i} ELSE To(i - 1)
    <3> HIDE DEF V
    <3> QED
      BY <2>1 DEF V
  <2>8. To(i - 1) \in SUBSET DOMAIN pcap /\ i \in DOMAIN pcap /\ i \notin To(i - 1)
    BY <1>1
  <2>9. Time(i - 1) \in Nat /\ Time(i - 1) <= p.t
    <3>1. CASE i = 1
      BY <2>2, <3>1
    <3>2. CASE i # 1
      <4>1. i - 1 \in 1 .. n /\ i - 1 <= i /\ Time(i - 1) = pcap[i - 1].t
        BY <1>1, <3>2
      <4> QED
        BY <1>1, <1>2, <4>1
    <3> QED
      BY <3>1, <3>2
  <2> DEFINE old == G(i - 1)
             new == G(i)
  <2>10. /\ DOMAIN s.files = All(i - 1) /\ old \in Seq(Packet) /\ OrderedTo(old, Time(i - 1))
         /\ AllInside(old, pcap[1], w) /\ BytesOf(old) = BytesAt(pcap, To(i - 1))
         /\ To(i - 1) # {} => old # <<>>
    BY <2>1, Zenon
  <2>11. f[i].at = At(i) /\ DOMAIN f[i].files = All(i)
    BY <2>2, <2>6, <2>7, <2>10
  <2>12. Inside(p, pcap[1], v)
    BY <2>3 DEF Inside
  <2>13. new = IF w = v THEN Append(old, p) ELSE old
    BY <2>6
  <2> HIDE DEF old, new, p, v, s, Time, To, All, At, G
  <2>14. CASE w = v
    <3>1. new = Append(old, p)
      BY <2>13, <2>14
    <3>2. MorePacket(new, old, p)
      BY <2>2, <2>10, <3>1, PacketMore, Zenon
    <3>3. BytesAt(pcap, To(i)) = BytesAt(pcap, To(i - 1)) + p.len
      <4>1. BytesAt(pcap, To(i - 1) \cup {i}) = BytesAt(pcap, To(i - 1)) + pcap[i].len
        BY <2>8, BytesMore
      <4> QED
        BY <2>7, <2>14, <4>1 DEF p
    <3>4. /\ new \in Seq(Packet) /\ BytesOf(new) = BytesOf(old) + p.len
          /\ \A t \in Nat : OrderedTo(old, t) /\ t <= p.t => OrderedTo(new, p.t)
      BY <3>2, Zenon DEF MorePacket
    <3>5. AllInside(new, pcap[1], w) /\ new # <<>>
      BY <2>2, <2>10, <2>12, <2>14, <3>1, InsideMore, Zenon
    <3>6. OrderedTo(new, Time(i))
      BY <2>2, <2>9, <2>10, <3>4
    <3>7. BytesOf(new) = BytesAt(pcap, To(i))
      BY <2>10, <3>3, <3>4
    <3>8. Done(i)
      BY <2>11, <3>4, <3>5, <3>6, <3>7, Zenon DEF new
    <3> HIDE DEF Done
    <3> QED
      BY <2>1, <3>8
  <2>15. CASE w # v
    <3>1. new = old /\ To(i) = To(i - 1)
      BY <2>7, <2>13, <2>15
    <3>2. OrderedTo(old, Time(i))
      <4>1. \A k \in DOMAIN old : old[k].t \in Nat
        BY <2>10, Fields
      <4> QED
        BY <2>2, <2>9, <2>10, <4>1 DEF OrderedTo
    <3>3. Done(i)
      BY <2>10, <2>11, <3>1, <3>2, Zenon DEF new
    <3> HIDE DEF Done
    <3> QED
      BY <2>1, <3>3
  <2> QED
    BY <2>14, <2>15
<1>7. \A i \in 0 .. n : i \in Good
  <2> HIDE DEF Good
  <2> QED
    BY <1>1, <1>5, <1>6, UpTo, Zenon
<1>8. n \in 0 .. n /\ n # 0 /\ i0 = n
  BY <1>1 DEF n
<1>9. Done(n)
  <2> HIDE DEF Done
  <2> QED
    BY <1>7, <1>8
<1>10. G(n) = FileOf(SplitByWindow(pcap), w) /\ DOMAIN f[n].files = DOMAIN SplitByWindow(pcap)
  BY <1>4
<1>11. Time(n) = pcap[n].t
  BY <1>8
<1>12. (\E k \in 1 .. n : V(k) = w) => To(n) # {}
  OBVIOUS
<1> HIDE DEF G, Time
<1>13. /\ WindowKept(FileOf(SplitByWindow(pcap), w), pcap, n, w, pcap[n].t)
       /\ DOMAIN SplitByWindow(pcap) = All(n)
  BY <1>9, <1>10, <1>11, <1>12, Zenon DEF WindowKept
<1> QED
  BY <1>8, <1>13

\* A window file: packets in order, none a window's length from the first.
WinGood(file) ==
  /\ file \in Seq(Packet) /\ file # <<>> /\ InOrder(file)
  /\ \A j \in DOMAIN file : file[1].t <= file[j].t /\ file[j].t - file[1].t < WindowLen

\* Packets of one window are less than its length apart.
LEMMA InsideApart ==
  ASSUME NEW p \in Packet, NEW q \in Packet, NEW first \in Packet, NEW w, Inside(p, first, w),
         Inside(q, first, w)
  PROVE  q.t - p.t < WindowLen
<1> DEFINE x == p.t - first.t
           y == q.t - first.t
           L == WindowLen
           v == x \div L
<1>1. /\ p.t \in Nat /\ q.t \in Nat /\ first.t \in Nat /\ L \in Nat \ {0}
      /\ first.t <= p.t /\ first.t <= q.t
  BY CtpAssumption DEF Packet, Inside
<1>2. x \div L + 1 = w /\ y \div L + 1 = w
  BY DEF Inside, WindowAt
<1>3. x \in Nat /\ y \in Nat /\ q.t - p.t = y - x
  BY <1>1
<1> HIDE DEF x, y, L
<1>4. x \div L \in Nat /\ y \div L \in Nat
  BY <1>1, <1>3, DivLess
<1>5. v \in Int /\ v + 1 \in Int /\ y \div L = v /\ x \div L = v
  BY <1>2, <1>4
<1> HIDE DEF v
<1>6. x < v * L <=> x \div L < v
  BY <1>1, <1>3, <1>5, DivLess
<1>7. y < (v + 1) * L <=> y \div L < v + 1
  <2> DEFINE c == v + 1
  <2>1. c \in Int
    BY <1>5
  <2> HIDE DEF c
  <2>2. y < c * L <=> y \div L < c
    BY <1>1, <1>3, <2>1, DivLess
  <2> QED
    BY <2>2 DEF c
<1>8. (v + 1) * L = v * L + L /\ v * L \in Int /\ L \in Int
  BY <1>1, <1>5
<1>9. ~ (x < v * L) /\ y < v * L + L
  BY <1>5, <1>6, <1>7, <1>8
<1>10. y - x < L
  BY <1>3, <1>8, <1>9
<1> QED
  BY <1>3, <1>10 DEF L

\* The windows of a file in order are window files, and have all of its bytes.
LEMMA WindowsAddUp ==
  ASSUME NEW pcap \in Seq(Packet), InOrder(pcap), NEW g,
         g = [w \in DOMAIN SplitByWindow(pcap) |-> BytesOf(SplitByWindow(pcap)[w])]
  PROVE  /\ \A w \in DOMAIN SplitByWindow(pcap) : WinGood(SplitByWindow(pcap)[w])
         /\ Summable(g) /\ Total(g) = BytesOf(pcap)
<1> DEFINE n == Len(pcap)
           W == DOMAIN SplitByWindow(pcap)
           V(k) == WindowAt(pcap[k], pcap[1])
<1>1. n \in Nat /\ DOMAIN pcap = 1 .. n
  BY Fields
<1> HIDE DEF n
<1>2. IsFiniteSet(W)
  BY WindowsNumbered
<1>3. ASSUME NEW w \in W
      PROVE  /\ SplitByWindow(pcap)[w] = FileOf(SplitByWindow(pcap), w) /\ n # 0
             /\ w \in {V(k) : k \in 1 .. n}
             /\ WindowKept(SplitByWindow(pcap)[w], pcap, n, w, pcap[n].t)
  <2>1. SplitByWindow(pcap)[w] = FileOf(SplitByWindow(pcap), w)
    BY DEF FileOf
  <2>2. n # 0
    <3> SUFFICES ASSUME n = 0 PROVE FALSE
      OBVIOUS
    <3>1. PICK f : /\ f[0] = NoWindows /\ SplitByWindow(pcap) = f[n].files
      BY <1>1, WinScan
    <3> QED
      BY <3>1 DEF NoWindows, NoFiles
  <2>3. /\ WindowKept(FileOf(SplitByWindow(pcap), w), pcap, n, w, pcap[n].t)
        /\ DOMAIN SplitByWindow(pcap) = {V(k) : k \in 1 .. n}
    BY <1>1, <2>2, SplitByWindowKeeps DEF n
  <2> QED
    BY <2>1, <2>2, <2>3
<1>4. ASSUME NEW w \in W PROVE WinGood(SplitByWindow(pcap)[w])
  <2> DEFINE file == SplitByWindow(pcap)[w]
  <2>1. n # 0 /\ w \in {V(k) : k \in 1 .. n} /\ WindowKept(file, pcap, n, w, pcap[n].t)
    BY <1>3
  <2> HIDE DEF file
  <2>2. \E k \in 1 .. n : WindowAt(pcap[k], pcap[1]) = w
    BY <2>1
  <2>3. file \in Seq(Packet) /\ file # <<>> /\ InOrder(file) /\ AllInside(file, pcap[1], w)
    BY <2>1, <2>2 DEF WindowKept, OrderedTo
  <2>4. pcap[1] \in Packet
    BY <1>1, <2>1, Fields
  <2>5. 1 \in DOMAIN file /\ Len(file) \in Nat /\ DOMAIN file = 1 .. Len(file)
    BY <2>3
  <2>6. ASSUME NEW j \in DOMAIN file
        PROVE  file[1].t <= file[j].t /\ file[j].t - file[1].t < WindowLen
    <3>1. 1 <= j
      BY <2>5
    <3>2. file[1] \in Packet /\ file[j] \in Packet
      BY <2>3, <2>5, Fields
    <3>3. Inside(file[1], pcap[1], w) /\ Inside(file[j], pcap[1], w)
      BY <2>3, <2>5 DEF AllInside
    <3>4. file[j].t - file[1].t < WindowLen
      BY <2>4, <3>2, <3>3, InsideApart
    <3>5. file[1].t <= file[j].t
      BY <2>3, <2>5, <3>1, Ordered
    <3> QED
      BY <3>4, <3>5
  <2> QED
    BY <2>3, <2>6 DEF WinGood, file
<1>5. Summable(g) /\ Total(g) = BytesOf(pcap)
  <2> DEFINE P == DOMAIN pcap
             v == [k \in P |-> pcap[k].len]
             c == [k \in P |-> V(k)]
  <2>1. Summable(v) /\ DOMAIN v = P /\ \A x \in P : v[x] = pcap[x].len
    <3>1. P \in SUBSET DOMAIN pcap
      OBVIOUS
    <3> HIDE DEF P
    <3> QED
      BY <3>1, BytesTyped
  <2>2. \A x \in DOMAIN v : c[x] \in W
    <3>1. ASSUME NEW k \in P PROVE V(k) \in W
      <4>1. n # 0 /\ k \in 1 .. n
        BY <1>1
      <4>2. DOMAIN SplitByWindow(pcap) = {V(l) : l \in 1 .. n}
        <5> DEFINE w == 0
        <5> HIDE DEF w
        <5>1. /\ WindowKept(FileOf(SplitByWindow(pcap), w), pcap, n, w, pcap[n].t)
              /\ DOMAIN SplitByWindow(pcap) = {V(l) : l \in 1 .. n}
          BY <1>1, <4>1, SplitByWindowKeeps DEF n
        <5> QED
          BY <5>1
      <4> HIDE DEF V
      <4> QED
        BY <4>1, <4>2
    <3> HIDE DEF V, W
    <3> QED
      BY <3>1
  <2>3. DOMAIN g = W
    OBVIOUS
  <2>4. ASSUME NEW w \in W
        PROVE  g[w] = Total([x \in {y \in DOMAIN v : c[y] = w} |-> v[x]])
    <3> DEFINE A == {k \in 1 .. n : V(k) = w}
               B == {y \in DOMAIN v : c[y] = w}
    <3>1. A = B /\ \A x \in B : v[x] = pcap[x].len
      BY <1>1
    <3>2. g[w] = BytesOf(SplitByWindow(pcap)[w])
      OBVIOUS
    <3>3. BytesOf(SplitByWindow(pcap)[w]) = BytesAt(pcap, A)
      BY <1>3 DEF WindowKept
    <3>4. BytesAt(pcap, A) = Total([k \in A |-> pcap[k].len])
      BY DEF BytesAt
    <3> HIDE DEF A, B, v, c
    <3>5. [k \in A |-> pcap[k].len] = [x \in B |-> v[x]]
      BY <3>1
    <3> QED
      BY <3>2, <3>3, <3>4, <3>5 DEF B
  <2>5. Total(v) = BytesOf(pcap)
    BY DEF BytesOf, BytesAt
  <2> HIDE DEF W, v, c
  <2>6. Summable(g) /\ Total(g) = Total(v)
    BY <1>2, <2>1, <2>2, <2>3, <2>4, TotalParts
  <2> QED
    BY <2>5, <2>6
<1> QED
  BY <1>4, <1>5

\* The series of a file has the bytes of its bins.
LEMMA SeriesIs ==
  ASSUME NEW pcap \in Seq(Packet)
  PROVE  \A i \in Bins(WindowLen) :
           Series(pcap, WindowLen)[i] = BytesAt(pcap, InBin(BinLen, pcap, pcap[1].t, i))
<1> DEFINE n == Len(pcap)
           t == pcap[1].t
           To(k, i) == ToBin(BinLen, pcap, t, k, i)
<1>1. n \in Nat /\ DOMAIN pcap = 1 .. n /\ \A i \in 1 .. n : pcap[i] \in Packet
      /\ pcap[i].len \in Nat
  BY Fields
<1> HIDE DEF n, t
<1>2. PICK f : /\ f[0] = NoBytes /\ Series(pcap, WindowLen) = f[n]
               /\ \A i \in 1 .. n : f[i] = SeriesStep(f[i - 1], pcap[i], pcap[1])
  BY <1>1, SeriesScan
<1> DEFINE Done(k) == \A i \in Bins(WindowLen) : f[k][i] = BytesAt(pcap, To(k, i))
           Good == {k \in 0 .. n : Done(k)}
<1>3. 0 \in Good
  <2>1. BytesAt(pcap, {}) = 0
    <3> DEFINE N == {}
    <3>1. N \in SUBSET DOMAIN pcap
      OBVIOUS
    <3> QED
      BY <3>1, BytesTyped
  <2>2. \A i : To(0, i) = {}
    BY DEF ToBin
  <2> HIDE DEF To
  <2>3. Done(0)
    BY <1>2, <2>1, <2>2 DEF NoBytes
  <2> HIDE DEF Done
  <2> QED
    BY <1>1, <2>3
<1>4. ASSUME NEW k \in 1 .. n, k - 1 \in Good PROVE k \in Good
  <2>1. Done(k - 1) /\ k \in 0 .. n /\ k \in Nat \ {0}
    BY <1>1, <1>4
  <2>2. ASSUME NEW i \in Bins(WindowLen) PROVE f[k][i] = BytesAt(pcap, To(k, i))
    <3> DEFINE X == To(k - 1, i)
               Y == To(k, i)
               b == BinAt(BinLen, t, pcap[k])
    <3>1. Further(BinLen, pcap, t, k, i)
      BY <2>1, ToBinNext, Zenon
    <3>2. (b # i => Y = X) /\ (b = i => Y = X \cup {k})
      BY <3>1, Zenon DEF Further
    <3>3. X \in SUBSET DOMAIN pcap /\ k \in DOMAIN pcap /\ k \notin X
      BY <1>1 DEF ToBin
    <3>4. f[k][i] = IF i = b THEN f[k - 1][i] + pcap[k].len ELSE f[k - 1][i]
      <4>1. f[k] = SeriesStep(f[k - 1], pcap[k], pcap[1])
        BY <1>2
      <4>2. b = (pcap[k].t - pcap[1].t) \div BinLen
        BY DEF BinAt, t
      <4> HIDE DEF b
      <4> QED
        BY <4>1, <4>2 DEF SeriesStep
    <3>5. f[k - 1][i] = BytesAt(pcap, X)
      BY <2>1
    <3> HIDE DEF X, Y, b, To
    <3>6. BytesAt(pcap, X \cup {k}) = BytesAt(pcap, X) + pcap[k].len
      BY <3>3, BytesMore
    <3>7. f[k][i] = BytesAt(pcap, Y)
      BY <3>2, <3>4, <3>5, <3>6
    <3> QED
      BY <3>7 DEF Y
  <2> HIDE DEF To
  <2>3. Done(k)
    BY <2>2
  <2> HIDE DEF Done
  <2> QED
    BY <2>1, <2>3
<1>5. \A k \in 0 .. n : k \in Good
  <2> HIDE DEF Good
  <2> QED
    BY <1>1, <1>3, <1>4, UpTo, Zenon
<1>6. n \in 0 .. n
  BY <1>1
<1>7. Done(n)
  <2> HIDE DEF Done
  <2> QED
    BY <1>5, <1>6
<1>8. \A i : To(n, i) = InBin(BinLen, pcap, pcap[1].t, i)
  BY <1>1 DEF ToBin, InBin, t
<1> QED
  BY <1>2, <1>7, <1>8

\* The packets of a window file that are in one of the window's bins.
LEMMA InABin ==
  ASSUME NEW pcap, WinGood(pcap), NEW k \in DOMAIN pcap
  PROVE  BinAt(BinLen, pcap[1].t, pcap[k]) \in Bins(WindowLen) <=> k \notin PastBins(pcap)
<1> DEFINE t == pcap[1].t
           x == pcap[k].t - t
           m == WindowLen \div BinLen
<1>1. t \in Nat /\ pcap[k].t \in Nat /\ t <= pcap[k].t
  <2>1. 1 \in DOMAIN pcap
    BY DEF WinGood
  <2> QED
    BY <2>1, Fields DEF WinGood
<1>2. x \in Nat
  BY <1>1
<1>3. m \in Nat /\ Bins(WindowLen) = 0 .. m - 1 /\ Cardinality(Bins(WindowLen)) = m
  BY BinsAre
<1>4. BinLen \in Nat \ {0}
  BY CtpAssumption
<1>5. k \in PastBins(pcap) <=> x >= m * BinLen
  BY <1>3 DEF PastBins
<1> HIDE DEF x, m
<1>6. x \div BinLen \in Nat /\ (x < m * BinLen <=> x \div BinLen < m)
  <2>1. m \in Int
    BY <1>3
  <2> QED
    BY <1>2, <1>4, <2>1, DivLess
<1>7. m * BinLen \in Int
  BY <1>3, <1>4
<1>8. x \div BinLen \in Bins(WindowLen) <=> x < m * BinLen
  BY <1>3, <1>6
<1>9. BinAt(BinLen, pcap[1].t, pcap[k]) = x \div BinLen
  BY DEF BinAt, x
<1> QED
  BY <1>2, <1>5, <1>7, <1>8, <1>9

\* The series of a window file has all of its bytes but those past the bins.
LEMMA SeriesAddsUp ==
  ASSUME NEW pcap, WinGood(pcap)
  PROVE  /\ Total(Series(pcap, WindowLen)) + BytesAt(pcap, PastBins(pcap)) = BytesOf(pcap)
         /\ Total(Series(pcap, WindowLen)) \in Nat /\ BytesAt(pcap, PastBins(pcap)) \in Nat
<1> DEFINE P == DOMAIN pcap
           Q == P \ PastBins(pcap)
           t == pcap[1].t
           z == [k \in P |-> pcap[k].len]
           v == [k \in Q |-> pcap[k].len]
           b == [k \in PastBins(pcap) |-> pcap[k].len]
           c == [k \in Q |-> BinAt(BinLen, t, pcap[k])]
           W == Bins(WindowLen)
           g == Series(pcap, WindowLen)
<1>1. pcap \in Seq(Packet)
  BY DEF WinGood
<1>2. Summable(z) /\ DOMAIN z = P /\ \A x \in P : z[x] = pcap[x].len
  <2>1. P \in SUBSET DOMAIN pcap
    OBVIOUS
  <2> HIDE DEF P
  <2> QED
    BY <1>1, <2>1, BytesTyped
<1>3. Summable(v) /\ Summable(b) /\ Total(z) = Total(v) + Total(b)
  <2>1. P = Q \cup PastBins(pcap) /\ Q \cap PastBins(pcap) = {}
    BY DEF PastBins
  <2>2. DOMAIN v = Q /\ DOMAIN b = PastBins(pcap)
        /\ \A x \in Q : v[x] = pcap[x].len
    OBVIOUS
  <2>3. \A x \in PastBins(pcap) : b[x] = pcap[x].len
    OBVIOUS
  <2> HIDE DEF v, b, z, P, Q
  <2>4. /\ DOMAIN z = DOMAIN v \cup DOMAIN b /\ DOMAIN v \cap DOMAIN b = {}
        /\ \A x \in DOMAIN v : v[x] = z[x]
        /\ \A x \in DOMAIN b : b[x] = z[x]
    BY <1>2, <2>1, <2>2, <2>3
  <2> QED
    BY <1>2, <2>4, TotalSplit
<1>4. \A x \in DOMAIN v : c[x] \in W
  <2>1. \A k \in Q : BinAt(BinLen, t, pcap[k]) \in W
    BY InABin
  <2> HIDE DEF W, t, Q
  <2> QED
    BY <2>1
<1>5. DOMAIN g = W /\ IsFiniteSet(W)
  BY <1>1, SeriesTyped, BinsAre DEF Amounts
<1>6. ASSUME NEW w \in W
      PROVE  g[w] = Total([x \in {y \in DOMAIN v : c[y] = w} |-> v[x]])
  <2> DEFINE A == InBin(BinLen, pcap, t, w)
             B == {y \in DOMAIN v : c[y] = w}
  <2>1. A = B
    <3>1. \A k \in P : BinAt(BinLen, t, pcap[k]) = w => k \in Q
      BY InABin
    <3>2. B = {k \in Q : BinAt(BinLen, t, pcap[k]) = w}
      OBVIOUS
    <3>3. A = {k \in P : BinAt(BinLen, t, pcap[k]) = w}
      BY DEF InBin
    <3>4. Q \subseteq P
      OBVIOUS
    <3> HIDE DEF A, B, Q, P, t
    <3> QED
      BY <3>1, <3>2, <3>3, <3>4
  <2>2. \A x \in B : v[x] = pcap[x].len
    OBVIOUS
  <2>3. g[w] = BytesAt(pcap, A)
    BY <1>1, SeriesIs
  <2>4. BytesAt(pcap, A) = Total([k \in A |-> pcap[k].len])
    BY DEF BytesAt
  <2> HIDE DEF A, B, v, g, c
  <2>5. [k \in A |-> pcap[k].len] = [x \in B |-> v[x]]
    BY <2>1, <2>2
  <2> QED
    BY <2>3, <2>4, <2>5 DEF B
<1>7. Total(z) = BytesOf(pcap) /\ Total(b) = BytesAt(pcap, PastBins(pcap))
  BY DEF BytesOf, BytesAt
<1> HIDE DEF W, v, c, g, z, b, Q
<1>8. Total(g) = Total(v)
  BY <1>3, <1>4, <1>5, <1>6, TotalParts
<1>9. Total(v) \in Nat /\ Total(b) \in Nat
  BY <1>3, TotalNat
<1> QED
  BY <1>3, <1>7, <1>8, <1>9 DEF g

-----------------------------------------------------------------------------
(* A window that has no more than the threshold in any bin is not trimmed.  *)

\* The name of a window of a file.
NameOf(f, w) == <<f[1], f[2], f[3], w>>

\* The total of no bytes.
LEMMA NoBytesTotal == Total(NoBytes) = 0
<1>1. DOMAIN NoBytes = Bins(WindowLen) /\ \A i \in DOMAIN NoBytes : NoBytes[i] = 0
  BY DEF NoBytes
<1>2. IsFiniteSet(DOMAIN NoBytes)
  BY <1>1, BinsAre
<1> QED
  BY <1>1, <1>2, TotalZero, Zenon

\* Some positions have no more bytes than more of them.
LEMMA BytesPart ==
  ASSUME NEW pcap \in Seq(Packet), NEW B \in SUBSET DOMAIN pcap, NEW A \in SUBSET B
  PROVE  BytesAt(pcap, A) <= BytesAt(pcap, B)
<1> DEFINE v == [k \in B |-> pcap[k].len]
           w == [k \in A |-> pcap[k].len]
<1>1. Summable(v)
  BY BytesTyped
<1>2. DOMAIN w \subseteq DOMAIN v /\ \A y \in DOMAIN w : w[y] = v[y]
  OBVIOUS
<1> HIDE DEF v, w
<1>3. Total(w) <= Total(v)
  BY <1>1, <1>2, TotalPart
<1> QED
  BY <1>3, Zenon DEF BytesAt, v, w

\* Trimming so far has kept all of the first k packets: no bin has more bytes
\* than the threshold, and the interval is not beyond the last packet.
AllKept(bin, s, pcap, k, c) ==
  /\ s = [start |-> s.start, bytes |-> s.bytes, out |-> s.out]
  /\ c \in Nat /\ s.start = pcap[1].t + c * bin /\ s.bytes \in Nat
  /\ s.out \in Seq(Packet) /\ Len(s.out) = k /\ \A j \in 1 .. k : s.out[j] = pcap[j]
  /\ k = 0 => c = 0 /\ s.bytes = 0
  /\ k # 0 => /\ c <= BinAt(bin, pcap[1].t, pcap[k])
              /\ BinAt(bin, pcap[1].t, pcap[k]) = c =>
                   s.bytes <= BytesAt(pcap, ToBin(bin, pcap, pcap[1].t, k, c))

\* No interval of a file has more bytes than the threshold.
BinsBelow(bin, pcap, threshold) ==
  \A j \in DOMAIN pcap :
    BytesAt(pcap, InBin(bin, pcap, pcap[1].t, BinAt(bin, pcap[1].t, pcap[j]))) <= threshold

\* If no interval has more bytes than the threshold, the next packet is kept.
LEMMA KeptNext ==
  ASSUME NEW bin, Positive(bin),
         NEW pcap \in Seq(Packet), InOrder(pcap), NEW threshold \in Nat,
         BinsBelow(bin, pcap, threshold),
         NEW k \in DOMAIN pcap, NEW c, NEW s, AllKept(bin, s, pcap, k - 1, c)
  PROVE  \E e : AllKept(bin, TrimStep(bin, s, pcap[k], threshold), pcap, k, e)
<1> DEFINE t == pcap[1].t
           p == pcap[k]
           out == s.out
           r == Append(out, p)
           e == BinAt(bin, t, p)
           s2 == TrimStep(bin, s, p, threshold)
           X == ToBin(bin, pcap, t, k - 1, e)
           Y == ToBin(bin, pcap, t, k, e)
<1>1. /\ k \in Nat \ {0} /\ p \in Packet /\ t \in Nat /\ p.len \in Nat /\ p.t \in Nat
      /\ bin \in Nat \ {0} /\ 1 \in DOMAIN pcap /\ 1 <= k /\ \A j \in 1 .. k : j \in DOMAIN pcap
  <2>1. k \in Nat \ {0} /\ 1 \in DOMAIN pcap /\ 1 <= k /\ \A j \in 1 .. k : j \in DOMAIN pcap
    BY Fields
  <2> QED
    BY <2>1, Fields DEF Positive
<1>2. t <= p.t
  BY <1>1, Ordered
<1>3. /\ s = [start |-> s.start, bytes |-> s.bytes, out |-> out]
      /\ c \in Nat /\ s.start = t + c * bin /\ s.bytes \in Nat /\ out \in Seq(Packet)
      /\ Len(out) = k - 1 /\ \A j \in 1 .. k - 1 : out[j] = pcap[j]
      /\ k - 1 = 0 => c = 0 /\ s.bytes = 0
      /\ k - 1 # 0 => /\ c <= BinAt(bin, t, pcap[k - 1])
                      /\ BinAt(bin, t, pcap[k - 1]) = c
                           => s.bytes <= BytesAt(pcap, ToBin(bin, pcap, t, k - 1, c))
  BY DEF AllKept
<1> DEFINE x == p.t - t
<1>4. x \in Nat /\ e = x \div bin /\ e \in Nat
  <2>1. x \in Nat
    BY <1>1, <1>2
  <2> HIDE DEF x
  <2>2. x \div bin \in Nat
    <3>1. bin \in Nat \ {0} /\ 0 \in Int
      BY <1>1
    <3> QED
      BY <2>1, <3>1, DivLess, Zenon
  <2> QED
    BY <2>1, <2>2 DEF BinAt, x
<1>5. k - 1 # 0 => BinAt(bin, t, pcap[k - 1]) \in Nat /\ BinAt(bin, t, pcap[k - 1]) <= e
  <2> SUFFICES ASSUME k - 1 # 0
               PROVE  BinAt(bin, t, pcap[k - 1]) \in Nat /\ BinAt(bin, t, pcap[k - 1]) <= e
    OBVIOUS
  <2> DEFINE y == pcap[k - 1].t - t
  <2>1. k - 1 \in DOMAIN pcap /\ 1 <= k - 1 /\ k - 1 <= k
    BY <1>1
  <2>2. pcap[k - 1].t \in Nat /\ t <= pcap[k - 1].t /\ pcap[k - 1].t <= p.t
    BY <1>1, <2>1, Ordered, Fields
  <2>3. y \in Nat /\ y <= x
    BY <1>1, <2>2
  <2>4. BinAt(bin, t, pcap[k - 1]) = y \div bin
    BY DEF BinAt
  <2> HIDE DEF y, x, e
  <2>5. y \in Nat /\ x \in Nat /\ y <= x /\ bin \in Nat \ {0}
    BY <1>1, <1>4, <2>3
  <2>6. y \div bin \in Nat
    BY <2>5, DivLess
  <2>7. y \div bin <= x \div bin
    BY <2>5, DivGrows
  <2> QED
    BY <1>4, <2>4, <2>6, <2>7
<1>6. c <= e
  BY <1>3, <1>4, <1>5
<1>7. p.t - s.start < bin <=> e = c
  <2> DEFINE m == c * bin
             b == c + 1
  <2>1. m \in Nat /\ b * bin = m + bin
    BY <1>1, <1>3
  <2>2. b \in Int /\ b = c + 1
    BY <1>3
  <2>3. s.start = t + m
    BY <1>3
  <2> HIDE DEF b, x, e
  <2>4. x < b * bin <=> e < b
    BY <1>1, <1>4, <2>2, DivLess
  <2> HIDE DEF m
  <2>5. p.t - s.start < bin <=> x < m + bin
    BY <1>1, <2>1, <2>3 DEF x
  <2> QED
    BY <1>3, <1>4, <1>6, <2>1, <2>2, <2>4, <2>5
<1>8. X \in SUBSET DOMAIN pcap /\ k \in DOMAIN pcap /\ k \notin X /\ Y = X \cup {k}
  <2>1. Further(bin, pcap, t, k, e)
    BY <1>1, ToBinNext, Zenon
  <2>2. Y = X \cup {k}
    BY <2>1, Zenon DEF Further
  <2>3. X \in SUBSET DOMAIN pcap /\ k \notin X
    BY <1>1 DEF ToBin
  <2> QED
    BY <2>2, <2>3
<1>9. BytesAt(pcap, Y) = BytesAt(pcap, X) + p.len /\ BytesAt(pcap, X) \in Nat
  <2> HIDE DEF X, Y
  <2>1. BytesAt(pcap, X \cup {k}) = BytesAt(pcap, X) + pcap[k].len
    BY <1>8, BytesMore
  <2>2. BytesAt(pcap, X) \in Nat
    BY <1>8, BytesTyped
  <2> QED
    BY <1>8, <2>1, <2>2
<1>10. BytesAt(pcap, X) <= threshold
  <2> DEFINE Z == InBin(bin, pcap, t, e)
  <2>1. BytesAt(pcap, Z) <= threshold
    BY DEF BinsBelow
  <2>2. X \in SUBSET Z /\ Z \in SUBSET DOMAIN pcap
    BY <1>8 DEF ToBin, InBin
  <2> HIDE DEF X, Z
  <2>3. BytesAt(pcap, X) <= BytesAt(pcap, Z) /\ BytesAt(pcap, Z) \in Nat
    BY <2>2, BytesPart, BytesTyped
  <2> QED
    BY <1>9, <2>1, <2>3
<1>11. r \in Seq(Packet) /\ Len(r) = k /\ \A j \in 1 .. k : r[j] = pcap[j]
  <2> HIDE DEF out, p
  <2>1. /\ Len(out) = k - 1 /\ out \in Seq(Packet) /\ r \in Seq(Packet) /\ Len(r) = Len(out) + 1
        /\ r[Len(out) + 1] = p /\ \A j \in 1 .. Len(out) : r[j] = out[j]
    BY <1>1, <1>3, SMTT(30)
  <2> HIDE DEF r
  <2>2. \A j \in 1 .. k : j = k \/ j \in 1 .. k - 1
    BY <1>1
  <2>3. Len(out) + 1 = k
    BY <1>1, <1>3
  <2>4. r \in Seq(Packet) /\ Len(r) = k
    BY <2>1, <2>3
  <2>5. \A j \in 1 .. k : r[j] = pcap[j]
    <3> TAKE j \in 1 .. k
    <3>1. CASE j = k
      BY <2>1, <2>3, <3>1 DEF p
    <3>2. CASE j \in 1 .. k - 1
      BY <1>3, <2>1, <3>2
    <3> QED
      BY <2>2, <3>1, <3>2
  <2> QED
    BY <2>4, <2>5
<1> HIDE DEF r, x, e, X, Y, t, p, out
\* The interval goes on, and the packet is kept.
<1>12. CASE e = c
  <2>1. s.bytes <= BytesAt(pcap, X)
    <3>1. CASE k - 1 = 0
      BY <1>3, <1>9, <3>1
    <3>2. CASE k - 1 # 0
      <4>1. BinAt(bin, t, pcap[k - 1]) = c
        BY <1>3, <1>5, <1>12, <3>2
      <4> QED
        BY <1>3, <1>12, <3>2, <4>1 DEF X
    <3> QED
      BY <3>1, <3>2
  <2>2. s.bytes <= threshold
    BY <1>3, <1>9, <1>10, <2>1
  <2>3. s2.start = s.start /\ s2.bytes = s.bytes + p.len /\ s2.out = r
        /\ s2 = [start |-> s2.start, bytes |-> s2.bytes, out |-> s2.out]
    BY <1>3, <1>7, <1>12, <2>2 DEF TrimStep, r, out
  <2> HIDE DEF s2
  <2>4. s2.bytes <= BytesAt(pcap, Y) /\ s2.bytes \in Nat
    <3>1. p.len \in Nat /\ s.bytes \in Nat
      BY <1>1, <1>3
    <3> QED
      BY <1>9, <2>1, <2>3, <3>1
  <2>5. AllKept(bin, s2, pcap, k, c)
    <3>1. k # 0
      BY <1>1
    <3> QED
      BY <1>3, <1>6, <1>11, <1>12, <2>3, <2>4, <3>1 DEF AllKept, Y, e, t, p
  <2> QED
    BY <2>5 DEF s2, p
\* The next interval begins, with the packet.
<1>13. CASE e # c
  <2>1. s2.start = s.start + bin /\ s2.bytes = p.len /\ s2.out = r
        /\ s2 = [start |-> s2.start, bytes |-> s2.bytes, out |-> s2.out]
    BY <1>7, <1>13 DEF TrimStep, r, out
  <2> DEFINE b == c + 1
  <2>2. b \in Nat /\ b <= e
    BY <1>3, <1>4, <1>6, <1>13
  <2>3. s2.start = t + b * bin
    <3> DEFINE m == c * bin
    <3>1. m \in Nat /\ b * bin = m + bin
      BY <1>1, <1>3, SMTT(30)
    <3>2. s.start = t + m
      BY <1>3
    <3> HIDE DEF m, b, s2
    <3> QED
      BY <1>1, <2>1, <3>1, <3>2
  <2> HIDE DEF b, s2
  <2>4. s2.bytes <= BytesAt(pcap, Y) /\ s2.bytes \in Nat
    BY <1>1, <1>9, <2>1
  <2>5. AllKept(bin, s2, pcap, k, b)
    <3>1. k # 0
      BY <1>1
    <3> QED
      BY <1>11, <2>1, <2>2, <2>3, <2>4, <3>1 DEF AllKept, Y, e, t, p
  <2> QED
    BY <2>5 DEF s2, p
<1> QED
  BY <1>12, <1>13

\* A window file comes out of the trimming as it was if no bin has more bytes
\* than the threshold.
LEMMA NothingTrimmed ==
  ASSUME NEW bin, Positive(bin),
         NEW pcap, WinGood(pcap), NEW threshold \in Nat, BinsBelow(bin, pcap, threshold)
  PROVE  Trim(pcap, threshold, bin) = pcap
<1> DEFINE n == Len(pcap)
<1>1. pcap \in Seq(Packet) /\ pcap # <<>> /\ InOrder(pcap)
  BY DEF WinGood
<1>2. n \in Nat /\ DOMAIN pcap = 1 .. n /\ 1 \in DOMAIN pcap /\ pcap[1].t \in Nat
  <2>1. n \in Nat /\ DOMAIN pcap = 1 .. n /\ 1 \in DOMAIN pcap
    BY <1>1
  <2> QED
    BY <1>1, <2>1, Fields
<1> HIDE DEF n
<1>3. PICK f : TrimRuns(bin, f, pcap, threshold, n)
  BY <1>1, <1>2, TrimScan
<1>4. /\ f[0] = Untrimmed(pcap) /\ Trim(pcap, threshold, bin) = f[n].out
      /\ \A k \in 1 .. n : f[k] = TrimStep(bin, f[k - 1], pcap[k], threshold)
  BY <1>3, Zenon DEF TrimRuns
<1> DEFINE Good == {k \in 0 .. n : \E c : AllKept(bin, f[k], pcap, k, c)}
<1>5. 0 \in Good
  <2> DEFINE s == Untrimmed(pcap)
  <2>1. s = [start |-> s.start, bytes |-> s.bytes, out |-> s.out]
        /\ s.start = pcap[1].t /\ s.bytes = 0 /\ s.out = <<>>
    BY DEF Untrimmed
  <2>2. pcap[1].t = pcap[1].t + 0 * bin
    BY <1>2 DEF Positive
  <2>3. <<>> \in Seq(Packet) /\ Len(<<>>) = 0
    OBVIOUS
  <2> HIDE DEF s
  <2>4. AllKept(bin, s, pcap, 0, 0)
    BY <2>1, <2>2, <2>3 DEF AllKept
  <2> QED
    BY <1>2, <1>4, <2>4 DEF s
<1>6. ASSUME NEW k \in 1 .. n, k - 1 \in Good PROVE k \in Good
  <2>1. PICK c : AllKept(bin, f[k - 1], pcap, k - 1, c)
    BY <1>6
  <2>2. k \in DOMAIN pcap
    BY <1>2
  <2>3. \E e : AllKept(bin, TrimStep(bin, f[k - 1], pcap[k], threshold), pcap, k, e)
    BY <1>1, <2>1, <2>2, KeptNext
  <2>4. f[k] = TrimStep(bin, f[k - 1], pcap[k], threshold)
    BY <1>4
  <2> QED
    BY <1>2, <2>3, <2>4
<1>7. \A k \in 0 .. n : k \in Good
  <2> HIDE DEF Good
  <2> QED
    BY <1>2, <1>5, <1>6, UpTo, Zenon
<1>8. PICK c : AllKept(bin, f[n], pcap, n, c)
  <2>1. n \in 0 .. n
    BY <1>2
  <2> QED
    BY <1>7, <2>1
<1> DEFINE out == Trim(pcap, threshold, bin)
<1>9. out \in Seq(Packet) /\ Len(out) = n /\ \A j \in 1 .. n : out[j] = pcap[j]
  BY <1>4, <1>8 DEF AllKept
<1> HIDE DEF out
<1>10. Len(out) = Len(pcap) /\ \A j \in 1 .. Len(out) : out[j] = pcap[j]
  BY <1>9 DEF n
<1>11. out = pcap
  BY <1>1, <1>9, <1>10, SameFile
<1> QED
  BY <1>11 DEF out

\* A sequence of one file is that of the file, and of none that of no files.
LEMMA OneFlat ==
  ASSUME NEW T, NEW s \in Seq(T), NEW n \in {1}, NEW seqs, seqs = [i \in 1 .. n |-> s]
  PROVE  FlattenSeq(seqs) = s
<1>1. Len(seqs) = 1 /\ seqs \in Seq(Seq(T)) /\ seqs[1] = s
  OBVIOUS
<1> QED
  BY <1>1, Flat

\* A file that is in order and within a window is joined, clipped and put in
\* order as it is.
LEMMA JoinedAsIs ==
  ASSUME NEW pcap \in Seq(Packet), InOrder(pcap),
         \A i \in DOMAIN pcap : ~ (pcap[i].t - pcap[1].t > WindowLen),
         NEW pcaps \in Seq(Seq(Packet)),
         (Len(pcaps) = 1 /\ pcaps[1] = pcap) \/ (pcaps = <<>> /\ pcap = <<>>)
  PROVE  ByTime(Clip(JoinCap(pcaps), WindowLen)) = pcap
<1>1. JoinCap(pcaps) = pcap
  <2>1. CASE Len(pcaps) = 1 /\ pcaps[1] = pcap
    BY <2>1, JoinCapTyped
  <2>2. CASE pcaps = <<>> /\ pcap = <<>>
    <3>1. FlattenSeq(<<>>) = <<>>
      BY DEF FlattenSeq
    <3>2. ByTime(<<>>) = <<>>
      BY <2>2, ByTimeGives
    <3> QED
      BY <2>2, <3>1, <3>2 DEF JoinCap
  <2> QED
    BY <2>1, <2>2
<1>2. Clip(pcap, WindowLen) = pcap
  BY ClipTyped
<1>3. ByTime(pcap) = pcap
  BY ByTimeGives
<1> QED
  BY <1>1, <1>2, <1>3
=============================================================================
