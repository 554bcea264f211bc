-------------------------- MODULE CtpServiceProofs --------------------------
(***************************************************************************)
(* Proofs about the calls of ctp-service, for any number of calls, users,  *)
(* windows and failures.                                                   *)
(*                                                                         *)
(* A step of a call is found in the table of the steps of its operation    *)
(* (Place).  From it follows how the call goes on (Courses, EachGoesOn)    *)
(* and what the step changes (Untouched, OneFile, Frames, Effects).        *)
(*                                                                         *)
(* StoreInv says what an extraction has done so far, and gives             *)
(* StoredInOrder.  For the other three properties the calls that nothing   *)
(* clashed with are followed step by step: AloneInv keeps the calls that   *)
(* would disturb them away, TransformInv, ReplayInv and FetchInv say what  *)
(* their files, scratch files and copies hold at each step, and TidyInv    *)
(* that no call has begun to write over what a finished one left.          *)
(***************************************************************************)
EXTENDS CtpService, FiniteSetTheorems, TLAPS

-----------------------------------------------------------------------------
(***************************************************************************)
(* Sequences: where an element comes from in a concatenation, in a         *)
(* flattened sequence of sequences and in a set taken as a sequence. The   *)
(* community modules define them by recursive functions and CHOOSE; what   *)
(* such a function is is got from the least length at which it could fail. *)
(***************************************************************************)
\* A set of numbers that is not empty has a least one.
LEMMA LeastOf ==
  ASSUME NEW T \in SUBSET Nat, T # {}
  PROVE  \E x \in T : \A y \in T : x <= y
<1> DEFINE R == OpToRel(<, Nat)
<1>1. IsWellFoundedOn(R, Nat)
  BY NatLessThanWellFounded
<1>2. \A x, y \in Nat : y < x => <<y, x>> \in R
  BY DEF OpToRel
<1> HIDE DEF R
<1>3. PICK x \in T : \A y \in T : <<y, x>> \notin R
  BY <1>1, WFMin, Zenon
<1>4. \A y \in T : ~ (y < x)
  BY <1>2, <1>3
<1> QED
  BY <1>4

\* u is s followed by t.
Joins(S, u, s, t) ==
  /\ u \in Seq(S)
  /\ Len(u) = Len(s) + Len(t)
  /\ \A i \in 1 .. Len(s) : u[i] = s[i]
  /\ \A i \in 1 .. Len(t) : u[Len(s) + i] = t[i]

\* Two sequences after one another, element by element.
LEMMA Concatenation ==
  ASSUME NEW S, NEW s \in Seq(S), NEW t \in Seq(S)
  PROVE  Joins(S, s \o t, s, t)
BY DEF Joins

\* Somewhere before its k-th element, s has x.
Before(s, k, x) == \E j \in 1 .. Len(s) : j < k /\ s[j] = x

\* Every element of the parts up to the n-th is in u, after those before it in its
\* own part and all those of the parts before.
InTurn(u, ss, n) ==
  /\ \A i \in 1 .. n : \A l \in 1 .. Len(ss[i]) : \E k \in 1 .. Len(u) : u[k] = ss[i][l]
  /\ \A k \in 1 .. Len(u) : \E i \in 1 .. n : \E l \in 1 .. Len(ss[i]) :
       /\ u[k] = ss[i][l]
       /\ \A h \in 1 .. i - 1 : \A m \in 1 .. Len(ss[h]) : Before(u, k, ss[h][m])
       /\ \A m \in 1 .. l - 1 : Before(u, k, ss[i][m])

\* A sequence follows the order it is given element by element.
LEMMA AppendInTurn ==
  ASSUME NEW S, NEW ss \in Seq(Seq(S)), NEW n \in Nat, n + 1 \in DOMAIN ss,
         NEW u \in Seq(S), InTurn(u, ss, n),
         NEW v, Joins(S, v, u, ss[n + 1])
  PROVE  InTurn(v, ss, n + 1)
<1> DEFINE t == ss[n + 1]
<1>1. t \in Seq(S) /\ Len(t) \in Nat /\ Len(u) \in Nat
  OBVIOUS
<1> HIDE DEF t
<1>2. /\ Len(v) = Len(u) + Len(t)
      /\ \A i \in 1 .. Len(u) : v[i] = u[i]
      /\ \A i \in 1 .. Len(t) : v[Len(u) + i] = t[i]
  BY DEF Joins, t
<1>3. ASSUME NEW i \in 1 .. n + 1, NEW l \in 1 .. Len(ss[i])
      PROVE  \E k \in 1 .. Len(v) : v[k] = ss[i][l]
  <2>1. CASE i = n + 1
    <3>1. l \in 1 .. Len(t) /\ t[l] = ss[i][l]
      BY <2>1 DEF t
    <3>2. Len(u) + l \in 1 .. Len(v) /\ v[Len(u) + l] = t[l]
      BY <3>1, <1>1, <1>2, SMTT(30)
    <3> QED
      BY <3>1, <3>2
  <2>2. CASE i # n + 1
    <3>1. PICK k \in 1 .. Len(u) : u[k] = ss[i][l]
      BY <2>2 DEF InTurn
    <3> QED
      BY <3>1, <1>1, <1>2
  <2> QED
    BY <2>1, <2>2
<1>4. ASSUME NEW k \in 1 .. Len(v)
      PROVE  \E i \in 1 .. n + 1 : \E l \in 1 .. Len(ss[i]) :
               /\ v[k] = ss[i][l]
               /\ \A h \in 1 .. i - 1 : \A m \in 1 .. Len(ss[h]) : Before(v, k, ss[h][m])
               /\ \A m \in 1 .. l - 1 : Before(v, k, ss[i][m])
  <2>1. CASE k <= Len(u)
    <3>1. PICK i \in 1 .. n : \E l \in 1 .. Len(ss[i]) :
               /\ u[k] = ss[i][l]
               /\ \A h \in 1 .. i - 1 : \A m \in 1 .. Len(ss[h]) : Before(u, k, ss[h][m])
               /\ \A m \in 1 .. l - 1 : Before(u, k, ss[i][m])
      <4>1. k \in 1 .. Len(u)
        BY <2>1, <1>1
      <4> QED
        BY <4>1, Zenon DEF InTurn
    <3>2. \A x : Before(u, k, x) => Before(v, k, x)
      BY <2>1, <1>1, <1>2 DEF Before
    <3>3. v[k] = u[k] /\ i \in 1 .. n + 1
      BY <2>1, <1>1, <1>2
    <3> QED
      BY <3>1, <3>2, <3>3
  <2>2. CASE ~ (k <= Len(u))
    <3>1. k - Len(u) \in 1 .. Len(t) /\ v[k] = t[k - Len(u)]
      <4>1. k \in Nat /\ k <= Len(u) + Len(t)
        BY <1>1, <1>2
      <4>2. k - Len(u) \in 1 .. Len(t) /\ Len(u) + (k - Len(u)) = k
        BY <2>2, <4>1, <1>1
      <4> QED
        BY <4>2, <1>2
    <3>2. ASSUME NEW h \in 1 .. n, NEW m \in 1 .. Len(ss[h])
          PROVE  Before(v, k, ss[h][m])
      <4>1. PICK j \in 1 .. Len(u) : u[j] = ss[h][m]
        BY DEF InTurn
      <4> QED
        BY <4>1, <2>2, <1>1, <1>2 DEF Before
    <3>3. n + 1 \in 1 .. n + 1 /\ (n + 1) - 1 = n
      OBVIOUS
    <3>4. ASSUME NEW m \in 1 .. (k - Len(u)) - 1 PROVE Before(v, k, t[m])
      <4>1. Len(u) + m \in 1 .. Len(v) /\ Len(u) + m < k /\ m \in 1 .. Len(t)
        BY <3>1, <1>1, <1>2
      <4> QED
        BY <4>1, <1>2 DEF Before
    <3> QED
      BY <3>1, <3>2, <3>3, <3>4 DEF t
  <2> QED
    BY <2>1, <2>2
<1> QED
  BY <1>3, <1>4 DEF InTurn

\* The parts put together, one after the other.
Flat(f, ss, n) == f = [i \in 1 .. n |-> IF i = 1 THEN ss[i] ELSE f[i - 1] \o ss[i]]

\* There is a function that flattens as FlattenSeq does, length by length.
LEMMA FlatExists ==
  ASSUME NEW ss, NEW n \in Nat \ {0}
  PROVE  \E f : Flat(f, ss, n)
<1> DEFINE T == {m \in Nat \ {0} : ~ \E f : Flat(f, ss, m)}
<1>1. \E f : Flat(f, ss, 1)
  <2> DEFINE f == [i \in 1 .. 1 |-> ss[1]]
  <2>1. Flat(f, ss, 1)
    BY DEF Flat
  <2> QED
    BY <2>1
<1>2. ASSUME NEW m \in Nat \ {0}, \E f : Flat(f, ss, m)
      PROVE  \E f : Flat(f, ss, m + 1)
  <2>1. PICK f : Flat(f, ss, m)
    BY <1>2
  <2> DEFINE g == [i \in 1 .. m + 1 |-> IF i = m + 1 THEN f[m] \o ss[i] ELSE f[i]]
  <2>2. /\ DOMAIN g = 1 .. m + 1
        /\ \A i \in 1 .. m : g[i] = f[i]
        /\ g[m + 1] = f[m] \o ss[m + 1]
    <3>1. m + 1 \in 1 .. m + 1 /\ \A i \in 1 .. m : i \in 1 .. m + 1 /\ i # m + 1
      OBVIOUS
    <3>2. g[m + 1] = f[m] \o ss[m + 1]
      BY <3>1
    <3>3. \A i \in 1 .. m : g[i] = f[i]
      BY <3>1
    <3> QED
      BY <3>2, <3>3
  <2>3. \A i \in 1 .. m : f[i] = IF i = 1 THEN ss[i] ELSE f[i - 1] \o ss[i]
    BY <2>1 DEF Flat
  <2>4. g = [i \in 1 .. m + 1 |-> g[i]]
    OBVIOUS
  <2> HIDE DEF g
  <2>5. \A i \in 1 .. m + 1 : g[i] = IF i = 1 THEN ss[i] ELSE g[i - 1] \o ss[i]
    <3> SUFFICES ASSUME NEW i \in 1 .. m + 1
                 PROVE  g[i] = IF i = 1 THEN ss[i] ELSE g[i - 1] \o ss[i]
      OBVIOUS
    <3>1. CASE i = m + 1
      <4>1. m + 1 # 1 /\ (m + 1) - 1 = m /\ m \in 1 .. m
        OBVIOUS
      <4>2. g[(m + 1) - 1] = f[m]
        BY <4>1, <2>2
      <4> QED
        BY <3>1, <4>1, <4>2, <2>2
    <3>2. CASE i = 1
      BY <3>2, <2>2, <2>3
    <3>3. CASE i # 1 /\ i # m + 1
      <4>1. i \in 1 .. m /\ i - 1 \in 1 .. m
        BY <3>3
      <4>2. f[i] = f[i - 1] \o ss[i]
        BY <4>1, <3>3, <2>3
      <4> QED
        BY <4>1, <4>2, <3>3, <2>2
    <3> QED
      BY <3>1, <3>2, <3>3
  <2>6. Flat(g, ss, m + 1)
    BY <2>4, <2>5 DEF Flat
  <2> QED
    BY <2>6
<1>3. T = {}
  <2> SUFFICES ASSUME T # {} PROVE FALSE
    OBVIOUS
  <2>1. T \in SUBSET Nat
    OBVIOUS
  <2>2. PICK x \in T : \A y \in T : x <= y
    BY <2>1, LeastOf, Zenon
  <2>3. x \in Nat \ {0} /\ x # 1 /\ ~ \E f : Flat(f, ss, x)
    BY <1>1, <2>2
  <2>4. x - 1 \in Nat \ {0} /\ (x - 1) + 1 = x
    BY <2>3
  <2>5. x - 1 \notin T
    BY <2>2, <2>4
  <2>6. \E f : Flat(f, ss, x - 1)
    BY <2>4, <2>5
  <2> QED
    BY <1>2, <2>3, <2>4, <2>6
<1> QED
  BY <1>3

\* Where an element of a flattened sequence comes from, and that those of an
\* earlier sequence come first.
LEMMA Flattened ==
  ASSUME NEW S, NEW ss \in Seq(Seq(S)), Len(ss) # 0
  PROVE  FlattenSeq(ss) \in Seq(S) /\ InTurn(FlattenSeq(ss), ss, Len(ss))
<1> DEFINE F == CHOOSE f : Flat(f, ss, Len(ss))
           Good(i) == F[i] \in Seq(S) /\ InTurn(F[i], ss, i)
           T == {i \in 1 .. Len(ss) : ~Good(i)}
<1>1. FlattenSeq(ss) = F[Len(ss)]
  BY DEF FlattenSeq, Flat
<1>2. \A i \in 1 .. Len(ss) : F[i] = IF i = 1 THEN ss[i] ELSE F[i - 1] \o ss[i]
  <2>1. Len(ss) \in Nat \ {0}
    OBVIOUS
  <2>2. \E f : Flat(f, ss, Len(ss))
    BY <2>1, FlatExists, Zenon
  <2>3. Flat(F, ss, Len(ss))
    BY <2>2, Zenon
  <2> HIDE DEF F
  <2> QED
    BY <2>3 DEF Flat
<1> HIDE DEF F
<1>3. Good(1)
  <2> DEFINE u == ss[1]
  <2>1. F[1] = u /\ u \in Seq(S)
    BY <1>2
  <2>2. \A i \in 1 .. 1 : i = 1
    OBVIOUS
  <2>3. ASSUME NEW k \in 1 .. Len(u), NEW m \in 1 .. k - 1
        PROVE  Before(u, k, u[m])
    <3>1. m \in 1 .. Len(u) /\ m < k
      BY <2>1
    <3> QED
      BY <3>1 DEF Before
  <2>4. ASSUME NEW k \in 1 .. Len(u)
        PROVE  \E i \in 1 .. 1 : \E l \in 1 .. Len(ss[i]) :
                 /\ u[k] = ss[i][l]
                 /\ \A h \in 1 .. i - 1 : \A m \in 1 .. Len(ss[h]) : Before(u, k, ss[h][m])
                 /\ \A m \in 1 .. l - 1 : Before(u, k, ss[i][m])
    <3>1. 1 \in 1 .. 1 /\ \A h \in 1 .. 1 - 1 : FALSE
      OBVIOUS
    <3> QED
      BY <2>3, <3>1, Zenon
  <2>5. \A i \in 1 .. 1 : \A l \in 1 .. Len(ss[i]) : \E k \in 1 .. Len(u) : u[k] = ss[i][l]
    BY <2>2, Zenon
  <2>6. InTurn(u, ss, 1)
    BY <2>4, <2>5, Zenon DEF InTurn
  <2> QED
    BY <2>1, <2>6
<1>4. ASSUME NEW n \in Nat, n + 1 \in 1 .. Len(ss), n # 0, Good(n)
      PROVE  Good(n + 1)
  <2>1. F[n + 1] = F[n] \o ss[n + 1] /\ ss[n + 1] \in Seq(S)
    <3>1. n + 1 # 1 /\ (n + 1) - 1 = n /\ n + 1 \in DOMAIN ss
      BY <1>4
    <3>2. F[n + 1] = F[(n + 1) - 1] \o ss[n + 1]
      BY <3>1, <1>2, <1>4
    <3> QED
      BY <3>1, <3>2
  <2>2. Joins(S, F[n + 1], F[n], ss[n + 1])
    BY <1>4, <2>1, Concatenation, Zenon
  <2>3. n + 1 \in DOMAIN ss
    BY <1>4
  <2>4. InTurn(F[n + 1], ss, n + 1)
    BY <1>4, <2>2, <2>3, AppendInTurn, Zenon
  <2> QED
    BY <2>2, <2>4 DEF Joins
<1> HIDE DEF Good
<1>5. T = {}
  <2> SUFFICES ASSUME T # {} PROVE FALSE
    OBVIOUS
  <2>1. T \in SUBSET Nat
    OBVIOUS
  <2>2. PICK x \in T : \A y \in T : x <= y
    BY <2>1, LeastOf, Zenon
  <2>3. x # 1 /\ x \in 1 .. Len(ss) /\ ~Good(x)
    BY <1>3, <2>2
  <2>4. Good(x - 1)
    BY <2>2, <2>3
  <2> QED
    BY <1>4, <2>3, <2>4
<1> QED
  BY <1>1, <1>5 DEF Good

\* A finite set as a sequence: each of its members, once.
LEMMA SetAsSeq ==
  ASSUME NEW S, IsFiniteSet(S)
  PROVE  /\ SetToSeq(S) \in [1 .. Cardinality(S) -> S] /\ Cardinality(S) \in Nat
         /\ \A x \in S : \E i \in 1 .. Cardinality(S) : SetToSeq(S)[i] = x
<1> DEFINE D == 1 .. Cardinality(S)
           f == SetToSeq(S)
<1>1. Cardinality(S) \in Nat /\ Injection(D, S) # {}
  BY FS_CardinalityType DEF ExistsBijection, Bijection
<1>2. f \in Injection(D, S)
  BY <1>1 DEF Injection, SetToSeq
<1>3. Cardinality(D) = Cardinality(S)
  BY <1>1, FS_Interval
<1> HIDE DEF D, f
<1>4. f \in Surjection(D, S)
  BY <1>2, <1>3, FS_Injection
<1>5. f \in [D -> S] /\ \A x \in S : \E i \in D : f[i] = x
  BY <1>4 DEF Surjection
<1> QED
  BY <1>1, <1>5 DEF D, f

ExtractWords == {<<"dataset">>} \cup {<<"split", u>> : u \in Users}
                \cup {<<"store", n, w>> : n \in Nodes, w \in 1 .. Windows}

\* What an extraction does, step by step.
LEMMA WordsOfExtract ==
  /\ <<"dataset">> \in ExtractWords
  /\ \A u \in Users : <<"split", u>> \in ExtractWords
  /\ \A n \in Nodes, w \in 1 .. Windows : <<"store", n, w>> \in ExtractWords
BY DEF ExtractWords

\* The rows of a window are all its rows, the root's first.
LEMMA WindowRows ==
  ASSUME NEW w \in 1 .. Windows
  PROVE  /\ RowsOf(w) \in Seq(ExtractWords) /\ Len(RowsOf(w)) # 0
         /\ \A l \in 1 .. Len(RowsOf(w)) : \E n \in Nodes : RowsOf(w)[l] = <<"store", n, w>>
         /\ \A n \in Nodes : \E l \in 1 .. Len(RowsOf(w)) : RowsOf(w)[l] = <<"store", n, w>>
         /\ RowsOf(w)[1] = <<"store", "root", w>>
<1> DEFINE N == Cardinality(Users)
           s == <<<<"store", "root", w>>>>
           t == [i \in 1 .. N |-> <<"store", SetToSeq(Users)[i], w>>]
<1>1. /\ SetToSeq(Users) \in [1 .. N -> Users] /\ N \in Nat
      /\ \A u \in Users : \E i \in 1 .. N : SetToSeq(Users)[i] = u
  BY SetAsSeq, ServiceAssumption, Zenon
<1> HIDE DEF N
<1>2. /\ s \in Seq(ExtractWords) /\ Len(s) = 1 /\ s[1] = <<"store", "root", w>>
  BY DEF ExtractWords, Nodes
<1>3. \A i \in 1 .. N : /\ t[i] = <<"store", SetToSeq(Users)[i], w>>
                        /\ SetToSeq(Users)[i] \in Users
  BY <1>1
<1>4. t \in Seq(ExtractWords) /\ Len(t) = N
  <2>1. \A i \in 1 .. N : <<"store", SetToSeq(Users)[i], w>> \in ExtractWords
    BY <1>3, WordsOfExtract DEF Nodes
  <2>2. t \in [1 .. N -> ExtractWords]
    BY <2>1
  <2> QED
    BY <2>2, <1>1
<1> HIDE DEF s, t
<1>5. Joins(ExtractWords, RowsOf(w), s, t)
  BY <1>2, <1>4, Concatenation, Zenon DEF RowsOf, s, t, N
<1>6. /\ RowsOf(w) \in Seq(ExtractWords) /\ Len(RowsOf(w)) = 1 + N
      /\ RowsOf(w)[1] = <<"store", "root", w>>
      /\ \A i \in 1 .. N : RowsOf(w)[1 + i] = <<"store", SetToSeq(Users)[i], w>>
  <2>1. RowsOf(w) \in Seq(ExtractWords) /\ Len(RowsOf(w)) = Len(s) + Len(t)
    BY <1>5 DEF Joins
  <2>2. Len(RowsOf(w)) = 1 + N
    BY <2>1, <1>2, <1>4
  <2>3. RowsOf(w)[1] = s[1]
    BY <1>2, <1>5 DEF Joins
  <2>4. \A i \in 1 .. N : RowsOf(w)[1 + i] = t[i]
    BY <1>2, <1>4, <1>5 DEF Joins
  <2> QED
    BY <2>1, <2>2, <2>3, <2>4, <1>2, <1>3
<1>7. ASSUME NEW l \in 1 .. Len(RowsOf(w))
      PROVE  \E n \in Nodes : RowsOf(w)[l] = <<"store", n, w>>
  <2>1. CASE l = 1
    BY <2>1, <1>6 DEF Nodes
  <2>2. CASE l # 1
    <3>1. l - 1 \in 1 .. N /\ 1 + (l - 1) = l
      BY <2>2, <1>1, <1>6
    <3> QED
      BY <3>1, <1>3, <1>6 DEF Nodes
  <2> QED
    BY <2>1, <2>2
<1>8. ASSUME NEW n \in Nodes
      PROVE  \E l \in 1 .. Len(RowsOf(w)) : RowsOf(w)[l] = <<"store", n, w>>
  <2>1. CASE n = "root"
    <3>1. 1 \in 1 .. Len(RowsOf(w))
      BY <1>1, <1>6
    <3> QED
      BY <2>1, <3>1, <1>6
  <2>2. CASE n \in Users
    <3>1. PICK i \in 1 .. N : SetToSeq(Users)[i] = n
      BY <2>2, <1>1
    <3>2. 1 + i \in 1 .. Len(RowsOf(w))
      BY <1>1, <1>6
    <3> QED
      BY <3>1, <3>2, <1>6
  <2> QED
    BY <2>1, <2>2 DEF Nodes
<1>9. Len(RowsOf(w)) # 0
  BY <1>1, <1>6
<1> QED
  BY <1>6, <1>7, <1>8, <1>9

\* Its rows,
LEMMA RowsOfAWindow ==
  ASSUME NEW w \in 1 .. Windows
  PROVE  /\ RowsOf(w) \in Seq(ExtractWords) /\ Len(RowsOf(w)) # 0
         /\ \A l \in 1 .. Len(RowsOf(w)) : \E n \in Nodes : RowsOf(w)[l] = <<"store", n, w>>
         /\ \A n \in Nodes : \E l \in 1 .. Len(RowsOf(w)) : RowsOf(w)[l] = <<"store", n, w>>
BY WindowRows, Zenon

\* and their first.
LEMMA RootFirst ==
  ASSUME NEW w \in 1 .. Windows
  PROVE  RowsOf(w)[1] = <<"store", "root", w>>
BY WindowRows, Zenon

\* In the steps of an extraction, the files of the users come before all rows,
\* the rows of a window before those of the next, the root's before the others,
\* and the dataset comes last.
LEMMA ExtractOrder ==
  /\ ExtractSteps \in Seq(ExtractWords) /\ Len(ExtractSteps) # 0
  /\ \A k \in 1 .. Len(ExtractSteps), n \in Nodes, w \in 1 .. Windows :
       ExtractSteps[k] = <<"store", n, w>> =>
         /\ \A u \in Users : Before(ExtractSteps, k, <<"split", u>>)
         /\ \A m \in Nodes, v \in 1 .. w - 1 : Before(ExtractSteps, k, <<"store", m, v>>)
         /\ n # "root" => Before(ExtractSteps, k, <<"store", "root", w>>)
  /\ ExtractSteps[Len(ExtractSteps)] = <<"dataset">>
  /\ \A k \in 1 .. Len(ExtractSteps) :
       ExtractSteps[k] = <<"dataset">> =>
         \A m \in Nodes, v \in 1 .. Windows : Before(ExtractSteps, k, <<"store", m, v>>)
<1> DEFINE N == Cardinality(Users)
           a == [i \in 1 .. N |-> <<"split", SetToSeq(Users)[i]>>]
           ss == [w \in 1 .. Windows |-> RowsOf(w)]
           b == FlattenSeq(ss)
           c == <<<<"dataset">>>>
           ab == a \o b
           e == ab \o c
           W == ExtractWords
<1>0. ExtractSteps = e
  BY Zenon DEF ExtractSteps
<1>1. /\ SetToSeq(Users) \in [1 .. N -> Users] /\ N \in Nat
      /\ \A u \in Users : \E i \in 1 .. N : SetToSeq(Users)[i] = u
  BY SetAsSeq, ServiceAssumption, Zenon
<1> HIDE DEF N
<1>2. \A i \in 1 .. N : /\ a[i] = <<"split", SetToSeq(Users)[i]>>
                        /\ SetToSeq(Users)[i] \in Users
  BY <1>1
<1>3. a \in Seq(W) /\ Len(a) = N
  <2>1. \A i \in 1 .. N : <<"split", SetToSeq(Users)[i]>> \in W
    BY <1>2, WordsOfExtract
  <2>2. a \in [1 .. N -> W]
    BY <2>1
  <2> QED
    BY <2>2, <1>1
<1> HIDE DEF a
<1>4. Windows \in Nat \ {0}
  BY ServiceAssumption
<1>5. ss \in Seq(Seq(W)) /\ Len(ss) = Windows /\ \A w \in 1 .. Windows : ss[w] = RowsOf(w)
  <2>1. \A w \in 1 .. Windows : RowsOf(w) \in Seq(W)
    BY RowsOfAWindow, Zenon
  <2>2. ss \in [1 .. Windows -> Seq(W)]
    BY <2>1
  <2> QED
    BY <2>2, <1>4
<1> HIDE DEF ss
<1>6. b \in Seq(W) /\ InTurn(b, ss, Windows)
  <2>1. Len(ss) # 0
    BY <1>4, <1>5
  <2> QED
    BY <2>1, <1>5, Flattened, Zenon
<1> HIDE DEF b
<1>7. /\ \A k \in 1 .. Len(b) : \E w \in 1 .. Windows : \E n \in Nodes :
           /\ b[k] = <<"store", n, w>>
           /\ \A v \in 1 .. w - 1 : \A m \in Nodes : Before(b, k, <<"store", m, v>>)
           /\ n # "root" => Before(b, k, <<"store", "root", w>>)
      /\ \A w \in 1 .. Windows : \A n \in Nodes : \E k \in 1 .. Len(b) : b[k] = <<"store", n, w>>
  <2>1. ASSUME NEW k \in 1 .. Len(b)
        PROVE  \E w \in 1 .. Windows : \E n \in Nodes :
                 /\ b[k] = <<"store", n, w>>
                 /\ \A v \in 1 .. w - 1 : \A m \in Nodes : Before(b, k, <<"store", m, v>>)
                 /\ n # "root" => Before(b, k, <<"store", "root", w>>)
    <3>1. PICK w \in 1 .. Windows : \E l \in 1 .. Len(ss[w]) :
             /\ b[k] = ss[w][l]
             /\ \A h \in 1 .. w - 1 : \A m \in 1 .. Len(ss[h]) : Before(b, k, ss[h][m])
             /\ \A m \in 1 .. l - 1 : Before(b, k, ss[w][m])
      BY <1>6, Zenon DEF InTurn
    <3>l. PICK l \in 1 .. Len(ss[w]) : /\ b[k] = ss[w][l]
                                       /\ \A m \in 1 .. l - 1 : Before(b, k, ss[w][m])
      BY <3>1, Zenon
    <3>w. ss[w] = RowsOf(w)
      BY <1>5
    <3>2. PICK n \in Nodes : b[k] = <<"store", n, w>>
      <4>1. l \in 1 .. Len(RowsOf(w)) /\ b[k] = RowsOf(w)[l]
        BY <3>l, <3>w, Zenon
      <4> QED
        BY <4>1, RowsOfAWindow, Zenon
    <3>r. ASSUME n # "root" PROVE Before(b, k, <<"store", "root", w>>)
      <4>1. ss[w][1] = <<"store", "root", w>>
        BY <3>w, RootFirst, Zenon
      <4>2. l # 1
        <5>1. CASE l = 1
          <6>1. <<"store", n, w>> = <<"store", "root", w>>
            BY <3>l, <3>2, <4>1, <5>1, Zenon
          <6> QED
            BY <6>1, <3>r
        <5> QED
          BY <5>1
      <4>3. 1 \in 1 .. l - 1
        BY <4>2
      <4> QED
        BY <3>l, <4>1, <4>3, Zenon
    <3>3. ASSUME NEW v \in 1 .. w - 1, NEW m \in Nodes
          PROVE  Before(b, k, <<"store", m, v>>)
      <4>1. v \in 1 .. Windows
        BY <1>4
      <4>2. PICK j \in 1 .. Len(ss[v]) : ss[v][j] = <<"store", m, v>>
        BY <4>1, <1>5, RowsOfAWindow, Zenon
      <4> QED
        BY <3>1, <4>2, Zenon
    <3> QED
      BY <3>2, <3>3, <3>r
  <2>2. ASSUME NEW w \in 1 .. Windows, NEW n \in Nodes
        PROVE  \E k \in 1 .. Len(b) : b[k] = <<"store", n, w>>
    <3>1. PICK l \in 1 .. Len(ss[w]) : ss[w][l] = <<"store", n, w>>
      BY <1>5, RowsOfAWindow, Zenon
    <3>2. PICK k \in 1 .. Len(b) : b[k] = ss[w][l]
      BY <1>6, Zenon DEF InTurn
    <3> QED
      BY <3>1, <3>2
  <2> QED
    BY <2>1, <2>2
<1>8. /\ ab \in Seq(W) /\ Len(ab) = N + Len(b)
      /\ \A i \in 1 .. N : ab[i] = a[i]
      /\ \A i \in 1 .. Len(b) : ab[N + i] = b[i]
  <2>1. Joins(W, ab, a, b)
    BY <1>3, <1>6, Concatenation, Zenon
  <2> HIDE DEF ab
  <2> QED
    BY <2>1, <1>3 DEF Joins
<1> HIDE DEF ab
<1>9. /\ e \in Seq(W) /\ Len(e) = Len(ab) + 1
      /\ \A i \in 1 .. Len(ab) : e[i] = ab[i]
      /\ e[Len(ab) + 1] = <<"dataset">>
  <2>1. c \in Seq(W) /\ Len(c) = 1 /\ c[1] = <<"dataset">>
    BY DEF ExtractWords
  <2> HIDE DEF c
  <2>2. Joins(W, e, ab, c)
    BY <2>1, <1>8, Concatenation, Zenon
  <2> HIDE DEF e
  <2> QED
    BY <2>1, <2>2 DEF Joins
<1> HIDE DEF e
<1>l. Len(b) \in Nat /\ Len(e) = N + Len(b) + 1
  BY <1>1, <1>6, <1>8, <1>9
<1>10. /\ \A i \in 1 .. N : e[i] = <<"split", SetToSeq(Users)[i]>>
       /\ \A i \in 1 .. Len(b) : e[N + i] = b[i]
       /\ e[N + Len(b) + 1] = <<"dataset">>
  <2>1. ASSUME NEW i \in 1 .. N PROVE e[i] = <<"split", SetToSeq(Users)[i]>>
    <3>1. ab[i] = a[i] /\ a[i] = <<"split", SetToSeq(Users)[i]>>
      BY <1>2, <1>8, Zenon
    <3>2. i \in 1 .. Len(ab)
      BY <1>1, <1>8, <1>l
    <3>3. e[i] = ab[i]
      BY <3>2, <1>9, Zenon
    <3> QED
      BY <3>1, <3>3, Zenon
  <2>2. ASSUME NEW i \in 1 .. Len(b) PROVE e[N + i] = b[i]
    <3>1. N + i \in 1 .. Len(ab)
      BY <1>1, <1>8, <1>l
    <3> QED
      BY <3>1, <1>8, <1>9
  <2> QED
    BY <2>1, <2>2, <1>8, <1>9
<1>11. ASSUME NEW k \in 1 .. Len(e), NEW n \in Nodes, NEW w \in 1 .. Windows,
              e[k] = <<"store", n, w>>
       PROVE  /\ \A u \in Users : Before(e, k, <<"split", u>>)
              /\ \A m \in Nodes, v \in 1 .. w - 1 : Before(e, k, <<"store", m, v>>)
              /\ n # "root" => Before(e, k, <<"store", "root", w>>)
  <2>1. k > N
    <3>1. CASE k \in 1 .. N
      BY <3>1, <1>10, <1>11
    <3> QED
      BY <3>1, <1>1
  <2>2. k - N \in 1 .. Len(b) /\ e[k] = b[k - N] /\ N + (k - N) = k
    <3>1. k # N + Len(b) + 1
      BY <1>10, <1>11
    <3>2. k - N \in 1 .. Len(b) /\ N + (k - N) = k
      BY <2>1, <3>1, <1>1, <1>l
    <3> QED
      BY <3>2, <1>10
  <2>3. ASSUME NEW u \in Users PROVE Before(e, k, <<"split", u>>)
    <3>1. PICK i \in 1 .. N : SetToSeq(Users)[i] = u
      BY <1>1
    <3>2. i \in 1 .. Len(e) /\ i < k /\ e[i] = <<"split", u>>
      BY <3>1, <2>1, <1>1, <1>10, <1>l
    <3> QED
      BY <3>2 DEF Before
  <2>b. ASSUME NEW x, Before(b, k - N, x) PROVE Before(e, k, x)
    <3>1. PICK j \in 1 .. Len(b) : j < k - N /\ b[j] = x
      BY <2>b DEF Before
    <3>2. N + j \in 1 .. Len(e) /\ N + j < k /\ e[N + j] = x
      BY <3>1, <1>1, <1>10, <1>l
    <3> QED
      BY <3>2 DEF Before
  <2>4. ASSUME NEW m \in Nodes, NEW v \in 1 .. w - 1
        PROVE  Before(e, k, <<"store", m, v>>)
    <3>1. Before(b, k - N, <<"store", m, v>>)
      <4>1. PICK x \in 1 .. Windows : \E y \in Nodes :
               /\ b[k - N] = <<"store", y, x>>
               /\ \A h \in 1 .. x - 1 : \A z \in Nodes : Before(b, k - N, <<"store", z, h>>)
        BY <2>2, <1>7, Zenon
      <4>2. x = w
        BY <4>1, <2>2, <1>11
      <4> QED
        BY <4>1, <4>2, Zenon
    <3> QED
      BY <3>1, <2>b, Zenon
  <2>5. ASSUME n # "root" PROVE Before(e, k, <<"store", "root", w>>)
    <3>1. PICK x \in 1 .. Windows, y \in Nodes :
             /\ b[k - N] = <<"store", y, x>>
             /\ y # "root" => Before(b, k - N, <<"store", "root", x>>)
      BY <2>2, <1>7, Zenon
    <3>e. <<"store", y, x>> = <<"store", n, w>>
      BY <3>1, <2>2, <1>11, Zenon
    <3>x. x = w /\ y = n
      BY <3>e
    <3>2. x = w /\ Before(b, k - N, <<"store", "root", x>>)
      BY <3>1, <3>x, <2>5, Zenon
    <3> QED
      BY <3>2, <2>b, Zenon
  <2> QED
    BY <2>3, <2>4, <2>5
<1>12. ASSUME NEW k \in 1 .. Len(e), e[k] = <<"dataset">>, NEW m \in Nodes, NEW v \in 1 .. Windows
       PROVE  Before(e, k, <<"store", m, v>>)
  <2>1. k = N + Len(b) + 1
    <3>1. CASE k \in 1 .. N
      BY <3>1, <1>10, <1>12
    <3>2. CASE k - N \in 1 .. Len(b)
      <4>1. e[N + (k - N)] = b[k - N] /\ N + (k - N) = k
        BY <3>2, <1>1, <1>10
      <4>2. PICK x \in 1 .. Windows, y \in Nodes : b[k - N] = <<"store", y, x>>
        BY <3>2, <1>7, Zenon
      <4>3. <<"dataset">> = <<"store", y, x>>
        BY <4>1, <4>2, <1>12, Zenon
      <4> QED
        BY <4>3
    <3> QED
      BY <3>1, <3>2, <1>1, <1>l
  <2>2. PICK j \in 1 .. Len(b) : b[j] = <<"store", m, v>>
    BY <1>7
  <2>3. N + j \in 1 .. Len(e) /\ N + j < k /\ e[N + j] = <<"store", m, v>>
    BY <2>1, <2>2, <1>1, <1>10, <1>l
  <2> QED
    BY <2>3 DEF Before
<1>13. e \in Seq(W) /\ Len(e) # 0 /\ e[Len(e)] = <<"dataset">>
  BY <1>1, <1>9, <1>l
<1> QED
  BY <1>0, <1>11, <1>12, <1>13

\* What a step of a transform, an export or a fetch is called.
Words ==
  {<<x>> : x \in {"row", "leaves", "cached", "upsert", "find"}}
  \cup {<<x, d>> : x \in {"join", "joined", "rewrite", "padded", "series", "zip", "copy", "copied"},
                   d \in Dirs}
  \cup {<<x, d, p>> : x \in {"write", "swap"}, d \in Dirs, p \in Passes}

\* s is a list of n steps; u is s, of m steps, followed by t, of n.
Long(s, n) == s \in Seq(Words) /\ Len(s) = n
Follows(u, s, m, t, n) == /\ \A i \in 1 .. m : u[i] = s[i]
                          /\ \A i \in 1 .. n : u[m + i] = t[i]

\* Where the steps of a part lie in the whole.
LEMMA Onwards ==
  ASSUME NEW s, NEW t, NEW m, NEW n, Long(s, m), Long(t, n)
  PROVE  Long(s \o t, m + n) /\ Follows(s \o t, s, m, t, n)
<1>1. Joins(Words, s \o t, s, t)
  BY Concatenation, Zenon DEF Long
<1>2. Len(s) = m /\ Len(t) = n
  BY DEF Long
<1> QED
  BY <1>1, <1>2 DEF Joins, Long, Follows

\* The parts that the operations are put together from.
LEMMA Chunks ==
  ASSUME NEW d \in Dirs, NEW p \in Passes
  PROVE  /\ Long(Join(d), 2)
         /\ Join(d)[1] = <<"join", d>> /\ Join(d)[2] = <<"joined", d>>
         /\ Long(Swap(p, d), 2)
         /\ Swap(p, d)[1] = <<"write", d, p>> /\ Swap(p, d)[2] = <<"swap", d, p>>
         /\ Long(Pad(d), 3)
         /\ Pad(d)[1] = <<"write", d, "pad">> /\ Pad(d)[2] = <<"rewrite", d>>
         /\ Pad(d)[3] = <<"padded", d>>
<1>1. "pad" \in Passes
  BY DEF Passes
<1>2. /\ <<"join", d>> \in Words /\ <<"joined", d>> \in Words
      /\ <<"write", d, p>> \in Words /\ <<"swap", d, p>> \in Words
      /\ <<"write", d, "pad">> \in Words /\ <<"rewrite", d>> \in Words
      /\ <<"padded", d>> \in Words
  BY <1>1 DEF Words
<1> QED
  BY <1>2 DEF Join, Swap, Pad, Long

LEMMA BothChunk ==
  ASSUME NEW p \in Passes
  PROVE  /\ Long(Both(p), 4)
         /\ Both(p)[1] = <<"write", "download", p>> /\ Both(p)[2] = <<"swap", "download", p>>
         /\ Both(p)[3] = <<"write", "upload", p>> /\ Both(p)[4] = <<"swap", "upload", p>>
<1>1. "download" \in Dirs /\ "upload" \in Dirs
  BY DEF Dirs
<1> DEFINE s == Swap(p, "download")  t == Swap(p, "upload")  u == s \o t
<1>2. /\ Long(s, 2) /\ s[1] = <<"write", "download", p>> /\ s[2] = <<"swap", "download", p>>
      /\ Long(t, 2) /\ t[1] = <<"write", "upload", p>> /\ t[2] = <<"swap", "upload", p>>
  BY <1>1, Chunks, Zenon
<1> HIDE DEF s, t
<1>3. Long(u, 2 + 2) /\ Follows(u, s, 2, t, 2)
  BY <1>2, Onwards, Zenon
<1> HIDE DEF u
<1>4. /\ u[1] = <<"write", "download", p>> /\ u[2] = <<"swap", "download", p>>
      /\ u[3] = <<"write", "upload", p>> /\ u[4] = <<"swap", "upload", p>>
  BY <1>2, <1>3 DEF Follows
<1>5. Long(u, 4)
  BY <1>3
<1> QED
  BY <1>4, <1>5, Zenon DEF Both, u, s, t

LEMMA SeriesChunk ==
  /\ Long(Series, 3)
  /\ Series[1] = <<"series", "download">> /\ Series[2] = <<"series", "upload">>
  /\ Series[3] = <<"upsert">>
<1>1. /\ <<"series", "download">> \in Words /\ <<"series", "upload">> \in Words
      /\ <<"upsert">> \in Words
  BY DEF Words, Dirs
<1> QED
  BY <1>1 DEF Series, Long

\* The steps of a transform, and of an export, by number.
LEMMA TransformTable ==
  /\ Len(TransformSteps) = 27
  /\ TransformSteps[1] = <<"row">> /\ TransformSteps[2] = <<"leaves">>
  /\ TransformSteps[3] = <<"join", "download">> /\ TransformSteps[4] = <<"joined", "download">>
  /\ TransformSteps[5] = <<"join", "upload">> /\ TransformSteps[6] = <<"joined", "upload">>
  /\ TransformSteps[7] = <<"write", "download", "clip">>
  /\ TransformSteps[8] = <<"swap", "download", "clip">>
  /\ TransformSteps[9] = <<"write", "upload", "clip">>
  /\ TransformSteps[10] = <<"swap", "upload", "clip">>
  /\ TransformSteps[11] = <<"write", "download", "order">>
  /\ TransformSteps[12] = <<"swap", "download", "order">>
  /\ TransformSteps[13] = <<"write", "upload", "order">>
  /\ TransformSteps[14] = <<"swap", "upload", "order">>
  /\ TransformSteps[15] = <<"write", "download", "pad">>
  /\ TransformSteps[16] = <<"rewrite", "download">>
  /\ TransformSteps[17] = <<"padded", "download">>
  /\ TransformSteps[18] = <<"write", "upload", "pad">>
  /\ TransformSteps[19] = <<"rewrite", "upload">> /\ TransformSteps[20] = <<"padded", "upload">>
  /\ TransformSteps[21] = <<"write", "download", "trim">>
  /\ TransformSteps[22] = <<"swap", "download", "trim">>
  /\ TransformSteps[23] = <<"write", "upload", "trim">>
  /\ TransformSteps[24] = <<"swap", "upload", "trim">>
  /\ TransformSteps[25] = <<"series", "download">> /\ TransformSteps[26] = <<"series", "upload">>
  /\ TransformSteps[27] = <<"upsert">>
<1> DEFINE s1 == <<<<"row">>, <<"leaves">>>>
           s2 == s1 \o Join("download")
           s3 == s2 \o Join("upload")
           s4 == s3 \o Both("clip")
           s5 == s4 \o Both("order")
           s6 == s5 \o Pad("download")
           s7 == s6 \o Pad("upload")
           s8 == s7 \o Both("trim")
           s9 == s8 \o Series
<1>0. TransformSteps = s9
  BY Zenon DEF TransformSteps
<1>d. /\ "download" \in Dirs /\ "upload" \in Dirs /\ "clip" \in Passes /\ "order" \in Passes
      /\ "pad" \in Passes /\ "trim" \in Passes
  BY DEF Dirs, Passes
<1>1. Long(s1, 2) /\ s1[1] = <<"row">> /\ s1[2] = <<"leaves">>
  <2>1. <<"row">> \in Words /\ <<"leaves">> \in Words
    BY DEF Words
  <2> QED
    BY <2>1 DEF Long
<1> HIDE DEF s1
<1>2. Long(s2, 4) /\ Follows(s2, s1, 2, Join("download"), 2)
  <2>1. Long(s2, 2 + 2) /\ Follows(s2, s1, 2, Join("download"), 2)
    BY <1>1, <1>d, Chunks, Onwards, Zenon
  <2> HIDE DEF s2
  <2> QED
    BY <2>1
<1> HIDE DEF s2
<1>3. Long(s3, 6) /\ Follows(s3, s2, 4, Join("upload"), 2)
  <2>1. Long(s3, 4 + 2) /\ Follows(s3, s2, 4, Join("upload"), 2)
    BY <1>2, <1>d, Chunks, Onwards, Zenon
  <2> HIDE DEF s3
  <2> QED
    BY <2>1
<1> HIDE DEF s3
<1>4. Long(s4, 10) /\ Follows(s4, s3, 6, Both("clip"), 4)
  <2>1. Long(s4, 6 + 4) /\ Follows(s4, s3, 6, Both("clip"), 4)
    BY <1>3, <1>d, BothChunk, Onwards, Zenon
  <2> HIDE DEF s4
  <2> QED
    BY <2>1
<1> HIDE DEF s4
<1>5. Long(s5, 14) /\ Follows(s5, s4, 10, Both("order"), 4)
  <2>1. Long(s5, 10 + 4) /\ Follows(s5, s4, 10, Both("order"), 4)
    BY <1>4, <1>d, BothChunk, Onwards, Zenon
  <2> HIDE DEF s5
  <2> QED
    BY <2>1
<1> HIDE DEF s5
<1>6. Long(s6, 17) /\ Follows(s6, s5, 14, Pad("download"), 3)
  <2>1. Long(s6, 14 + 3) /\ Follows(s6, s5, 14, Pad("download"), 3)
    BY <1>5, <1>d, Chunks, Onwards, Zenon
  <2> HIDE DEF s6
  <2> QED
    BY <2>1
<1> HIDE DEF s6
<1>7. Long(s7, 20) /\ Follows(s7, s6, 17, Pad("upload"), 3)
  <2>1. Long(s7, 17 + 3) /\ Follows(s7, s6, 17, Pad("upload"), 3)
    BY <1>6, <1>d, Chunks, Onwards, Zenon
  <2> HIDE DEF s7
  <2> QED
    BY <2>1
<1> HIDE DEF s7
<1>8. Long(s8, 24) /\ Follows(s8, s7, 20, Both("trim"), 4)
  <2>1. Long(s8, 20 + 4) /\ Follows(s8, s7, 20, Both("trim"), 4)
    BY <1>7, <1>d, BothChunk, Onwards, Zenon
  <2> HIDE DEF s8
  <2> QED
    BY <2>1
<1> HIDE DEF s8
<1>9. Long(s9, 27) /\ Follows(s9, s8, 24, Series, 3)
  <2>1. Long(s9, 24 + 3) /\ Follows(s9, s8, 24, Series, 3)
    BY <1>8, <1>d, SeriesChunk, Onwards, Zenon
  <2> HIDE DEF s9
  <2> QED
    BY <2>1
<1> HIDE DEF s9
<1>10. /\ s9[1] = <<"row">> /\ s9[2] = <<"leaves">>
  BY <1>1, <1>2, <1>3, <1>4, <1>5, <1>6, <1>7, <1>8, <1>9 DEF Follows
<1>11. /\ s9[3] = <<"join", "download">> /\ s9[4] = <<"joined", "download">>
  <2>1. /\ Join("download")[1] = <<"join", "download">>
        /\ Join("download")[2] = <<"joined", "download">>
    BY <1>d, Chunks, Zenon
  <2> QED
    BY <2>1, <1>2, <1>3, <1>4, <1>5, <1>6, <1>7, <1>8, <1>9 DEF Follows
<1>12. /\ s9[5] = <<"join", "upload">> /\ s9[6] = <<"joined", "upload">>
  <2>1. Join("upload")[1] = <<"join", "upload">> /\ Join("upload")[2] = <<"joined", "upload">>
    BY <1>d, Chunks, Zenon
  <2> QED
    BY <2>1, <1>3, <1>4, <1>5, <1>6, <1>7, <1>8, <1>9 DEF Follows
<1>13. /\ s9[7] = <<"write", "download", "clip">> /\ s9[8] = <<"swap", "download", "clip">>
      /\ s9[9] = <<"write", "upload", "clip">> /\ s9[10] = <<"swap", "upload", "clip">>
  <2>1. /\ Both("clip")[1] = <<"write", "download", "clip">>
        /\ Both("clip")[2] = <<"swap", "download", "clip">>
        /\ Both("clip")[3] = <<"write", "upload", "clip">>
        /\ Both("clip")[4] = <<"swap", "upload", "clip">>
    BY <1>d, BothChunk, Zenon
  <2> QED
    BY <2>1, <1>4, <1>5, <1>6, <1>7, <1>8, <1>9 DEF Follows
<1>14. /\ s9[11] = <<"write", "download", "order">> /\ s9[12] = <<"swap", "download", "order">>
      /\ s9[13] = <<"write", "upload", "order">> /\ s9[14] = <<"swap", "upload", "order">>
  <2>1. /\ Both("order")[1] = <<"write", "download", "order">>
        /\ Both("order")[2] = <<"swap", "download", "order">>
        /\ Both("order")[3] = <<"write", "upload", "order">>
        /\ Both("order")[4] = <<"swap", "upload", "order">>
    BY <1>d, BothChunk, Zenon
  <2> QED
    BY <2>1, <1>5, <1>6, <1>7, <1>8, <1>9 DEF Follows
<1>15. /\ s9[15] = <<"write", "download", "pad">> /\ s9[16] = <<"rewrite", "download">>
      /\ s9[17] = <<"padded", "download">>
  <2>1. /\ Pad("download")[1] = <<"write", "download", "pad">>
        /\ Pad("download")[2] = <<"rewrite", "download">>
        /\ Pad("download")[3] = <<"padded", "download">>
    BY <1>d, Chunks, Zenon
  <2> QED
    BY <2>1, <1>6, <1>7, <1>8, <1>9 DEF Follows
<1>16. /\ s9[18] = <<"write", "upload", "pad">> /\ s9[19] = <<"rewrite", "upload">>
      /\ s9[20] = <<"padded", "upload">>
  <2>1. /\ Pad("upload")[1] = <<"write", "upload", "pad">>
        /\ Pad("upload")[2] = <<"rewrite", "upload">>
        /\ Pad("upload")[3] = <<"padded", "upload">>
    BY <1>d, Chunks, Zenon
  <2> QED
    BY <2>1, <1>7, <1>8, <1>9 DEF Follows
<1>17. /\ s9[21] = <<"write", "download", "trim">> /\ s9[22] = <<"swap", "download", "trim">>
      /\ s9[23] = <<"write", "upload", "trim">> /\ s9[24] = <<"swap", "upload", "trim">>
  <2>1. /\ Both("trim")[1] = <<"write", "download", "trim">>
        /\ Both("trim")[2] = <<"swap", "download", "trim">>
        /\ Both("trim")[3] = <<"write", "upload", "trim">>
        /\ Both("trim")[4] = <<"swap", "upload", "trim">>
    BY <1>d, BothChunk, Zenon
  <2> QED
    BY <2>1, <1>8, <1>9 DEF Follows
<1>18. /\ s9[25] = <<"series", "download">> /\ s9[26] = <<"series", "upload">>
      /\ s9[27] = <<"upsert">>
  <2>1. /\ Series[1] = <<"series", "download">> /\ Series[2] = <<"series", "upload">>
        /\ Series[3] = <<"upsert">>
    BY <1>d, SeriesChunk, Zenon
  <2> QED
    BY <2>1, <1>9 DEF Follows
<1>l. Len(s9) = 27
  BY <1>9 DEF Long
<1> QED
  BY <1>0, <1>l, <1>10, <1>11, <1>12, <1>13, <1>14, <1>15, <1>16, <1>17, <1>18, Zenon

LEMMA ReplayTable ==
  /\ Len(ReplaySteps) = 11
  /\ ReplaySteps[1] = <<"row">> /\ ReplaySteps[2] = <<"cached">> /\ ReplaySteps[3] = <<"leaves">>
  /\ ReplaySteps[4] = <<"join", "download">> /\ ReplaySteps[5] = <<"joined", "download">>
  /\ ReplaySteps[6] = <<"write", "download", "order">>
  /\ ReplaySteps[7] = <<"swap", "download", "order">> /\ ReplaySteps[8] = <<"join", "upload">>
  /\ ReplaySteps[9] = <<"joined", "upload">> /\ ReplaySteps[10] = <<"write", "upload", "order">>
  /\ ReplaySteps[11] = <<"swap", "upload", "order">>
<1> DEFINE s1 == <<<<"row">>, <<"cached">>, <<"leaves">>>>
           s2 == s1 \o Join("download")
           s3 == s2 \o Swap("order", "download")
           s4 == s3 \o Join("upload")
           s5 == s4 \o Swap("order", "upload")
<1>0. ReplaySteps = s5
  BY Zenon DEF ReplaySteps
<1>d. /\ "download" \in Dirs /\ "upload" \in Dirs /\ "clip" \in Passes /\ "order" \in Passes
      /\ "pad" \in Passes /\ "trim" \in Passes
  BY DEF Dirs, Passes
<1>1. Long(s1, 3) /\ s1[1] = <<"row">> /\ s1[2] = <<"cached">> /\ s1[3] = <<"leaves">>
  <2>1. <<"row">> \in Words /\ <<"cached">> \in Words /\ <<"leaves">> \in Words
    BY DEF Words
  <2> QED
    BY <2>1 DEF Long
<1> HIDE DEF s1
<1>2. Long(s2, 5) /\ Follows(s2, s1, 3, Join("download"), 2)
  <2>1. Long(s2, 3 + 2) /\ Follows(s2, s1, 3, Join("download"), 2)
    BY <1>1, <1>d, Chunks, Onwards, Zenon
  <2> HIDE DEF s2
  <2> QED
    BY <2>1
<1> HIDE DEF s2
<1>3. Long(s3, 7) /\ Follows(s3, s2, 5, Swap("order", "download"), 2)
  <2>1. Long(s3, 5 + 2) /\ Follows(s3, s2, 5, Swap("order", "download"), 2)
    BY <1>2, <1>d, Chunks, Onwards, Zenon
  <2> HIDE DEF s3
  <2> QED
    BY <2>1
<1> HIDE DEF s3
<1>4. Long(s4, 9) /\ Follows(s4, s3, 7, Join("upload"), 2)
  <2>1. Long(s4, 7 + 2) /\ Follows(s4, s3, 7, Join("upload"), 2)
    BY <1>3, <1>d, Chunks, Onwards, Zenon
  <2> HIDE DEF s4
  <2> QED
    BY <2>1
<1> HIDE DEF s4
<1>5. Long(s5, 11) /\ Follows(s5, s4, 9, Swap("order", "upload"), 2)
  <2>1. Long(s5, 9 + 2) /\ Follows(s5, s4, 9, Swap("order", "upload"), 2)
    BY <1>4, <1>d, Chunks, Onwards, Zenon
  <2> HIDE DEF s5
  <2> QED
    BY <2>1
<1> HIDE DEF s5
<1>6. /\ s5[1] = <<"row">> /\ s5[2] = <<"cached">> /\ s5[3] = <<"leaves">>
  BY <1>1, <1>2, <1>3, <1>4, <1>5 DEF Follows
<1>7. /\ s5[4] = <<"join", "download">> /\ s5[5] = <<"joined", "download">>
  <2>1. /\ Join("download")[1] = <<"join", "download">>
        /\ Join("download")[2] = <<"joined", "download">>
    BY <1>d, Chunks, Zenon
  <2> QED
    BY <2>1, <1>2, <1>3, <1>4, <1>5 DEF Follows
<1>8. /\ s5[6] = <<"write", "download", "order">> /\ s5[7] = <<"swap", "download", "order">>
  <2>1. /\ Swap("order", "download")[1] = <<"write", "download", "order">>
        /\ Swap("order", "download")[2] = <<"swap", "download", "order">>
    BY <1>d, Chunks, Zenon
  <2> QED
    BY <2>1, <1>3, <1>4, <1>5 DEF Follows
<1>9. /\ s5[8] = <<"join", "upload">> /\ s5[9] = <<"joined", "upload">>
  <2>1. Join("upload")[1] = <<"join", "upload">> /\ Join("upload")[2] = <<"joined", "upload">>
    BY <1>d, Chunks, Zenon
  <2> QED
    BY <2>1, <1>4, <1>5 DEF Follows
<1>10. /\ s5[10] = <<"write", "upload", "order">> /\ s5[11] = <<"swap", "upload", "order">>
  <2>1. /\ Swap("order", "upload")[1] = <<"write", "upload", "order">>
        /\ Swap("order", "upload")[2] = <<"swap", "upload", "order">>
    BY <1>d, Chunks, Zenon
  <2> QED
    BY <2>1, <1>5 DEF Follows
<1>l. Len(s5) = 11
  BY <1>5 DEF Long
<1> QED
  BY <1>0, <1>l, <1>6, <1>7, <1>8, <1>9, <1>10, Zenon

\* The steps of the operations with a file, each with its number and what it is
\* about.
Joinings == {<<"transform", 3, "download">>, <<"transform", 5, "upload">>,
             <<"replay", 4, "download">>, <<"replay", 8, "upload">>}
Writings == {<<"transform", 7, "download", "clip">>, <<"transform", 9, "upload", "clip">>,
             <<"transform", 11, "download", "order">>, <<"transform", 13, "upload", "order">>,
             <<"transform", 15, "download", "pad">>, <<"transform", 18, "upload", "pad">>,
             <<"transform", 21, "download", "trim">>, <<"transform", 23, "upload", "trim">>,
             <<"replay", 6, "download", "order">>, <<"replay", 10, "upload", "order">>}
Paddings == {<<16, "download">>, <<19, "upload">>}

\* What an operation does at its s-th step, x.
Placed(o, s, x) ==
  /\ x[1] = "row" => o \in Kinds /\ s = 1
  /\ x[1] = "cached" => o = "replay" /\ s = 2
  /\ x[1] = "leaves" => (o = "transform" /\ s = 2) \/ (o = "replay" /\ s = 3)
  /\ x[1] = "join" => <<o, s, x[2]>> \in Joinings
  /\ x[1] = "joined" => <<o, s - 1, x[2]>> \in Joinings
  /\ x[1] = "write" => <<o, s, x[2], x[3]>> \in Writings
  /\ x[1] = "swap" => <<o, s - 1, x[2], x[3]>> \in Writings /\ x[3] # "pad"
  /\ x[1] = "rewrite" => o = "transform" /\ <<s, x[2]>> \in Paddings
  /\ x[1] = "padded" => o = "transform" /\ <<s - 1, x[2]>> \in Paddings
  /\ x[1] = "series" => o = "transform" /\ <<s, x[2]>> \in {<<25, "download">>, <<26, "upload">>}
  /\ x[1] = "upsert" => o = "transform" /\ s = 27
  /\ x[1] = "find" => o = "fetch" /\ s = 1
  /\ x[1] = "zip" => o = "fetch" /\ <<s, x[2]>> \in {<<2, "download">>, <<3, "upload">>}
  /\ x[1] = "copy" => o = "fetch" /\ <<s, x[2]>> \in {<<4, "download">>, <<6, "upload">>}
  /\ x[1] = "copied" => o = "fetch" /\ <<s, x[2]>> \in {<<5, "download">>, <<7, "upload">>}
  /\ x[1] \in {"split", "store", "dataset"} => o = "extract"

\* Every step of an operation is placed so.
LEMMA TransformPlaces ==
  ASSUME NEW s \in 1 .. 27
  PROVE  Placed("transform", s, TransformSteps[s])
<1>1. \/ s = 1 \/ s = 2 \/ s = 3 \/ s = 4 \/ s = 5 \/ s = 6
      \/ s = 7 \/ s = 8 \/ s = 9 \/ s = 10
      \/ s = 11 \/ s = 12 \/ s = 13 \/ s = 14
      \/ s = 15 \/ s = 16 \/ s = 17 \/ s = 18 \/ s = 19 \/ s = 20
      \/ s = 21 \/ s = 22 \/ s = 23 \/ s = 24 \/ s = 25 \/ s = 26 \/ s = 27
  OBVIOUS
<1>7. CASE s = 1 \/ s = 2
  BY <1>7, TransformTable DEF Placed, Joinings, Writings, Paddings, Kinds
<1>2. CASE s = 3 \/ s = 4 \/ s = 5 \/ s = 6
  BY <1>2, TransformTable DEF Placed, Joinings, Writings, Paddings, Kinds
<1>3. CASE s = 7 \/ s = 8 \/ s = 9 \/ s = 10
  BY <1>3, TransformTable DEF Placed, Joinings, Writings, Paddings, Kinds
<1>4. CASE s = 11 \/ s = 12 \/ s = 13 \/ s = 14
  BY <1>4, TransformTable DEF Placed, Joinings, Writings, Paddings, Kinds
<1>5. CASE s = 15 \/ s = 16 \/ s = 17 \/ s = 18 \/ s = 19 \/ s = 20
  BY <1>5, TransformTable DEF Placed, Joinings, Writings, Paddings, Kinds
<1>6. CASE s = 21 \/ s = 22 \/ s = 23 \/ s = 24 \/ s = 25 \/ s = 26 \/ s = 27
  BY <1>6, TransformTable DEF Placed, Joinings, Writings, Paddings, Kinds
<1> QED
  BY <1>1, <1>2, <1>3, <1>4, <1>5, <1>6, <1>7

LEMMA ReplayPlaces ==
  ASSUME NEW s \in 1 .. 11
  PROVE  Placed("replay", s, ReplaySteps[s])
<1>1. \/ s = 1 \/ s = 2 \/ s = 3 \/ s = 4 \/ s = 5 \/ s = 6 \/ s = 7 \/ s = 8 \/ s = 9 \/ s = 10
      \/ s = 11
  OBVIOUS
<1> QED
  BY <1>1, ReplayTable DEF Placed, Joinings, Writings, Paddings, Kinds

LEMMA FetchPlaces == Len(FetchSteps) = 7 /\ \A s \in 1 .. 7 : Placed("fetch", s, FetchSteps[s])
BY DEF FetchSteps, Placed

Active(c) == call[c].op # "idle"
Files == {Absent, Torn} \cup
  [is : {"pcap"}, from : UNION {[S -> Nat] : S \in SUBSET Users}, passes : Seq(Passes)]
CallRecords == [op : Ops \cup {"idle"}, gen : Nat, step : Nat, users : SUBSET Users,
                alone : BOOLEAN, read : [Dirs -> Files]]

\* The call goes on by a step, with the users and the files it has read.
Moved(c, users, read) ==
  /\ call' \in [Calls -> CallRecords]
  /\ \A b \in Calls : b # c => call'[b] = call[b]
  /\ call'[c].op = call[c].op /\ call'[c].gen = call[c].gen
  /\ call'[c].alone = call[c].alone
  /\ call'[c].step = call[c].step + 1
  /\ call'[c].users = users /\ call'[c].read = read

\* The extraction goes on to the row of its dataset.
Jumped(c) ==
  /\ call' \in [Calls -> CallRecords]
  /\ \A b \in Calls : b # c => call'[b] = call[b]
  /\ call[c].op = "extract"
  /\ call'[c].op = call[c].op /\ call'[c].gen = call[c].gen
  /\ call'[c].alone = call[c].alone
  /\ call'[c].step = Len(ExtractSteps)
  /\ call'[c].users = call[c].users /\ call'[c].read = call[c].read

Ended(c) ==
  /\ call' \in [Calls -> CallRecords]
  /\ \A b \in Calls : b # c => call'[b] = call[b]
  /\ call'[c] = Idle

\* What a call may become.
LEMMA IdleIsACall == Idle \in CallRecords
<1>1. Absent \in Files
  BY DEF Files
<1>2. [d \in Dirs |-> Absent] \in [Dirs -> Files]
  BY <1>1
<1>. HIDE DEF Absent
<1> QED
  BY <1>2 DEF Idle, CallRecords

LEMMA GoMoves ==
  ASSUME call \in [Calls -> CallRecords], NEW c \in Calls, call' = Go(c)
  PROVE  /\ AtLast(c) => Ended(c)
         /\ ~AtLast(c) => Moved(c, call[c].users, call[c].read)
<1>1. CASE AtLast(c)
  <2>1. call' = [call EXCEPT ![c] = Idle]
    BY <1>1 DEF Go
  <2> QED
    BY <2>1, <1>1, IdleIsACall DEF Ended
<1>2. CASE ~AtLast(c)
  <2>1. call' = [call EXCEPT ![c].step = call[c].step + 1]
    BY <1>2 DEF Go
  <2> DEFINE r == [call[c] EXCEPT !.step = call[c].step + 1]
  <2>2. call[c] \in CallRecords /\ call[c].step + 1 \in Nat
    BY DEF CallRecords
  <2>3. /\ r \in CallRecords
    BY <2>2 DEF CallRecords
  <2>4. /\ r.op = call[c].op /\ r.gen = call[c].gen /\ r.users = call[c].users
        /\ r.read = call[c].read /\ r.step = call[c].step + 1
    BY <2>2 DEF CallRecords
  <2>5. r.alone = call[c].alone
    BY <2>2, Zenon DEF CallRecords
  <2>6. call' = [call EXCEPT ![c] = r]
    BY <2>1
  <2> HIDE DEF r
  <2>7. /\ call'[c] = r /\ call' \in [Calls -> CallRecords]
        /\ \A b \in Calls : b # c => call'[b] = call[b]
    BY <2>6, <2>3
  <2> QED
    BY <1>2, <2>4, <2>5, <2>7, Zenon DEF Moved
<1> QED
  BY <1>1, <1>2

LEMMA GoWithMoves ==
  ASSUME call \in [Calls -> CallRecords], NEW c \in Calls, NEW read \in [Dirs -> Files],
         call' = GoWith(c, read)
  PROVE  Moved(c, call[c].users, read)
  <2>1. call' = [call EXCEPT ![c].step = call[c].step + 1, ![c].read = read]
    BY DEF GoWith
  <2> DEFINE r == [call[c] EXCEPT !.step = call[c].step + 1, !.read = read]
  <2>2. call[c] \in CallRecords /\ call[c].step + 1 \in Nat
    BY DEF CallRecords
  <2>3. /\ r \in CallRecords
    BY <2>2 DEF CallRecords
  <2>4. /\ r.op = call[c].op /\ r.gen = call[c].gen /\ r.users = call[c].users
        /\ r.read = read /\ r.step = call[c].step + 1
    BY <2>2 DEF CallRecords
  <2>5. r.alone = call[c].alone
    BY <2>2, Zenon DEF CallRecords
  <2>6. call' = [call EXCEPT ![c] = r]
    BY <2>1
  <2> HIDE DEF r
  <2>7. /\ call'[c] = r /\ call' \in [Calls -> CallRecords]
        /\ \A b \in Calls : b # c => call'[b] = call[b]
    BY <2>6, <2>3
  <2> QED
    BY <2>4, <2>5, <2>7, Zenon DEF Moved

LEMMA LeavesMove ==
  ASSUME call \in [Calls -> CallRecords], NEW c \in Calls, NEW users \in SUBSET Users, ~AtLast(c),
         call' = [Go(c) EXCEPT ![c].users = users]
  PROVE  Moved(c, users, call[c].read)
  <2>1. call' = [[call EXCEPT ![c].step = call[c].step + 1] EXCEPT ![c].users = users]
    BY DEF Go
  <2> DEFINE r == [call[c] EXCEPT !.step = call[c].step + 1, !.users = users]
  <2>2. call[c] \in CallRecords /\ call[c].step + 1 \in Nat
    BY DEF CallRecords
  <2>3. /\ r \in CallRecords
    BY <2>2 DEF CallRecords
  <2>4. /\ r.op = call[c].op /\ r.gen = call[c].gen /\ r.users = users
        /\ r.read = call[c].read /\ r.step = call[c].step + 1
    BY <2>2 DEF CallRecords
  <2>5. r.alone = call[c].alone
    BY <2>2, Zenon DEF CallRecords
  <2>6. call' = [call EXCEPT ![c] = r]
    BY <2>1
  <2> HIDE DEF r
  <2>7. /\ call'[c] = r /\ call' \in [Calls -> CallRecords]
        /\ \A b \in Calls : b # c => call'[b] = call[b]
    BY <2>6, <2>3
  <2> QED
    BY <2>4, <2>5, <2>7, Zenon DEF Moved

LEMMA JumpMoves ==
  ASSUME call \in [Calls -> CallRecords], NEW c \in Calls, call[c].op = "extract",
         call' = [call EXCEPT ![c].step = Len(ExtractSteps)]
  PROVE  Jumped(c)
  <2> DEFINE L == Len(ExtractSteps)
             r == [call[c] EXCEPT !.step = L]
  <2>1. L \in Nat
    BY ExtractOrder
  <2>2. call[c] \in CallRecords /\ call' = [call EXCEPT ![c] = r]
    OBVIOUS
  <2> HIDE DEF L
  <2>3. r \in CallRecords
    BY <2>1, <2>2 DEF CallRecords
  <2>4. /\ r.op = call[c].op /\ r.gen = call[c].gen /\ r.users = call[c].users
        /\ r.read = call[c].read /\ r.step = L
    BY <2>2 DEF CallRecords
  <2>5. r.alone = call[c].alone
    BY <2>2, Zenon DEF CallRecords
  <2> HIDE DEF r
  <2>7. /\ call'[c] = r /\ call' \in [Calls -> CallRecords]
        /\ \A b \in Calls : b # c => call'[b] = call[b]
    BY <2>2, <2>3
  <2> QED
    BY <2>4, <2>5, <2>7, Zenon DEF Jumped, L

-----------------------------------------------------------------------------
(***************************************************************************)
(* The type invariant, and the place of a call among its steps.            *)
(***************************************************************************)
TypeOK ==
  /\ row \in [Nodes -> [1 .. Windows -> Nat]] /\ split \in [Users -> Nat] /\ dataset \in Nat
  /\ trow \in [Dirs -> Files] /\ worker \in [Dirs -> Files]
  /\ file \in [Kinds -> [Dirs -> Files]] /\ tmp \in [Passes -> [Kinds -> [Dirs -> Files]]]
  /\ call \in [Calls -> CallRecords]
  /\ \A c \in Calls : Active(c) => call[c].step \in 1 .. Len(StepsOf[call[c].op])
  /\ made \in Nat /\ fails \in Nat /\ extracts \in Nat /\ left \subseteq Nodes \X (1 .. Windows)
  /\ tidy \subseteq {"transform", "replay", "fetch"}

\* A step of a call, once it came in.
Act(c) ==
  \/ SplitUsers(c) \/ NoWindows(c) \/ StoreRoot(c) \/ StoreRow(c) \/ StoreDataset(c)
  \/ FindRow(c) \/ AnswerCached(c) \/ NotCached(c) \/ FindLeaves(c)
  \/ JoinFiles(c) \/ Joined(c)
  \/ WritePass(c) \/ SwapPass(c) \/ Rewrite(c) \/ Padded(c)
  \/ ReadSeries(c) \/ Upsert(c)
  \/ FindTransformed(c) \/ ZipFile(c) \/ Copy(c) \/ Copied(c)
  \/ Fail(c)

\* The steps of each operation; there is always at least one.
LEMMA StepsAre ==
  /\ StepsOf["extract"] = ExtractSteps /\ StepsOf["transform"] = TransformSteps
  /\ StepsOf["replay"] = ReplaySteps /\ StepsOf["fetch"] = FetchSteps
BY DEF StepsOf, Ops

LEMMA SomeStep == \A op \in Ops : Len(StepsOf[op]) \in Nat \ {0}
<1>1. /\ Len(ExtractSteps) \in Nat \ {0} /\ Len(TransformSteps) \in Nat \ {0}
      /\ Len(ReplaySteps) \in Nat \ {0} /\ Len(FetchSteps) \in Nat \ {0}
  <2>1. Len(ExtractSteps) \in Nat \ {0}
    BY ExtractOrder
  <2>2. Len(TransformSteps) = 27 /\ Len(ReplaySteps) = 11 /\ Len(FetchSteps) = 7
    BY TransformTable, ReplayTable, FetchPlaces, Zenon
  <2> QED
    BY <2>1, <2>2
<1> QED
  BY <1>1, StepsAre DEF Ops

\* Where a call is, and what it is about to do.
LEMMA Place ==
  ASSUME TypeOK, NEW c \in Calls, Active(c)
  PROVE  /\ call[c].op \in Ops /\ call[c].step \in Nat
         /\ Placed(call[c].op, call[c].step, At(c))
         /\ call[c].op = "extract" => At(c) \in ExtractWords
         /\ call[c].op = "transform" =>
              call[c].step \in 1 .. 27 /\ (AtLast(c) <=> call[c].step = 27)
         /\ call[c].op = "replay" => call[c].step \in 1 .. 11 /\ (AtLast(c) <=> call[c].step = 11)
         /\ call[c].op = "fetch" => call[c].step \in 1 .. 7 /\ (AtLast(c) <=> call[c].step = 7)
<1>1. /\ call[c].op \in Ops /\ call[c].step \in 1 .. Len(StepsOf[call[c].op])
      /\ call[c].step \in Nat
  BY DEF TypeOK, Active, CallRecords
<1>2. CASE call[c].op = "extract"
  <2>1. At(c) \in ExtractWords
    <3>1. At(c) = ExtractSteps[call[c].step] /\ call[c].step \in 1 .. Len(ExtractSteps)
      BY <1>1, <1>2, StepsAre DEF At
    <3> QED
      BY <3>1, ExtractOrder
  <2>2. Placed("extract", call[c].step, At(c))
    BY <2>1 DEF Placed, ExtractWords
  <2> QED
    BY <1>1, <1>2, <2>1, <2>2
<1>3. CASE call[c].op = "transform"
  <2>1. call[c].step \in 1 .. 27 /\ At(c) = TransformSteps[call[c].step]
    BY <1>1, <1>3, StepsAre, TransformTable DEF At
  <2>2. AtLast(c) <=> call[c].step = 27
    BY <1>3, StepsAre, TransformTable DEF AtLast
  <2>3. Placed("transform", call[c].step, At(c))
    BY <2>1, TransformPlaces, Zenon
  <2> QED
    BY <1>1, <1>3, <2>1, <2>2, <2>3
<1>4. CASE call[c].op = "replay"
  <2>1. call[c].step \in 1 .. 11 /\ At(c) = ReplaySteps[call[c].step]
    BY <1>1, <1>4, StepsAre, ReplayTable DEF At
  <2>2. AtLast(c) <=> call[c].step = 11
    BY <1>4, StepsAre, ReplayTable DEF AtLast
  <2>3. Placed("replay", call[c].step, At(c))
    BY <2>1, ReplayPlaces, Zenon
  <2> QED
    BY <1>1, <1>4, <2>1, <2>2, <2>3
<1>5. CASE call[c].op = "fetch"
  <2>1. call[c].step \in 1 .. 7 /\ At(c) = FetchSteps[call[c].step]
    BY <1>1, <1>5, StepsAre, FetchPlaces DEF At
  <2>2. AtLast(c) <=> call[c].step = 7
    BY <1>5, StepsAre, FetchPlaces DEF AtLast
  <2>3. Placed("fetch", call[c].step, At(c))
    BY <2>1, FetchPlaces, Zenon
  <2> QED
    BY <1>1, <1>5, <2>1, <2>2, <2>3
<1> QED
  BY <1>1, <1>2, <1>3, <1>4, <1>5 DEF Ops

\* A call that came in: it may be alone, and those that it disturbs no longer are.
Begun(c, op) ==
  /\ call' \in [Calls -> CallRecords]
  /\ call'[c].op = op /\ call'[c].step = 1 /\ call'[c].gen = extracts' /\ call'[c].users = {}
  /\ call'[c].alone => \A b \in Calls : Active(b) => ~Disturbs(call[b].op, op)
  /\ \A b \in Calls \ {c} :
       /\ call'[b].op = call[b].op /\ call'[b].step = call[b].step /\ call'[b].gen = call[b].gen
       /\ call'[b].users = call[b].users /\ call'[b].read = call[b].read
       /\ call'[b].alone => call[b].alone /\ (Active(b) => ~Disturbs(op, call[b].op))

\* What a call that comes in changes.
LEMMA StartBegins ==
  ASSUME TypeOK, NEW c \in Calls, NEW op \in Ops, Start(c, op)
  PROVE  Begun(c, op) /\ ~Active(c) /\ extracts' \in Nat /\ (op = "extract" => extracts' # 0)
<1>1. /\ call[c].op = "idle" /\ call \in [Calls -> CallRecords]
      /\ extracts' = extracts + (IF op = "extract" THEN 1 ELSE 0) /\ extracts \in Nat
  BY Zenon DEF Start, TypeOK
<1>2. extracts' \in Nat /\ (op = "extract" => extracts' # 0)
  BY <1>1
<1> DEFINE Beside == {o \in Calls : call[o].op # "idle"}
           alone == \A b \in Beside : ~Disturbs(call[b].op, op)
           r == [Idle EXCEPT !.op = op, !.step = 1, !.gen = extracts', !.alone = alone]
           R(o) == IF o = c THEN r
                   ELSE IF o \in Beside /\ Disturbs(op, call[o].op)
                        THEN [call[o] EXCEPT !.alone = FALSE] ELSE call[o]
<1>3. call' = [o \in Calls |-> R(o)]
  BY Zenon DEF Start
<1>4. /\ r \in CallRecords
      /\ r.op = op /\ r.step = 1 /\ r.gen = extracts' /\ r.users = {}
  <2>1. Idle \in CallRecords
    BY IdleIsACall
  <2> HIDE DEF alone
  <2>2. alone \in BOOLEAN
    BY DEF alone
  <2>3. op \in Ops \cup {"idle"} /\ 1 \in Nat
    OBVIOUS
  <2>4. r \in CallRecords
    BY <2>1, <2>2, <2>3, <1>2, Zenon DEF CallRecords
  <2>5. r.op = op /\ r.step = 1 /\ r.gen = extracts'
    BY <2>1, Zenon DEF CallRecords
  <2>6. r.users = {}
    BY DEF Idle
  <2> QED
    BY <2>4, <2>5, <2>6
<1>5. r.alone => \A b \in Calls : Active(b) => ~Disturbs(call[b].op, op)
  <2>1. r.alone = alone
    BY IdleIsACall, Zenon DEF CallRecords
  <2> QED
    BY <2>1 DEF Active
<1>6. ASSUME NEW b \in Calls \ {c}
      PROVE  /\ R(b) \in CallRecords
             /\ R(b).op = call[b].op /\ R(b).step = call[b].step /\ R(b).gen = call[b].gen
             /\ R(b).users = call[b].users /\ R(b).read = call[b].read
             /\ R(b).alone => call[b].alone /\ (Active(b) => ~Disturbs(op, call[b].op))
  <2>1. call[b] \in CallRecords
    BY <1>1
  <2> HIDE DEF Beside
  <2>2. CASE b \in Beside /\ Disturbs(op, call[b].op)
    <3> DEFINE q == [call[b] EXCEPT !.alone = FALSE]
    <3>1. R(b) = q
      BY <2>2
    <3>2. /\ q \in CallRecords /\ q.op = call[b].op /\ q.step = call[b].step
          /\ q.gen = call[b].gen /\ q.users = call[b].users /\ q.read = call[b].read
      BY <2>1 DEF CallRecords
    <3>3. ~q.alone
      BY <2>1, Zenon DEF CallRecords
    <3> HIDE DEF q, R
    <3> QED
      BY <3>1, <3>2, <3>3
  <2>3. CASE ~(b \in Beside /\ Disturbs(op, call[b].op))
    <3>1. R(b) = call[b]
      BY <2>3
    <3>2. Active(b) => ~Disturbs(op, call[b].op)
      BY <2>3 DEF Active, Beside
    <3> HIDE DEF R
    <3> QED
      BY <2>1, <3>1, <3>2
  <2> QED
    BY <2>2, <2>3
<1>7. R(c) = r
  OBVIOUS
<1> HIDE DEF R, r
<1>8. \A b \in Calls : R(b) \in CallRecords /\ call'[b] = R(b)
  BY <1>3, <1>4, <1>6, <1>7
<1>9. call' \in [Calls -> CallRecords]
  BY <1>3, <1>8
<1> QED
  BY <1>1, <1>2, <1>4, <1>5, <1>6, <1>7, <1>8, <1>9 DEF Begun, Active

-----------------------------------------------------------------------------
(***************************************************************************)
(* How a call goes on.                                                     *)
(***************************************************************************)
\* The call goes on as it is, or answers after its last step.
Goes(c) == /\ AtLast(c) => Ended(c)
           /\ ~AtLast(c) => Moved(c, call[c].users, call[c].read)

Leaves == {u \in Users : row[u][1] # 0}

\* How the call itself goes on, action by action.
LEMMA Courses ==
  ASSUME TypeOK, NEW c \in Calls
  PROVE  /\ Act(c) => Active(c)
         /\ \/ SplitUsers(c) \/ StoreRow(c) \/ StoreDataset(c) \/ FindRow(c) \/ NotCached(c)
            \/ JoinFiles(c) \/ Joined(c) \/ WritePass(c) \/ SwapPass(c) \/ Rewrite(c)
            \/ Padded(c) \/ Upsert(c) \/ FindTransformed(c) \/ Copy(c) \/ Copied(c)
            => Goes(c)
         /\ AnswerCached(c) \/ Fail(c) => Ended(c)
         /\ FindLeaves(c) => Moved(c, Leaves, call[c].read)
         /\ StoreRoot(c) => \E users \in SUBSET Users : Moved(c, users, call[c].read)
         /\ NoWindows(c) => Jumped(c)
         /\ NoWindows(c) \/ StoreRoot(c) => ~AtLast(c)
         /\ ReadSeries(c) \/ ZipFile(c) =>
              ~AtLast(c) /\ Moved(c, call[c].users,
                [call[c].read EXCEPT ![At(c)[2]] = file["transform"][At(c)[2]]])
<1>1. Act(c) => Active(c)
  BY Zenon DEF Act, Active, Doing, SplitUsers, NoWindows, StoreRoot, AtRoot, StoreRow,
     StoreDataset, FindRow, AnswerCached,
     NotCached, FindLeaves, JoinFiles, Joined, WritePass, SwapPass, Rewrite, Padded,
     ReadSeries, Upsert, FindTransformed, ZipFile, Copy, Copied, Fail
<1>2. call \in [Calls -> CallRecords]
  BY DEF TypeOK
<1>3. ASSUME \/ SplitUsers(c) \/ StoreRow(c) \/ StoreDataset(c) \/ FindRow(c) \/ NotCached(c)
             \/ JoinFiles(c) \/ Joined(c) \/ WritePass(c) \/ SwapPass(c) \/ Rewrite(c)
             \/ Padded(c) \/ Upsert(c) \/ FindTransformed(c) \/ Copy(c) \/ Copied(c)
      PROVE  Goes(c)
  <2>1. call' = Go(c)
    BY <1>3, Zenon DEF SplitUsers, StoreRow, StoreDataset, FindRow,
       NotCached, JoinFiles, Joined, WritePass, SwapPass, Rewrite, Padded,
       Upsert, FindTransformed, Copy, Copied
  <2> QED
    BY <2>1, <1>2, GoMoves, Zenon DEF Goes
<1>4. ASSUME AnswerCached(c) \/ Fail(c) PROVE Ended(c)
  <2>1. call' = [call EXCEPT ![c] = Idle]
    BY <1>4, Zenon DEF AnswerCached, Fail, Answer
  <2> QED
    BY <2>1, <1>2, IdleIsACall DEF Ended
<1>5. ASSUME FindLeaves(c) PROVE Moved(c, Leaves, call[c].read)
  <2>1. call' = [Go(c) EXCEPT ![c].users = Leaves] /\ Doing(c, "leaves")
    BY <1>5, Zenon DEF FindLeaves, Leaves
  <2>2. ~AtLast(c)
    <3>1. \/ call[c].op = "transform" /\ call[c].step = 2
          \/ call[c].op = "replay" /\ call[c].step = 3
      BY <2>1, Place, Zenon DEF Doing, Active, Placed
    <3>2. Active(c)
      BY <2>1 DEF Doing, Active
    <3> QED
      BY <3>1, <3>2, Place
  <2>3. Leaves \in SUBSET Users
    BY DEF Leaves
  <2> QED
    BY <2>1, <2>2, <2>3, <1>2, LeavesMove, Zenon
<1>7. ASSUME AtRoot(c) PROVE ~AtLast(c) /\ call[c].op = "extract"
  <2>1. Active(c) /\ At(c)[1] = "store"
    BY <1>7 DEF AtRoot, Doing, Active
  <2>2. call[c].op = "extract"
    BY <2>1, Place, Zenon DEF Placed
  <2>3. At(c) = ExtractSteps[call[c].step]
    BY <2>2, StepsAre DEF At
  <2>4. AtLast(c) => At(c) = <<"dataset">>
    BY <2>2, <2>3, StepsAre, ExtractOrder, Zenon DEF AtLast
  <2>5. AtLast(c) => At(c)[1] = "dataset"
    BY <2>4
  <2> QED
    BY <2>1, <2>2, <2>5
<1>8. ASSUME StoreRoot(c)
      PROVE  ~AtLast(c) /\ \E users \in SUBSET Users : Moved(c, users, call[c].read)
  <2>1. PICK users \in SUBSET Users : call' = [Go(c) EXCEPT ![c].users = users]
    BY <1>8, Zenon DEF StoreRoot
  <2>2. ~AtLast(c)
    BY <1>7, <1>8, Zenon DEF StoreRoot
  <2> QED
    BY <2>1, <2>2, <1>2, LeavesMove, Zenon
<1>9. ASSUME NoWindows(c) PROVE ~AtLast(c) /\ Jumped(c)
  <2>1. call' = [call EXCEPT ![c].step = Len(ExtractSteps)]
    BY <1>9, Zenon DEF NoWindows
  <2>2. ~AtLast(c) /\ call[c].op = "extract"
    BY <1>7, <1>9, Zenon DEF NoWindows
  <2> QED
    BY <2>1, <2>2, <1>2, JumpMoves, Zenon
<1>6. ASSUME ReadSeries(c) \/ ZipFile(c)
      PROVE  ~AtLast(c) /\ Moved(c, call[c].users,
                [call[c].read EXCEPT ![At(c)[2]] = file["transform"][At(c)[2]]])
  <2> DEFINE d == At(c)[2]
             read == [call[c].read EXCEPT ![d] = file["transform"][d]]
  <2>1. call' = GoWith(c, read) /\ (Doing(c, "series") \/ Doing(c, "zip"))
    BY <1>6, Zenon DEF ReadSeries, ZipFile
  <2>2. d \in Dirs /\ ~AtLast(c)
    <3>1. Doing(c, "series") => call[c].op = "transform"
                      /\ <<call[c].step, d>> \in {<<25, "download">>, <<26, "upload">>}
      BY Place, Zenon DEF Doing, Active, Placed
    <3>2. Doing(c, "zip") => call[c].op = "fetch"
                      /\ <<call[c].step, d>> \in {<<2, "download">>, <<3, "upload">>}
      BY Place, Zenon DEF Doing, Active, Placed
    <3>3. Active(c)
      BY <2>1 DEF Doing, Active
    <3> QED
      BY <2>1, <3>1, <3>2, <3>3, Place DEF Dirs
  <2>3. file["transform"][d] \in Files /\ call[c].read \in [Dirs -> Files]
    <3>1. "transform" \in Kinds
      BY DEF Kinds
    <3> QED
      BY <2>2, <3>1 DEF TypeOK, CallRecords
  <2>4. read \in [Dirs -> Files]
    BY <2>2, <2>3
  <2> HIDE DEF read
  <2>5. Moved(c, call[c].users, read)
    BY <2>1, <2>4, <1>2, GoWithMoves, Zenon
  <2> QED
    BY <2>2, <2>5 DEF read
<1> QED
  BY <1>1, <1>3, <1>4, <1>5, <1>6, <1>8, <1>9, Zenon

\* The call goes on, one way or the other.
OnItsWay(c) == /\ Active(c)
               /\ \/ Ended(c)
                  \/ ~AtLast(c) /\ Jumped(c)
                  \/ ~AtLast(c) /\ \E users \in SUBSET Users, read \in [Dirs -> Files] :
                                     Moved(c, users, read)

\* Whatever its step, the call goes on or is over.
LEMMA EachGoesOn ==
  ASSUME TypeOK, NEW c \in Calls, Act(c)
  PROVE  OnItsWay(c)
<1>1. Active(c)
  BY Courses, Zenon
<1>2. call[c] \in CallRecords
  BY DEF TypeOK
<1>3. call[c].users \in SUBSET Users /\ call[c].read \in [Dirs -> Files]
  BY <1>2 DEF CallRecords
<1>4. Goes(c) => OnItsWay(c)
  BY <1>1, <1>3, Zenon DEF Goes, OnItsWay
<1>5. CASE FindLeaves(c)
  <2>1. Moved(c, Leaves, call[c].read) /\ Doing(c, "leaves")
    BY <1>5, Courses, Zenon DEF FindLeaves
  <2>2. ~AtLast(c)
    <3>1. \/ call[c].op = "transform" /\ call[c].step = 2
          \/ call[c].op = "replay" /\ call[c].step = 3
      BY <2>1, Place, Zenon DEF Doing, Active, Placed
    <3>2. Active(c)
      BY <2>1 DEF Doing, Active
    <3> QED
      BY <3>1, <3>2, Place
  <2>3. Leaves \in SUBSET Users
    BY DEF Leaves
  <2> QED
    BY <1>1, <1>3, <2>1, <2>2, <2>3, Zenon DEF OnItsWay
<1>6. CASE ReadSeries(c) \/ ZipFile(c)
  <2>1. PICK read : Moved(c, call[c].users, read) /\ ~AtLast(c)
    BY <1>6, Courses, Zenon
  <2>2. read \in [Dirs -> Files]
    BY <2>1 DEF Moved, CallRecords
  <2> QED
    BY <1>1, <1>3, <2>1, <2>2, Zenon DEF OnItsWay
<1>7. CASE AnswerCached(c) \/ Fail(c)
  BY <1>1, <1>7, Courses, Zenon DEF OnItsWay
<1>8. CASE StoreRoot(c)
  BY <1>1, <1>3, <1>8, Courses, Zenon DEF OnItsWay
<1>9. CASE NoWindows(c)
  BY <1>1, <1>9, Courses, Zenon DEF OnItsWay
<1> QED
  BY <1>4, <1>5, <1>6, <1>7, <1>8, <1>9, Courses, Zenon DEF Act

\* What a pass or joincap makes is a file.
LEMMA Passed ==
  ASSUME NEW f \in Files, NEW p \in Passes
  PROVE  After(p, f) \in Files
<1>1. CASE f \in {Absent, Torn}
  BY <1>1 DEF After, Absent, Torn, Files
<1>2. CASE f \in [is : {"pcap"}, from : UNION {[S -> Nat] : S \in SUBSET Users},
                  passes : Seq(Passes)]
  <2>1. f.passes \in Seq(Passes) /\ f.is = "pcap"
    BY <1>2
  <2>2. Append(f.passes, p) \in Seq(Passes)
    BY <2>1
  <2>3. After(p, f) = [f EXCEPT !.passes = Append(f.passes, p)]
    BY <2>1 DEF After
  <2> QED
    BY <1>2, <2>2, <2>3 DEF Files
<1> QED
  BY <1>1, <1>2 DEF Files

LEMMA MadeOf ==
  ASSUME NEW S \in SUBSET Users, NEW g \in [S -> Nat], NEW passes \in Seq(Passes)
  PROVE  Pcap(g, passes) \in Files
BY DEF Pcap, Files

-----------------------------------------------------------------------------
(***************************************************************************)
(* What a step of a call changes.                                          *)
(***************************************************************************)
\* What a step of a call does not change.
LEMMA Untouched ==
  ASSUME NEW c \in Calls, Act(c)
  PROVE  /\ ~StoreRoot(c) /\ ~StoreRow(c) => row' = row
         /\ ~NoWindows(c) /\ ~StoreRoot(c) /\ ~StoreRow(c) => left' = left
         /\ ~SplitUsers(c) /\ ~StoreRoot(c) /\ ~Fail(c) => fails' = fails
         /\ ~SplitUsers(c) => split' = split
         /\ ~StoreDataset(c) => dataset' = dataset
         /\ ~Upsert(c) => trow' = trow
         /\ ~Copy(c) /\ ~Copied(c) => worker' = worker
         /\ ~JoinFiles(c) /\ ~Joined(c) /\ ~SwapPass(c) /\ ~Rewrite(c) /\ ~Padded(c)
              => file' = file
         /\ ~WritePass(c) /\ ~SwapPass(c) /\ ~Padded(c) => tmp' = tmp
         /\ ~JoinFiles(c) /\ ~SwapPass(c) /\ ~Upsert(c) /\ ~Copy(c) /\ ~Copied(c) => tidy' = tidy
         /\ made' = made /\ extracts' = extracts /\ (fails' = fails \/ fails' = fails + 1)
<1> USE DEF Act, SplitUsers, NoWindows, StoreRoot, StoreRow, StoreDataset, FindRow,
           AnswerCached, NotCached, FindLeaves,
        JoinFiles, Joined, WritePass, SwapPass, Rewrite, Padded, ReadSeries, Upsert,
        FindTransformed, ZipFile, Copy, Copied, Fail, Answer, store, disk, calls
<1>1. ~StoreRoot(c) /\ ~StoreRow(c) => row' = row
  BY Zenon
<1>a. ~NoWindows(c) /\ ~StoreRoot(c) /\ ~StoreRow(c) => left' = left
  BY Zenon
<1>b. ~SplitUsers(c) /\ ~StoreRoot(c) /\ ~Fail(c) => fails' = fails
  BY Zenon
<1>2. ~SplitUsers(c) => split' = split
  BY Zenon
<1>3. ~StoreDataset(c) => dataset' = dataset
  BY Zenon
<1>4. ~Upsert(c) => trow' = trow
  BY Zenon
<1>5. ~Copy(c) /\ ~Copied(c) => worker' = worker
  BY Zenon
<1>6. ~JoinFiles(c) /\ ~Joined(c) /\ ~SwapPass(c) /\ ~Rewrite(c) /\ ~Padded(c) => file' = file
  BY Zenon
<1>7. ~WritePass(c) /\ ~SwapPass(c) /\ ~Padded(c) => tmp' = tmp
  BY Zenon
<1>8. ~JoinFiles(c) /\ ~SwapPass(c) /\ ~Upsert(c) /\ ~Copy(c) /\ ~Copied(c) => tidy' = tidy
  BY Zenon
<1>9. made' = made
  BY Zenon
<1>10. extracts' = extracts
  BY Zenon
<1>11. fails' = fails \/ fails' = fails + 1
  BY Zenon
<1> QED
  BY <1>1, <1>2, <1>3, <1>4, <1>5, <1>6, <1>7, <1>8, <1>9, <1>10, <1>11, <1>a, <1>b, Zenon

\* The file, the direction and the pass a step is about.
LEMMA About ==
  ASSUME TypeOK, NEW c \in Calls
  PROVE  /\ JoinFiles(c) \/ Joined(c) => call[c].op \in Kinds /\ At(c)[2] \in Dirs
         /\ WritePass(c) \/ SwapPass(c) =>
              call[c].op \in Kinds /\ At(c)[2] \in Dirs /\ At(c)[3] \in Passes
         /\ Rewrite(c) \/ Padded(c) => call[c].op = "transform" /\ At(c)[2] \in Dirs
         /\ Copy(c) \/ Copied(c) => call[c].op = "fetch" /\ At(c)[2] \in Dirs
         /\ Upsert(c) => call[c].op = "transform" /\ AtLast(c)
         /\ SplitUsers(c) \/ NoWindows(c) \/ StoreRoot(c) \/ StoreRow(c) \/ StoreDataset(c)
              => call[c].op = "extract"
<1>1. ASSUME Doing(c, "join") \/ Doing(c, "joined")
      PROVE  call[c].op \in Kinds /\ At(c)[2] \in Dirs
  <2>1. Active(c) /\ (<<call[c].op, call[c].step, At(c)[2]>> \in Joinings
                      \/ <<call[c].op, call[c].step - 1, At(c)[2]>> \in Joinings)
    BY <1>1, Place, Zenon DEF Doing, Active, Placed
  <2> QED
    BY <2>1 DEF Joinings, Kinds, Dirs
<1>2. ASSUME Doing(c, "write") \/ Doing(c, "swap")
      PROVE  call[c].op \in Kinds /\ At(c)[2] \in Dirs /\ At(c)[3] \in Passes
  <2>1. \/ <<call[c].op, call[c].step, At(c)[2], At(c)[3]>> \in Writings
        \/ <<call[c].op, call[c].step - 1, At(c)[2], At(c)[3]>> \in Writings
    BY <1>2, Place, Zenon DEF Doing, Active, Placed
  <2> QED
    BY <2>1 DEF Writings, Kinds, Dirs, Passes
<1>3. ASSUME Doing(c, "rewrite") \/ Doing(c, "padded")
      PROVE  call[c].op = "transform" /\ At(c)[2] \in Dirs
  <2>1. /\ call[c].op = "transform"
        /\ \/ <<call[c].step, At(c)[2]>> \in Paddings
           \/ <<call[c].step - 1, At(c)[2]>> \in Paddings
    BY <1>3, Place, Zenon DEF Doing, Active, Placed
  <2> QED
    BY <2>1 DEF Paddings, Dirs
<1>4. ASSUME Doing(c, "copy") \/ Doing(c, "copied")
      PROVE  call[c].op = "fetch" /\ At(c)[2] \in Dirs
  <2>1. /\ call[c].op = "fetch"
        /\ \/ <<call[c].step, At(c)[2]>> \in {<<4, "download">>, <<6, "upload">>}
           \/ <<call[c].step, At(c)[2]>> \in {<<5, "download">>, <<7, "upload">>}
    BY <1>4, Place, Zenon DEF Doing, Active, Placed
  <2> QED
    BY <2>1 DEF Dirs
<1>5. ASSUME Doing(c, "upsert") PROVE call[c].op = "transform" /\ AtLast(c)
  <2>1. Active(c) /\ call[c].op = "transform" /\ call[c].step = 27
    BY <1>5, Place, Zenon DEF Doing, Active, Placed
  <2> QED
    BY <2>1, Place
<1>6. ASSUME Doing(c, "split") \/ Doing(c, "store") \/ Doing(c, "dataset")
      PROVE  call[c].op = "extract"
  <2>1. At(c)[1] \in {"split", "store", "dataset"} => call[c].op = "extract"
    BY <1>6, Place, Zenon DEF Doing, Active, Placed
  <2> QED
    BY <2>1, <1>6 DEF Doing
<1> QED
  BY <1>1, <1>2, <1>3, <1>4, <1>5, <1>6, Zenon DEF JoinFiles, Joined, WritePass, SwapPass, Rewrite,
     Padded, Copy, Copied, Upsert, SplitUsers, NoWindows, StoreRoot, AtRoot, StoreRow, StoreDataset

\* Of the files and the scratch files, a step writes at most one, of its own kind.
LEMMA OneFile ==
  ASSUME TypeOK, NEW c \in Calls,
         JoinFiles(c) \/ Joined(c) \/ SwapPass(c) \/ Rewrite(c) \/ Padded(c)
  PROVE  /\ call[c].op \in Kinds /\ At(c)[2] \in Dirs
         /\ \E f \in Files : file' = [file EXCEPT ![call[c].op][At(c)[2]] = f]
<1> DEFINE k == call[c].op  d == At(c)[2]
<1>1. k \in Kinds /\ d \in Dirs
  BY About DEF Kinds
<1>2. file[k][d] \in Files /\ Torn \in Files /\ \A p \in Passes : tmp[p][k][d] \in Files
  BY <1>1 DEF TypeOK, Files
<1>3. file = [file EXCEPT ![k][d] = file[k][d]]
  BY <1>1 DEF TypeOK
<1>4. CASE JoinFiles(c)
  <2>1. file' = [file EXCEPT ![k][d] = IF Skipped(c, d) THEN file[k][d] ELSE Torn]
    BY <1>4 DEF JoinFiles
  <2> QED
    BY <2>1, <1>1, <1>2
<1>5. CASE Joined(c)
  <2> DEFINE g == [u \in Given(c, d) |-> split[u]]
  <2>1. file' = [file EXCEPT ![k][d] =
          IF Skipped(c, d) THEN file[k][d] ELSE Known(c, Pcap(g, <<>>))]
    BY <1>5 DEF Joined
  <2>2. Given(c, d) \in SUBSET Users
    BY DEF Given, TypeOK, CallRecords
  <2>3. g \in [Given(c, d) -> Nat] /\ <<>> \in Seq(Passes)
    BY <2>2 DEF TypeOK
  <2> HIDE DEF g
  <2>4. Pcap(g, <<>>) \in Files
    BY <2>2, <2>3, MadeOf, Zenon
  <2>5. Known(c, Pcap(g, <<>>)) \in Files
    BY <2>4, <1>2 DEF Known
  <2> QED
    BY <2>1, <2>5, <1>1, <1>2
<1>6. CASE SwapPass(c)
  <2> DEFINE p == At(c)[3]
  <2>1. p \in Passes
    BY <1>6, About
  <2>2. IF Skipped(c, d) THEN file' = file ELSE file' = [file EXCEPT ![k][d] = tmp[p][k][d]]
    BY <1>6, Zenon DEF SwapPass, disk
  <2> QED
    BY <2>1, <2>2, <1>1, <1>2, <1>3
<1>7. CASE Rewrite(c)
  <2>1. k = "transform" /\ file' = [file EXCEPT !["transform"][d] = Torn]
    BY <1>7, About DEF Rewrite
  <2> QED
    BY <2>1, <1>1, <1>2
<1>8. CASE Padded(c)
  <2>1. k = "transform" /\ file' = [file EXCEPT !["transform"][d] = tmp["pad"]["transform"][d]]
    BY <1>8, About DEF Padded
  <2>2. "pad" \in Passes
    BY DEF Passes
  <2> QED
    BY <2>1, <2>2, <1>1, <1>2
<1> QED
  BY <1>4, <1>5, <1>6, <1>7, <1>8

LEMMA OneScratchFile ==
  ASSUME TypeOK, NEW c \in Calls, WritePass(c) \/ SwapPass(c) \/ Padded(c)
  PROVE  /\ call[c].op \in Kinds /\ At(c)[2] \in Dirs
         /\ \E p \in Passes, f \in Files : tmp' = [tmp EXCEPT ![p][call[c].op][At(c)[2]] = f]
<1> DEFINE k == call[c].op  d == At(c)[2]  p == At(c)[3]
<1>1. k \in Kinds /\ d \in Dirs
  BY About DEF Kinds
<1>2. file[k][d] \in Files /\ Torn \in Files /\ Absent \in Files
      /\ \A q \in Passes : tmp[q][k][d] \in Files
  BY <1>1 DEF TypeOK, Files
<1>3. \A q \in Passes : tmp = [tmp EXCEPT ![q][k][d] = tmp[q][k][d]]
  BY <1>1 DEF TypeOK
<1>4. CASE WritePass(c)
  <2>1. p \in Passes
    BY <1>4, About
  <2>2. tmp' = [tmp EXCEPT ![p][k][d] =
          IF Skipped(c, d) THEN tmp[p][k][d] ELSE Known(c, After(p, file[k][d]))]
    BY <1>4 DEF WritePass
  <2>3. After(p, file[k][d]) \in Files
    BY <2>1, <1>2, Passed, Zenon
  <2>4. Known(c, After(p, file[k][d])) \in Files
    BY <2>3, <1>2, Zenon DEF Known
  <2> QED
    BY <2>1, <2>2, <2>4, <1>1, <1>2
<1>5. CASE SwapPass(c)
  <2>1. p \in Passes
    BY <1>5, About
  <2>2. IF Skipped(c, d) THEN tmp' = tmp ELSE tmp' = [tmp EXCEPT ![p][k][d] = Absent]
    BY <1>5, Zenon DEF SwapPass, disk
  <2> QED
    BY <2>1, <2>2, <1>1, <1>2, <1>3
<1>6. CASE Padded(c)
  <2>1. k = "transform" /\ tmp' = [tmp EXCEPT !["pad"]["transform"][d] = Absent]
    BY <1>6, About DEF Padded
  <2>2. "pad" \in Passes
    BY DEF Passes
  <2> QED
    BY <2>1, <2>2, <1>1, <1>2
<1> QED
  BY <1>4, <1>5, <1>6

-----------------------------------------------------------------------------
(***************************************************************************)
(* Type correctness.                                                       *)
(***************************************************************************)
\* At a row, a call stores it or leaves it out.
LEMMA AtARow ==
  ASSUME TypeOK, NEW c \in Calls, StoreRoot(c) \/ StoreRow(c)
  PROVE  /\ call[c].op = "extract" /\ Active(c) /\ At(c)[1] = "store"
         /\ \E n \in Nodes, w \in 1 .. Windows :
              /\ At(c) = <<"store", n, w>>
              /\ \/ row' = [row EXCEPT ![n][w] = 1] /\ left' = left
                 \/ row' = row /\ left' = left \cup {<<n, w>>}
<1>1. Doing(c, "store")
  BY Zenon DEF StoreRoot, AtRoot, StoreRow
<1>2. call[c].op = "extract" /\ Active(c) /\ At(c) \in ExtractWords /\ At(c)[1] = "store"
  BY <1>1, About, Place, Zenon DEF Doing, Active
<1>3. PICK n \in Nodes, w \in 1 .. Windows : At(c) = <<"store", n, w>>
  BY <1>2 DEF ExtractWords
<1>4. At(c)[2] = n /\ At(c)[3] = w
  BY <1>3
<1>5. \/ row' = [row EXCEPT ![n][w] = 1] /\ left' = left
      \/ row' = row /\ left' = left \cup {<<n, w>>}
  <2>1. CASE StoreRoot(c)
    <3>1. PICK counted \in SUBSET Users : Store(c, counted # {})
      BY <2>1, Zenon DEF StoreRoot
    <3> QED
      BY <3>1, <1>4, Zenon DEF Store
  <2>2. CASE StoreRow(c)
    <3>1. Store(c, At(c)[2] \in call[c].users)
      BY <2>2, Zenon DEF StoreRow
    <3> QED
      BY <3>1, <1>4, Zenon DEF Store
  <2> QED
    BY <2>1, <2>2
<1> QED
  BY <1>2, <1>3, <1>5, Zenon

\* The types hold.
LEMMA ActTypes ==
  ASSUME TypeOK, NEW c \in Calls, Act(c)
  PROVE  TypeOK'
<1>0. OnItsWay(c)
  BY EachGoesOn
<1>1. call[c].gen \in Nat
  BY DEF TypeOK, CallRecords
<1>2. row' \in [Nodes -> [1 .. Windows -> Nat]]
  <2>1. CASE StoreRoot(c) \/ StoreRow(c)
    <3>1. PICK n \in Nodes, w \in 1 .. Windows :
             row' = [row EXCEPT ![n][w] = 1] \/ row' = row
      BY <2>1, AtARow, Zenon
    <3>2. CASE row' = row
      BY <3>2 DEF TypeOK
    <3>3. CASE row' = [row EXCEPT ![n][w] = 1]
      <4>1. row \in [Nodes -> [1 .. Windows -> Nat]]
        BY DEF TypeOK
      <4> QED
        BY <3>3, <4>1, <1>1
    <3> QED
      BY <3>1, <3>2, <3>3
  <2> QED
    BY <2>1, Untouched, Zenon DEF TypeOK
<1>3. split' \in [Users -> Nat]
  <2>1. CASE SplitUsers(c)
    <3>1. split' = [split EXCEPT ![At(c)[2]] = call[c].gen] \/ split' = split
      BY <2>1, Zenon DEF SplitUsers
    <3> QED
      BY <3>1, <1>1 DEF TypeOK
  <2> QED
    BY <2>1, Untouched, Zenon DEF TypeOK
<1>4. dataset' \in Nat
  <2>1. CASE StoreDataset(c)
    BY <2>1, <1>1 DEF StoreDataset
  <2> QED
    BY <2>1, Untouched, Zenon DEF TypeOK
<1>5. trow' \in [Dirs -> Files]
  <2>1. CASE Upsert(c)
    BY <2>1 DEF Upsert, TypeOK, CallRecords
  <2> QED
    BY <2>1, Untouched, Zenon DEF TypeOK
<1>6. worker' \in [Dirs -> Files]
  <2>1. CASE Copy(c)
    <3>1. worker' = [worker EXCEPT ![At(c)[2]] = Torn] /\ Torn \in Files
      BY <2>1 DEF Copy, Files
    <3> QED
      BY <3>1 DEF TypeOK
  <2>2. CASE Copied(c)
    <3>1. worker' = [worker EXCEPT ![At(c)[2]] = Unpacked(c, At(c)[2])] /\ At(c)[2] \in Dirs
      BY <2>2, About, Zenon DEF Copied
    <3>2. Unpacked(c, At(c)[2]) \in Files
      BY <3>1 DEF Unpacked, TypeOK, CallRecords
    <3> QED
      BY <3>1, <3>2 DEF TypeOK
  <2> QED
    BY <2>1, <2>2, Untouched, Zenon DEF TypeOK
<1>7. file' \in [Kinds -> [Dirs -> Files]]
  <2>1. CASE JoinFiles(c) \/ Joined(c) \/ SwapPass(c) \/ Rewrite(c) \/ Padded(c)
    <3>1. PICK d \in Dirs, f \in Files : file' = [file EXCEPT ![call[c].op][d] = f]
      BY <2>1, OneFile, Zenon
    <3> QED
      BY <3>1 DEF TypeOK
  <2> QED
    BY <2>1, Untouched, Zenon DEF TypeOK
<1>8. tmp' \in [Passes -> [Kinds -> [Dirs -> Files]]]
  <2>1. CASE WritePass(c) \/ SwapPass(c) \/ Padded(c)
    <3>1. PICK p \in Passes, f \in Files : tmp' = [tmp EXCEPT ![p][call[c].op][At(c)[2]] = f]
      BY <2>1, OneScratchFile, Zenon
    <3> QED
      BY <3>1 DEF TypeOK
  <2> QED
    BY <2>1, Untouched, Zenon DEF TypeOK
<1>9. call' \in [Calls -> CallRecords]
  BY <1>0, Zenon DEF OnItsWay, Ended, Moved, Jumped
<1>10. ASSUME NEW b \in Calls, call'[b].op # "idle"
       PROVE  call'[b].step \in 1 .. Len(StepsOf[call'[b].op])
  <2>1. CASE b # c
    <3>1. call'[b] = call[b]
      BY <2>1, <1>0, Zenon DEF OnItsWay, Ended, Moved, Jumped
    <3> QED
      BY <3>1, <1>10 DEF TypeOK, Active
  <2>2. CASE b = c
    <3>1. ~Ended(c)
      BY <2>2, <1>10 DEF Ended, Idle
    <3>2. /\ ~AtLast(c) /\ call'[c].op = call[c].op /\ Active(c)
          /\ call'[c].step = call[c].step + 1 \/ Jumped(c)
      BY <3>1, <1>0, Zenon DEF OnItsWay, Moved, Jumped
    <3>3. /\ call[c].step \in 1 .. Len(StepsOf[call[c].op])
          /\ call[c].step # Len(StepsOf[call[c].op])
          /\ Len(StepsOf[call[c].op]) \in Nat
      BY <3>2, Place, SomeStep DEF TypeOK, AtLast
    <3>4. Jumped(c) => call'[c].step = Len(StepsOf[call[c].op])
      BY StepsAre, Zenon DEF Jumped
    <3> QED
      BY <2>2, <3>2, <3>3, <3>4
  <2> QED
    BY <2>1, <2>2
<1>11. made' \in Nat /\ fails' \in Nat /\ extracts' \in Nat
  <2>1. made' = made /\ extracts' = extracts /\ (fails' = fails \/ fails' = fails + 1)
    BY Untouched, Zenon
  <2> QED
    BY <2>1 DEF TypeOK
<1>12. tidy' \subseteq {"transform", "replay", "fetch"}
  <2>1. call[c].op \in Kinds \cup {"fetch"} => Tidy(c) \subseteq {"transform", "replay", "fetch"}
    BY DEF Tidy, Kinds, TypeOK
  <2>2. ASSUME JoinFiles(c) \/ SwapPass(c) \/ Upsert(c) \/ Copy(c) \/ Copied(c)
        PROVE  call[c].op \in Kinds \cup {"fetch"} /\ (tidy' = Tidy(c) \/ tidy' = tidy)
    <3>1. call[c].op \in Kinds \cup {"fetch"}
      BY <2>2, About DEF Kinds
    <3>2. tidy' = Tidy(c) \/ tidy' = tidy
      BY <2>2, Zenon DEF JoinFiles, SwapPass, Upsert, Copy, Copied
    <3> QED
      BY <3>1, <3>2
  <2> QED
    BY <2>1, <2>2, Untouched, Zenon DEF TypeOK
<1>13. left' \subseteq Nodes \X (1 .. Windows)
  <2>1. CASE NoWindows(c)
    <3>1. left' = left \cup Nodes \X (1 .. Windows)
      BY <2>1, Zenon DEF NoWindows
    <3> QED
      BY <3>1 DEF TypeOK
  <2>2. CASE StoreRoot(c) \/ StoreRow(c)
    <3>1. PICK n \in Nodes, w \in 1 .. Windows : left' = left \/ left' = left \cup {<<n, w>>}
      BY <2>2, AtARow, Zenon
    <3> QED
      BY <3>1 DEF TypeOK
  <2> QED
    BY <2>1, <2>2, Untouched, Zenon DEF TypeOK
<1> QED
  BY <1>2, <1>3, <1>4, <1>5, <1>6, <1>7, <1>8, <1>9, <1>10, <1>11, <1>12, <1>13
     DEF TypeOK, Active

LEMMA StartTypes ==
  ASSUME TypeOK, NEW c \in Calls, NEW op \in Ops, Start(c, op)
  PROVE  TypeOK'
<1>1. Begun(c, op) /\ extracts' \in Nat
  BY StartBegins, Zenon
<1>2. ASSUME NEW b \in Calls, call'[b].op # "idle"
      PROVE  call'[b].step \in 1 .. Len(StepsOf[call'[b].op])
  <2>1. CASE b = c
    BY <2>1, <1>1, SomeStep DEF Begun
  <2>2. CASE b # c
    BY <2>2, <1>1, <1>2 DEF Begun, TypeOK, Active
  <2> QED
    BY <2>1, <2>2
<1>3. made' \in Nat
  <2>1. made' = made + 1
    BY Zenon DEF Start
  <2> QED
    BY <2>1 DEF TypeOK
<1>4. /\ row' = row /\ split' = split /\ dataset' = dataset /\ trow' = trow /\ worker' = worker
      /\ file' = file /\ tmp' = tmp /\ tidy' = tidy /\ fails' = fails /\ left' = left
  BY Zenon DEF Start, store, disk
<1>5. call' \in [Calls -> CallRecords]
  BY <1>1 DEF Begun
<1> QED
  BY <1>1, <1>2, <1>3, <1>4, <1>5 DEF TypeOK, Active

LEMMA InitTypes == Init => TypeOK
<1> SUFFICES ASSUME Init PROVE TypeOK
  OBVIOUS
<1>1. PICK g \in {0, 1}, done \in {{}, Kinds} :
    /\ done # {} => g = 1
    /\ row = [n \in Nodes |-> [w \in 1 .. Windows |-> g]]
    /\ split = [u \in Users |-> g]
    /\ dataset = g /\ extracts = g
    /\ trow = [d \in Dirs |-> IF done = {} THEN Absent ELSE Made(d, 1, AllPasses)]
    /\ file = [k \in Kinds |-> [d \in Dirs |->
         IF done = {} \/ (k = "replay" /\ SaidBy(d) = {}) THEN Absent
         ELSE Made(d, 1, IF k = "replay" THEN <<"order">> ELSE AllPasses)]]
    /\ tmp = [p \in Passes |-> [k \in Kinds |-> [d \in Dirs |-> Absent]]]
    /\ worker = [d \in Dirs |-> Absent]
    /\ call = [c \in Calls |-> Idle]
    /\ made = 0 /\ fails = 0 /\ left = {}
    /\ tidy = done
  BY Zenon DEF Init
<1>2. \A d \in Dirs, passes \in Seq(Passes) : Made(d, 1, passes) \in Files
  <2> SUFFICES ASSUME NEW d \in Dirs, NEW passes \in Seq(Passes)
               PROVE  Made(d, 1, passes) \in Files
    OBVIOUS
  <2>1. SaidBy(d) \in SUBSET Users
    BY DEF SaidBy
  <2>2. [u \in SaidBy(d) |-> 1] \in [SaidBy(d) -> Nat]
    OBVIOUS
  <2> QED
    BY <2>1, <2>2, MadeOf, Zenon DEF Made
<1>3. AllPasses \in Seq(Passes) /\ <<"order">> \in Seq(Passes) /\ Absent \in Files
  BY DEF AllPasses, Passes, Files
<1> HIDE DEF Absent, Files
<1>4. trow \in [Dirs -> Files]
  BY <1>1, <1>2, <1>3
<1>5. file \in [Kinds -> [Dirs -> Files]]
  BY <1>1, <1>2, <1>3
<1>6. tmp \in [Passes -> [Kinds -> [Dirs -> Files]]] /\ worker \in [Dirs -> Files]
  BY <1>1, <1>3
<1>7. call \in [Calls -> CallRecords] /\ \A c \in Calls : ~Active(c)
  <2>1. \A c \in Calls : call[c] = Idle
    BY <1>1
  <2>2. Idle.op = "idle"
    BY DEF Idle
  <2> QED
    BY <1>1, <2>1, <2>2, IdleIsACall DEF Active
<1>8. /\ row \in [Nodes -> [1 .. Windows -> Nat]] /\ split \in [Users -> Nat] /\ dataset \in Nat
      /\ made \in Nat /\ fails \in Nat /\ extracts \in Nat
      /\ left \subseteq Nodes \X (1 .. Windows)
  BY <1>1
<1>9. tidy \subseteq {"transform", "replay", "fetch"}
  BY <1>1 DEF Kinds
<1> QED
  BY <1>4, <1>5, <1>6, <1>7, <1>8, <1>9 DEF TypeOK

-----------------------------------------------------------------------------
(***************************************************************************)
(* Extractions: rows are stored in order.                                  *)
(***************************************************************************)
\* What a step leaves of the call itself.
LEMMA SameCall ==
  ASSUME TypeOK, NEW c \in Calls, Act(c), ~Ended(c)
  PROVE  /\ Active(c) /\ ~AtLast(c)
         /\ call'[c].op = call[c].op /\ call'[c].alone = call[c].alone
         /\ call'[c].gen = call[c].gen /\ call[c].step \in Nat
         /\ ~NoWindows(c) => call'[c].step = call[c].step + 1
         /\ call[c].op # "extract" => call'[c].step = call[c].step + 1
         /\ ~FindLeaves(c) /\ ~StoreRoot(c) => call'[c].users = call[c].users
         /\ call[c].op # "extract" /\ ~FindLeaves(c) => call'[c].users = call[c].users
         /\ ~ReadSeries(c) /\ ~ZipFile(c) => call'[c].read = call[c].read
<1>1. OnItsWay(c)
  BY EachGoesOn
<1>2. /\ Active(c) /\ ~AtLast(c)
      /\ call'[c].op = call[c].op /\ call'[c].alone = call[c].alone
      /\ call'[c].gen = call[c].gen
  BY <1>1, Zenon DEF OnItsWay, Moved, Jumped
<1>3. call[c].step \in Nat
  BY DEF TypeOK, CallRecords
<1>4. ~FindLeaves(c) /\ ~StoreRoot(c) => call'[c].users = call[c].users
  BY Courses, Zenon DEF Act, Goes, Moved, Jumped
<1>5. ~ReadSeries(c) /\ ~ZipFile(c) => call'[c].read = call[c].read
  BY Courses, Zenon DEF Act, Goes, Moved, Jumped
<1>6. ~NoWindows(c) => call'[c].step = call[c].step + 1
  BY Courses, Zenon DEF Act, Goes, Moved
<1>7. call[c].op # "extract" => ~NoWindows(c) /\ ~StoreRoot(c)
  BY About, Zenon
<1> QED
  BY <1>2, <1>3, <1>4, <1>5, <1>6, <1>7, Zenon

\* The other calls stay as they are.
LEMMA OtherCalls ==
  ASSUME TypeOK, NEW c \in Calls, Act(c), NEW b \in Calls, b # c
  PROVE  call'[b] = call[b]
BY EachGoesOn, Zenon DEF OnItsWay, Ended, Moved, Jumped

\* What an extraction did at a step that is behind it.
Done(x) == /\ x[1] = "split" => (fails = 0 => split[x[2]] # 0)
           /\ x[1] = "store" => Settled(x[2], x[3])

\* The call is past the root of a window.
PastRoot(c) == \E w \in 1 .. Windows : Before(ExtractSteps, call[c].step, <<"store", "root", w>>)

\* Rows are stored in order, and an extraction has done what is behind it; while
\* nothing fails, all users are counted.
StoreInv ==
  /\ StoredInOrder
  /\ \A c \in Calls : call[c].op = "extract" =>
       /\ call[c].gen # 0
       /\ \A k \in 1 .. Len(ExtractSteps) : k < call[c].step => Done(ExtractSteps[k])
       /\ fails = 0 /\ PastRoot(c) => call[c].users = Users

\* What lies before the step of an extraction was done.
LEMMA DoneBefore ==
  ASSUME TypeOK, StoreInv, NEW c \in Calls, call[c].op = "extract",
         NEW x \in ExtractWords, Before(ExtractSteps, call[c].step, x)
  PROVE  Done(x)
<1>1. PICK j \in 1 .. Len(ExtractSteps) : j < call[c].step /\ ExtractSteps[j] = x
  BY DEF Before
<1> QED
  BY <1>1, Zenon DEF StoreInv

\* What was stored stays.
Kept == /\ \A n \in Nodes, w \in 1 .. Windows : row[n][w] # 0 => row'[n][w] # 0
        /\ \A u \in Users : split[u] # 0 => split'[u] # 0
        /\ left \subseteq left' /\ (fails' = 0 => fails = 0)

\* A step takes nothing out of the store,
LEMMA ActKeeps ==
  ASSUME TypeOK, StoreInv, NEW c \in Calls, Act(c)
  PROVE  Kept
<1>1. call[c].op = "extract" => call[c].gen # 0 /\ call[c].gen \in Nat
  BY DEF StoreInv, TypeOK, CallRecords
<1>2. ASSUME NEW n \in Nodes, NEW w \in 1 .. Windows, row[n][w] # 0
      PROVE  row'[n][w] # 0
  <2>1. CASE StoreRoot(c) \/ StoreRow(c)
    <3>1. call[c].gen # 0
      BY <2>1, <1>1, AtARow, Zenon
    <3>2. PICK m \in Nodes, v \in 1 .. Windows :
             row' = [row EXCEPT ![m][v] = 1] \/ row' = row
      BY <2>1, AtARow, Zenon
    <3>3. CASE row' = [row EXCEPT ![m][v] = 1]
      <4>1. row \in [Nodes -> [1 .. Windows -> Nat]]
        BY DEF TypeOK
      <4> QED
        BY <3>1, <3>3, <4>1, <1>2
    <3> QED
      BY <3>2, <3>3, <1>2
  <2> QED
    BY <2>1, <1>2, Untouched, Zenon
<1>3. ASSUME NEW u \in Users, split[u] # 0 PROVE split'[u] # 0
  <2>1. CASE SplitUsers(c)
    <3>1. split' = [split EXCEPT ![At(c)[2]] = call[c].gen] \/ split' = split
      BY <2>1, Zenon DEF SplitUsers
    <3>2. call[c].gen # 0 /\ split \in [Users -> Nat]
      BY <2>1, <1>1, About DEF TypeOK
    <3> QED
      BY <3>1, <3>2, <1>3
  <2> QED
    BY <2>1, <1>3, Untouched, Zenon
<1>4. left \subseteq left'
  <2>1. CASE NoWindows(c)
    <3>1. left' = left \cup Nodes \X (1 .. Windows)
      BY <2>1, Zenon DEF NoWindows
    <3> QED
      BY <3>1
  <2>2. CASE StoreRoot(c) \/ StoreRow(c)
    <3>1. PICK n \in Nodes, w \in 1 .. Windows : left' = left \/ left' = left \cup {<<n, w>>}
      BY <2>2, AtARow, Zenon
    <3> QED
      BY <3>1
  <2>3. CASE ~NoWindows(c) /\ ~StoreRoot(c) /\ ~StoreRow(c)
    <3>1. left' = left
      BY <2>3, Untouched, Zenon
    <3> QED
      BY <3>1
  <2> QED
    BY <2>1, <2>2, <2>3
<1>5. fails' = 0 => fails = 0
  <2>1. fails' = fails \/ fails' = fails + 1
    BY Untouched, Zenon
  <2> QED
    BY <2>1 DEF TypeOK
<1> QED
  BY <1>2, <1>3, <1>4, <1>5 DEF Kept

\* so that what was done stays done.
LEMMA KeptDone ==
  ASSUME Kept
  PROVE  /\ \A n \in Nodes, w \in 1 .. Windows : Settled(n, w) => Settled(n, w)'
         /\ \A x \in ExtractWords : Done(x) => Done(x)'
<1>1. ASSUME NEW n \in Nodes, NEW w \in 1 .. Windows, Settled(n, w) PROVE Settled(n, w)'
  BY <1>1 DEF Settled, Kept
<1>2. ASSUME NEW x \in ExtractWords, Done(x) PROVE Done(x)'
  <2>1. CASE x = <<"dataset">>
    BY <2>1 DEF Done
  <2>2. CASE x \in {<<"split", u>> : u \in Users}
    <3>1. PICK u \in Users : x = <<"split", u>>
      BY <2>2
    <3>2. x[1] = "split" /\ x[2] = u
      BY <3>1
    <3> QED
      BY <3>2, <1>2 DEF Done, Kept
  <2>3. CASE x \in {<<"store", n, w>> : n \in Nodes, w \in 1 .. Windows}
    <3>1. PICK n \in Nodes, w \in 1 .. Windows : x = <<"store", n, w>>
      BY <2>3
    <3>2. x[1] = "store" /\ x[2] = n /\ x[3] = w
      BY <3>1
    <3>3. Settled(n, w)'
      BY <3>2, <1>1, <1>2 DEF Done
    <3> QED
      BY <3>2, <3>3 DEF Done
  <2> QED
    BY <2>1, <2>2, <2>3 DEF ExtractWords
<1> QED
  BY <1>1, <1>2

\* An extraction that finds no window, or leaves out a row, has had a failure.
LEMMA FailedBefore ==
  ASSUME TypeOK, StoreInv, NEW c \in Calls
  PROVE  /\ NoWindows(c) => fails # 0
         /\ StoreRoot(c) /\ fails' = 0 => call'[c].users = Users
         /\ StoreRoot(c) \/ StoreRow(c) => fails' # 0 \/ left' = left
<1>1. ASSUME NoWindows(c) PROVE fails # 0
  <2>1. Doing(c, "store") /\ \A u \in Users : split[u] = 0
    BY <1>1, Zenon DEF NoWindows, AtRoot
  <2>2. call[c].op = "extract" /\ Active(c) /\ At(c) \in ExtractWords /\ At(c)[1] = "store"
    BY <1>1, <2>1, About, Place, Zenon DEF Doing, Active
  <2>3. PICK n \in Nodes, w \in 1 .. Windows : At(c) = <<"store", n, w>>
    BY <2>2 DEF ExtractWords
  <2>4. PICK u \in Users : TRUE
    BY ServiceAssumption
  <2>5. At(c) = ExtractSteps[call[c].step] /\ call[c].step \in 1 .. Len(ExtractSteps)
    BY <2>2, StepsAre DEF At, TypeOK
  <2>6. Before(ExtractSteps, call[c].step, <<"split", u>>) /\ <<"split", u>> \in ExtractWords
    BY <2>3, <2>5, ExtractOrder, WordsOfExtract, Zenon
  <2>7. Done(<<"split", u>>)
    BY <2>2, <2>6, DoneBefore, Zenon
  <2> QED
    BY <2>1, <2>7 DEF Done
<1>2. ASSUME StoreRoot(c)
      PROVE  /\ fails' = 0 => call'[c].users = Users
             /\ fails' # 0 \/ left' = left
  <2>1. PICK counted \in SUBSET Users :
           /\ counted = Users \/ fails' = fails + 1
           /\ Store(c, counted # {})
           /\ call' = [Go(c) EXCEPT ![c].users = counted]
    BY <1>2, Zenon DEF StoreRoot
  <2>2. fails \in Nat /\ call \in [Calls -> CallRecords]
    BY DEF TypeOK
  <2>3. ~AtLast(c)
    BY <1>2, Courses, Zenon
  <2>4. call'[c].users = counted
    <3>1. Moved(c, counted, call[c].read)
      BY <2>1, <2>2, <2>3, LeavesMove, Zenon
    <3> QED
      BY <3>1, Zenon DEF Moved
  <2>5. fails' = 0 => counted = Users
    BY <2>1, <2>2
  <2>6. counted = Users => left' = left
    <3>1. Users # {}
      BY ServiceAssumption
    <3> QED
      BY <2>1, <3>1, Zenon DEF Store
  <2> QED
    BY <2>4, <2>5, <2>6, Zenon
<1>3. ASSUME StoreRow(c), fails' = 0 PROVE left' = left
  <2>1. Store(c, At(c)[2] \in call[c].users) /\ fails' = fails /\ At(c)[2] # "root"
    BY <1>3, Zenon DEF StoreRow
  <2>2. PICK n \in Nodes, w \in 1 .. Windows : At(c) = <<"store", n, w>>
    BY <1>3, AtARow, Zenon
  <2>3. At(c)[2] = n
    BY <2>2
  <2>4. call[c].op = "extract" /\ Active(c)
    BY <1>3, AtARow, Zenon
  <2>5. At(c) = ExtractSteps[call[c].step] /\ call[c].step \in 1 .. Len(ExtractSteps)
    BY <2>4, StepsAre DEF At, TypeOK
  <2>6. Before(ExtractSteps, call[c].step, <<"store", "root", w>>)
    BY <2>1, <2>2, <2>3, <2>5, ExtractOrder, Zenon
  <2>7. call[c].users = Users
    BY <2>1, <2>4, <2>6, <1>3, Zenon DEF StoreInv, PastRoot
  <2>8. n \in Users
    BY <2>1, <2>3 DEF Nodes
  <2> QED
    BY <2>1, <2>3, <2>7, <2>8, Zenon DEF Store
<1> QED
  BY <1>1, <1>2, <1>3, Zenon

\* Each row is stored after those it has to follow.
LEMMA ActOrders ==
  ASSUME TypeOK, StoreInv, NEW c \in Calls, Act(c)
  PROVE  StoredInOrder'
<1>1. Kept /\ \A n \in Nodes, w \in 1 .. Windows : Settled(n, w) => Settled(n, w)'
  BY ActKeeps, KeptDone
<1>2. ASSUME NEW n \in Nodes, NEW w \in 1 .. Windows, row'[n][w] # 0,
             NEW m \in Nodes, NEW v \in 1 .. w - 1
      PROVE  Settled(m, v)'
  <2>0. v \in 1 .. Windows
    BY ServiceAssumption
  <2>1. CASE row[n][w] = 0
    <3>1. StoreRoot(c) \/ StoreRow(c)
      BY <1>2, <2>1, Untouched, Zenon
    <3>2. call[c].op = "extract" /\ Active(c)
      BY <3>1, AtARow, Zenon
    <3>3. PICK x \in Nodes, y \in 1 .. Windows :
             /\ At(c) = <<"store", x, y>>
             /\ row' = [row EXCEPT ![x][y] = 1] \/ row' = row
      BY <3>1, AtARow, Zenon
    <3>4. x = n /\ y = w
      <4>1. row \in [Nodes -> [1 .. Windows -> Nat]]
        BY DEF TypeOK
      <4>2. row'[n][w] # row[n][w]
        BY <2>1, <1>2
      <4>3. row' = [row EXCEPT ![x][y] = 1]
        BY <3>3, <4>2
      <4>4. x # n => row'[n] = row[n]
        BY <4>1, <4>3
      <4>5. y # w => row'[n][w] = row[n][w]
        BY <4>1, <4>3
      <4> QED
        BY <4>2, <4>4, <4>5
    <3>5. At(c) = ExtractSteps[call[c].step] /\ call[c].step \in 1 .. Len(ExtractSteps)
      BY <3>2, StepsAre DEF At, TypeOK
    <3>6. ExtractSteps[call[c].step] = <<"store", n, w>>
      BY <3>3, <3>4, <3>5
    <3>7. /\ Before(ExtractSteps, call[c].step, <<"store", m, v>>)
          /\ <<"store", m, v>> \in ExtractWords
      BY <2>0, <3>5, <3>6, ExtractOrder, WordsOfExtract, Zenon
    <3>8. Done(<<"store", m, v>>)
      BY <3>2, <3>7, DoneBefore, Zenon
    <3> QED
      BY <2>0, <3>8, <1>1 DEF Done
  <2>2. CASE row[n][w] # 0
    <3>1. Settled(m, v)
      BY <2>2, Zenon DEF StoreInv, StoredInOrder
    <3> QED
      BY <2>0, <3>1, <1>1
  <2> QED
    BY <2>1, <2>2
<1>3. ASSUME dataset' # 0, NEW m \in Nodes, NEW v \in 1 .. Windows
      PROVE  Settled(m, v)'
  <2>1. CASE dataset # 0
    <3>1. Settled(m, v)
      BY <2>1, Zenon DEF StoreInv, StoredInOrder
    <3> QED
      BY <3>1, <1>1
  <2>2. CASE dataset = 0
    <3>1. StoreDataset(c)
      BY <2>2, <1>3, Untouched, Zenon
    <3>2. /\ call[c].op = "extract" /\ At(c) \in ExtractWords /\ At(c)[1] = "dataset"
          /\ Active(c)
      BY <3>1, About, Place, Zenon DEF StoreDataset, Doing, Active
    <3>3. At(c) = <<"dataset">>
      BY <3>2 DEF ExtractWords
    <3>4. ExtractSteps[call[c].step] = <<"dataset">> /\ call[c].step \in 1 .. Len(ExtractSteps)
      BY <3>2, <3>3, StepsAre DEF At, TypeOK
    <3>5. /\ Before(ExtractSteps, call[c].step, <<"store", m, v>>)
          /\ <<"store", m, v>> \in ExtractWords
      BY <3>4, ExtractOrder, WordsOfExtract, Zenon
    <3>6. Done(<<"store", m, v>>)
      BY <3>5, <3>2, DoneBefore, Zenon
    <3> QED
      BY <3>6, <1>1 DEF Done
  <2> QED
    BY <2>1, <2>2
<1>4. ASSUME fails' = 0 PROVE left' = {}
  <2>1. fails = 0 /\ left = {}
    BY <1>1, <1>4 DEF Kept, StoreInv, StoredInOrder
  <2>2. left' = left
    BY <1>4, <2>1, FailedBefore, Untouched, Zenon
  <2> QED
    BY <2>1, <2>2
<1> QED
  BY <1>2, <1>3, <1>4 DEF StoredInOrder

\* A call at a step of an extraction does it.
LEMMA ExtractsAt ==
  ASSUME TypeOK, NEW c \in Calls, Act(c), ~Ended(c), At(c) \in ExtractWords
  PROVE  /\ SplitUsers(c) \/ NoWindows(c) \/ StoreRoot(c) \/ StoreRow(c) \/ StoreDataset(c)
         /\ At(c)[2] = "root" /\ At(c)[1] = "store" => NoWindows(c) \/ StoreRoot(c)
<1>1. At(c)[1] \in {"split", "store", "dataset"}
  BY DEF ExtractWords
<1>2. ~AnswerCached(c) /\ ~Fail(c)
  BY Courses, Zenon
<1>3. SplitUsers(c) \/ NoWindows(c) \/ StoreRoot(c) \/ StoreRow(c) \/ StoreDataset(c)
  BY <1>1, <1>2, Zenon DEF Act, Doing, FindRow, NotCached, FindLeaves, JoinFiles, Joined,
     WritePass, SwapPass, Rewrite, Padded, ReadSeries, Upsert, FindTransformed, ZipFile,
     Copy, Copied
<1>4. At(c)[2] = "root" /\ At(c)[1] = "store" => ~SplitUsers(c) /\ ~StoreRow(c) /\ ~StoreDataset(c)
  BY Zenon DEF SplitUsers, StoreRow, StoreDataset, Doing
<1> QED
  BY <1>3, <1>4, Zenon

\* It has done what is behind it then.
LEMMA OwnExtract ==
  ASSUME TypeOK, StoreInv, NEW c \in Calls, Act(c), ~Ended(c), call[c].op = "extract"
  PROVE  /\ \A k \in 1 .. Len(ExtractSteps) : k < call'[c].step => Done(ExtractSteps[k])'
         /\ fails' = 0 /\ PastRoot(c)' => call'[c].users = Users
<1>1. /\ Kept /\ \A x \in ExtractWords : Done(x) => Done(x)'
      /\ \A n \in Nodes, w \in 1 .. Windows : Settled(n, w) => Settled(n, w)'
  BY ActKeeps, KeptDone
<1>2. Active(c) /\ call[c].step \in 1 .. Len(ExtractSteps) /\ At(c) = ExtractSteps[call[c].step]
  <2>1. Active(c)
    BY SameCall, Zenon
  <2> QED
    BY <2>1, StepsAre DEF At, TypeOK
<1>3. \A k \in 1 .. Len(ExtractSteps) : ExtractSteps[k] \in ExtractWords
  BY ExtractOrder
<1>4. CASE NoWindows(c)
  <2>1. fails' # 0
    BY <1>1, <1>4, FailedBefore, Zenon DEF Kept
  <2>2. left' = left \cup Nodes \X (1 .. Windows)
    BY <1>4, Zenon DEF NoWindows
  <2>3. ASSUME NEW x \in ExtractWords PROVE Done(x)'
    <3>1. ASSUME x[1] = "store" PROVE Settled(x[2], x[3])'
      <4>1. PICK n \in Nodes, w \in 1 .. Windows : x = <<"store", n, w>>
        BY <3>1 DEF ExtractWords
      <4>2. x[2] = n /\ x[3] = w /\ <<n, w>> \in left'
        BY <4>1, <2>2
      <4> QED
        BY <4>2 DEF Settled
    <3> QED
      BY <2>1, <3>1 DEF Done
  <2> QED
    BY <1>3, <2>1, <2>3, Zenon
<1>5. CASE ~NoWindows(c)
  <2>1. call'[c].step = call[c].step + 1
    BY <1>5, SameCall, Zenon
  <2>2. call[c].gen # 0
    BY DEF StoreInv
  <2>3. ASSUME NEW x \in ExtractWords, x = At(c) PROVE Done(x)'
    <3>1. At(c) \in ExtractWords
      BY <2>3
    <3>2. SplitUsers(c) \/ StoreRoot(c) \/ StoreRow(c) \/ StoreDataset(c)
      BY <1>5, <3>1, ExtractsAt, Zenon
    <3>3. CASE SplitUsers(c)
      <4>1. /\ At(c)[1] = "split"
            /\ split' = [split EXCEPT ![At(c)[2]] = call[c].gen] \/ fails' = fails + 1
        BY <3>3, Zenon DEF SplitUsers, Doing
      <4>2. PICK u \in Users : At(c) = <<"split", u>>
        BY <4>1, <3>1 DEF ExtractWords
      <4>3. split \in [Users -> Nat] /\ fails \in Nat /\ At(c)[2] = u
        BY <4>2 DEF TypeOK
      <4>4. fails' = 0 => split'[u] # 0
        BY <4>1, <4>3, <2>2
      <4>5. x[1] = "split" /\ x[2] = u
        BY <4>2, <2>3
      <4> QED
        BY <4>4, <4>5 DEF Done
    <3>4. CASE StoreRoot(c) \/ StoreRow(c)
      <4>1. PICK n \in Nodes, w \in 1 .. Windows :
              /\ At(c) = <<"store", n, w>>
              /\ \/ row' = [row EXCEPT ![n][w] = 1] /\ left' = left
                 \/ row' = row /\ left' = left \cup {<<n, w>>}
        BY <3>4, AtARow, Zenon
      <4>0. x[1] = "store" /\ x[2] = n /\ x[3] = w
        BY <4>1, <2>3
      <4>2. CASE row' = [row EXCEPT ![n][w] = 1]
        <5>1. row \in [Nodes -> [1 .. Windows -> Nat]]
          BY DEF TypeOK
        <5>2. row'[n][w] = 1
          BY <4>2, <5>1
        <5> QED
          BY <4>0, <5>2, <2>2 DEF Done, Settled
      <4>3. CASE left' = left \cup {<<n, w>>}
        <5>1. <<n, w>> \in left'
          BY <4>3
        <5> QED
          BY <4>0, <5>1 DEF Done, Settled
      <4> QED
        BY <4>1, <4>2, <4>3
    <3>5. CASE StoreDataset(c)
      <4>1. At(c)[1] = "dataset"
        BY <3>5, Zenon DEF StoreDataset, Doing
      <4>2. x[1] = "dataset"
        BY <4>1, <2>3
      <4> QED
        BY <4>2 DEF Done
    <3> QED
      BY <3>2, <3>3, <3>4, <3>5
  <2>4. ASSUME NEW k \in 1 .. Len(ExtractSteps), k < call'[c].step
        PROVE  Done(ExtractSteps[k])'
    <3>1. CASE k = call[c].step
      <4>1. ExtractSteps[k] \in ExtractWords /\ ExtractSteps[k] = At(c)
        BY <3>1, <1>2, <1>3
      <4> QED
        BY <4>1, <2>3, Zenon
    <3>2. CASE k # call[c].step
      <4>1. k < call[c].step
        BY <3>2, <2>1, <2>4, <1>2
      <4>2. Done(ExtractSteps[k])
        BY <4>1, Zenon DEF StoreInv
      <4> QED
        BY <4>2, <1>1, <1>3, Zenon
    <3> QED
      BY <3>1, <3>2
  <2>5. ASSUME fails' = 0, PastRoot(c)' PROVE call'[c].users = Users
    <3>1. CASE StoreRoot(c)
      BY <3>1, <2>5, FailedBefore, Zenon
    <3>2. CASE ~StoreRoot(c)
      <4>1. call'[c].users = call[c].users
        <5>1. ~FindLeaves(c)
          <6>1. At(c)[1] # "leaves"
            BY <1>2, <1>3 DEF ExtractWords
          <6> QED
            BY <6>1, Zenon DEF FindLeaves, Doing
        <5> QED
          BY <3>2, <5>1, SameCall, Zenon
      <4>2. PICK w \in 1 .. Windows :
               Before(ExtractSteps, call'[c].step, <<"store", "root", w>>)
        BY <2>5 DEF PastRoot
      <4>3. PICK j \in 1 .. Len(ExtractSteps) :
               j < call'[c].step /\ ExtractSteps[j] = <<"store", "root", w>>
        BY <4>2 DEF Before
      <4>4. j # call[c].step
        <5>1. ASSUME j = call[c].step PROVE FALSE
          <6>1. At(c) \in ExtractWords /\ At(c)[2] = "root" /\ At(c)[1] = "store"
            BY <1>2, <1>3, <4>3, <5>1
          <6> QED
            BY <6>1, <1>5, <3>2, ExtractsAt, Zenon
        <5> QED
          BY <5>1
      <4>5. j < call[c].step
        BY <4>3, <4>4, <2>1, <1>2
      <4>6. PastRoot(c)
        BY <4>3, <4>5 DEF PastRoot, Before
      <4>7. fails = 0
        BY <1>1, <2>5 DEF Kept
      <4> QED
        BY <4>1, <4>6, <4>7, Zenon DEF StoreInv
    <3> QED
      BY <3>1, <3>2
  <2> QED
    BY <2>4, <2>5
<1> QED
  BY <1>4, <1>5

\* What is stored, and what the extractions have done, after a step.
LEMMA ActStores ==
  ASSUME TypeOK, StoreInv, NEW c \in Calls, Act(c)
  PROVE  StoreInv'
<1>1. /\ Kept /\ \A x \in ExtractWords : Done(x) => Done(x)'
  BY ActKeeps, KeptDone
<1>2. ASSUME NEW b \in Calls, call'[b].op = "extract"
      PROVE  /\ call'[b].gen # 0
             /\ \A k \in 1 .. Len(ExtractSteps) : k < call'[b].step => Done(ExtractSteps[k])'
             /\ fails' = 0 /\ PastRoot(b)' => call'[b].users = Users
  <2>1. CASE b # c
    <3>1. call'[b] = call[b]
      BY <2>1, OtherCalls, Zenon
    <3>2. /\ call[b].gen # 0
          /\ \A k \in 1 .. Len(ExtractSteps) : k < call[b].step => Done(ExtractSteps[k])
          /\ fails = 0 /\ PastRoot(b) => call[b].users = Users
      BY <3>1, <1>2, Zenon DEF StoreInv
    <3>3. \A k \in 1 .. Len(ExtractSteps) : k < call[b].step => Done(ExtractSteps[k])'
      BY <3>2, <1>1, ExtractOrder
    <3>4. PastRoot(b)' <=> PastRoot(b)
      BY <3>1, Zenon DEF PastRoot
    <3> QED
      BY <3>1, <3>2, <3>3, <3>4, <1>1, Zenon DEF Kept
  <2>2. CASE b = c
    <3>1. ~Ended(c)
      BY <2>2, <1>2 DEF Ended, Idle
    <3>2. call[c].op = "extract" /\ call'[c].gen = call[c].gen
      BY <3>1, <2>2, <1>2, SameCall, Zenon
    <3>3. call[c].gen # 0
      BY <3>2, Zenon DEF StoreInv
    <3> QED
      BY <2>2, <3>1, <3>2, <3>3, OwnExtract, Zenon
  <2> QED
    BY <2>1, <2>2
<1>3. StoredInOrder'
  BY ActOrders
<1> QED
  BY <1>2, <1>3, Zenon DEF StoreInv, PastRoot

LEMMA StartStores ==
  ASSUME TypeOK, StoreInv, NEW c \in Calls, NEW op \in Ops, Start(c, op)
  PROVE  StoreInv'
<1>1. /\ Begun(c, op) /\ ~Active(c) /\ extracts' \in Nat
      /\ (op = "extract" => extracts' # 0)
  BY StartBegins, Zenon
<1>2. row' = row /\ split' = split /\ dataset' = dataset /\ left' = left /\ fails' = fails
  BY Zenon DEF Start, store
<1>3. \A x : Done(x)' <=> Done(x)
  BY <1>2, Zenon DEF Done, Settled
<1>4. ASSUME NEW b \in Calls, call'[b].op = "extract"
      PROVE  /\ call'[b].gen # 0
             /\ \A k \in 1 .. Len(ExtractSteps) : k < call'[b].step => Done(ExtractSteps[k])'
             /\ fails' = 0 /\ PastRoot(b)' => call'[b].users = Users
  <2>1. CASE b = c
    <3>1. call'[c].step = 1 /\ call'[c].gen = extracts' /\ op = "extract"
      BY <2>1, <1>1, <1>4 DEF Begun
    <3>2. \A k \in 1 .. Len(ExtractSteps) : ~(k < 1)
      OBVIOUS
    <3>3. ~PastRoot(c)'
      BY <3>1, <3>2 DEF PastRoot, Before
    <3> QED
      BY <2>1, <3>1, <3>2, <3>3, <1>1
  <2>2. CASE b # c
    <3>1. /\ call[b].op = "extract" /\ call'[b].gen = call[b].gen /\ call'[b].step = call[b].step
          /\ call'[b].users = call[b].users
      BY <2>2, <1>1, <1>4 DEF Begun
    <3>2. \A k \in 1 .. Len(ExtractSteps) : k < call[b].step => Done(ExtractSteps[k])
      BY <3>1, Zenon DEF StoreInv
    <3>3. call[b].gen # 0 /\ (fails = 0 /\ PastRoot(b) => call[b].users = Users)
      BY <3>1, Zenon DEF StoreInv
    <3>4. PastRoot(b)' <=> PastRoot(b)
      BY <3>1, Zenon DEF PastRoot
    <3> QED
      BY <3>1, <3>2, <3>3, <3>4, <1>2, <1>3, Zenon
  <2> QED
    BY <2>1, <2>2
<1>5. StoredInOrder'
  BY <1>2, Zenon DEF StoreInv, StoredInOrder, Settled
<1> QED
  BY <1>4, <1>5, Zenon DEF StoreInv, PastRoot

LEMMA InitStores == Init => StoreInv
<1> SUFFICES ASSUME Init PROVE StoreInv
  OBVIOUS
<1>1. PICK g \in {0, 1} :
    /\ row = [n \in Nodes |-> [w \in 1 .. Windows |-> g]]
    /\ dataset = g
    /\ call = [c \in Calls |-> Idle]
    /\ left = {}
  BY Zenon DEF Init
<1>2. ASSUME NEW n \in Nodes, NEW w \in 1 .. Windows PROVE row[n][w] = g
  BY <1>1
<1>3. \A w \in 1 .. Windows : \A v \in 1 .. w - 1 : v \in 1 .. Windows
  BY ServiceAssumption
<1>4. StoredInOrder
  BY <1>1, <1>2, <1>3 DEF StoredInOrder, Settled
<1>5. \A c \in Calls : call[c].op # "extract"
  BY <1>1 DEF Idle
<1> QED
  BY <1>4, <1>5 DEF StoreInv

\* Nothing that would disturb a call that is alone is going on.
AloneInv ==
  \A c, b \in Calls :
    c # b /\ Active(c) /\ Active(b) /\ call[c].alone => ~Disturbs(call[b].op, call[c].op)

\* A call that is alone stays so until one comes in that disturbs it.
LEMMA ActAlone ==
  ASSUME TypeOK, AloneInv, NEW c \in Calls, Act(c)
  PROVE  AloneInv'
<1>2. ASSUME NEW b \in Calls, call'[b].op # "idle"
      PROVE  Active(b) /\ call'[b].op = call[b].op /\ call'[b].alone = call[b].alone
  <2>1. CASE b # c
    <3>1. call'[b] = call[b]
      BY <2>1, OtherCalls, Zenon
    <3> QED
      BY <3>1, <1>2, Zenon DEF Active
  <2>2. CASE b = c
    <3>1. ~Ended(c)
      BY <2>2, <1>2 DEF Ended, Idle
    <3> QED
      BY <2>2, <3>1, SameCall, Zenon
  <2> QED
    BY <2>1, <2>2, Zenon
<1> SUFFICES ASSUME NEW a \in Calls, NEW b \in Calls, a # b, call'[a].op # "idle",
                    call'[b].op # "idle", call'[a].alone
             PROVE  ~Disturbs(call'[b].op, call'[a].op)
  BY Zenon DEF AloneInv, Active, Disturbs
<1> QED
  BY <1>2, Zenon DEF AloneInv

LEMMA StartAlone ==
  ASSUME TypeOK, AloneInv, NEW c \in Calls, NEW op \in Ops, Start(c, op)
  PROVE  AloneInv'
<1>1. Begun(c, op) /\ ~Active(c)
  BY StartBegins, Zenon
<1> SUFFICES ASSUME NEW a \in Calls, NEW b \in Calls, a # b, call'[a].op # "idle",
                    call'[b].op # "idle", call'[a].alone
             PROVE  ~Disturbs(call'[b].op, call'[a].op)
  BY Zenon DEF AloneInv, Active, Disturbs
<1>2. CASE a = c
  <2>1. Active(b) /\ call'[b].op = call[b].op /\ call'[c].op = op
    BY <1>1, <1>2 DEF Begun, Active
  <2> QED
    BY <2>1, <1>1, <1>2, Zenon DEF Begun
<1>3. CASE b = c
  <2>1. Active(a) /\ call'[a].op = call[a].op /\ call'[c].op = op
    BY <1>1, <1>3 DEF Begun, Active
  <2>2. a \in Calls \ {c}
    BY <1>3
  <2> QED
    BY <2>1, <2>2, <1>1, <1>3, Zenon DEF Begun
<1>4. CASE a # c /\ b # c
  <2>1. a \in Calls \ {c} /\ b \in Calls \ {c}
    BY <1>4
  <2>2. /\ call'[a].op = call[a].op /\ call'[b].op = call[b].op
        /\ call[a].alone
    BY <2>1, <1>1, Zenon DEF Begun
  <2>3. Active(a) /\ Active(b)
    BY <2>2, Zenon DEF Active
  <2> QED
    BY <2>2, <2>3, Zenon DEF AloneInv
<1> QED
  BY <1>2, <1>3, <1>4, Zenon

-----------------------------------------------------------------------------
(***************************************************************************)
(* Calls that are alone, their users, and whose files are tidy.            *)
(***************************************************************************)
\* The steps at which an operation finds its users, and first writes.
LEMMA Turning ==
  ASSUME TypeOK, NEW c \in Calls
  PROVE  /\ call[c].op = "transform" /\ call[c].step = 2 => At(c)[1] = "leaves"
         /\ call[c].op = "replay" /\ call[c].step = 3 => At(c)[1] = "leaves"
         /\ call[c].op = "transform" /\ call[c].step = 3 => At(c)[1] = "join"
         /\ call[c].op = "replay" /\ call[c].step = 4 => At(c)[1] = "join"
         /\ call[c].op = "fetch" /\ call[c].step = 4 => At(c)[1] = "copy"
BY StepsAre, TransformTable, ReplayTable DEF At, FetchSteps

\* A call that is not over has done its step.
LEMMA Did ==
  ASSUME TypeOK, NEW c \in Calls, Act(c), ~Ended(c)
  PROVE  /\ At(c)[1] = "leaves" => FindLeaves(c)
         /\ At(c)[1] = "join" => JoinFiles(c)
         /\ At(c)[1] = "joined" => Joined(c)
         /\ At(c)[1] = "write" => WritePass(c)
         /\ At(c)[1] = "swap" => SwapPass(c)
         /\ At(c)[1] = "copy" => Copy(c)
         /\ At(c)[1] = "copied" => Copied(c)
         /\ At(c)[1] \in {"series", "zip"} => ReadSeries(c) \/ ZipFile(c)
<1>1. ~AnswerCached(c) /\ ~Fail(c)
  BY Courses, Zenon
<1>2. \/ SplitUsers(c) \/ NoWindows(c) \/ StoreRoot(c) \/ StoreRow(c) \/ StoreDataset(c)
      \/ FindRow(c) \/ NotCached(c)
      \/ FindLeaves(c) \/ JoinFiles(c) \/ Joined(c) \/ WritePass(c) \/ SwapPass(c)
      \/ Rewrite(c) \/ Padded(c) \/ ReadSeries(c) \/ Upsert(c) \/ FindTransformed(c)
      \/ ZipFile(c) \/ Copy(c) \/ Copied(c)
  BY <1>1, Zenon DEF Act
<1> QED
  BY <1>2, Zenon DEF SplitUsers, NoWindows, StoreRoot, AtRoot, StoreRow, StoreDataset, FindRow,
     NotCached, FindLeaves, JoinFiles, Joined, WritePass, SwapPass, Rewrite, Padded, ReadSeries,
     Upsert, FindTransformed, ZipFile, Copy, Copied, Doing

\* The call has found its users.
HasUsers(c) == \/ call[c].op = "transform" /\ call[c].step >= 3
               \/ call[c].op = "replay" /\ call[c].step >= 4
UsersInv == \A c \in Calls : HasUsers(c) => call[c].users \subseteq Leaves

\* The users of a call are leaves, and leaves stay.
LEMMA ActUsers ==
  ASSUME TypeOK, StoreInv, UsersInv, NEW c \in Calls, Act(c)
  PROVE  UsersInv'
<1>1. Leaves \subseteq Leaves'
  <2>1. Kept /\ \A u \in Users : u \in Nodes
    BY ActKeeps DEF Nodes
  <2>2. 1 \in 1 .. Windows
    BY ServiceAssumption
  <2> QED
    BY <2>1, <2>2 DEF Kept, Leaves
<1> SUFFICES ASSUME NEW b \in Calls, HasUsers(b)'
             PROVE  call'[b].users \subseteq Leaves'
  BY DEF UsersInv
<1>2. CASE b # c
  <2>1. call'[b] = call[b]
    BY <1>2, OtherCalls, Zenon
  <2>2. call[b].users \subseteq Leaves
    BY <2>1 DEF UsersInv, HasUsers
  <2> QED
    BY <2>1, <2>2, <1>1
<1>3. CASE b = c
  <2>1. ~Ended(c)
    BY <1>3 DEF HasUsers, Ended, Idle
  <2>2. /\ call'[c].op = call[c].op /\ call[c].step \in Nat
        /\ call'[c].step = call[c].step + 1
        /\ ~FindLeaves(c) => call'[c].users = call[c].users
    <3>1. call'[c].op = call[c].op
      BY <2>1, SameCall, Zenon
    <3>2. call[c].op # "extract"
      BY <3>1, <1>3 DEF HasUsers
    <3> QED
      BY <2>1, <3>1, <3>2, SameCall, Zenon
  <2>3. CASE FindLeaves(c)
    <3>1. call'[c].users = Leaves
      <4>1. Moved(c, Leaves, call[c].read)
        BY <2>3, Courses, Zenon
      <4> QED
        BY <4>1, Zenon DEF Moved
    <3> QED
      BY <3>1, <1>1, <1>3
  <2>4. CASE ~FindLeaves(c)
    <3>1. HasUsers(c)
      <4>1. ~(call[c].op = "transform" /\ call[c].step = 2)
            /\ ~(call[c].op = "replay" /\ call[c].step = 3)
        BY <2>1, <2>4, Did, Turning, Zenon
      <4> QED
        BY <4>1, <2>2, <1>3 DEF HasUsers
    <3> QED
      BY <3>1, <2>2, <2>4, <1>1, <1>3 DEF UsersInv
  <2> QED
    BY <2>3, <2>4
<1> QED
  BY <1>2, <1>3

LEMMA StartUsers ==
  ASSUME TypeOK, UsersInv, NEW c \in Calls, NEW op \in Ops, Start(c, op)
  PROVE  UsersInv'
<1>1. Begun(c, op) /\ row' = row
  BY StartBegins, Zenon DEF Start, store
<1> SUFFICES ASSUME NEW b \in Calls, HasUsers(b)'
             PROVE  call'[b].users \subseteq Leaves'
  BY DEF UsersInv
<1>2. b # c
  BY <1>1 DEF Begun, HasUsers
<1>3. HasUsers(b) /\ call'[b].users = call[b].users
  BY <1>1, <1>2 DEF Begun, HasUsers
<1> QED
  BY <1>1, <1>3 DEF UsersInv, Leaves

\* The calls of an operation whose files are tidy have not begun to write them.
TidyInv ==
  /\ \A c \in Calls :
       /\ "transform" \in tidy /\ call[c].op = "transform" => call[c].step <= 3
       /\ "replay" \in tidy /\ call[c].op = "replay" => call[c].step <= 4
       /\ "fetch" \in tidy /\ call[c].op = "fetch" => call[c].step <= 4
  /\ "fetch" \in tidy => "transform" \in tidy

\* A step leaves what is tidy, or spoils it, or makes it so at the end of a call
\* that was alone.
Spoils(c) ==
  /\ call[c].op \in {"transform", "replay", "fetch"}
  /\ tidy' = tidy \ ({call[c].op} \cup (IF call[c].op = "transform" THEN {"fetch"} ELSE {}))
Tidies(c) ==
  /\ call[c].op \in {"transform", "replay", "fetch"}
  /\ tidy' = tidy \cup {call[c].op}
  /\ AtLast(c) /\ call[c].alone /\ Ended(c)
  /\ SwapPass(c) \/ Upsert(c) \/ Copied(c)
  /\ call[c].op = "fetch" => "transform" \in tidy

\* Every step does one of the three.
LEMMA TidySteps ==
  ASSUME TypeOK, NEW c \in Calls, Act(c)
  PROVE  \/ tidy' = tidy /\ ~JoinFiles(c) /\ ~Copy(c)
         \/ Spoils(c) \/ Tidies(c)
<1>1. JoinFiles(c) \/ Copy(c) => ~AtLast(c)
  <2>1. ASSUME JoinFiles(c) PROVE ~AtLast(c)
    <3>1. Active(c) /\ <<call[c].op, call[c].step, At(c)[2]>> \in Joinings
      BY <2>1, Place, Zenon DEF JoinFiles, Doing, Active, Placed
    <3>2. \/ call[c].op = "transform" /\ call[c].step # 27
          \/ call[c].op = "replay" /\ call[c].step # 11
      BY <3>1 DEF Joinings
    <3> QED
      BY <3>1, <3>2, Place
  <2>2. ASSUME Copy(c) PROVE ~AtLast(c)
    <3>1. /\ Active(c) /\ call[c].op = "fetch"
          /\ <<call[c].step, At(c)[2]>> \in {<<4, "download">>, <<6, "upload">>}
      BY <2>2, Place, Zenon DEF Copy, Doing, Active, Placed
    <3> QED
      BY <3>1, Place
  <2> QED
    BY <2>1, <2>2
<1>2. ASSUME tidy' = Tidy(c), JoinFiles(c) \/ SwapPass(c) \/ Upsert(c) \/ Copy(c) \/ Copied(c),
             Copied(c) => "transform" \in tidy
      PROVE  Spoils(c) \/ Tidies(c)
  <2>1. call[c].op \in {"transform", "replay", "fetch"}
    BY <1>2, About DEF Kinds
  <2>2. CASE AtLast(c) /\ call[c].alone
    <3>1. Goes(c)
      BY <1>2, Courses, Zenon
    <3>2. Ended(c)
      BY <3>1, <2>2, Zenon DEF Goes
    <3>3. tidy' = tidy \cup {call[c].op}
      BY <2>2, <1>2, Zenon DEF Tidy
    <3>4. SwapPass(c) \/ Upsert(c) \/ Copied(c)
      BY <2>2, <1>1, <1>2, Zenon
    <3>5. call[c].op = "fetch" => Copied(c)
      BY <3>4, About DEF Kinds
    <3> QED
      BY <2>1, <2>2, <3>2, <3>3, <3>4, <3>5, <1>2, Zenon DEF Tidies
  <2>3. CASE ~(AtLast(c) /\ call[c].alone)
    BY <2>1, <2>3, <1>2, Zenon DEF Tidy, Spoils
  <2> QED
    BY <2>2, <2>3
<1>3. CASE JoinFiles(c) \/ SwapPass(c) \/ Upsert(c) \/ Copy(c)
  <2>1. tidy' = Tidy(c)
    BY <1>3, Zenon DEF JoinFiles, SwapPass, Upsert, Copy
  <2>2. ~Copied(c)
    BY <1>3, Zenon DEF JoinFiles, SwapPass, Upsert, Copy, Copied, Doing
  <2> QED
    BY <2>1, <2>2, <1>2, <1>3
<1>4. CASE Copied(c)
  <2>1. CASE "transform" \in tidy
    BY <2>1, <1>4, <1>2, Zenon DEF Copied
  <2>2. CASE "transform" \notin tidy
    BY <2>2, <1>4, Zenon DEF Copied, JoinFiles, Copy, Doing
  <2> QED
    BY <2>1, <2>2
<1>5. CASE ~JoinFiles(c) /\ ~SwapPass(c) /\ ~Upsert(c) /\ ~Copy(c) /\ ~Copied(c)
  BY <1>5, Untouched, Zenon
<1> QED
  BY <1>3, <1>4, <1>5

\* A call whose first writing step is over has spoilt its files.
LEMMA ActTidy ==
  ASSUME TypeOK, AloneInv, TidyInv, NEW c \in Calls, Act(c)
  PROVE  TidyInv'
<1>1. CASE tidy' = tidy /\ ~JoinFiles(c) /\ ~Copy(c)
  <2>1. ASSUME NEW b \in Calls
        PROVE  /\ "transform" \in tidy /\ call'[b].op = "transform" => call'[b].step <= 3
               /\ "replay" \in tidy /\ call'[b].op = "replay" => call'[b].step <= 4
               /\ "fetch" \in tidy /\ call'[b].op = "fetch" => call'[b].step <= 4
    <3>1. CASE b # c
      BY <3>1, OtherCalls DEF TidyInv
    <3>2. CASE b = c /\ Ended(c)
      BY <3>2 DEF Ended, Idle
    <3>3. CASE b = c /\ ~Ended(c)
      <4>1. /\ call'[c].op = call[c].op /\ call[c].step \in Nat
            /\ call[c].op # "extract" => call'[c].step = call[c].step + 1
        BY <3>3, SameCall, Zenon
      <4>2. /\ ~(call[c].op = "transform" /\ call[c].step = 3)
            /\ ~(call[c].op = "replay" /\ call[c].step = 4)
            /\ ~(call[c].op = "fetch" /\ call[c].step = 4)
        BY <3>3, <1>1, Did, Turning, Zenon
      <4> QED
        BY <3>3, <4>1, <4>2 DEF TidyInv
    <3> QED
      BY <3>1, <3>2, <3>3
  <2> QED
    BY <1>1, <2>1 DEF TidyInv
<1>2. CASE Spoils(c)
  <2>1. ASSUME NEW b \in Calls
        PROVE  /\ "transform" \in tidy' /\ call'[b].op = "transform" => call'[b].step <= 3
               /\ "replay" \in tidy' /\ call'[b].op = "replay" => call'[b].step <= 4
               /\ "fetch" \in tidy' /\ call'[b].op = "fetch" => call'[b].step <= 4
    <3>1. CASE b # c
      BY <3>1, <1>2, OtherCalls DEF TidyInv, Spoils
    <3>2. CASE b = c /\ Ended(c)
      BY <3>2 DEF Ended, Idle
    <3>3. CASE b = c /\ ~Ended(c)
      <4>1. call'[c].op = call[c].op
        BY <3>3, SameCall, Zenon
      <4> QED
        BY <3>3, <4>1, <1>2 DEF Spoils
    <3> QED
      BY <3>1, <3>2, <3>3
  <2>2. "fetch" \in tidy' => "transform" \in tidy'
    BY <1>2 DEF Spoils, TidyInv
  <2> QED
    BY <2>1, <2>2 DEF TidyInv
<1>3. CASE Tidies(c)
  <2>1. ASSUME NEW b \in Calls
        PROVE  /\ "transform" \in tidy' /\ call'[b].op = "transform" => call'[b].step <= 3
               /\ "replay" \in tidy' /\ call'[b].op = "replay" => call'[b].step <= 4
               /\ "fetch" \in tidy' /\ call'[b].op = "fetch" => call'[b].step <= 4
    <3>1. CASE b # c
      <4>1. call'[b] = call[b]
        BY <3>1, OtherCalls, Zenon
      <4>2. call[b].op # call[c].op
        <5>1. Active(c) /\ call[c].alone
          BY <1>3, Courses, Zenon DEF Tidies
        <5>2. Active(b) => ~Disturbs(call[b].op, call[c].op)
          BY <3>1, <5>1, Zenon DEF AloneInv
        <5> QED
          BY <5>1, <5>2, Zenon DEF Disturbs, Active
      <4> QED
        BY <4>1, <4>2, <1>3 DEF TidyInv, Tidies
    <3>2. CASE b = c
      BY <3>2, <1>3 DEF Ended, Idle, Tidies
    <3> QED
      BY <3>1, <3>2
  <2>2. "fetch" \in tidy' => "transform" \in tidy'
    BY <1>3 DEF Tidies, TidyInv
  <2> QED
    BY <2>1, <2>2 DEF TidyInv
<1> QED
  BY <1>1, <1>2, <1>3, TidySteps, Zenon

LEMMA StartTidy ==
  ASSUME TypeOK, TidyInv, NEW c \in Calls, NEW op \in Ops, Start(c, op)
  PROVE  TidyInv'
<1>1. Begun(c, op) /\ tidy' = tidy
  BY StartBegins, Zenon DEF Start
<1>2. ASSUME NEW b \in Calls
      PROVE  /\ "transform" \in tidy /\ call'[b].op = "transform" => call'[b].step <= 3
             /\ "replay" \in tidy /\ call'[b].op = "replay" => call'[b].step <= 4
             /\ "fetch" \in tidy /\ call'[b].op = "fetch" => call'[b].step <= 4
  BY <1>1 DEF Begun, TidyInv
<1> QED
  BY <1>1, <1>2 DEF TidyInv

-----------------------------------------------------------------------------
(***************************************************************************)
(* What the calls of an operation leave to others.                         *)
(***************************************************************************)
\* Each operation writes what is its own.
LEMMA Frames ==
  ASSUME TypeOK, NEW c \in Calls, Act(c)
  PROVE  /\ call[c].op # "transform" =>
              /\ trow' = trow /\ file'["transform"] = file["transform"]
              /\ \A p \in Passes : tmp'[p]["transform"] = tmp[p]["transform"]
         /\ call[c].op # "replay" =>
              /\ file'["replay"] = file["replay"]
              /\ \A p \in Passes : tmp'[p]["replay"] = tmp[p]["replay"]
         /\ call[c].op # "fetch" => worker' = worker
         /\ call[c].op # "extract" => row' = row /\ split' = split
<1>1. ASSUME NEW k \in Kinds, k # call[c].op
      PROVE  /\ file'[k] = file[k] /\ \A p \in Passes : tmp'[p][k] = tmp[p][k]
  <2>1. file'[k] = file[k]
    <3>1. CASE JoinFiles(c) \/ Joined(c) \/ SwapPass(c) \/ Rewrite(c) \/ Padded(c)
      <4>1. PICK d \in Dirs, f \in Files : file' = [file EXCEPT ![call[c].op][d] = f]
        BY <3>1, OneFile, Zenon
      <4> QED
        BY <4>1, <1>1 DEF TypeOK
    <3> QED
      BY <3>1, Untouched, Zenon
  <2>2. ASSUME NEW q \in Passes PROVE tmp'[q][k] = tmp[q][k]
    <3>1. CASE WritePass(c) \/ SwapPass(c) \/ Padded(c)
      <4>1. PICK p \in Passes, f \in Files : tmp' = [tmp EXCEPT ![p][call[c].op][At(c)[2]] = f]
        BY <3>1, OneScratchFile, Zenon
      <4> QED
        BY <4>1, <1>1 DEF TypeOK
    <3> QED
      BY <3>1, Untouched, Zenon
  <2> QED
    BY <2>1, <2>2
<1>2. "transform" \in Kinds /\ "replay" \in Kinds
  BY DEF Kinds
<1>3. call[c].op # "transform" => trow' = trow
  BY Untouched, About, Zenon
<1>4. call[c].op # "fetch" => worker' = worker
  BY Untouched, About, Zenon
<1>5. call[c].op # "extract" => row' = row /\ split' = split
  BY Untouched, About, Zenon
<1> QED
  BY <1>1, <1>2, <1>3, <1>4, <1>5

\* Beside a call that is alone, no other works on what it works on.
LEMMA AloneFrom ==
  ASSUME AloneInv, NEW c \in Calls, NEW b \in Calls, b # c, Active(c), Active(b), call[b].alone
  PROVE  /\ call[c].op # call[b].op
         /\ call[b].op \in Kinds => call[c].op # "extract"
         /\ call[b].op = "fetch" => call[c].op # "transform"
BY Zenon DEF AloneInv, Disturbs

\* The users of U who said something in direction d; a whole file of theirs.
Said(U, d) == {u \in U : <<u, d>> \notin Silent}
Has(f, U, d, passes) == f.is = "pcap" /\ DOMAIN f.from = Said(U, d) /\ f.passes = passes

\* The first n of all passes.
First(n) == [i \in 1 .. n |-> AllPasses[i]]

\* One pass more.
LEMMA NextOfAll ==
  /\ First(0) = <<>> /\ First(4) = AllPasses
  /\ \A n \in 0 .. 3 : /\ AllPasses[n + 1] \in Passes
                      /\ Append(First(n), AllPasses[n + 1]) = First(n + 1)
<1>1. /\ AllPasses \in Seq(Passes) /\ Len(AllPasses) = 4
      /\ \A i \in 1 .. 4 : AllPasses[i] \in Passes
  BY DEF AllPasses, Passes
<1>2. \A n \in 0 .. 4 : First(n) \in Seq(Passes) /\ Len(First(n)) = n
  BY <1>1 DEF First
<1>3. First(4) = AllPasses
  BY <1>1 DEF First
<1>4. First(0) = <<>>
  BY <1>2
<1>5. ASSUME NEW n \in 0 .. 3
      PROVE  AllPasses[n + 1] \in Passes /\ Append(First(n), AllPasses[n + 1]) = First(n + 1)
  <2>1. AllPasses[n + 1] \in Passes
    <3>1. n + 1 \in 1 .. 4
      OBVIOUS
    <3> QED
      BY <3>1, <1>1, Zenon
  <2>2. /\ First(n) \in Seq(Passes) /\ Len(First(n)) = n
        /\ First(n + 1) \in Seq(Passes) /\ Len(First(n + 1)) = n + 1
    <3>1. n \in 0 .. 4 /\ n + 1 \in 0 .. 4
      OBVIOUS
    <3> QED
      BY <3>1, <1>2, Zenon
  <2> DEFINE s == Append(First(n), AllPasses[n + 1])
  <2>3. s \in Seq(Passes) /\ Len(s) = n + 1
    BY <2>1, <2>2
  <2>4. \A i \in 1 .. n + 1 : s[i] = First(n + 1)[i]
    BY <2>1, <2>2 DEF First
  <2> HIDE DEF s
  <2>5. s = First(n + 1)
    BY <2>2, <2>3, <2>4
  <2> QED
    BY <2>1, <2>5 DEF s
<1> QED
  BY <1>3, <1>4, <1>5

\* A pass over a whole file leaves it whole.
LEMMA PassedOn ==
  ASSUME NEW f \in Files, NEW U, NEW d, NEW passes, Has(f, U, d, passes), NEW p
  PROVE  Has(After(p, f), U, d, Append(passes, p))
<1>1. /\ f \in [is : {"pcap"}, from : UNION {[S -> Nat] : S \in SUBSET Users}, passes : Seq(Passes)]
      /\ f.is = "pcap"
  BY DEF Files, Has, Absent, Torn
<1>2. After(p, f) = [f EXCEPT !.passes = Append(f.passes, p)]
  BY <1>1 DEF After
<1> QED
  BY <1>1, <1>2 DEF Has

\* The users of a call who have files.
Sources(c) == {u \in call[c].users : split[u] # 0}

\* What joincap is given once the call has its users.
LEMMA GivenToJoin ==
  ASSUME TypeOK, NEW c \in Calls, NEW d \in Dirs
  PROVE  /\ Given(c, d) = Said(Sources(c), d)
         /\ Sources(c) \in SUBSET Users
         /\ Has(Pcap([u \in Given(c, d) |-> split[u]], <<>>), Sources(c), d, <<>>)
<1>1. call[c].users \in SUBSET Users
  BY DEF TypeOK, CallRecords
<1>2. Sources(c) \in SUBSET Users
  BY <1>1 DEF Sources
<1>3. Given(c, d) = Said(Sources(c), d)
  BY DEF Given, Said, Sources
<1> DEFINE g == [u \in Given(c, d) |-> split[u]]
<1>4. DOMAIN g = Given(c, d)
  OBVIOUS
<1> HIDE DEF g
<1>5. Has(Pcap(g, <<>>), Sources(c), d, <<>>)
  BY <1>3, <1>4 DEF Has, Pcap
<1> QED
  BY <1>2, <1>3, <1>5 DEF g

\* They stay the same while a call that writes files of a row is alone.
LEMMA SourcesStay ==
  ASSUME TypeOK, AloneInv, NEW c \in Calls, Act(c), NEW b \in Calls, Active(b),
         call[b].op \in Kinds, call[b].alone, call'[b].users = call[b].users
  PROVE  Sources(b)' = Sources(b)
<1>1. Active(c)
  BY EachGoesOn, Zenon DEF OnItsWay
<1>2. call[c].op # "extract"
  <2>1. CASE b = c
    BY <2>1 DEF Kinds
  <2>2. CASE b # c
    BY <2>2, <1>1, AloneFrom, Zenon
  <2> QED
    BY <2>1, <2>2
<1>3. split' = split
  BY <1>2, Frames, Zenon
<1> QED
  BY <1>3, Zenon DEF Sources

-----------------------------------------------------------------------------
(***************************************************************************)
(* A transform that is alone, pass by pass.                                *)
(***************************************************************************)
\* The passes over the file of direction d that a transform at step s has behind it,
\* whether the file is whole there, and whether the output of the next pass lies
\* beside it.
Over(d, s) ==
  IF d = "download"
  THEN IF s < 9 THEN 0 ELSE IF s < 13 THEN 1 ELSE IF s < 18 THEN 2 ELSE IF s < 23 THEN 3 ELSE 4
  ELSE IF s < 11 THEN 0 ELSE IF s < 15 THEN 1 ELSE IF s < 21 THEN 2 ELSE IF s < 25 THEN 3 ELSE 4
Whole(d, s) == IF d = "download" THEN s >= 5 /\ s # 17 ELSE s >= 7 /\ s # 20
Output(d, s) == s \in IF d = "download" THEN {8, 12, 16, 17, 22} ELSE {10, 14, 19, 20, 24}

\* The steps that write the file of direction d or what lies beside it.
FileSteps(d) == IF d = "download" THEN {3, 4, 7, 8, 11, 12, 15, 16, 17, 21, 22}
                ELSE {5, 6, 9, 10, 13, 14, 18, 19, 20, 23, 24}
FileWords == {"join", "joined", "write", "swap", "rewrite", "padded"}

\* What a step of a transform makes of the file of its direction.
LEMMA Stages ==
  ASSUME NEW d \in Dirs, NEW s \in 1 .. 26
  PROVE  /\ <<"transform", s, d>> \in Joinings => ~Whole(d, s + 1) /\ ~Output(d, s + 1)
         /\ <<"transform", s - 1, d>> \in Joinings =>
              Whole(d, s + 1) /\ ~Output(d, s + 1) /\ Over(d, s + 1) = 0
         /\ \A p \in Passes : <<"transform", s, d, p>> \in Writings =>
              /\ Whole(d, s) /\ Over(d, s) \in 0 .. 3 /\ Over(d, s + 1) = Over(d, s)
              /\ p = AllPasses[Over(d, s) + 1]
         /\ \A p \in Passes : <<"transform", s - 1, d, p>> \in Writings /\ p # "pad" =>
              /\ Output(d, s) /\ ~Output(d, s + 1) /\ Over(d, s + 1) = Over(d, s) + 1
              /\ p = AllPasses[Over(d, s) + 1]
         /\ <<s, d>> \in Paddings =>
              ~Whole(d, s + 1) /\ Output(d, s) /\ Over(d, s + 1) = Over(d, s)
         /\ <<s - 1, d>> \in Paddings =>
              /\ Output(d, s) /\ ~Output(d, s + 1) /\ Over(d, s + 1) = Over(d, s) + 1
              /\ "pad" = AllPasses[Over(d, s) + 1]
<1>1. /\ AllPasses[0 + 1] = "clip" /\ AllPasses[1 + 1] = "order"
      /\ AllPasses[2 + 1] = "pad" /\ AllPasses[3 + 1] = "trim"
  BY DEF AllPasses
<1>2. CASE d = "download"
  <2>1. <<"transform", s, d>> \in Joinings => ~Whole(d, s + 1) /\ ~Output(d, s + 1)
    BY <1>2 DEF Joinings, Whole, Output
  <2>2. <<"transform", s - 1, d>> \in Joinings =>
              Whole(d, s + 1) /\ ~Output(d, s + 1) /\ Over(d, s + 1) = 0
    BY <1>2 DEF Joinings, Whole, Output, Over
  <2>3. ASSUME NEW p \in Passes, <<"transform", s, d, p>> \in Writings
        PROVE  /\ Whole(d, s) /\ Over(d, s) \in 0 .. 3 /\ Over(d, s + 1) = Over(d, s)
               /\ p = AllPasses[Over(d, s) + 1]
    <3>1. (s = 7 /\ p = "clip") \/ (s = 11 /\ p = "order") \/ (s = 15 /\ p = "pad")
          \/ (s = 21 /\ p = "trim")
      BY <2>3, <1>2 DEF Writings
    <3> QED
      BY <3>1, <1>1, <1>2 DEF Whole, Over
  <2>4. ASSUME NEW p \in Passes, <<"transform", s - 1, d, p>> \in Writings, p # "pad"
        PROVE  /\ Output(d, s) /\ ~Output(d, s + 1) /\ Over(d, s + 1) = Over(d, s) + 1
               /\ p = AllPasses[Over(d, s) + 1]
    <3>1. (s = 8 /\ p = "clip") \/ (s = 12 /\ p = "order") \/ (s = 22 /\ p = "trim")
      BY <2>4, <1>2 DEF Writings
    <3> QED
      BY <3>1, <1>1, <1>2 DEF Output, Over
  <2>5. <<s, d>> \in Paddings => ~Whole(d, s + 1) /\ Output(d, s) /\ Over(d, s + 1) = Over(d, s)
    BY <1>2 DEF Paddings, Whole, Output, Over
  <2>6. <<s - 1, d>> \in Paddings =>
              /\ Output(d, s) /\ ~Output(d, s + 1) /\ Over(d, s + 1) = Over(d, s) + 1
              /\ "pad" = AllPasses[Over(d, s) + 1]
    BY <1>2, <1>1 DEF Paddings, Output, Over
  <2> QED
    BY <2>1, <2>2, <2>3, <2>4, <2>5, <2>6
<1>3. CASE d = "upload"
  <2>1. <<"transform", s, d>> \in Joinings => ~Whole(d, s + 1) /\ ~Output(d, s + 1)
    BY <1>3 DEF Joinings, Whole, Output
  <2>2. <<"transform", s - 1, d>> \in Joinings =>
              Whole(d, s + 1) /\ ~Output(d, s + 1) /\ Over(d, s + 1) = 0
    BY <1>3 DEF Joinings, Whole, Output, Over
  <2>3. ASSUME NEW p \in Passes, <<"transform", s, d, p>> \in Writings
        PROVE  /\ Whole(d, s) /\ Over(d, s) \in 0 .. 3 /\ Over(d, s + 1) = Over(d, s)
               /\ p = AllPasses[Over(d, s) + 1]
    <3>1. (s = 9 /\ p = "clip") \/ (s = 13 /\ p = "order") \/ (s = 18 /\ p = "pad")
          \/ (s = 23 /\ p = "trim")
      BY <2>3, <1>3 DEF Writings
    <3> QED
      BY <3>1, <1>1, <1>3 DEF Whole, Over
  <2>4. ASSUME NEW p \in Passes, <<"transform", s - 1, d, p>> \in Writings, p # "pad"
        PROVE  /\ Output(d, s) /\ ~Output(d, s + 1) /\ Over(d, s + 1) = Over(d, s) + 1
               /\ p = AllPasses[Over(d, s) + 1]
    <3>1. (s = 10 /\ p = "clip") \/ (s = 14 /\ p = "order") \/ (s = 24 /\ p = "trim")
      BY <2>4, <1>3 DEF Writings
    <3> QED
      BY <3>1, <1>1, <1>3 DEF Output, Over
  <2>5. <<s, d>> \in Paddings => ~Whole(d, s + 1) /\ Output(d, s) /\ Over(d, s + 1) = Over(d, s)
    BY <1>3 DEF Paddings, Whole, Output, Over
  <2>6. <<s - 1, d>> \in Paddings =>
              /\ Output(d, s) /\ ~Output(d, s + 1) /\ Over(d, s + 1) = Over(d, s) + 1
              /\ "pad" = AllPasses[Over(d, s) + 1]
    BY <1>3, <1>1 DEF Paddings, Output, Over
  <2> QED
    BY <2>1, <2>2, <2>3, <2>4, <2>5, <2>6
<1> QED
  BY <1>2, <1>3 DEF Dirs

\* A step about something else leaves the file as it is.
LEMMA Elsewhere ==
  ASSUME NEW d \in Dirs, NEW s \in 1 .. 26,
         ~(TransformSteps[s][1] \in FileWords /\ TransformSteps[s][2] = d)
  PROVE  /\ Whole(d, s + 1) => Whole(d, s)
         /\ Output(d, s + 1) => Output(d, s)
         /\ Whole(d, s + 1) \/ Output(d, s + 1) => Over(d, s + 1) = Over(d, s)
<1>1. s \notin FileSteps(d)
  <2>1. CASE d = "download"
    <3>1. s \notin {3, 4, 7, 8, 11, 12}
      BY <2>1, TransformTable DEF FileWords
    <3>2. s \notin {15, 16, 17, 21, 22}
      BY <2>1, TransformTable DEF FileWords
    <3> QED
      BY <3>1, <3>2, <2>1 DEF FileSteps
  <2>2. CASE d = "upload"
    <3>1. s \notin {5, 6, 9, 10, 13, 14}
      BY <2>2, TransformTable DEF FileWords
    <3>2. s \notin {18, 19, 20, 23, 24}
      BY <2>2, TransformTable DEF FileWords
    <3> QED
      BY <3>1, <3>2, <2>2 DEF FileSteps
  <2> QED
    BY <2>1, <2>2 DEF Dirs
<1>2. CASE d = "download"
  BY <1>1, <1>2 DEF FileSteps, Whole, Output, Over
<1>3. CASE d = "upload"
  BY <1>1, <1>3 DEF FileSteps, Whole, Output, Over
<1> QED
  BY <1>2, <1>3 DEF Dirs

\* The files of another kind or direction stay as they are.
LEMMA FilesKept ==
  ASSUME TypeOK, NEW c \in Calls, Act(c), NEW k \in Kinds, NEW d \in Dirs,
         ~(At(c)[1] \in FileWords /\ At(c)[2] = d)
  PROVE  file'[k][d] = file[k][d] /\ \A p \in Passes : tmp'[p][k][d] = tmp[p][k][d]
<1>1. file'[k][d] = file[k][d]
  <2>1. CASE JoinFiles(c) \/ Joined(c) \/ SwapPass(c) \/ Rewrite(c) \/ Padded(c)
    <3>1. At(c)[1] \in FileWords
      <4>1. At(c)[1] = "join" \/ At(c)[1] = "joined" \/ At(c)[1] = "swap" \/ At(c)[1] = "rewrite"
            \/ At(c)[1] = "padded"
        BY <2>1, Zenon DEF JoinFiles, Joined, SwapPass, Rewrite, Padded, Doing
      <4> QED
        BY <4>1 DEF FileWords
    <3>2. PICK f \in Files : file' = [file EXCEPT ![call[c].op][At(c)[2]] = f]
      BY <2>1, OneFile, Zenon
    <3> QED
      BY <3>1, <3>2 DEF TypeOK
  <2> QED
    BY <2>1, Untouched, Zenon
<1>2. ASSUME NEW q \in Passes PROVE tmp'[q][k][d] = tmp[q][k][d]
  <2>1. CASE WritePass(c) \/ SwapPass(c) \/ Padded(c)
    <3>1. At(c)[1] \in FileWords
      <4>1. At(c)[1] = "write" \/ At(c)[1] = "swap" \/ At(c)[1] = "padded"
        BY <2>1, Zenon DEF WritePass, SwapPass, Padded, Doing
      <4> QED
        BY <4>1 DEF FileWords
    <3>2. PICK p \in Passes, f \in Files : tmp' = [tmp EXCEPT ![p][call[c].op][At(c)[2]] = f]
      BY <2>1, OneScratchFile, Zenon
    <3> QED
      BY <3>1, <3>2 DEF TypeOK
  <2> QED
    BY <2>1, Untouched, Zenon
<1> QED
  BY <1>1, <1>2

\* What the step of a call that is alone makes of its file.
LEMMA Effects ==
  ASSUME TypeOK, NEW c \in Calls, call[c].alone, NEW d, d = At(c)[2], ~Skipped(c, d)
  PROVE  /\ Joined(c) => file'[call[c].op][d] = Pcap([u \in Given(c, d) |-> split[u]], <<>>)
         /\ WritePass(c) => /\ tmp'[At(c)[3]][call[c].op][d] = After(At(c)[3], file[call[c].op][d])
                            /\ file' = file
         /\ SwapPass(c) => file'[call[c].op][d] = tmp[At(c)[3]][call[c].op][d]
         /\ Rewrite(c) => tmp' = tmp
         /\ Padded(c) => file'["transform"][d] = tmp["pad"]["transform"][d]
<1>1. ASSUME Joined(c)
      PROVE  file'[call[c].op][d] = Pcap([u \in Given(c, d) |-> split[u]], <<>>)
  <2> DEFINE f == Pcap([u \in Given(c, d) |-> split[u]], <<>>)
  <2>1. file' = [file EXCEPT ![call[c].op][d] = f]
    BY <1>1, Zenon DEF Joined, Known
  <2>2. call[c].op \in Kinds /\ d \in Dirs
    BY <1>1, About
  <2> HIDE DEF f
  <2>3. file'[call[c].op][d] = f
    BY <2>1, <2>2 DEF TypeOK
  <2> QED
    BY <2>3 DEF f
<1>2. ASSUME WritePass(c)
      PROVE  /\ tmp'[At(c)[3]][call[c].op][d] = After(At(c)[3], file[call[c].op][d])
             /\ file' = file
  <2> DEFINE f == After(At(c)[3], file[call[c].op][d])
  <2>1. tmp' = [tmp EXCEPT ![At(c)[3]][call[c].op][d] = f] /\ file' = file
    BY <1>2, Zenon DEF WritePass, Known
  <2>2. call[c].op \in Kinds /\ d \in Dirs /\ At(c)[3] \in Passes
    BY <1>2, About
  <2> HIDE DEF f
  <2>3. tmp'[At(c)[3]][call[c].op][d] = f
    BY <2>1, <2>2 DEF TypeOK
  <2> QED
    BY <2>1, <2>3 DEF f
<1>3. ASSUME SwapPass(c)
      PROVE  file'[call[c].op][d] = tmp[At(c)[3]][call[c].op][d]
  <2>1. file' = [file EXCEPT ![call[c].op][d] = tmp[At(c)[3]][call[c].op][d]]
    BY <1>3, Zenon DEF SwapPass
  <2>2. call[c].op \in Kinds /\ d \in Dirs
    BY <1>3, About
  <2> QED
    BY <2>1, <2>2 DEF TypeOK
<1>4. Rewrite(c) => tmp' = tmp
  BY Zenon DEF Rewrite
<1>5. ASSUME Padded(c)
      PROVE  file'["transform"][d] = tmp["pad"]["transform"][d]
  <2>1. file' = [file EXCEPT !["transform"][d] = tmp["pad"]["transform"][d]]
    BY <1>5, Zenon DEF Padded
  <2>2. "transform" \in Kinds /\ d \in Dirs
    BY <1>5, About DEF Kinds
  <2> QED
    BY <2>1, <2>2 DEF TypeOK
<1> QED
  BY <1>1, <1>2, <1>3, <1>4, <1>5

\* The files of a transform that is alone.
Transforming(c, d) ==
  /\ Whole(d, call[c].step) =>
       Has(file["transform"][d], Sources(c), d, First(Over(d, call[c].step)))
  /\ Output(d, call[c].step) =>
       Has(tmp[AllPasses[Over(d, call[c].step) + 1]]["transform"][d], Sources(c), d,
           First(Over(d, call[c].step) + 1))
Measuring(c) ==
  /\ call[c].step >= 26 => call[c].read["download"] = file["transform"]["download"]
  /\ call[c].step >= 27 => call[c].read["upload"] = file["transform"]["upload"]
TransformInv ==
  \A c \in Calls : call[c].op = "transform" /\ call[c].alone =>
    Measuring(c) /\ \A d \in Dirs : Transforming(c, d)

\* There is a next pass where its output lies.
LEMMA OverPasses ==
  ASSUME NEW d \in Dirs, NEW s \in 1 .. 26
  PROVE  /\ Over(d, s) \in 0 .. 4 /\ (Output(d, s) => Over(d, s) \in 0 .. 3)
BY DEF Over, Output, Dirs

\* A step of its own on the file of direction d.
LEMMA OwnTransform ==
  ASSUME TypeOK, AloneInv, TransformInv, NEW c \in Calls, Act(c), ~Ended(c),
         call[c].op = "transform", call[c].alone, NEW d \in Dirs,
         At(c)[1] \in FileWords, At(c)[2] = d
  PROVE  Transforming(c, d)'
<1> DEFINE s == call[c].step  U == Sources(c)
<1>1. /\ s \in 1 .. 26 /\ call'[c].step = s + 1
  <2>1. call'[c].step = s + 1 /\ Active(c) /\ ~AtLast(c)
    BY SameCall, Zenon
  <2> QED
    BY <2>1, Place
<1>2. Sources(c)' = U
  <2>1. ~FindLeaves(c)
    BY DEF FindLeaves, Doing, FileWords
  <2>2. call'[c].users = call[c].users /\ Active(c)
    BY <2>1, SameCall
  <2>3. call[c].op \in Kinds
    BY DEF Kinds
  <2> QED
    BY <2>2, <2>3, SourcesStay, Zenon
<1>3. ~Skipped(c, d)
  BY DEF Skipped
<1>4. Transforming(c, d)
  BY DEF TransformInv
<1>5. JoinFiles(c) \/ Joined(c) \/ WritePass(c) \/ SwapPass(c) \/ Rewrite(c) \/ Padded(c)
  <2>1. ~AnswerCached(c) /\ ~Fail(c)
    BY Courses, Zenon
  <2>2. At(c)[1] \notin {"split", "store", "dataset", "row", "cached", "leaves", "series",
                         "upsert", "find", "zip", "copy", "copied"}
    BY DEF FileWords
  <2> QED
    BY <2>1, <2>2 DEF Act, Doing, SplitUsers, NoWindows, StoreRoot, AtRoot, StoreRow,
       StoreDataset, FindRow, NotCached, FindLeaves, ReadSeries, Upsert, FindTransformed,
       ZipFile, Copy, Copied
<1>6. Active(c)
  BY SameCall, Zenon
<1> HIDE DEF s, U
<1> SUFFICES /\ Whole(d, s + 1) => Has(file'["transform"][d], U, d, First(Over(d, s + 1)))
             /\ Output(d, s + 1) =>
                  Has(tmp'[AllPasses[Over(d, s + 1) + 1]]["transform"][d], U, d,
                      First(Over(d, s + 1) + 1))
  BY <1>1, <1>2, Zenon DEF Transforming
<1>7. Placed("transform", s, At(c))
  BY <1>6, Place DEF s
<1>8. /\ Whole(d, s) => Has(file["transform"][d], U, d, First(Over(d, s)))
      /\ Output(d, s) =>
           Has(tmp[AllPasses[Over(d, s) + 1]]["transform"][d], U, d, First(Over(d, s) + 1))
  BY <1>4, Zenon DEF Transforming, s, U
<1>9. CASE JoinFiles(c)
  <2>1. <<"transform", s, d>> \in Joinings
    BY <1>9, <1>7, Zenon DEF JoinFiles, Doing, Placed
  <2> QED
    BY <2>1, <1>1, Stages, Zenon
<1>10. CASE Joined(c)
  <2>1. <<"transform", s - 1, d>> \in Joinings
    BY <1>10, <1>7, Zenon DEF Joined, Doing, Placed
  <2>2. Whole(d, s + 1) /\ ~Output(d, s + 1) /\ Over(d, s + 1) = 0
    BY <2>1, <1>1, Stages, Zenon
  <2>3. file'["transform"][d] = Pcap([u \in Given(c, d) |-> split[u]], <<>>)
    <3>1. file'[call[c].op][d] = Pcap([u \in Given(c, d) |-> split[u]], <<>>)
      BY <1>10, <1>3, Effects, Zenon
    <3> QED
      BY <3>1
  <2>5. Has(file'["transform"][d], U, d, <<>>)
    BY <2>3, GivenToJoin, Zenon DEF U
  <2> QED
    BY <2>2, <2>5, NextOfAll, Zenon
<1>11. CASE WritePass(c)
  <2> DEFINE p == At(c)[3]
  <2>1. <<"transform", s, d, p>> \in Writings
    BY <1>11, <1>7, Zenon DEF WritePass, Doing, Placed
  <2>2. p \in Passes
    BY <1>11, About, Zenon
  <2>3. /\ Whole(d, s) /\ Over(d, s) \in 0 .. 3 /\ Over(d, s + 1) = Over(d, s)
        /\ p = AllPasses[Over(d, s) + 1]
    BY <2>1, <2>2, <1>1, Stages, ZenonT(60)
  <2>4. tmp'[p]["transform"][d] = After(p, file["transform"][d]) /\ file' = file
    <3>1. /\ tmp'[p][call[c].op][d] = After(p, file[call[c].op][d])
          /\ file' = file
      BY <1>11, <1>3, Effects, Zenon
    <3> QED
      BY <3>1
  <2>5. file["transform"][d] \in Files
    <3>1. "transform" \in Kinds
      BY DEF Kinds
    <3> QED
      BY <3>1 DEF TypeOK
  <2>6. Has(file["transform"][d], U, d, First(Over(d, s)))
    BY <2>3, <1>8, Zenon
  <2>7. Has(tmp'[p]["transform"][d], U, d, Append(First(Over(d, s)), p))
    BY <2>4, <2>5, <2>6, PassedOn, Zenon
  <2>8. Append(First(Over(d, s)), p) = First(Over(d, s) + 1)
    BY <2>3, NextOfAll, Zenon
  <2> QED
    BY <2>3, <2>4, <2>6, <2>7, <2>8, Zenon
<1>12. CASE SwapPass(c)
  <2> DEFINE p == At(c)[3]
  <2>1. <<"transform", s - 1, d, p>> \in Writings /\ p # "pad"
    BY <1>12, <1>7, Zenon DEF SwapPass, Doing, Placed
  <2>2. p \in Passes
    BY <1>12, About, Zenon
  <2>3. /\ Output(d, s) /\ ~Output(d, s + 1) /\ Over(d, s + 1) = Over(d, s) + 1
        /\ p = AllPasses[Over(d, s) + 1]
    BY <2>1, <2>2, <1>1, Stages, Zenon
  <2>4. file'["transform"][d] = tmp[p]["transform"][d]
    <3>1. file'[call[c].op][d] = tmp[p][call[c].op][d]
      BY <1>12, <1>3, Effects, Zenon
    <3> QED
      BY <3>1
  <2> QED
    BY <2>3, <2>4, <1>8, Zenon
<1>13. CASE Rewrite(c)
  <2>1. <<s, d>> \in Paddings
    BY <1>13, <1>7, Zenon DEF Rewrite, Doing, Placed
  <2>2. ~Whole(d, s + 1) /\ Output(d, s) /\ Over(d, s + 1) = Over(d, s)
    BY <2>1, <1>1, Stages, Zenon
  <2>3. tmp' = tmp
    BY <1>13, <1>3, Effects, Zenon
  <2> QED
    BY <2>2, <2>3, <1>8, Zenon
<1>14. CASE Padded(c)
  <2>1. <<s - 1, d>> \in Paddings
    BY <1>14, <1>7, Zenon DEF Padded, Doing, Placed
  <2>2. /\ Output(d, s) /\ ~Output(d, s + 1) /\ Over(d, s + 1) = Over(d, s) + 1
        /\ "pad" = AllPasses[Over(d, s) + 1]
    BY <2>1, <1>1, Stages, Zenon
  <2>3. file'["transform"][d] = tmp["pad"]["transform"][d]
    BY <1>14, <1>3, Effects, Zenon
  <2> QED
    BY <2>2, <2>3, <1>8, Zenon
<1> QED
  BY <1>5, <1>9, <1>10, <1>11, <1>12, <1>13, <1>14, Zenon

\* A step of its own on something else.
LEMMA OtherTransform ==
  ASSUME TypeOK, AloneInv, TransformInv, NEW c \in Calls, Act(c), ~Ended(c),
         call[c].op = "transform", call[c].alone, NEW d \in Dirs,
         ~(At(c)[1] \in FileWords /\ At(c)[2] = d)
  PROVE  Transforming(c, d)'
<1> DEFINE s == call[c].step  U == Sources(c)  F == file["transform"][d]
           t(n) == tmp[AllPasses[n]]["transform"][d]
<1>1. /\ s \in 1 .. 26 /\ call'[c].step = s + 1
  <2>1. call'[c].step = s + 1 /\ Active(c) /\ ~AtLast(c)
    BY SameCall, Zenon
  <2> QED
    BY <2>1, Place
<1>2. TransformSteps[s] = At(c)
  BY StepsAre DEF At
<1>3. /\ Whole(d, s + 1) => Whole(d, s)
      /\ Output(d, s + 1) => Output(d, s)
      /\ Whole(d, s + 1) \/ Output(d, s + 1) => Over(d, s + 1) = Over(d, s)
  <2> HIDE DEF s
  <2> QED
    BY <1>1, <1>2, Elsewhere, Zenon
<1>4. /\ Whole(d, s) => Has(F, U, d, First(Over(d, s)))
      /\ Output(d, s) => Has(t(Over(d, s) + 1), U, d, First(Over(d, s) + 1))
  BY Zenon DEF TransformInv, Transforming
<1>5. /\ file'["transform"][d] = F
      /\ \A p \in Passes : tmp'[p]["transform"][d] = tmp[p]["transform"][d]
  <2>1. "transform" \in Kinds
    BY DEF Kinds
  <2> QED
    BY <2>1, FilesKept, Zenon
<1>6. Output(d, s) => AllPasses[Over(d, s) + 1] \in Passes
  BY <1>1, OverPasses, NextOfAll, Zenon
<1>7. Whole(d, s + 1) \/ Output(d, s + 1) => Sources(c)' = U
  <2>1. CASE FindLeaves(c)
    <3>1. s = 2
      <4>1. Active(c) /\ At(c)[1] = "leaves"
        BY <2>1, SameCall, Zenon DEF FindLeaves, Doing
      <4>2. (call[c].op = "transform" /\ s = 2) \/ (call[c].op = "replay" /\ s = 3)
        BY <4>1, Place, Zenon DEF Placed
      <4> QED
        BY <4>2
    <3> QED
      BY <3>1 DEF Whole, Output
  <2>2. CASE ~FindLeaves(c)
    <3>1. call'[c].users = call[c].users /\ Active(c)
      BY <2>2, SameCall
    <3>2. call[c].op \in Kinds
      BY DEF Kinds
    <3> QED
      BY <3>1, <3>2, SourcesStay, Zenon
  <2> QED
    BY <2>1, <2>2
<1> HIDE DEF s, U
<1>8. ASSUME Whole(d, s + 1)
      PROVE  Has(file'["transform"][d], Sources(c)', d, First(Over(d, s + 1)))
  BY <1>3, <1>4, <1>5, <1>7, <1>8, Zenon
<1>9. ASSUME Output(d, s + 1)
      PROVE  Has(tmp'[AllPasses[Over(d, s + 1) + 1]]["transform"][d], Sources(c)', d,
                 First(Over(d, s + 1) + 1))
  BY <1>3, <1>4, <1>5, <1>6, <1>7, <1>9, Zenon
<1> QED
  BY <1>1, <1>8, <1>9, Zenon DEF Transforming

\* What it reads of its files stays what they hold.
LEMMA ActMeasures ==
  ASSUME TypeOK, TransformInv, NEW c \in Calls, Act(c), ~Ended(c),
         call[c].op = "transform", call[c].alone
  PROVE  Measuring(c)'
<1>1. /\ call[c].step \in 1 .. 26 /\ call'[c].step = call[c].step + 1
  <2>1. call'[c].step = call[c].step + 1 /\ Active(c) /\ ~AtLast(c)
    BY SameCall, Zenon
  <2> QED
    BY <2>1, Place
<1>2. CASE call[c].step < 25
  BY <1>1, <1>2 DEF Measuring
<1>3. CASE call[c].step \in {25, 26}
  <2>1. /\ At(c)[1] = "series"
        /\ At(c)[2] = IF call[c].step = 25 THEN "download" ELSE "upload"
    BY <1>3, StepsAre, TransformTable DEF At
  <2>2. ReadSeries(c) \/ ZipFile(c)
    BY <2>1, Did
  <2>3. call'[c].read = [call[c].read EXCEPT ![At(c)[2]] = file["transform"][At(c)[2]]]
    BY <2>2, Courses, Zenon DEF Moved
  <2>4. file' = file
    BY <2>2, Zenon DEF ReadSeries, ZipFile, disk
  <2>5. call[c].read \in [Dirs -> Files]
    BY DEF TypeOK, CallRecords
  <2>6. call[c].step = 26 => call[c].read["download"] = file["transform"]["download"]
    BY <1>1 DEF TransformInv, Measuring
  <2>7. CASE call[c].step = 25
    <3>1. call'[c].read["download"] = file["transform"]["download"]
      BY <2>1, <2>3, <2>5, <2>7 DEF Dirs
    <3> QED
      BY <3>1, <2>4, <2>7, <1>1 DEF Measuring
  <2>8. CASE call[c].step = 26
    <3>1. /\ call'[c].read["upload"] = file["transform"]["upload"]
          /\ call'[c].read["download"] = call[c].read["download"]
      BY <2>1, <2>3, <2>5, <2>8 DEF Dirs
    <3> QED
      BY <3>1, <2>4, <2>6, <2>8, <1>1 DEF Measuring
  <2> QED
    BY <1>3, <2>7, <2>8
<1> QED
  BY <1>1, <1>2, <1>3

\* A transform that is alone finds its files as it left them.
LEMMA ActTransforms ==
  ASSUME TypeOK, AloneInv, TransformInv, NEW c \in Calls, Act(c)
  PROVE  TransformInv'
<1> SUFFICES ASSUME NEW b \in Calls, call'[b].op = "transform", call'[b].alone
             PROVE  Measuring(b)' /\ \A d \in Dirs : Transforming(b, d)'
  BY Zenon DEF TransformInv
<1>1. CASE b # c
  <2>1. call'[b] = call[b]
    BY <1>1, OtherCalls, Zenon
  <2>2. Active(b) /\ call[b].op = "transform" /\ call[b].alone
    BY <2>1 DEF Active
  <2>3. call[c].op # "transform"
    <3>1. Active(c)
      BY Courses, Zenon
    <3> QED
      BY <3>1, <2>2, <1>1, AloneFrom, Zenon
  <2>4. /\ file'["transform"] = file["transform"]
        /\ \A p \in Passes : tmp'[p]["transform"] = tmp[p]["transform"]
    BY <2>3, Frames, Zenon
  <2>5. Measuring(b) /\ \A d \in Dirs : Transforming(b, d)
    BY <2>2, Zenon DEF TransformInv
  <2>6. Measuring(b)'
    BY <2>1, <2>4, <2>5 DEF Measuring
  <2>7. ASSUME NEW d \in Dirs PROVE Transforming(b, d)'
    <3> DEFINE s == call[b].step
    <3>1. Output(d, s) => AllPasses[Over(d, s) + 1] \in Passes
      <4>1. call[b].step \in 1 .. 27
        BY <2>2, Place
      <4>2. Output(d, 27) => FALSE
        BY DEF Output
      <4>3. Output(d, s) => s \in 1 .. 26
        <5>1. s = 27 \/ s \in 1 .. 26
          BY <4>1
        <5> HIDE DEF s
        <5> QED
          BY <5>1, <4>2, Zenon
      <4> HIDE DEF s
      <4> QED
        BY <4>3, OverPasses, NextOfAll, Zenon
    <3>2. call'[b].step = s /\ Sources(b)' = Sources(b)
      <4>1. call[b].op \in Kinds /\ call'[b].users = call[b].users
        BY <2>1, <2>2 DEF Kinds
      <4>2. Sources(b)' = Sources(b)
        BY <4>1, <2>2, SourcesStay, Zenon
      <4> QED
        BY <4>2, <2>1
    <3>3. /\ Whole(d, s) => Has(file["transform"][d], Sources(b), d, First(Over(d, s)))
          /\ Output(d, s) => Has(tmp[AllPasses[Over(d, s) + 1]]["transform"][d], Sources(b), d,
                                 First(Over(d, s) + 1))
      BY <2>5, Zenon DEF Transforming
    <3> HIDE DEF s
    <3>4. /\ Whole(d, s) => Has(file'["transform"][d], Sources(b), d, First(Over(d, s)))
          /\ Output(d, s) => Has(tmp'[AllPasses[Over(d, s) + 1]]["transform"][d], Sources(b), d,
                                 First(Over(d, s) + 1))
      BY <3>1, <3>3, <2>4, Zenon
    <3> QED
      BY <3>2, <3>4, Zenon DEF Transforming
  <2> QED
    BY <2>6, <2>7
<1>2. CASE b = c
  <2>1. ~Ended(c)
    BY <1>2 DEF Ended, Idle
  <2>2. call[c].op = "transform" /\ call[c].alone
    BY <2>1, <1>2, SameCall, Zenon
  <2>3. Measuring(c)'
    BY <2>1, <2>2, ActMeasures, Zenon
  <2>4. \A d \in Dirs : Transforming(c, d)'
    BY <2>1, <2>2, OwnTransform, OtherTransform, Zenon
  <2> QED
    BY <2>3, <2>4, <1>2, Zenon
<1> QED
  BY <1>1, <1>2

LEMMA StartTransforms ==
  ASSUME TypeOK, TransformInv, NEW c \in Calls, NEW op \in Ops, Start(c, op)
  PROVE  TransformInv'
<1>1. Begun(c, op) /\ file' = file /\ tmp' = tmp /\ split' = split
  BY StartBegins, Zenon DEF Start, disk, store
<1> SUFFICES ASSUME NEW b \in Calls, call'[b].op = "transform", call'[b].alone
             PROVE  Measuring(b)' /\ \A d \in Dirs : Transforming(b, d)'
  BY Zenon DEF TransformInv
<1>2. CASE b = c
  <2>1. call'[c].step = 1
    BY <1>1 DEF Begun
  <2> QED
    BY <1>2, <2>1 DEF Measuring, Transforming, Whole, Output
<1>3. CASE b # c
  <2>1. /\ call[b].op = "transform" /\ call[b].alone /\ call'[b].step = call[b].step
        /\ call'[b].users = call[b].users /\ call'[b].read = call[b].read
        /\ Sources(b)' = Sources(b)
    BY <1>1, <1>3 DEF Begun, Sources
  <2>2. Measuring(b) /\ \A d \in Dirs : Transforming(b, d)
    BY <2>1, Zenon DEF TransformInv
  <2>3. Measuring(b)'
    BY <2>1, <2>2, <1>1, Zenon DEF Measuring
  <2>4. \A d \in Dirs : Transforming(b, d)'
    BY <2>1, <2>2, <1>1, Zenon DEF Transforming
  <2> QED
    BY <2>3, <2>4
<1> QED
  BY <1>2, <1>3

-----------------------------------------------------------------------------
(***************************************************************************)
(* A fetch that is alone; the row and its copy.                            *)
(***************************************************************************)
\* What a fetch that is alone has read stays what the files hold.
Fetching(c) ==
  /\ call[c].step >= 3 => call[c].read["download"] = file["transform"]["download"]
  /\ call[c].step >= 4 => call[c].read["upload"] = file["transform"]["upload"]
  /\ call[c].step >= 6 => worker["download"] = call[c].read["download"]
FetchInv == \A c \in Calls : call[c].op = "fetch" /\ call[c].alone => Fetching(c)

\* What it has read holds, and what it has copied.
LEMMA OwnFetch ==
  ASSUME TypeOK, FetchInv, NEW c \in Calls, Act(c), ~Ended(c), call[c].op = "fetch", call[c].alone
  PROVE  Fetching(c)'
<1> DEFINE s == call[c].step
<1>1. /\ s \in 1 .. 6 /\ call'[c].step = s + 1 /\ Active(c)
  <2>1. call'[c].step = s + 1 /\ Active(c) /\ ~AtLast(c)
    BY SameCall, Zenon
  <2> QED
    BY <2>1, Place
<1>2. file'["transform"] = file["transform"]
  BY Frames, Zenon
<1>3. At(c) = FetchSteps[s]
  BY StepsAre DEF At
<1>4. Fetching(c)
  BY DEF FetchInv
<1>5. call[c].read \in [Dirs -> Files] /\ worker \in [Dirs -> Files]
  BY DEF TypeOK, CallRecords
<1>6. CASE s = 1
  BY <1>1, <1>6 DEF Fetching
<1>7. CASE s \in {2, 3}
  <2>1. /\ At(c)[1] = "zip" /\ At(c)[2] = IF s = 2 THEN "download" ELSE "upload"
    BY <1>3, <1>7 DEF FetchSteps
  <2>2. ReadSeries(c) \/ ZipFile(c)
    BY <2>1, Did
  <2>3. call'[c].read = [call[c].read EXCEPT ![At(c)[2]] = file["transform"][At(c)[2]]]
    BY <2>2, Courses, Zenon DEF Moved
  <2>4. CASE s = 2
    <3>1. call'[c].read["download"] = file["transform"]["download"]
      BY <2>1, <2>3, <1>5, <2>4 DEF Dirs
    <3> QED
      BY <3>1, <1>2, <2>4, <1>1 DEF Fetching
  <2>5. CASE s = 3
    <3>1. /\ call'[c].read["upload"] = file["transform"]["upload"]
          /\ call'[c].read["download"] = call[c].read["download"]
      BY <2>1, <2>3, <1>5, <2>5 DEF Dirs
    <3>2. call[c].read["download"] = file["transform"]["download"]
      BY <1>4, <2>5 DEF Fetching
    <3> QED
      BY <3>1, <3>2, <1>2, <2>5, <1>1 DEF Fetching
  <2> QED
    BY <1>7, <2>4, <2>5
<1>8. CASE s \in {4, 5, 6}
  <2>1. /\ At(c)[1] = IF s = 5 THEN "copied" ELSE "copy"
        /\ At(c)[2] = IF s = 6 THEN "upload" ELSE "download"
    BY <1>3, <1>8 DEF FetchSteps
  <2>2. IF s = 5 THEN Copied(c) ELSE Copy(c)
    BY <2>1, Did
  <2>3. call'[c].read = call[c].read
    <3>1. ~ReadSeries(c) /\ ~ZipFile(c)
      BY <2>1 DEF ReadSeries, ZipFile, Doing
    <3> QED
      BY <3>1, SameCall, Zenon
  <2>4. /\ call[c].read["download"] = file["transform"]["download"]
        /\ call[c].read["upload"] = file["transform"]["upload"]
        /\ s = 6 => worker["download"] = call[c].read["download"]
    BY <1>4, <1>8 DEF Fetching
  <2>5. s \in {5, 6} => worker'["download"] = call[c].read["download"]
    <3>1. CASE s = 5
      <4>1. worker' = [worker EXCEPT !["download"] = call[c].read["download"]]
        BY <3>1, <2>1, <2>2 DEF Copied, Unpacked
      <4> QED
        BY <4>1, <1>5 DEF Dirs
    <3>2. CASE s = 6
      <4>1. worker' = [worker EXCEPT !["upload"] = Torn]
        BY <3>2, <2>1, <2>2 DEF Copy
      <4> QED
        BY <4>1, <3>2, <1>5, <2>4 DEF Dirs
    <3> QED
      BY <3>1, <3>2
  <2> QED
    BY <1>1, <1>2, <1>8, <2>3, <2>4, <2>5 DEF Fetching
<1> QED
  BY <1>1, <1>6, <1>7, <1>8

LEMMA ActFetches ==
  ASSUME TypeOK, AloneInv, FetchInv, NEW c \in Calls, Act(c)
  PROVE  FetchInv'
<1> SUFFICES ASSUME NEW b \in Calls, call'[b].op = "fetch", call'[b].alone
             PROVE  Fetching(b)'
  BY Zenon DEF FetchInv
<1>1. CASE b # c
  <2>1. call'[b] = call[b]
    BY <1>1, OtherCalls, Zenon
  <2>2. Active(b) /\ call[b].op = "fetch" /\ call[b].alone
    BY <2>1 DEF Active
  <2>3. call[c].op # "transform" /\ call[c].op # "fetch"
    <3>1. Active(c)
      BY Courses, Zenon
    <3> QED
      BY <3>1, <2>2, <1>1, AloneFrom, Zenon
  <2>4. file'["transform"] = file["transform"] /\ worker' = worker
    BY <2>3, Frames, Zenon
  <2>5. Fetching(b)
    BY <2>2, Zenon DEF FetchInv
  <2> QED
    BY <2>1, <2>4, <2>5 DEF Fetching
<1>2. CASE b = c
  <2>1. ~Ended(c)
    BY <1>2 DEF Ended, Idle
  <2>2. call[c].op = "fetch" /\ call[c].alone
    BY <2>1, <1>2, SameCall, Zenon
  <2> QED
    BY <2>1, <2>2, <1>2, OwnFetch, Zenon
<1> QED
  BY <1>1, <1>2

LEMMA StartFetches ==
  ASSUME TypeOK, FetchInv, NEW c \in Calls, NEW op \in Ops, Start(c, op)
  PROVE  FetchInv'
<1>1. Begun(c, op) /\ file' = file /\ worker' = worker
  BY StartBegins, Zenon DEF Start, disk
<1> SUFFICES ASSUME NEW b \in Calls, call'[b].op = "fetch", call'[b].alone
             PROVE  Fetching(b)'
  BY Zenon DEF FetchInv
<1>2. CASE b = c
  <2>1. call'[c].step = 1
    BY <1>1 DEF Begun
  <2> QED
    BY <1>2, <2>1 DEF Fetching
<1>3. CASE b # c
  <2>1. /\ call[b].op = "fetch" /\ call[b].alone /\ call'[b].step = call[b].step
        /\ call'[b].read = call[b].read
    BY <1>1, <1>3 DEF Begun
  <2>2. Fetching(b)
    BY <2>1, Zenon DEF FetchInv
  <2> QED
    BY <2>1, <2>2, <1>1, Zenon DEF Fetching
<1> QED
  BY <1>2, <1>3

\* While its files are tidy, nothing but the last step of a transform that was alone
\* touches them or the row.
LEMMA RowSteps ==
  ASSUME TypeOK, TidyInv, NEW c \in Calls, Act(c), "transform" \in tidy',
         ~(Tidies(c) /\ call[c].op = "transform")
  PROVE  "transform" \in tidy /\ trow' = trow /\ file'["transform"] = file["transform"]
<1>1. CASE call[c].op # "transform"
  <2>1. "transform" \in tidy
    BY <1>1, TidySteps DEF Spoils, Tidies
  <2> QED
    BY <1>1, <2>1, Frames, Zenon
<1>2. CASE call[c].op = "transform"
  <2>1. tidy' = tidy /\ ~JoinFiles(c)
    BY <1>2, TidySteps DEF Spoils
  <2>2. call[c].step <= 3 /\ Active(c)
    BY <1>2, <2>1, Courses DEF TidyInv
  <2>3. call[c].step \in 1 .. 3
    BY <1>2, <2>2, Place
  <2>4. At(c)[1] \in {"row", "leaves", "join"}
    BY <1>2, <2>3, StepsAre, TransformTable DEF At
  <2>5. ~Upsert(c) /\ ~Joined(c) /\ ~SwapPass(c) /\ ~Rewrite(c) /\ ~Padded(c)
    BY <2>4 DEF Upsert, Joined, SwapPass, Rewrite, Padded, Doing
  <2>6. trow' = trow /\ file' = file
    BY <2>1, <2>5, Untouched, Zenon
  <2> QED
    BY <2>1, <2>6
<1> QED
  BY <1>1, <1>2

\* A whole file is emptied where nobody said anything.
LEMMA Emptied ==
  ASSUME NEW f \in Files, NEW U, NEW d, Has(f, U, d, AllPasses), Said(U, d) = {}
  PROVE  IsEmptied(f)
<1>1. /\ f \in [is : {"pcap"}, from : UNION {[S -> Nat] : S \in SUBSET Users}, passes : Seq(Passes)]
      /\ f.is = "pcap" /\ DOMAIN f.from = {} /\ f.passes = AllPasses
  BY DEF Files, Has, Absent, Torn
<1>2. PICK S \in SUBSET Users : f.from \in [S -> Nat]
  BY <1>1
<1>3. f.from \in [{} -> Nat]
  BY <1>1, <1>2
<1>4. f.from = <<>>
  BY <1>3
<1> QED
  BY <1>1, <1>4 DEF IsEmptied

\* Whole files of the same users.
LEMMA OfTheSame ==
  ASSUME NEW f \in [Dirs -> Files], NEW U \in SUBSET Users,
         \A d \in Dirs : Has(f[d], U, d, AllPasses)
  PROVE  SameUsers(f, AllPasses, IsEmptied)
<1>1. ASSUME NEW d \in Dirs
      PROVE  IF {u \in U : <<u, d>> \notin Silent} = {} THEN IsEmptied(f[d])
             ELSE f[d].is = "pcap" /\ f[d].passes = AllPasses
                  /\ DOMAIN f[d].from = {u \in U : <<u, d>> \notin Silent}
  <2>1. f[d] \in Files /\ Has(f[d], U, d, AllPasses)
    OBVIOUS
  <2>2. Said(U, d) = {} => IsEmptied(f[d])
    BY <2>1, Emptied, Zenon
  <2> QED
    BY <2>1, <2>2, Zenon DEF Has, Said
<1> QED
  BY <1>1, Zenon DEF SameUsers

\* The last step of a transform that was alone.
LEMMA RowMade ==
  ASSUME TypeOK, TransformInv, NEW c \in Calls, Act(c), Tidies(c),
         call[c].op = "transform"
  PROVE  /\ trow' = file["transform"] /\ file' = file
         /\ SameUsers(file["transform"], AllPasses, IsEmptied)
<1>1. Active(c) /\ AtLast(c) /\ call[c].alone
  BY Courses, Zenon DEF Tidies
<1>2. call[c].step = 27
  BY <1>1, Place, Zenon
<1>3. Upsert(c)
  <2>1. At(c) = <<"upsert">>
    BY <1>2, StepsAre, TransformTable DEF At
  <2> QED
    BY <2>1 DEF Tidies, SwapPass, Copied, Doing
<1>4. trow' = call[c].read /\ file' = file
  BY <1>3, Zenon DEF Upsert, disk
<1>5. /\ call[c].read["download"] = file["transform"]["download"]
      /\ call[c].read["upload"] = file["transform"]["upload"]
  BY <1>1, <1>2 DEF TransformInv, Measuring
<1>6. call[c].read \in [Dirs -> Files] /\ file["transform"] \in [Dirs -> Files]
  BY DEF TypeOK, CallRecords, Kinds
<1>7. call[c].read = file["transform"]
  BY <1>5, <1>6 DEF Dirs
<1>8. Sources(c) \in SUBSET Users
  BY DEF TypeOK, CallRecords, Sources
<1>9. ASSUME NEW d \in Dirs PROVE Has(file["transform"][d], Sources(c), d, AllPasses)
  <2>1. Whole(d, 27) /\ Over(d, 27) = 4
    BY DEF Whole, Over
  <2>2. Transforming(c, d)
    BY <1>1, Zenon DEF TransformInv
  <2> QED
    BY <2>1, <2>2, <1>2, NextOfAll, Zenon DEF Transforming
<1>10. SameUsers(file["transform"], AllPasses, IsEmptied)
  BY <1>6, <1>8, <1>9, OfTheSame, Zenon
<1> QED
  BY <1>4, <1>7, <1>10

\* The row describes the files,
LEMMA ActDescribes ==
  ASSUME TypeOK, TidyInv, TransformInv, RowDescribesFiles, NEW c \in Calls, Act(c)
  PROVE  RowDescribesFiles'
<1> SUFFICES ASSUME "transform" \in tidy'
             PROVE  trow' = file'["transform"] /\ SameUsers(trow', AllPasses, IsEmptied)
  BY Zenon DEF RowDescribesFiles, SameUsers, IsEmptied
<1>1. CASE Tidies(c) /\ call[c].op = "transform"
  <2>1. /\ trow' = file["transform"] /\ file' = file
        /\ SameUsers(file["transform"], AllPasses, IsEmptied)
    BY <1>1, RowMade, Zenon
  <2> QED
    BY <2>1, Zenon
<1>2. CASE ~(Tidies(c) /\ call[c].op = "transform")
  <2>1. "transform" \in tidy /\ trow' = trow /\ file'["transform"] = file["transform"]
    BY <1>2, RowSteps, Zenon
  <2>2. trow = file["transform"] /\ SameUsers(trow, AllPasses, IsEmptied)
    BY <2>1, Zenon DEF RowDescribesFiles
  <2> QED
    BY <2>1, <2>2, Zenon
<1> QED
  BY <1>1, <1>2

LEMMA StartDescribes ==
  ASSUME RowDescribesFiles, NEW c \in Calls, NEW op \in Ops, Start(c, op)
  PROVE  RowDescribesFiles'
<1>1. trow' = trow /\ file' = file /\ tidy' = tidy
  BY Zenon DEF Start, disk
<1> QED
  BY <1>1, Zenon DEF RowDescribesFiles, SameUsers, IsEmptied

\* and the copy is the row.
LEMMA ActCopies ==
  ASSUME TypeOK, TidyInv, FetchInv, RowDescribesFiles, CopyIsTheRow, NEW c \in Calls, Act(c)
  PROVE  CopyIsTheRow'
<1> SUFFICES ASSUME {"fetch", "transform"} \subseteq tidy'
             PROVE  worker' = trow'
  BY Zenon DEF CopyIsTheRow
<1>1. ~(Tidies(c) /\ call[c].op = "transform")
  <2> SUFFICES ASSUME Tidies(c), call[c].op = "transform" PROVE FALSE
    OBVIOUS
  <2>1. "fetch" \in tidy
    BY DEF Tidies
  <2>2. call[c].step <= 3
    BY <2>1 DEF TidyInv
  <2>3. call[c].step = 27
    BY Courses, Place DEF Tidies
  <2> QED
    BY <2>2, <2>3
<1>2. "transform" \in tidy /\ trow' = trow
  BY <1>1, RowSteps
<1>3. CASE call[c].op # "fetch"
  <2>1. "fetch" \in tidy
    BY <1>3, TidySteps DEF Spoils, Tidies
  <2>2. worker' = worker
    BY <1>3, Frames, Zenon
  <2> QED
    BY <2>1, <2>2, <1>2 DEF CopyIsTheRow
<1>4. CASE call[c].op = "fetch" /\ Tidies(c)
  <2>1. Active(c) /\ AtLast(c) /\ call[c].alone
    BY <1>4, Courses, Zenon DEF Tidies
  <2>2. call[c].step = 7
    BY <2>1, <1>4, Place, Zenon
  <2>3. At(c) = <<"copied", "upload">>
    BY <1>4, <2>2, StepsAre DEF At, FetchSteps
  <2>4. Copied(c)
    BY <1>4, <2>3 DEF Tidies, SwapPass, Upsert, Doing
  <2>5. worker' = [worker EXCEPT !["upload"] = call[c].read["upload"]]
    BY <2>3, <2>4 DEF Copied, Unpacked
  <2>6. /\ call[c].read["download"] = file["transform"]["download"]
        /\ call[c].read["upload"] = file["transform"]["upload"]
        /\ worker["download"] = call[c].read["download"]
    BY <1>4, <2>1, <2>2 DEF FetchInv, Fetching
  <2>7. /\ worker \in [Dirs -> Files] /\ file["transform"] \in [Dirs -> Files]
    BY DEF TypeOK, Kinds
  <2>8. worker' = file["transform"]
    BY <2>5, <2>6, <2>7 DEF Dirs
  <2>9. trow = file["transform"]
    BY <1>2, Zenon DEF RowDescribesFiles
  <2> QED
    BY <1>2, <2>8, <2>9
<1>5. CASE call[c].op = "fetch" /\ ~Tidies(c)
  <2>1. tidy' = tidy /\ ~Copy(c)
    BY <1>5, TidySteps DEF Spoils
  <2>2. call[c].step \in 1 .. 4
    <3>1. Active(c)
      BY Courses, Zenon
    <3>2. call[c].step <= 4
      BY <1>5, <2>1 DEF TidyInv
    <3> QED
      BY <3>1, <3>2, <1>5, Place
  <2>3. At(c)[1] # "copied"
    BY <1>5, <2>2, StepsAre DEF At, FetchSteps
  <2>4. worker' = worker
    BY <2>1, <2>3, Untouched, Zenon DEF Copied, Doing
  <2> QED
    BY <2>1, <2>4, <1>2 DEF CopyIsTheRow
<1> QED
  BY <1>3, <1>4, <1>5

LEMMA StartCopies ==
  ASSUME CopyIsTheRow, NEW c \in Calls, NEW op \in Ops, Start(c, op)
  PROVE  CopyIsTheRow'
BY Zenon DEF Start, CopyIsTheRow

-----------------------------------------------------------------------------
(***************************************************************************)
(* An export that is alone.                                                *)
(***************************************************************************)
\* Where the call takes up direction d.
Begin(d) == IF d = "download" THEN 4 ELSE 8

\* The files of an export that is alone: of those of its users who have files, and
\* in each direction that has any, joined, put in order beside, and swapped.
Exporting(c, d) ==
  Said(Sources(c), d) # {} =>
    /\ call[c].step \in {Begin(d) + 2, Begin(d) + 3} =>
         Has(file["replay"][d], Sources(c), d, <<>>)
    /\ call[c].step = Begin(d) + 3 =>
         Has(tmp["order"]["replay"][d], Sources(c), d, <<"order">>)
    /\ call[c].step >= Begin(d) + 4 => Has(file["replay"][d], Sources(c), d, <<"order">>)
ReplayInv ==
  \A c \in Calls : call[c].op = "replay" /\ call[c].alone =>
    /\ call[c].step >= 4 => call[c].users = Leaves
    /\ \A d \in Dirs : Exporting(c, d)

\* The leaves that have files.
Heard == {u \in Leaves : split[u] # 0}

\* A direction without packets has no file.
AbsentInv == \A d \in Dirs : file["replay"][d] # Absent => Said(Heard, d) # {}

\* Leaves stay, and come with extractions only.
LEMMA MoreLeaves ==
  ASSUME TypeOK, StoreInv, NEW c \in Calls, Act(c)
  PROVE  /\ Leaves \subseteq Leaves' /\ (call[c].op # "extract" => Leaves' = Leaves)
         /\ Heard \subseteq Heard' /\ (call[c].op # "extract" => Heard' = Heard)
<1>1. Kept /\ \A u \in Users : u \in Nodes
  BY ActKeeps DEF Nodes
<1>2. 1 \in 1 .. Windows
  BY ServiceAssumption
<1>3. Leaves \subseteq Leaves'
  BY <1>1, <1>2 DEF Kept, Leaves
<1>4. call[c].op # "extract" => row' = row /\ split' = split
  BY Frames, Zenon
<1>5. call[c].op # "extract" => Leaves' = Leaves
  BY <1>4 DEF Leaves
<1>6. Leaves \subseteq Users
  BY DEF Leaves
<1>7. Heard \subseteq Heard'
  BY <1>1, <1>3, <1>6 DEF Kept, Heard
<1>8. call[c].op # "extract" => Heard' = Heard
  BY <1>4, <1>5 DEF Heard
<1> QED
  BY <1>3, <1>5, <1>7, <1>8

\* A call has its users when it is at a file.
LEMMA AtAFile ==
  ASSUME TypeOK, UsersInv, NEW c \in Calls, Active(c), call[c].op = "replay", At(c)[1] \in FileWords
  PROVE  HasUsers(c) /\ call[c].users \subseteq Leaves
<1>1. call[c].step \in 1 .. 11
  BY Place
<1>2. call[c].step \notin {1, 2, 3}
  BY StepsAre, ReplayTable DEF At, FileWords
<1>3. HasUsers(c)
  BY <1>1, <1>2 DEF HasUsers
<1> QED
  BY <1>3, Zenon DEF UsersInv

\* A step over a direction without packets leaves the files as they are.
LEMMA SkippedKeeps ==
  ASSUME NEW c \in Calls, Act(c), NEW d, d = At(c)[2], Skipped(c, d), TypeOK, call[c].op = "replay"
  PROVE  file' = file
<1>1. CASE JoinFiles(c) \/ Joined(c)
  <2>1. d \in Dirs /\ call[c].op \in Kinds
    BY <1>1, About
  <2>2. file' = [file EXCEPT ![call[c].op][d] = file[call[c].op][d]]
    BY <1>1, Zenon DEF JoinFiles, Joined
  <2> QED
    BY <2>1, <2>2 DEF TypeOK
<1>2. CASE SwapPass(c)
  BY <1>2, Zenon DEF SwapPass, disk
<1>3. ~Rewrite(c) /\ ~Padded(c)
  BY About
<1> QED
  BY <1>1, <1>2, <1>3, Untouched, Zenon

\* Only a direction with packets is written.
LEMMA ActAbsent ==
  ASSUME TypeOK, StoreInv, UsersInv, AbsentInv, NEW c \in Calls, Act(c)
  PROVE  AbsentInv'
<1>1. Heard \subseteq Heard'
  BY MoreLeaves, Zenon
<1> SUFFICES ASSUME NEW d \in Dirs, file'["replay"][d] # Absent
             PROVE  Said(Heard', d) # {}
  BY Zenon DEF AbsentInv, Said
<1>2. CASE file'["replay"][d] = file["replay"][d]
  <2>1. Said(Heard, d) # {}
    BY <1>2 DEF AbsentInv
  <2> QED
    BY <2>1, <1>1 DEF Said
<1>3. CASE file'["replay"][d] # file["replay"][d]
  <2>1. call[c].op = "replay" /\ At(c)[1] \in FileWords /\ At(c)[2] = d
    <3>1. "replay" \in Kinds
      BY DEF Kinds
    <3>2. call[c].op = "replay"
      BY <1>3, Frames, Zenon
    <3> QED
      BY <1>3, <3>1, <3>2, FilesKept, Zenon
  <2>2. ~Skipped(c, d)
    BY <1>3, <2>1, SkippedKeeps, Zenon
  <2>3. Given(c, d) # {}
    BY <2>1, <2>2 DEF Skipped
  <2>4. call[c].users \subseteq Leaves
    BY <2>1, Courses, AtAFile, Zenon
  <2> QED
    BY <2>3, <2>4, <1>1 DEF Given, Said, Heard
<1> QED
  BY <1>2, <1>3

\* A step of an export that is alone.
LEMMA OwnExport ==
  ASSUME TypeOK, StoreInv, AloneInv, ReplayInv, NEW c \in Calls, Act(c), ~Ended(c),
         call[c].op = "replay", call[c].alone
  PROVE  /\ call'[c].step >= 4 => call'[c].users = Leaves'
         /\ \A d \in Dirs : Exporting(c, d)'
<1> DEFINE s == call[c].step  U == Sources(c)
<1>1. /\ s \in 1 .. 10 /\ call'[c].step = s + 1 /\ Active(c)
  <2>1. call'[c].step = s + 1 /\ Active(c) /\ ~AtLast(c)
    BY SameCall, Zenon
  <2> QED
    BY <2>1, Place
<1>2. Leaves' = Leaves
  BY MoreLeaves
<1>3. At(c) = ReplaySteps[s]
  BY StepsAre DEF At
<1>4. s # 3 => call'[c].users = call[c].users /\ Sources(c)' = U
  <2>1. s # 3 => At(c)[1] # "leaves"
    BY <1>1, <1>3, ReplayTable
  <2>2. s # 3 => ~FindLeaves(c)
    BY <2>1, Zenon DEF FindLeaves, Doing
  <2>3. s # 3 => call'[c].users = call[c].users
    BY <2>2, SameCall, Zenon
  <2>4. call[c].op \in Kinds
    BY DEF Kinds
  <2>5. s # 3 => Sources(c)' = Sources(c)
    BY <1>1, <2>3, <2>4, SourcesStay, Zenon
  <2> QED
    BY <2>3, <2>5, Zenon
<1>5. s = 3 => call'[c].users = Leaves
  <2>1. s = 3 => FindLeaves(c)
    BY Turning, Did, Zenon
  <2> QED
    BY <2>1, Courses, Zenon DEF Moved
<1>6. s >= 4 => call[c].users = Leaves
  BY Zenon DEF ReplayInv
<1>7. call'[c].step >= 4 => call'[c].users = Leaves'
  BY <1>1, <1>2, <1>4, <1>5, <1>6
<1>8. ASSUME NEW d \in Dirs PROVE Exporting(c, d)'
  <2> DEFINE F == file["replay"][d]  T == tmp["order"]["replay"][d]
  <2>1. Begin(d) \in {4, 8}
    BY DEF Begin
  <2>2. Said(U, d) # {} =>
          /\ s \in {Begin(d) + 2, Begin(d) + 3} => Has(F, U, d, <<>>)
          /\ s = Begin(d) + 3 => Has(T, U, d, <<"order">>)
          /\ s >= Begin(d) + 4 => Has(F, U, d, <<"order">>)
    BY Zenon DEF ReplayInv, Exporting
  <2>3. Given(c, d) = Said(U, d)
    BY GivenToJoin, Zenon
  <2>4. "replay" \in Kinds /\ "order" \in Passes
    BY DEF Kinds, Passes
  <2>5. F \in Files /\ T \in Files
    BY <2>4 DEF TypeOK
  <2> HIDE DEF s, U, F, T
  <2>6. CASE s <= Begin(d)
    <3>1. ~(s + 1 \in {Begin(d) + 2, Begin(d) + 3}) /\ ~(s + 1 = Begin(d) + 3)
          /\ ~(s + 1 >= Begin(d) + 4)
      BY <2>6, <2>1, <1>1
    <3> QED
      BY <3>1, <1>1, Zenon DEF Exporting
  <2>7. CASE s > Begin(d)
    <3>0. s # 3
      BY <2>7, <2>1, <1>1
    <3>1. Sources(c)' = U /\ Given(c, d) = Said(U, d)
      BY <3>0, <2>3, <1>4, Zenon
    <3> SUFFICES ASSUME Said(U, d) # {}
                 PROVE  /\ s + 1 \in {Begin(d) + 2, Begin(d) + 3} =>
                             Has(file'["replay"][d], U, d, <<>>)
                        /\ s + 1 = Begin(d) + 3 =>
                             Has(tmp'["order"]["replay"][d], U, d, <<"order">>)
                        /\ s + 1 >= Begin(d) + 4 => Has(file'["replay"][d], U, d, <<"order">>)
      BY <3>1, <1>1, Zenon DEF Exporting
    <3>2. ~Skipped(c, d)
      BY <3>1 DEF Skipped
    <3>3. CASE s = Begin(d) + 1
      <4>1. At(c) = <<"joined", d>>
        BY <3>3, <1>3, ReplayTable DEF Begin, Dirs
      <4>2. Joined(c) /\ At(c)[2] = d
        BY <4>1, Did
      <4>3. file'[call[c].op][d] = Pcap([u \in Given(c, d) |-> split[u]], <<>>)
        BY <4>2, <3>2, Effects, Zenon
      <4>5. Has(Pcap([u \in Given(c, d) |-> split[u]], <<>>), U, d, <<>>)
        BY GivenToJoin, Zenon DEF U
      <4>6. Has(file'["replay"][d], U, d, <<>>)
        BY <4>3, <4>5
      <4>7. ~(s + 1 = Begin(d) + 3) /\ ~(s + 1 >= Begin(d) + 4)
        BY <3>3, <2>1
      <4> QED
        BY <4>6, <4>7, Zenon
    <3>4. CASE s = Begin(d) + 2
      <4>1. At(c) = <<"write", d, "order">>
        BY <3>4, <1>3, ReplayTable DEF Begin, Dirs
      <4>2. WritePass(c) /\ At(c)[2] = d /\ At(c)[3] = "order"
        BY <4>1, Did
      <4>3. tmp'[At(c)[3]][call[c].op][d] = After(At(c)[3], file[call[c].op][d]) /\ file' = file
        BY <4>2, <3>2, Effects, Zenon
      <4>4. tmp'["order"]["replay"][d] = After("order", F) /\ file'["replay"][d] = F
        BY <4>2, <4>3 DEF F
      <4>5. Has(F, U, d, <<>>)
        BY <3>4, <2>2
      <4>6. Has(After("order", F), U, d, Append(<<>>, "order"))
        BY <4>5, <2>5, PassedOn, Zenon
      <4>7. Append(<<>>, "order") = <<"order">>
        OBVIOUS
      <4>8. ~(s + 1 >= Begin(d) + 4)
        BY <3>4, <2>1
      <4> QED
        BY <4>4, <4>5, <4>6, <4>7, <4>8, Zenon
    <3>5. CASE s = Begin(d) + 3
      <4>1. At(c) = <<"swap", d, "order">>
        BY <3>5, <1>3, ReplayTable DEF Begin, Dirs
      <4>2. SwapPass(c) /\ At(c)[2] = d /\ At(c)[3] = "order"
        BY <4>1, Did
      <4>3. file'[call[c].op][d] = tmp[At(c)[3]][call[c].op][d]
        BY <4>2, <3>2, Effects, Zenon
      <4>4. file'["replay"][d] = T
        BY <4>2, <4>3 DEF T
      <4>5. Has(T, U, d, <<"order">>)
        BY <3>5, <2>2
      <4>6. ~(s + 1 \in {Begin(d) + 2, Begin(d) + 3}) /\ ~(s + 1 = Begin(d) + 3)
        BY <3>5, <2>1
      <4> QED
        BY <4>4, <4>5, <4>6, Zenon
    <3>6. CASE s >= Begin(d) + 4
      <4>1. At(c)[2] # d
        <5>1. d = "download" /\ s \in {8, 9, 10}
          BY <3>6, <2>1, <1>1 DEF Begin, Dirs
        <5> QED
          BY <5>1, <1>3, ReplayTable
      <4>2. file'["replay"][d] = F
        BY <4>1, <2>4, FilesKept, Zenon DEF F
      <4>3. Has(F, U, d, <<"order">>)
        BY <3>6, <2>2
      <4>4. ~(s + 1 \in {Begin(d) + 2, Begin(d) + 3}) /\ ~(s + 1 = Begin(d) + 3)
        BY <3>6, <2>1, <1>1
      <4> QED
        BY <4>2, <4>3, <4>4, Zenon
    <3> QED
      BY <2>7, <3>3, <3>4, <3>5, <3>6, <2>1, <1>1
  <2> QED
    BY <2>6, <2>7, <2>1, <1>1
<1> QED
  BY <1>7, <1>8

\* An export that is alone finds its files as it left them.
LEMMA ActReplays ==
  ASSUME TypeOK, StoreInv, AloneInv, UsersInv, ReplayInv, NEW c \in Calls, Act(c)
  PROVE  ReplayInv'
<1> SUFFICES ASSUME NEW b \in Calls, call'[b].op = "replay", call'[b].alone
             PROVE  /\ call'[b].step >= 4 => call'[b].users = Leaves'
                    /\ \A d \in Dirs : Exporting(b, d)'
  BY Zenon DEF ReplayInv
<1>1. CASE b # c
  <2>1. call'[b] = call[b]
    BY <1>1, OtherCalls, Zenon
  <2>2. Active(b) /\ call[b].op = "replay" /\ call[b].alone
    BY <2>1 DEF Active
  <2>3. call[c].op # "replay" /\ call[c].op # "extract"
    <3>1. Active(c)
      BY Courses, Zenon
    <3>2. "replay" \in Kinds
      BY DEF Kinds
    <3> QED
      BY <3>1, <3>2, <2>2, <1>1, AloneFrom, Zenon
  <2>4. /\ file'["replay"] = file["replay"] /\ tmp'["order"]["replay"] = tmp["order"]["replay"]
        /\ Leaves' = Leaves
    <3>1. "order" \in Passes
      BY DEF Passes
    <3> QED
      BY <3>1, <2>3, Frames, MoreLeaves, Zenon
  <2>5. call[b].step >= 4 => call[b].users = Leaves
    BY <2>2, Zenon DEF ReplayInv
  <2>6. \A d \in Dirs : Exporting(b, d)
    BY <2>2, Zenon DEF ReplayInv
  <2>7. \A d \in Dirs : Exporting(b, d)'
    <3>1. call[b].op \in Kinds /\ call'[b].users = call[b].users
      BY <2>1, <2>2 DEF Kinds
    <3>2. Sources(b)' = Sources(b)
      BY <3>1, <2>2, SourcesStay, Zenon
    <3> QED
      BY <3>2, <2>1, <2>4, <2>6, Zenon DEF Exporting
  <2> QED
    BY <2>1, <2>4, <2>5, <2>7
<1>2. CASE b = c
  <2>1. ~Ended(c)
    BY <1>2 DEF Ended, Idle
  <2>2. call[c].op = "replay" /\ call[c].alone
    BY <2>1, <1>2, SameCall, Zenon
  <2> QED
    BY <2>1, <2>2, <1>2, OwnExport, Zenon
<1> QED
  BY <1>1, <1>2

LEMMA StartReplays ==
  ASSUME TypeOK, ReplayInv, NEW c \in Calls, NEW op \in Ops, Start(c, op)
  PROVE  ReplayInv'
<1>1. Begun(c, op) /\ file' = file /\ tmp' = tmp /\ row' = row /\ split' = split
  BY StartBegins, Zenon DEF Start, disk, store
<1>2. Leaves' = Leaves
  BY <1>1 DEF Leaves
<1> SUFFICES ASSUME NEW b \in Calls, call'[b].op = "replay", call'[b].alone
             PROVE  /\ call'[b].step >= 4 => call'[b].users = Leaves'
                    /\ \A d \in Dirs : Exporting(b, d)'
  BY Zenon DEF ReplayInv
<1>3. CASE b = c
  <2>1. call'[c].step = 1
    BY <1>1 DEF Begun
  <2> QED
    BY <1>3, <2>1 DEF Exporting, Begin
<1>4. CASE b # c
  <2>1. /\ call[b].op = "replay" /\ call[b].alone /\ call'[b].step = call[b].step
        /\ call'[b].users = call[b].users /\ Sources(b)' = Sources(b)
    BY <1>1, <1>4 DEF Begun, Sources
  <2>2. call[b].step >= 4 => call[b].users = Leaves
    BY <2>1, Zenon DEF ReplayInv
  <2>3. \A d \in Dirs : Exporting(b, d)
    BY <2>1, Zenon DEF ReplayInv
  <2>4. \A d \in Dirs : Exporting(b, d)'
    BY <2>1, <2>3, <1>1, Zenon DEF Exporting
  <2> QED
    BY <2>1, <2>2, <2>4, <1>2
<1> QED
  BY <1>3, <1>4

LEMMA StartAbsent ==
  ASSUME AbsentInv, NEW c \in Calls, NEW op \in Ops, Start(c, op)
  PROVE  AbsentInv'
<1>1. file' = file /\ row' = row /\ split' = split
  BY Zenon DEF Start, disk, store
<1>2. Heard' = Heard
  BY <1>1 DEF Heard, Leaves
<1> QED
  BY <1>1, <1>2, Zenon DEF AbsentInv

\* While its files are tidy, nothing but the last step of an export that was alone
\* touches them.
LEMMA ExportSteps ==
  ASSUME TypeOK, TidyInv, NEW c \in Calls, Act(c), "replay" \in tidy',
         ~(Tidies(c) /\ call[c].op = "replay")
  PROVE  "replay" \in tidy /\ file'["replay"] = file["replay"]
<1>1. CASE call[c].op # "replay"
  <2>1. "replay" \in tidy
    BY <1>1, TidySteps DEF Spoils, Tidies
  <2> QED
    BY <1>1, <2>1, Frames, Zenon
<1>2. CASE call[c].op = "replay"
  <2>1. tidy' = tidy /\ ~JoinFiles(c)
    BY <1>2, TidySteps DEF Spoils
  <2>2. call[c].step <= 4 /\ Active(c)
    BY <1>2, <2>1, Courses DEF TidyInv
  <2>3. call[c].step \in 1 .. 4
    BY <1>2, <2>2, Place
  <2>4. At(c)[1] \in {"row", "cached", "leaves", "join"}
    BY <1>2, <2>3, StepsAre, ReplayTable DEF At
  <2>5. ~Joined(c) /\ ~SwapPass(c) /\ ~Rewrite(c) /\ ~Padded(c)
    BY <2>4 DEF Joined, SwapPass, Rewrite, Padded, Doing
  <2>6. file' = file
    BY <2>1, <2>5, Untouched, Zenon
  <2> QED
    BY <2>1, <2>6
<1> QED
  BY <1>1, <1>2

\* The last step of an export that was alone.
LEMMA ExportMade ==
  ASSUME TypeOK, StoreInv, UsersInv, ReplayInv, AbsentInv, NEW c \in Calls, Act(c), Tidies(c),
         call[c].op = "replay"
  PROVE  SameUsers(file'["replay"], <<"order">>, IsAbsent)
<1> DEFINE U == Sources(c)
<1>1. Active(c) /\ AtLast(c) /\ call[c].alone
  BY Courses, Zenon DEF Tidies
<1>2. call[c].step = 11
  BY <1>1, Place, Zenon
<1>3. At(c) = <<"swap", "upload", "order">>
  BY <1>2, StepsAre, ReplayTable DEF At
<1>4. SwapPass(c)
  BY <1>3 DEF Tidies, Upsert, Copied, Doing
<1>5. U = Heard /\ Heard' = Heard /\ \A d \in Dirs : Exporting(c, d)
  <2>1. call[c].users = Leaves /\ \A d \in Dirs : Exporting(c, d)
    BY <1>1, <1>2 DEF ReplayInv
  <2>2. Heard' = Heard
    BY MoreLeaves
  <2> QED
    BY <2>1, <2>2, Zenon DEF Sources, Heard
<1>6. U \in SUBSET Users
  BY DEF TypeOK, CallRecords, Sources
<1>7. ASSUME NEW d \in Dirs, Said(U, d) = {} PROVE file'["replay"][d] = Absent
  <2>1. AbsentInv'
    BY ActAbsent
  <2> QED
    BY <2>1, <1>5, <1>7, Zenon DEF AbsentInv
<1>8. ASSUME NEW d \in Dirs, Said(U, d) # {} PROVE Has(file'["replay"][d], U, d, <<"order">>)
  <2>1. CASE d = "download"
    <3>1. Has(file["replay"][d], U, d, <<"order">>)
      BY <2>1, <1>2, <1>5, <1>8 DEF Exporting, Begin
    <3>2. "replay" \in Kinds /\ At(c)[2] # d
      BY <2>1, <1>3 DEF Kinds
    <3>3. file'["replay"][d] = file["replay"][d]
      BY <3>2, FilesKept, Zenon
    <3> QED
      BY <3>1, <3>3
  <2>2. CASE d = "upload"
    <3>1. Has(tmp["order"]["replay"][d], U, d, <<"order">>)
      BY <2>2, <1>2, <1>5, <1>8 DEF Exporting, Begin
    <3>2. ~Skipped(c, d)
      <4>2. Given(c, d) = Said(U, d)
        BY GivenToJoin, Zenon
      <4> QED
        BY <4>2, <1>8 DEF Skipped
    <3>3. At(c)[2] = d /\ At(c)[3] = "order"
      BY <2>2, <1>3
    <3>4. file'[call[c].op][d] = tmp[At(c)[3]][call[c].op][d]
      BY <3>2, <3>3, <1>1, <1>4, Effects, Zenon
    <3> QED
      BY <3>1, <3>3, <3>4
  <2> QED
    BY <2>1, <2>2 DEF Dirs
<1> HIDE DEF U
<1>9. ASSUME NEW d \in Dirs
      PROVE  IF {u \in U : <<u, d>> \notin Silent} = {} THEN IsAbsent(file'["replay"][d])
             ELSE file'["replay"][d].is = "pcap" /\ file'["replay"][d].passes = <<"order">>
                  /\ DOMAIN file'["replay"][d].from = {u \in U : <<u, d>> \notin Silent}
  BY <1>7, <1>8, Zenon DEF Has, Said, IsAbsent
<1> QED
  BY <1>6, <1>9, Zenon DEF SameUsers

\* Tidy exports are of the same users, whole and in order.
LEMMA ActExports ==
  ASSUME TypeOK, StoreInv, UsersInv, TidyInv, ReplayInv, AbsentInv, ReplayFilesOrdered,
         NEW c \in Calls, Act(c)
  PROVE  ReplayFilesOrdered'
<1> SUFFICES ASSUME "replay" \in tidy'
             PROVE  SameUsers(file'["replay"], <<"order">>, IsAbsent)
  BY Zenon DEF ReplayFilesOrdered, Exported, SameUsers, IsAbsent
<1>1. CASE Tidies(c) /\ call[c].op = "replay"
  BY <1>1, ExportMade, Zenon
<1>2. CASE ~(Tidies(c) /\ call[c].op = "replay")
  <2>1. "replay" \in tidy /\ file'["replay"] = file["replay"]
    BY <1>2, ExportSteps, Zenon
  <2>2. SameUsers(file["replay"], <<"order">>, IsAbsent)
    BY <2>1, Zenon DEF ReplayFilesOrdered, Exported
  <2> QED
    BY <2>1, <2>2, Zenon
<1> QED
  BY <1>1, <1>2

LEMMA StartExports ==
  ASSUME ReplayFilesOrdered, NEW c \in Calls, NEW op \in Ops, Start(c, op)
  PROVE  ReplayFilesOrdered'
<1>1. file' = file /\ tidy' = tidy
  BY Zenon DEF Start, disk
<1> QED
  BY <1>1, Zenon DEF ReplayFilesOrdered, Exported, SameUsers, IsAbsent

-----------------------------------------------------------------------------
(***************************************************************************)
(* The theorems.                                                           *)
(***************************************************************************)
\* To begin with there is no call, and the files are what a transform and an
\* export left.
LEMMA InitQuiet ==
  Init => AloneInv /\ UsersInv /\ TidyInv /\ TransformInv /\ FetchInv /\ ReplayInv /\ CopyIsTheRow
<1> SUFFICES ASSUME Init
             PROVE  AloneInv /\ UsersInv /\ TidyInv /\ TransformInv /\ FetchInv /\ ReplayInv
                    /\ CopyIsTheRow
  OBVIOUS
<1>1. \A c \in Calls : call[c].op = "idle"
  <2>1. call = [c \in Calls |-> Idle]
    BY Zenon DEF Init
  <2> QED
    BY <2>1 DEF Idle
<1>2. "fetch" \notin tidy
  <2>1. PICK done \in {{}, Kinds} : tidy = done
    BY Zenon DEF Init
  <2> QED
    BY <2>1 DEF Kinds
<1>3. AloneInv
  BY <1>1, Zenon DEF AloneInv, Active
<1>4. UsersInv
  BY <1>1 DEF UsersInv, HasUsers
<1>5. TidyInv
  BY <1>1, <1>2 DEF TidyInv
<1>6. TransformInv /\ FetchInv /\ ReplayInv
  BY <1>1 DEF TransformInv, FetchInv, ReplayInv
<1>7. CopyIsTheRow
  BY <1>2 DEF CopyIsTheRow
<1> QED
  BY <1>3, <1>4, <1>5, <1>6, <1>7

LEMMA InitFiles == Init => AbsentInv /\ RowDescribesFiles /\ ReplayFilesOrdered
<1> SUFFICES ASSUME Init PROVE AbsentInv /\ RowDescribesFiles /\ ReplayFilesOrdered
  OBVIOUS
<1>0. TypeOK
  BY InitTypes
<1>1. PICK g \in {0, 1}, done \in {{}, Kinds} :
    /\ done # {} => g = 1
    /\ row = [n \in Nodes |-> [w \in 1 .. Windows |-> g]]
    /\ split = [u \in Users |-> g]
    /\ trow = [d \in Dirs |-> IF done = {} THEN Absent ELSE Made(d, 1, AllPasses)]
    /\ file = [k \in Kinds |-> [d \in Dirs |->
         IF done = {} \/ (k = "replay" /\ SaidBy(d) = {}) THEN Absent
         ELSE Made(d, 1, IF k = "replay" THEN <<"order">> ELSE AllPasses)]]
    /\ tidy = done
  BY Zenon DEF Init
<1>2. ASSUME NEW d \in Dirs, NEW passes PROVE Has(Made(d, 1, passes), Users, d, passes)
  <2> DEFINE from == [u \in SaidBy(d) |-> 1]
  <2>1. DOMAIN from = SaidBy(d) /\ SaidBy(d) = Said(Users, d)
    BY DEF SaidBy, Said
  <2> HIDE DEF from
  <2>2. Has(Pcap(from, passes), Users, d, passes)
    BY <2>1 DEF Has, Pcap
  <2> QED
    BY <2>2 DEF Made, from
<1>3. ASSUME NEW d \in Dirs
      PROVE  file["replay"][d] = IF done = {} \/ SaidBy(d) = {} THEN Absent
                                 ELSE Made(d, 1, <<"order">>)
  <2>1. "replay" \in Kinds
    BY DEF Kinds
  <2> HIDE DEF Absent, Made, SaidBy
  <2> QED
    BY <1>1, <2>1
<1>4. ASSUME NEW d \in Dirs, file["replay"][d] # Absent PROVE Said(Heard, d) # {}
  <2>1. done # {} /\ SaidBy(d) # {}
    BY <1>3, <1>4
  <2>2. g = 1
    BY <1>1, <2>1
  <2>3. Users \subseteq Heard
    <3>1. ASSUME NEW u \in Users PROVE row[u][1] = 1 /\ split[u] = 1
      <4>1. u \in Nodes /\ 1 \in 1 .. Windows
        BY ServiceAssumption DEF Nodes
      <4> QED
        BY <4>1, <2>2, <1>1
    <3> QED
      BY <3>1 DEF Leaves, Heard
  <2> QED
    BY <2>1, <2>3 DEF SaidBy, Said
<1>5. CASE done = {}
  <2>1. tidy = {}
    BY <1>1, <1>5, Zenon
  <2> QED
    BY <2>1, <1>4 DEF AbsentInv, RowDescribesFiles, ReplayFilesOrdered
<1>6. CASE done # {}
  <2>1. Users \in SUBSET Users
    OBVIOUS
  <2>2. ASSUME NEW d \in Dirs
        PROVE trow[d] = Made(d, 1, AllPasses) /\ file["transform"][d] = Made(d, 1, AllPasses)
    <3>1. "transform" \in Kinds
      BY DEF Kinds
    <3> HIDE DEF Absent, Made, SaidBy
    <3> QED
      BY <1>1, <1>6, <3>1
  <2>3. trow \in [Dirs -> Files] /\ file["transform"] \in [Dirs -> Files]
    BY <1>0 DEF TypeOK, Kinds
  <2>4. trow = file["transform"]
    BY <2>2, <2>3
  <2>5. \A d \in Dirs : Has(trow[d], Users, d, AllPasses)
    BY <2>2, <1>2, Zenon
  <2>6. SameUsers(trow, AllPasses, IsEmptied)
    BY <2>1, <2>3, <2>5, OfTheSame, Zenon
  <2>7. ASSUME NEW d \in Dirs
        PROVE  IF {u \in Users : <<u, d>> \notin Silent} = {} THEN IsAbsent(file["replay"][d])
               ELSE file["replay"][d].is = "pcap" /\ file["replay"][d].passes = <<"order">>
                    /\ DOMAIN file["replay"][d].from = {u \in Users : <<u, d>> \notin Silent}
    <3>1. SaidBy(d) = {u \in Users : <<u, d>> \notin Silent} /\ Said(Users, d) = SaidBy(d)
      BY DEF SaidBy, Said
    <3>2. CASE SaidBy(d) = {}
      BY <3>1, <3>2, <1>3, Zenon DEF IsAbsent
    <3>3. CASE SaidBy(d) # {}
      <4>1. file["replay"][d] = Made(d, 1, <<"order">>)
        BY <3>3, <1>3, <1>6, Zenon
      <4>2. Has(file["replay"][d], Users, d, <<"order">>)
        BY <4>1, <1>2, Zenon
      <4> QED
        BY <4>2, <3>1, <3>3, Zenon DEF Has
    <3> QED
      BY <3>2, <3>3
  <2>8. SameUsers(file["replay"], <<"order">>, IsAbsent)
    BY <2>1, <2>7, Zenon DEF SameUsers
  <2> QED
    BY <1>4, <2>4, <2>6, <2>8, Zenon DEF AbsentInv, RowDescribesFiles, ReplayFilesOrdered, Exported
<1> QED
  BY <1>5, <1>6

\* All of it together.
ServiceInv ==
  /\ TypeOK /\ StoreInv /\ AloneInv /\ UsersInv /\ TidyInv
  /\ TransformInv /\ FetchInv /\ ReplayInv /\ AbsentInv
  /\ RowDescribesFiles /\ CopyIsTheRow /\ ReplayFilesOrdered

\* A stutter changes none of it.
LEMMA StillAsItIs == ServiceInv /\ UNCHANGED vars => ServiceInv'
<1> SUFFICES ASSUME ServiceInv, UNCHANGED vars PROVE ServiceInv'
  OBVIOUS
<1> USE DEF vars, store, disk, calls
<1>1. TypeOK'
  BY Zenon DEF ServiceInv, TypeOK, Active
<1>2. StoreInv'
  BY Zenon DEF ServiceInv, StoreInv, StoredInOrder, Settled, Done, PastRoot
<1>3. AloneInv' /\ UsersInv' /\ TidyInv'
  BY Zenon DEF ServiceInv, AloneInv, UsersInv, HasUsers, Leaves, TidyInv, Active
<1>4. TransformInv' /\ FetchInv'
  BY Zenon DEF ServiceInv, TransformInv, Measuring, Transforming, Sources, FetchInv, Fetching
<1>5. ReplayInv' /\ AbsentInv'
  BY Zenon DEF ServiceInv, ReplayInv, Exporting, Sources, AbsentInv, Heard, Leaves
<1>6. RowDescribesFiles' /\ CopyIsTheRow' /\ ReplayFilesOrdered'
  BY Zenon DEF ServiceInv, RowDescribesFiles, CopyIsTheRow, ReplayFilesOrdered, Exported,
     SameUsers, IsEmptied, IsAbsent
<1> QED
  BY <1>1, <1>2, <1>3, <1>4, <1>5, <1>6, Zenon DEF ServiceInv

\* The invariant that all the promises of the service follow from holds, however
\* calls interleave and wherever they fail.
THEOREM ServiceInvariance == Spec => []ServiceInv
<1>1. Init => ServiceInv
  BY InitTypes, InitStores, InitQuiet, InitFiles, Zenon DEF ServiceInv
<1>2. ServiceInv /\ [Next]_vars => ServiceInv'
  <2> SUFFICES ASSUME ServiceInv, [Next]_vars PROVE ServiceInv'
    OBVIOUS
  <2>1. ASSUME NEW c \in Calls, NEW op \in Ops, Start(c, op) PROVE ServiceInv'
    BY <2>1, StartTypes, StartStores, StartAlone, StartUsers, StartTidy, StartTransforms,
       StartFetches, StartReplays, StartAbsent, StartDescribes, StartCopies, StartExports,
       Zenon DEF ServiceInv
  <2>2. ASSUME NEW c \in Calls, Act(c) PROVE ServiceInv'
    BY <2>2, ActTypes, ActStores, ActAlone, ActUsers, ActTidy, ActTransforms, ActFetches,
       ActReplays, ActAbsent, ActDescribes, ActCopies, ActExports, Zenon DEF ServiceInv
  <2>3. CASE UNCHANGED vars
    BY <2>3, StillAsItIs, Zenon
  <2> QED
    BY <2>1, <2>2, <2>3, Zenon DEF Next, Act
<1> QED
  BY <1>1, <1>2, PTL DEF Spec

\* The state of the service is what its tables, its files and its calls can hold.
THEOREM TypeCorrect == Spec => []TypeOK
<1>1. ServiceInv => TypeOK
  BY DEF ServiceInv
<1> QED
  BY <1>1, ServiceInvariance, PTL

\* However extractions interleave and wherever they fail, a row is stored after every
\* row of the windows before it, and a dataset listed after all of its rows, but for
\* the rows whose own pool workers failed; while nothing fails none is left out.
THEOREM ListedIsComplete == Spec => []StoredInOrder
<1>1. ServiceInv => StoredInOrder
  BY DEF ServiceInv, StoreInv
<1> QED
  BY <1>1, ServiceInvariance, PTL

\* The series of a row that a transform left undisturbed were measured on the very
\* packets its two files hold, of the same users, after all passes.
THEOREM MeasuredIsReplayed == Spec => []RowDescribesFiles
<1>1. ServiceInv => RowDescribesFiles
  BY DEF ServiceInv
<1> QED
  BY <1>1, ServiceInvariance, PTL

\* A worker that fetched such a row holds these packets, in both directions.
THEOREM FetchedIsMeasured == Spec => []CopyIsTheRow
<1>1. ServiceInv => CopyIsTheRow
  BY DEF ServiceInv
<1> QED
  BY <1>1, ServiceInvariance, PTL

\* What an undisturbed export leaves is of the same users in both directions,
\* whole and in order, and no later call spoils it.
THEOREM ExportedInOrder == Spec => []ReplayFilesOrdered
<1>1. ServiceInv => ReplayFilesOrdered
  BY DEF ServiceInv
<1> QED
  BY <1>1, ServiceInvariance, PTL
=============================================================================
