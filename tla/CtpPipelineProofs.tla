------------------------- MODULE CtpPipelineProofs -------------------------
(***************************************************************************)
(* Proofs about CtpPipeline: whatever the captures hold, however far a     *)
(* worker of either stage gets before it fails, however many users a       *)
(* failed series worker leaves out, and wherever a merge fails, the        *)
(* properties of the rows and of what is made of them hold.  They rest on  *)
(* six inductive invariants: the types of the state, the order of the      *)
(* stages, what an answer was trimmed from, what a merge was made of, what *)
(* the rows add up, and what the two stages have kept of the captures.     *)
(***************************************************************************)
EXTENDS CtpPipeline, CtpPacketsProofs

-----------------------------------------------------------------------------
(* The names of a user's files, which SourcesIn folds over the captures.    *)

\* SourcesIn, capture by capture.
StemStep(names, user, dir, i) ==
  IF <<user, dir, i>> \in DOMAIN files THEN Append(names, <<user, dir, i>>) ELSE names

\* The captures as SourcesIn goes over them, and the fold over a part of them.
Stems == [i \in DOMAIN captures |-> i]
StemUpto(f, user, dir, n) ==
  f = [s \in SUBSET (1 .. n) |->
         IF s = {} THEN <<>> ELSE StemStep(f[s \ {Max(s)}], user, dir, Stems[Max(s)])]

\* The fold of SourcesIn is defined.
LEMMA StemExists ==
  ASSUME NEW n \in Nat, NEW user, NEW dir
  PROVE  \E f : StemUpto(f, user, dir, n)
<1> DEFINE Good == {m \in 0 .. n : \E f : StemUpto(f, user, dir, m)}
<1>1. 0 \in Good
  <2> DEFINE f == [s \in SUBSET (1 .. 0) |-> <<>>]
  <2>1. \A s \in SUBSET (1 .. 0) : s = {}
    OBVIOUS
  <2>2. StemUpto(f, user, dir, 0)
    BY <2>1 DEF StemUpto
  <2> QED
    BY <2>2
<1>2. ASSUME NEW i \in 1 .. n, i - 1 \in Good
      PROVE  i \in Good
  <2>1. PICK f : StemUpto(f, user, dir, i - 1)
    BY <1>2
  <2> DEFINE g == [s \in SUBSET (1 .. i) |->
                     IF i \in s THEN StemStep(f[s \ {i}], user, dir, Stems[i]) ELSE f[s]]
  <2>2. \A s \in SUBSET (1 .. i) : i \in s => g[s] = StemStep(f[s \ {i}], user, dir, Stems[i])
    OBVIOUS
  <2>3. \A s \in SUBSET (1 .. i) : i \notin s => g[s] = f[s]
    OBVIOUS
  <2>4. g = [s \in SUBSET (1 .. i) |-> g[s]]
    OBVIOUS
  <2> HIDE DEF g
  <2>5. \A s \in SUBSET (1 .. i) : LastOf(s, i)
    BY Lasts
  <2>6. \A s \in SUBSET (1 .. i - 1) : s \in SUBSET (1 .. i) /\ i \notin s
    OBVIOUS
  <2>7. ASSUME NEW s \in SUBSET (1 .. i)
        PROVE  g[s] = IF s = {} THEN <<>>
                      ELSE StemStep(g[s \ {Max(s)}], user, dir, Stems[Max(s)])
    <3>1. CASE i \in s
      <4>1. Max(s) = i /\ s \ {i} \in SUBSET (1 .. i - 1)
        BY <3>1, <2>5 DEF LastOf
      <4>2. g[s \ {i}] = f[s \ {i}]
        BY <4>1, <2>3, <2>6
      <4> QED
        BY <3>1, <4>1, <4>2, <2>2
    <3>2. CASE i \notin s
      <4>1. s \in SUBSET (1 .. i - 1) /\ g[s] = f[s]
        BY <3>2, <2>3, <2>5 DEF LastOf
      <4>2. f[s] = IF s = {} THEN <<>>
                   ELSE StemStep(f[s \ {Max(s)}], user, dir, Stems[Max(s)])
        BY <4>1, <2>1 DEF StemUpto
      <4>3. s \ {Max(s)} \in SUBSET (1 .. i - 1)
        BY <4>1
      <4>4. g[s \ {Max(s)}] = f[s \ {Max(s)}]
        BY <4>3, <2>3, <2>6
      <4> QED
        BY <4>1, <4>2, <4>4
    <3> QED
      BY <3>1, <3>2
  <2>8. StemUpto(g, user, dir, i)
    BY <2>4, <2>7, Zenon DEF StemUpto
  <2>9. i \in 0 .. n
    OBVIOUS
  <2> QED
    BY <2>8, <2>9
<1>3. \A i \in 0 .. n : i \in Good
  <2> HIDE DEF Good
  <2> QED
    BY <1>1, <1>2, UpTo, Zenon
<1>4. n \in 0 .. n
  OBVIOUS
<1> QED
  BY <1>3, <1>4

\* SourcesIn goes over the captures one by one.
LEMMA StemScan ==
  ASSUME NEW n \in Nat, NEW user, NEW dir, DOMAIN Stems = 1 .. n
  PROVE  \E f : /\ f[0] = <<>> /\ SourcesIn(user, dir) = f[n]
                /\ \A i \in 1 .. n : f[i] = StemStep(f[i - 1], user, dir, Stems[i])
<1> DEFINE h == CHOOSE f : StemUpto(f, user, dir, n)
           f == [i \in 0 .. n |-> h[1 .. i]]
<1>1. SourcesIn(user, dir) = h[1 .. n]
  BY DEF SourcesIn, FoldLeftDomain, FoldLeft, MapThenFoldSet, StemUpto, StemStep, Stems
<1>2. StemUpto(h, user, dir, n)
  BY StemExists, Zenon
<1> HIDE DEF h
<1>3. \A s \in SUBSET (1 .. n) :
        h[s] = IF s = {} THEN <<>>
               ELSE StemStep(h[s \ {Max(s)}], user, dir, Stems[Max(s)])
  BY <1>2 DEF StemUpto
<1>4. h[{}] = <<>>
  BY <1>3, {} \in SUBSET (1 .. n)
<1>5. ASSUME NEW i \in 1 .. n PROVE h[1 .. i] = StemStep(h[1 .. i - 1], user, dir, Stems[i])
  <2>1. /\ 1 .. i \in SUBSET (1 .. n) /\ 1 .. i # {}
        /\ Max(1 .. i) = i /\ (1 .. i) \ {i} = 1 .. i - 1
    BY Segments, Zenon
  <2> QED
    BY <2>1, <1>3
<1>6. 1 .. 0 = {}
  OBVIOUS
<1>7. f[0] = h[1 .. 0] /\ f[n] = h[1 .. n]
  OBVIOUS
<1>8. \A i \in 1 .. n : f[i] = h[1 .. i] /\ f[i - 1] = h[1 .. i - 1]
  OBVIOUS
<1> HIDE DEF f
<1>9. f[0] = <<>> /\ SourcesIn(user, dir) = f[n]
  BY <1>1, <1>4, <1>6, <1>7
<1>10. \A i \in 1 .. n : f[i] = StemStep(f[i - 1], user, dir, Stems[i])
  BY <1>5, <1>8
<1> QED
  BY <1>9, <1>10

\* A name that is taken along is that of a file.
LEMMA StemStepTyped ==
  ASSUME NEW D, D = DOMAIN files, NEW names \in Seq(D), NEW user, NEW dir, NEW i
  PROVE  StemStep(names, user, dir, i) \in Seq(D)
<1> DEFINE x == <<user, dir, i>>
<1>1. StemStep(names, user, dir, i) = IF x \in D THEN Append(names, x) ELSE names
  BY DEF StemStep
<1> HIDE DEF x
<1>2. CASE x \in D
  <2>1. Append(names, x) \in Seq(D)
    BY <1>2
  <2> QED
    BY <1>1, <1>2, <2>1
<1>3. CASE x \notin D
  BY <1>1, <1>3
<1> QED
  BY <1>2, <1>3

\* SourcesIn is a sequence of names of files, if the captures are n.
LEMMA StemsScanned ==
  ASSUME NEW n \in Nat, DOMAIN Stems = 1 .. n, NEW user, NEW dir
  PROVE  SourcesIn(user, dir) \in Seq(DOMAIN files)
<1> DEFINE D == DOMAIN files
<1>1. PICK f : /\ f[0] = <<>> /\ SourcesIn(user, dir) = f[n]
               /\ \A i \in 1 .. n : f[i] = StemStep(f[i - 1], user, dir, Stems[i])
  BY StemScan
<1>2. \A names \in Seq(D) : \A i : StemStep(names, user, dir, i) \in Seq(D)
  BY StemStepTyped
<1> HIDE DEF D
<1> DEFINE Good == {i \in 0 .. n : f[i] \in Seq(D)}
<1>3. 0 \in Good
  <2>1. <<>> \in Seq(D)
    OBVIOUS
  <2>2. f[0] \in Seq(D)
    BY <1>1, <2>1, Zenon
  <2> QED
    BY <2>2
<1>4. ASSUME NEW i \in 1 .. n, i - 1 \in Good PROVE i \in Good
  BY <1>1, <1>2, <1>4
<1>5. \A i \in 0 .. n : i \in Good
  <2> HIDE DEF Good
  <2> QED
    BY <1>3, <1>4, UpTo, Zenon
<1>6. n \in 0 .. n
  OBVIOUS
<1> QED
  BY <1>1, <1>5, <1>6 DEF D

\* SourcesIn is a sequence of names of files.
LEMMA SourcesInTyped ==
  ASSUME captures \in Seq(Seq(Packet)), NEW user, NEW dir
  PROVE  SourcesIn(user, dir) \in Seq(DOMAIN files)
<1> DEFINE n == Len(captures)
<1>1. n \in Nat /\ DOMAIN Stems = 1 .. n
  BY DEF Stems
<1> HIDE DEF n
<1> QED
  BY <1>1, StemsScanned, Zenon

-----------------------------------------------------------------------------
(* The types of the state, and the descriptors of the rows.                 *)

\* The names of the per-user files of the captures.
Names == Internal \X Directions \X DOMAIN captures

\* The invariant: packets throughout, finitely many users, and rows of the
\* windows before the next, each with two series of bytes.
PipelineTyped ==
  /\ captures \in Seq(Seq(Packet))
  /\ Pcaps(files, Names)
  /\ \A k \in DOMAIN windows : windows[k] \in Seq(Packet)
  /\ next \in Nat
  /\ \A r \in DOMAIN rows : r[2] \in Nat /\ r[2] < next
                            /\ rows[r].series \in [Directions -> Amounts]

\* A prefix of a sequence over S is one over S.
LEMMA PrefixTyped ==
  ASSUME NEW S, NEW s \in Seq(S), NEW k \in 0 .. Len(s)
  PROVE  Prefix(s, k) \in Seq(S)
<1>1. \A i \in 1 .. k : s[i] \in S
  OBVIOUS
<1> QED
  BY <1>1 DEF Prefix

\* There are finitely many users: the addresses have AddrBits bits.
LEMMA FinitelyMany ==
  ASSUME PipelineTyped
  PROVE  IsFiniteSet(Users)
<1>1. AddrBits \in Nat /\ Internal \subseteq Address
  BY CtpAssumption
<1>2. 2 ^ AddrBits \in Int
  BY <1>1
<1>3. IsFiniteSet(Address)
  BY <1>2, FS_Interval DEF Address
<1>4. \A k \in DOMAIN files : k \in Names
  BY DEF PipelineTyped, Pcaps
<1>5. \A k \in Names : k[1] \in Internal
  BY DEF Names
<1>6. Users \subseteq Address
  BY <1>1, <1>4, <1>5 DEF Users
<1> QED
  BY <1>3, <1>6, FS_Subset

\* The files of a user, in the order they are read in.
LEMMA SourcesTyped ==
  ASSUME PipelineTyped, NEW user
  PROVE  SourcesOf(user) \in Seq(DOMAIN files)
<1>1. \A dir : SourcesIn(user, dir) \in Seq(DOMAIN files)
  BY SourcesInTyped DEF PipelineTyped
<1> QED
  BY <1>1 DEF SourcesOf

\* The series of a user in a window, which may have no file.
LEMMA SeriesOfTyped ==
  ASSUME PipelineTyped, NEW user, NEW dir, NEW w
  PROVE  SeriesOf(user, dir, w) \in Amounts
<1> DEFINE stems == {i \in DOMAIN captures : <<user, dir, i, w>> \in DOMAIN windows}
<1>1. CASE stems = {}
  BY <1>1 DEF SeriesOf, Amounts
<1>2. CASE stems # {}
  <2>1. stems \in SUBSET Nat
    BY DEF PipelineTyped
  <2>2. \E x \in stems : \A y \in stems : x <= y
    BY <1>2, <2>1, LeastOf
  <2>3. Min(stems) \in stems
    BY <2>2 DEF Min
  <2>4. windows[<<user, dir, Min(stems), w>>] \in Seq(Packet)
    BY <2>3 DEF PipelineTyped
  <2>5. Series(windows[<<user, dir, Min(stems), w>>], WindowLen) \in Amounts
    BY <2>4, SeriesTyped
  <2> QED
    BY <1>2, <2>5 DEF SeriesOf
<1> QED
  BY <1>1, <1>2

\* The first stage leaves typed files, however far its worker gets.
LEMMA SplitCaptureTyped ==
  ASSUME PipelineTyped, NEW i \in DOMAIN captures, NEW k \in 0 .. Len(captures[i]),
         SplitCapture(i, k)
  PROVE  PipelineTyped'
<1> DEFINE split == SplitByIp(Prefix(captures[i], k))
<1>1. captures[i] \in Seq(Packet)
  BY DEF PipelineTyped
<1>2. Prefix(captures[i], k) \in Seq(Packet)
  BY <1>1, PrefixTyped
<1>3. Pcaps(split, Keys)
  BY <1>2, SplitByIpTyped
<1>4. /\ files' = [f \in DOMAIN files \cup {<<u[1], u[2], i>> : u \in DOMAIN split} |->
                    IF f \in DOMAIN files THEN files[f] ELSE split[<<f[1], f[2]>>]]
      /\ UNCHANGED <<captures, windows, next, rows>>
  BY DEF SplitCapture
<1> HIDE DEF split
<1>5. ASSUME NEW u \in DOMAIN split
      PROVE  <<u[1], u[2], i>> \in Names /\ <<u[1], u[2]>> = u
  BY <1>3 DEF Pcaps, Keys, Names
<1>6. ASSUME NEW f \in DOMAIN files'
      PROVE  f \in Names /\ files'[f] \in Seq(Packet)
  <2>1. CASE f \in DOMAIN files
    BY <1>4, <2>1 DEF PipelineTyped, Pcaps
  <2>2. CASE f \notin DOMAIN files
    <3>1. PICK u \in DOMAIN split : f = <<u[1], u[2], i>>
      BY <1>4, <1>6, <2>2
    <3>2. files'[f] = split[<<f[1], f[2]>>]
      BY <1>4, <1>6, <2>2
    <3>3. <<f[1], f[2]>> = u
      BY <1>5, <3>1
    <3> QED
      BY <1>3, <1>5, <3>1, <3>2, <3>3 DEF Pcaps
  <2> QED
    BY <2>1, <2>2
<1>7. files' = [f \in DOMAIN files' |-> files'[f]]
  BY <1>4
<1>8. Names' = Names
  BY <1>4 DEF Names
<1>9. Pcaps(files, Names)'
  BY <1>6, <1>7, <1>8 DEF Pcaps
<1> QED
  BY <1>4, <1>9 DEF PipelineTyped

\* The second stage leaves typed windows, however far its worker gets.
LEMMA SplitUserTyped ==
  ASSUME PipelineTyped, NEW user, NEW j \in DOMAIN SourcesOf(user),
         NEW k \in 0 .. Len(files[SourcesOf(user)[j]]), SplitUser(user, j, k)
  PROVE  PipelineTyped'
<1> DEFINE src == SourcesOf(user)
           read == [i \in 1 .. j |-> IF i < j THEN files[src[i]] ELSE Prefix(files[src[i]], k)]
           made == UNION {{<<i, w>> : w \in DOMAIN SplitByWindow(read[i])} : i \in 1 .. j}
           Name(m) == src[m[1]] \o <<m[2]>>
           Of(f) == CHOOSE m \in made : Name(m) = f
<1>1. src \in Seq(DOMAIN files) /\ j \in 1 .. Len(src)
  BY SourcesTyped
<1>2. /\ windows' = [f \in DOMAIN windows \cup {Name(m) : m \in made} |->
                      IF f \in DOMAIN windows THEN windows[f]
                      ELSE SplitByWindow(read[Of(f)[1]])[Of(f)[2]]]
      /\ UNCHANGED <<captures, files, next, rows>>
  BY DEF SplitUser
<1>3. k \in 0 .. Len(files[src[j]])
  OBVIOUS
<1> HIDE DEF src
<1>4. \A i \in 1 .. j : files[src[i]] \in Seq(Packet)
  BY <1>1 DEF PipelineTyped, Pcaps
<1>5. Prefix(files[src[j]], k) \in Seq(Packet)
  BY <1>1, <1>3, <1>4, PrefixTyped
<1>6. \A i \in 1 .. j : read[i] \in Seq(Packet)
  <2>1. \A i \in 1 .. j : i < j \/ i = j
    BY <1>1
  <2> QED
    BY <1>4, <1>5, <2>1
<1> HIDE DEF read
<1>7. \A m \in made : SplitByWindow(read[m[1]])[m[2]] \in Seq(Packet)
  <2> SUFFICES ASSUME NEW i \in 1 .. j, NEW w \in DOMAIN SplitByWindow(read[i])
               PROVE  SplitByWindow(read[i])[w] \in Seq(Packet)
    OBVIOUS
  <2> QED
    BY <1>6, SplitByWindowTyped
<1> HIDE DEF made
<1>8. ASSUME NEW f \in DOMAIN windows'
      PROVE  windows'[f] \in Seq(Packet)
  <2>1. CASE f \in DOMAIN windows
    BY <1>2, <2>1 DEF PipelineTyped
  <2>2. CASE f \notin DOMAIN windows
    <3>1. f \in {Name(m) : m \in made}
      BY <1>2, <1>8, <2>2
    <3>2. Of(f) \in made
      BY <3>1
    <3>3. windows'[f] = SplitByWindow(read[Of(f)[1]])[Of(f)[2]]
      BY <1>2, <1>8, <2>2
    <3> QED
      BY <1>7, <3>2, <3>3
  <2> QED
    BY <2>1, <2>2
<1>9. Pcaps(files, Names)'
  BY <1>2 DEF PipelineTyped, Pcaps, Names
<1> QED
  BY <1>2, <1>8, <1>9 DEF PipelineTyped

\* A window is stored as rows with two series of bytes, and no row of an
\* earlier window is touched.
LEMMA StoreWindowTyped ==
  ASSUME PipelineTyped, NEW lost, StoreWindow(lost)
  PROVE  PipelineTyped'
<1> DEFINE kept == Users \ lost
           Only(n) == CHOOSE u \in kept : Leaf(u) = n
           leaves == [n \in {Leaf(u) : u \in kept} |->
                        [series |-> [d \in Directions |-> SeriesOf(Only(n), d, next)],
                         users  |-> {Only(n)}]]
           tree == IF kept = {} THEN NoFiles ELSE Tree(leaves)
<1>1. /\ rows' = [r \in DOMAIN rows \cup {<<n, next>> : n \in DOMAIN tree} |->
                    IF r[2] = next THEN tree[r[1]] ELSE rows[r]]
      /\ next' = next + 1
      /\ UNCHANGED <<captures, files, windows>>
  BY DEF StoreWindow
<1>2. Level(leaves)
  <2>1. IsFiniteSet(kept)
    BY FinitelyMany, FS_Difference
  <2> HIDE DEF kept
  <2> DEFINE g == [u \in kept |-> Leaf(u)]
  <2>2. g \in Surjection(kept, {Leaf(u) : u \in kept})
    BY DEF Surjection
  <2>3. IsFiniteSet(DOMAIN leaves)
    BY <2>1, <2>2, FS_Surjection
  <2>4. \A n \in DOMAIN leaves : leaves[n].series \in [Directions -> Amounts]
    BY SeriesOfTyped
  <2> HIDE DEF leaves
  <2> QED
    BY <2>3, <2>4 DEF Level
<1>3. \A n \in DOMAIN tree : tree[n].series \in [Directions -> Amounts]
  <2> HIDE DEF leaves
  <2>1. Level(Tree(leaves))
    BY <1>2, TreeTyped
  <2> QED
    BY <2>1 DEF Level, NoFiles
<1> HIDE DEF tree
<1>4. ASSUME NEW r \in DOMAIN rows'
      PROVE  r[2] \in Nat /\ r[2] < next' /\ rows'[r].series \in [Directions -> Amounts]
  <2>1. CASE r \in DOMAIN rows
    <3>1. r[2] \in Nat /\ r[2] < next /\ rows[r].series \in [Directions -> Amounts] /\ next \in Nat
      BY <2>1 DEF PipelineTyped
    <3> QED
      BY <1>1, <1>4, <3>1
  <2>2. CASE r \notin DOMAIN rows
    <3>1. PICK n \in DOMAIN tree : r = <<n, next>>
      BY <1>1, <1>4, <2>2
    <3>2. rows'[r] = tree[n] /\ r[2] = next /\ next \in Nat
      BY <1>1, <1>4, <3>1 DEF PipelineTyped
    <3> QED
      BY <1>1, <1>3, <3>2
  <2> QED
    BY <2>1, <2>2
<1>5. Pcaps(files, Names)'
  BY <1>1 DEF PipelineTyped, Pcaps, Names
<1>6. next' \in Nat
  BY <1>1 DEF PipelineTyped
<1> QED
  BY <1>1, <1>4, <1>5, <1>6 DEF PipelineTyped

\* The other steps write none of this.
LEMMA LeavesDataAlone ==
  ASSUME PipelineTyped, UNCHANGED <<captures, files, windows, next, rows>>
  PROVE  PipelineTyped'
BY DEF PipelineTyped, Pcaps, Names

\* The invariant holds in every state.
LEMMA PipelineInvariance == Spec => []PipelineTyped
<1>1. Init => PipelineTyped
  BY PipelineAssumption DEF Init, PipelineTyped, Pcaps, NoFiles
<1>2. PipelineTyped /\ [Next]_vars => PipelineTyped'
  <2> SUFFICES ASSUME PipelineTyped, [Next]_vars PROVE PipelineTyped'
    OBVIOUS
  <2>1. ASSUME NEW i \in DOMAIN captures, NEW k \in 0 .. Len(captures[i]), SplitCapture(i, k)
        PROVE  PipelineTyped'
    BY <2>1, SplitCaptureTyped
  <2>2. ASSUME NEW u \in Users, NEW j \in DOMAIN SourcesOf(u),
               NEW k \in 0 .. Len(files[SourcesOf(u)[j]]), SplitUser(u, j, k)
        PROVE  PipelineTyped'
    BY <2>2, SplitUserTyped
  <2>3. ASSUME NEW lost \in SUBSET Users, StoreWindow(lost)
        PROVE  PipelineTyped'
    BY <2>3, StoreWindowTyped
  <2>4. CASE Finish
    BY <2>4, LeavesDataAlone DEF Finish
  <2>5. ASSUME NEW r \in DOMAIN rows, NEW rate \in Thresholds, NEW bin \in TrimBins,
               Transform(r[1], r[2], rate, bin)
        PROVE  PipelineTyped'
    BY <2>5, LeavesDataAlone DEF Transform
  <2>6. ASSUME NEW net, NEW from, NEW to, NEW bad, Merge(net, from, to, bad)
        PROVE  PipelineTyped'
    BY <2>6, LeavesDataAlone DEF Merge
  <2>7. ASSUME NEW u, NEW i, LoadPcap(u, i)
        PROVE  PipelineTyped'
    BY <2>7, LeavesDataAlone DEF LoadPcap
  <2>8. CASE UNCHANGED vars
    BY <2>8, LeavesDataAlone DEF vars
  <2> QED
    BY <2>1, <2>2, <2>3, <2>4, <2>5, <2>6, <2>7, <2>8 DEF Next
<1> QED
  BY <1>1, <1>2, PTL DEF Spec

\* The descriptors of every row that is ever stored tell one story, for any
\* captures, addresses, settings and failures of the workers: the peak carries
\* the total, the directions add up to it, and the on periods that metrics.py
\* counts are the upward crossings that pcap_utils.py counts, some if and only if
\* there are bytes; a row without bytes has no period of either kind.
THEOREM RowsAgree == Spec => []DescriptorsAgree
<1>1. PipelineTyped => DescriptorsAgree
  <2> SUFFICES ASSUME PipelineTyped, NEW r \in DOMAIN rows
               PROVE  LET d == Descriptors(rows[r])
                          ups == OnTransitions(Combined(rows[r]), 1)
                      IN /\ d.total = d.up + d.down
                         /\ d.peak <= d.total /\ d.total <= d.peak * Cardinality(Bins(WindowLen))
                         /\ d.on = Cardinality(ups)
                         /\ d.off - d.on \in {-1, 0, 1}
                         /\ d.on > 0 <=> d.total > 0
                         /\ d.total = 0 => d.off = 0
    BY DEF DescriptorsAgree
  <2>1. rows[r].series \in [Directions -> Amounts]
    BY DEF PipelineTyped
  <2> QED
    BY <2>1, Agreement
<1> QED
  BY <1>1, PipelineInvariance, PTL

-----------------------------------------------------------------------------
(* The legacy frames.                                                       *)

\* Frames, packet by packet.
FrameStep(s, p, start) ==
  IF p.t - start < StartLimit THEN s
  ELSE IF p.t - start < s.counter * FrameLen THEN [s EXCEPT !.open = Append(@, p)]
  ELSE [done |-> Append(s.done, s.open), open |-> <<p>>, counter |-> s.counter + 1]

\* No packet yet, and the fold over a part of the packets.
NoFrames == [done |-> <<>>, open |-> <<>>, counter |-> 1]
FrameUpto(f, pcap, start, n) ==
  f = [s \in SUBSET (1 .. n) |->
         IF s = {} THEN NoFrames ELSE FrameStep(f[s \ {Max(s)}], pcap[Max(s)], start)]

\* Frames goes over the packets one by one.
LEMMA FrameExists ==
  ASSUME NEW n \in Nat, NEW pcap, NEW start
  PROVE  \E f : FrameUpto(f, pcap, start, n)
<1> DEFINE Good == {m \in 0 .. n : \E f : FrameUpto(f, pcap, start, m)}
<1>1. 0 \in Good
  <2> DEFINE f == [s \in SUBSET (1 .. 0) |-> NoFrames]
  <2>1. \A s \in SUBSET (1 .. 0) : s = {}
    OBVIOUS
  <2>2. FrameUpto(f, pcap, start, 0)
    BY <2>1 DEF FrameUpto
  <2> QED
    BY <2>2
<1>2. ASSUME NEW i \in 1 .. n, i - 1 \in Good
      PROVE  i \in Good
  <2>1. PICK f : FrameUpto(f, pcap, start, i - 1)
    BY <1>2
  <2> DEFINE g == [s \in SUBSET (1 .. i) |->
                     IF i \in s THEN FrameStep(f[s \ {i}], pcap[i], start) ELSE f[s]]
  <2>2. \A s \in SUBSET (1 .. i) : i \in s => g[s] = FrameStep(f[s \ {i}], pcap[i], start)
    OBVIOUS
  <2>3. \A s \in SUBSET (1 .. i) : i \notin s => g[s] = f[s]
    OBVIOUS
  <2>4. g = [s \in SUBSET (1 .. i) |-> g[s]]
    OBVIOUS
  <2> HIDE DEF g
  <2>5. \A s \in SUBSET (1 .. i) : LastOf(s, i)
    BY Lasts
  <2>6. \A s \in SUBSET (1 .. i - 1) : s \in SUBSET (1 .. i) /\ i \notin s
    OBVIOUS
  <2>7. ASSUME NEW s \in SUBSET (1 .. i)
        PROVE  g[s] = IF s = {} THEN NoFrames
                      ELSE FrameStep(g[s \ {Max(s)}], pcap[Max(s)], start)
    <3>1. CASE i \in s
      <4>1. Max(s) = i /\ s \ {i} \in SUBSET (1 .. i - 1)
        BY <3>1, <2>5 DEF LastOf
      <4>2. g[s \ {i}] = f[s \ {i}]
        BY <4>1, <2>3, <2>6
      <4> QED
        BY <3>1, <4>1, <4>2, <2>2
    <3>2. CASE i \notin s
      <4>1. s \in SUBSET (1 .. i - 1) /\ g[s] = f[s]
        BY <3>2, <2>3, <2>5 DEF LastOf
      <4>2. f[s] = IF s = {} THEN NoFrames
                   ELSE FrameStep(f[s \ {Max(s)}], pcap[Max(s)], start)
        BY <4>1, <2>1 DEF FrameUpto
      <4>3. s \ {Max(s)} \in SUBSET (1 .. i - 1)
        BY <4>1
      <4>4. g[s \ {Max(s)}] = f[s \ {Max(s)}]
        BY <4>3, <2>3, <2>6
      <4> QED
        BY <4>1, <4>2, <4>4
    <3> QED
      BY <3>1, <3>2
  <2>8. FrameUpto(g, pcap, start, i)
    BY <2>4, <2>7, Zenon DEF FrameUpto
  <2>9. i \in 0 .. n
    OBVIOUS
  <2> QED
    BY <2>8, <2>9
<1>3. \A i \in 0 .. n : i \in Good
  <2> HIDE DEF Good
  <2> QED
    BY <1>1, <1>2, UpTo, Zenon
<1>4. n \in 0 .. n
  OBVIOUS
<1> QED
  BY <1>3, <1>4

\* Frames goes over the packets one by one.
ScansFrames(f, pcap, start, n) ==
  /\ f[0] = NoFrames /\ Frames(pcap, start) = f[n].done
  /\ \A i \in 1 .. n : f[i] = FrameStep(f[i - 1], pcap[i], start)

LEMMA FrameScan ==
  ASSUME NEW n \in Nat, NEW pcap, NEW start, DOMAIN pcap = 1 .. n
  PROVE  \E f : ScansFrames(f, pcap, start, n)
<1> DEFINE h == CHOOSE f : FrameUpto(f, pcap, start, n)
           f == [i \in 0 .. n |-> h[1 .. i]]
<1>1. Frames(pcap, start) = h[1 .. n].done
  BY DEF Frames, FoldLeft, MapThenFoldSet, FrameUpto, FrameStep, NoFrames
<1>2. FrameUpto(h, pcap, start, n)
  BY FrameExists, Zenon
<1> HIDE DEF h
<1>3. \A s \in SUBSET (1 .. n) :
        h[s] = IF s = {} THEN NoFrames
               ELSE FrameStep(h[s \ {Max(s)}], pcap[Max(s)], start)
  BY <1>2 DEF FrameUpto
<1>4. h[{}] = NoFrames
  BY <1>3, {} \in SUBSET (1 .. n)
<1>5. ASSUME NEW i \in 1 .. n PROVE h[1 .. i] = FrameStep(h[1 .. i - 1], pcap[i], start)
  <2>1. /\ 1 .. i \in SUBSET (1 .. n) /\ 1 .. i # {}
        /\ Max(1 .. i) = i /\ (1 .. i) \ {i} = 1 .. i - 1
    BY Segments, Zenon
  <2> QED
    BY <2>1, <1>3
<1>6. 1 .. 0 = {}
  OBVIOUS
<1>7. f[0] = h[1 .. 0] /\ f[n] = h[1 .. n]
  OBVIOUS
<1>8. \A i \in 1 .. n : f[i] = h[1 .. i] /\ f[i - 1] = h[1 .. i - 1]
  OBVIOUS
<1> HIDE DEF f
<1>9. f[0] = NoFrames /\ Frames(pcap, start) = f[n].done
  BY <1>1, <1>4, <1>6, <1>7
<1>10. \A i \in 1 .. n : f[i] = FrameStep(f[i - 1], pcap[i], start)
  BY <1>5, <1>8
<1>11. ScansFrames(f, pcap, start, n)
  BY <1>9, <1>10, Zenon DEF ScansFrames
<1> QED
  BY <1>11, Zenon

\* The interval of a packet, and the late packets among some of a capture.
SlotAt(start, p) == (p.t - start) \div FrameLen + 1
LateOf(cap, start, K) == {k \in K : cap[k].t - start >= StartLimit}

\* What FramesInPlace says of the i-th frame.
FrameFits(frame, start, i) ==
  /\ i > 1 => frame # <<>>
  /\ \A k \in DOMAIN frame :
       IF i = 1 \/ k > 1 THEN SlotAt(start, frame[k]) = i ELSE SlotAt(start, frame[k]) >= i

\* The frames are those of the positions in P, the last one being open.
FramesFit(s, cap, start, P) ==
  /\ s = [done |-> s.done, open |-> s.open, counter |-> s.counter]
  /\ s.counter \in Nat \ {0}
  /\ s.done \in Seq(Seq(Packet)) /\ Len(s.done) = s.counter - 1
  /\ s.open \in Seq(Packet)
  /\ Glue(FlattenSeq(s.done), s.open) = Pick(cap, LateOf(cap, start, P))
  /\ \A i \in 1 .. s.counter - 1 : FrameFits(s.done[i], start, i)
  /\ FrameFits(s.open, start, s.counter)
  /\ \A x \in DOMAIN s.open : \E j \in P : s.open[x] = cap[j]

\* One file more to flatten is glued to the others.
LEMMA FlatMore ==
  ASSUME NEW T, NEW seqs \in Seq(Seq(T)), NEW x \in Seq(T)
  PROVE  FlattenSeq(Append(seqs, x)) = Glue(FlattenSeq(seqs), x)
<1> DEFINE n == Len(seqs)
           more == Append(seqs, x)
<1>1. /\ n \in Nat /\ Len(more) = n + 1 /\ more \in Seq(Seq(T))
      /\ more[n + 1] = x /\ \A i \in 1 .. n : more[i] = seqs[i]
  OBVIOUS
<1> HIDE DEF more
<1>2. CASE n = 0
  <2>1. seqs = <<>>
    BY <1>2
  <2>2. FlattenSeq(seqs) = <<>>
    BY <2>1 DEF FlattenSeq
  <2>3. FlattenSeq(more) = more[1] /\ more[1] = x
    BY <1>1, <1>2, Flat
  <2>4. <<>> \o x = x
    OBVIOUS
  <2>5. Glue(<<>>, x) = x
    BY <2>4, Zenon DEF Glue
  <2> QED
    BY <2>2, <2>3, <2>5, Zenon DEF more
<1>3. CASE n # 0
  <2>1. PICK f : FlatUpto(f, seqs, n) /\ FlattenSeq(seqs) = f[n]
    BY <1>1, <1>3, FlatScan
  <2>2. Len(more) \in Nat \ {0}
    BY <1>1
  <2>3. PICK g : FlatUpto(g, more, Len(more)) /\ FlattenSeq(more) = g[Len(more)]
    BY <2>2, FlatScan
  <2> HIDE DEF n
  <2>4. \A i \in 1 .. n : f[i] = IF i = 1 THEN seqs[i] ELSE Glue(f[i - 1], seqs[i])
    BY <2>1 DEF FlatUpto
  <2>5. \A i \in 1 .. n + 1 : g[i] = IF i = 1 THEN more[i] ELSE Glue(g[i - 1], more[i])
    BY <1>1, <2>3 DEF FlatUpto
  <2> DEFINE Good == {k \in 0 .. n : k # 0 => f[k] = g[k]}
  <2>6. 0 \in Good
    BY <1>1
  <2>7. ASSUME NEW k \in 1 .. n, k - 1 \in Good PROVE k \in Good
    <3>1. k \in 0 .. n /\ k \in 1 .. n + 1 /\ more[k] = seqs[k]
      BY <1>1
    <3>2. CASE k = 1
      BY <2>4, <2>5, <3>1, <3>2
    <3>3. CASE k # 1
      <4>1. f[k - 1] = g[k - 1]
        BY <2>7, <3>3
      <4>2. f[k] = Glue(f[k - 1], seqs[k]) /\ g[k] = Glue(g[k - 1], more[k])
        BY <2>4, <2>5, <3>1, <3>3
      <4> QED
        BY <3>1, <4>1, <4>2
    <3> QED
      BY <3>2, <3>3
  <2>8. \A k \in 0 .. n : k \in Good
    <3> HIDE DEF Good
    <3> QED
      BY <1>1, <2>6, <2>7, UpTo, Zenon
  <2>9. f[n] = g[n]
    BY <1>1, <1>3, <2>8
  <2>10. g[n + 1] = Glue(g[n], more[n + 1])
    <3>0. n \in Nat
      BY <1>1
    <3>1. n + 1 \in 1 .. n + 1 /\ n + 1 # 1 /\ (n + 1) - 1 = n
      BY <1>3, <3>0
    <3>2. g[n + 1] = IF n + 1 = 1 THEN more[n + 1] ELSE Glue(g[(n + 1) - 1], more[n + 1])
      BY <2>5, <3>1, Zenon
    <3> QED
      BY <3>1, <3>2, Zenon
  <2> QED
    BY <1>1, <2>1, <2>3, <2>9, <2>10 DEF more, n
<1> QED
  BY <1>2, <1>3

\* A packet behind two files is behind the second of them.
LEMMA GlueLast ==
  ASSUME NEW a \in Seq(Packet), NEW b \in Seq(Packet), NEW p \in Packet
  PROVE  /\ Glue(a, Append(b, p)) = Append(Glue(a, b), p)
         /\ Glue(a, <<p>>) = Append(a, p)
         /\ Glue(a, <<>>) = a
<1>1. a \o Append(b, p) = Append(a \o b, p)
  OBVIOUS
<1>2. a \o <<p>> = Append(a, p) /\ a \o <<>> = a
  OBVIOUS
<1> QED
  BY <1>1, <1>2, Zenon DEF Glue

\* A packet that is not before the start is in some interval, and a later one
\* in no earlier one.
LEMMA SlotsGrow ==
  ASSUME NEW start \in Nat, NEW p, p.t \in Nat, p.t - start >= StartLimit
  PROVE  /\ SlotAt(start, p) \in Nat \ {0}
         /\ \A c \in Nat : p.t - start < c * FrameLen <=> SlotAt(start, p) <= c
         /\ \A q : q.t \in Nat /\ p.t <= q.t => SlotAt(start, p) <= SlotAt(start, q)
<1>1. FrameLen \in Nat \ {0} /\ StartLimit \in Nat
  BY PipelineAssumption
<1> DEFINE x == p.t - start
<1>2. x \in Nat
  BY <1>1
<1> HIDE DEF x
<1>3. x \div FrameLen \in Nat /\ \A c \in Int : x < c * FrameLen <=> x \div FrameLen < c
  BY <1>1, <1>2, DivLess
<1>4. ASSUME NEW q, q.t \in Nat, p.t <= q.t
      PROVE  SlotAt(start, p) <= SlotAt(start, q)
  <2> DEFINE y == q.t - start
  <2>1. y \in Nat /\ x <= y
    BY <1>1, <1>2, <1>4 DEF x
  <2> HIDE DEF y
  <2>2. x \div FrameLen <= y \div FrameLen /\ y \div FrameLen \in Nat
    <3>1. FrameLen \in Nat \ {0} /\ x \in Nat /\ y \in Nat /\ x <= y
      BY <1>1, <1>2, <2>1
    <3>2. x \div FrameLen <= y \div FrameLen
      BY <3>1, DivGrows
    <3>3. 0 \in Int
      OBVIOUS
    <3>4. y \div FrameLen \in Nat
      BY <3>1, <3>3, DivLess
    <3> QED
      BY <3>2, <3>4
  <2> DEFINE X == x \div FrameLen
             Y == y \div FrameLen
  <2>3. X \in Nat /\ Y \in Nat /\ X <= Y
    BY <1>3, <2>2
  <2> HIDE DEF X, Y
  <2>4. X + 1 <= Y + 1
    BY <2>3
  <2> QED
    BY <2>4, Zenon DEF SlotAt, X, Y, x, y
<1>5. \A c \in Nat : x < c * FrameLen <=> x \div FrameLen + 1 <= c
  BY <1>3
<1> QED
  BY <1>3, <1>4, <1>5 DEF SlotAt, x

\* One packet further, the frames are those of one position more.
LEMMA FrameNext ==
  ASSUME NEW cap \in Seq(Packet), InOrder(cap), NEW start \in Nat,
         NEW P \in SUBSET DOMAIN cap, NEW k \in DOMAIN cap, \A j \in P : j < k,
         NEW s, FramesFit(s, cap, start, P)
  PROVE  FramesFit(FrameStep(s, cap[k], start), cap, start, P \cup {k})
<1> DEFINE p == cap[k]
           Q == P \cup {k}
           c == s.counter
           at == SlotAt(start, p)
           r == FrameStep(s, p, start)
           L == LateOf(cap, start, P)
           flat == FlattenSeq(s.done)
<1>0. DOMAIN cap \subseteq Nat /\ p.t \in Nat /\ p \in Packet /\ StartLimit \in Nat
  BY PipelineAssumption, Fields
<1>1. /\ s = [done |-> s.done, open |-> s.open, counter |-> c]
      /\ c \in Nat \ {0} /\ s.done \in Seq(Seq(Packet)) /\ Len(s.done) = c - 1
      /\ s.open \in Seq(Packet) /\ Glue(flat, s.open) = Pick(cap, L)
      /\ FrameFits(s.open, start, c)
  BY Zenon DEF FramesFit
<1>2. \A i \in 1 .. c - 1 : FrameFits(s.done[i], start, i)
  BY Zenon DEF FramesFit
<1>3. \A x \in DOMAIN s.open : \E j \in P : s.open[x] = cap[j]
  BY Zenon DEF FramesFit
<1>4. flat \in Seq(Packet)
  BY <1>1, Flat
<1>5. CASE p.t - start < StartLimit
  <2>1. LateOf(cap, start, Q) = L
    BY <1>0, <1>5 DEF LateOf
  <2>2. r = s
    BY <1>5 DEF FrameStep
  <2>3. \A x \in DOMAIN s.open : \E j \in Q : s.open[x] = cap[j]
    BY <1>3
  <2> HIDE DEF r, Q, L, c, p, flat
  <2>4. FramesFit(s, cap, start, Q)
    BY <1>1, <1>2, <2>1, <2>3, Zenon DEF FramesFit, c, flat
  <2> QED
    BY <2>2, <2>4 DEF r, Q, p
<1>6. CASE ~ (p.t - start < StartLimit)
  <2>1. p.t - start >= StartLimit
    BY <1>0, <1>6
  <2>2. LateOf(cap, start, Q) = L \cup {k} /\ L \in SUBSET DOMAIN cap /\ \A j \in L : j < k
    BY <2>1 DEF LateOf
  <2>3. Pick(cap, LateOf(cap, start, Q)) = Append(Pick(cap, L), p)
    BY <2>2, PickLast
  <2>4. at \in Nat \ {0} /\ (p.t - start < c * FrameLen <=> at <= c)
    BY <1>0, <1>1, <2>1, SlotsGrow
  <2>5. CASE at <= c
    <3> DEFINE open == Append(s.open, p)
    <3>1. r = [s EXCEPT !.open = Append(@, p)]
      BY <1>6, <2>4, <2>5 DEF FrameStep
    <3>2. r = [done |-> s.done, open |-> open, counter |-> c]
      BY <1>1, <3>1
    <3>3. Glue(flat, open) = Pick(cap, LateOf(cap, start, Q))
      <4>1. Glue(flat, open) = Append(Glue(flat, s.open), p)
        <5>1. flat \in Seq(Packet) /\ s.open \in Seq(Packet) /\ p \in Packet
          BY <1>0, <1>1, <1>4
        <5> DEFINE o == s.open
        <5>2. o \in Seq(Packet)
          BY <5>1
        <5> HIDE DEF flat, p, o
        <5>3. Glue(flat, Append(o, p)) = Append(Glue(flat, o), p)
          BY <5>1, <5>2, GlueLast
        <5> QED
          BY <5>3 DEF o
      <4> QED
        BY <1>1, <2>3, <4>1, Zenon
    <3>4. /\ open \in Seq(Packet) /\ DOMAIN open = 1 .. Len(s.open) + 1 /\ open # <<>>
          /\ open[Len(s.open) + 1] = p /\ Len(s.open) \in Nat
          /\ \A x \in 1 .. Len(s.open) : open[x] = s.open[x] /\ x \in DOMAIN s.open
      <4> DEFINE o == s.open
      <4>1. o \in Seq(Packet) /\ p \in Packet
        BY <1>0, <1>1
      <4> HIDE DEF o, p
      <4>2. /\ Append(o, p) \in Seq(Packet) /\ DOMAIN Append(o, p) = 1 .. Len(o) + 1
            /\ Append(o, p) # <<>> /\ Append(o, p)[Len(o) + 1] = p /\ Len(o) \in Nat
            /\ \A x \in 1 .. Len(o) : Append(o, p)[x] = o[x] /\ x \in DOMAIN o
        BY <4>1
      <4> QED
        BY <4>2, Zenon DEF o
    <3> HIDE DEF open
    <3>5. c # 1 => s.open # <<>>
      BY <1>1 DEF FrameFits
    <3>6. c = 1 \/ Len(s.open) + 1 > 1 => at = c
      <4>1. CASE c = 1
        BY <2>4, <2>5, <4>1
      <4>2. CASE c # 1 /\ Len(s.open) + 1 > 1
        <5>1. 1 \in DOMAIN s.open
          BY <1>1, <4>2
        <5>2. PICK j \in P : s.open[1] = cap[j]
          BY <1>3, <5>1
        <5>3. cap[j].t <= p.t /\ cap[j].t \in Nat
          <6>1. j \in DOMAIN cap /\ j <= k
            <7>1. j < k /\ j \in DOMAIN cap
              OBVIOUS
            <7>2. j \in Nat /\ k \in Nat
              BY <1>0, <7>1
            <7> QED
              BY <7>1, <7>2
          <6> QED
            BY <6>1, Ordered, Fields
        <5>4. SlotAt(start, s.open[1]) >= c
          <6>1. SlotAt(start, s.open[1]) = c \/ SlotAt(start, s.open[1]) >= c
            BY <1>1, <5>1 DEF FrameFits
          <6> QED
            BY <1>1, <6>1
        <5>5. SlotAt(start, cap[j]) <= at
          <6>1. cap[j].t - start >= StartLimit
            <7>1. s.open[1] \in Packet
              BY <1>1, <5>1
            <7>2. ASSUME ~ (cap[j].t - start >= StartLimit) PROVE FALSE
              <8> DEFINE y == cap[j].t - start
              <8>1. y \in Int /\ y < FrameLen /\ FrameLen \in Nat \ {0}
                BY <5>3, <7>2, PipelineAssumption
              <8> HIDE DEF y
              <8>2. y \div FrameLen <= 0 /\ y \div FrameLen \in Int
                BY <8>1
              <8>3. SlotAt(start, cap[j]) <= 1 /\ SlotAt(start, cap[j]) \in Int
                BY <8>2 DEF SlotAt, y
              <8>4. c >= 2
                BY <1>1, <4>2
              <8> QED
                BY <1>1, <5>2, <5>4, <8>3, <8>4
            <7> QED
              BY <7>2
          <6> QED
            BY <1>0, <5>3, <6>1, SlotsGrow
        <5>6. SlotAt(start, cap[j]) \in Int
          <6> DEFINE y == cap[j].t - start
          <6>1. y \in Int /\ FrameLen \in Nat \ {0}
            BY <5>3, PipelineAssumption
          <6> HIDE DEF y
          <6>2. y \div FrameLen \in Int
            BY <6>1
          <6> QED
            BY <6>2 DEF SlotAt, y
        <5> QED
          BY <1>1, <2>4, <2>5, <5>2, <5>4, <5>5, <5>6
      <4> QED
        BY <4>1, <4>2
    <3>7. FrameFits(open, start, c)
      <4>1. ASSUME NEW x \in 1 .. Len(s.open)
            PROVE  IF c = 1 \/ x > 1 THEN SlotAt(start, open[x]) = c
                   ELSE SlotAt(start, open[x]) >= c
        <5>1. open[x] = s.open[x] /\ x \in DOMAIN s.open
          BY <3>4
        <5> QED
          BY <1>1, <5>1, Zenon DEF FrameFits
      <4>2. CASE Len(s.open) = 0
        <5>1. c = 1
          BY <1>1, <3>5, <4>2
        <5>2. at = c
          BY <3>6, <5>1
        <5>3. \A x \in DOMAIN open : SlotAt(start, open[x]) = c
          BY <3>4, <4>2, <5>2
        <5> QED
          BY <3>4, <5>1, <5>3, Zenon DEF FrameFits
      <4>3. CASE Len(s.open) # 0
        <5>1. at = c
          <6>0. Len(s.open) \in Nat
            BY <3>4
          <6>1. Len(s.open) + 1 > 1
            BY <4>3, <6>0
          <6> QED
            BY <3>6, <6>1, Zenon
        <5>2. \A x \in DOMAIN open : x \in 1 .. Len(s.open) \/ x = Len(s.open) + 1
          <6>1. \A m \in Nat : \A x \in 1 .. m + 1 : x \in 1 .. m \/ x = m + 1
            OBVIOUS
          <6> QED
            BY <3>4, <6>1, Zenon
        <5>3. ASSUME NEW x \in DOMAIN open
              PROVE  IF c = 1 \/ x > 1 THEN SlotAt(start, open[x]) = c
                     ELSE SlotAt(start, open[x]) >= c
          <6>1. CASE x \in 1 .. Len(s.open)
            BY <4>1, <6>1
          <6>2. CASE x = Len(s.open) + 1
            <7>1. SlotAt(start, open[x]) = c
              BY <3>4, <5>1, <6>2
            <7>2. x > 1
              BY <3>4, <4>3, <6>2
            <7> QED
              BY <7>1, <7>2
          <6> QED
            BY <5>2, <6>1, <6>2
        <5> QED
          BY <3>4, <5>3, Zenon DEF FrameFits
      <4> QED
        BY <4>2, <4>3
    <3>8. \A x \in DOMAIN open : \E j \in Q : open[x] = cap[j]
      <4> SUFFICES ASSUME NEW x \in DOMAIN open PROVE \E j \in Q : open[x] = cap[j]
        OBVIOUS
      <4>1. CASE x \in 1 .. Len(s.open)
        BY <1>3, <3>4, <4>1
      <4>2. CASE x = Len(s.open) + 1
        BY <3>4, <4>2
      <4> QED
        BY <3>4, <4>1, <4>2
    <3>9. r.done = s.done /\ r.open = open /\ r.counter = c
          /\ r = [done |-> r.done, open |-> r.open, counter |-> r.counter]
      BY <3>2
    <3> HIDE DEF r, p, Q, c, L, flat
    <3>10. FramesFit(r, cap, start, Q)
      BY <1>1, <1>2, <3>3, <3>4, <3>7, <3>8, <3>9, Zenon DEF FramesFit, flat
    <3> QED
      BY <3>10 DEF r, p, Q
  <2>6. CASE ~ (at <= c)
    <3> DEFINE done == Append(s.done, s.open)
               open == <<p>>
    <3>1. r = [done |-> done, open |-> open, counter |-> c + 1]
      BY <1>6, <2>4, <2>6 DEF FrameStep
    <3>2. /\ done \in Seq(Seq(Packet)) /\ Len(done) = c /\ done[c] = s.open
          /\ \A i \in 1 .. c - 1 : done[i] = s.done[i]
      <4> HIDE DEF c
      <4> QED
        BY <1>1
    <3>3. open \in Seq(Packet) /\ DOMAIN open = {1} /\ open[1] = p /\ open # <<>>
      BY <1>0
    <3>4. Glue(FlattenSeq(done), open) = Pick(cap, LateOf(cap, start, Q))
      <4>1. FlattenSeq(done) = Glue(flat, s.open)
        BY <1>1, FlatMore
      <4>2. Pick(cap, L) \in Seq(Packet)
        BY <2>2, PickTyped
      <4>3. Glue(Pick(cap, L), open) = Append(Pick(cap, L), p)
        BY <1>0, <4>2, GlueLast
      <4> QED
        BY <1>1, <2>3, <4>1, <4>3, Zenon
    <3>5. c + 1 \in Nat \ {0} /\ (c + 1) - 1 = c /\ c + 1 # 1 /\ at >= c + 1
      BY <1>1, <2>4, <2>6
    <3>6. ASSUME NEW i \in 1 .. c PROVE FrameFits(done[i], start, i)
      <4>1. CASE i = c
        BY <1>1, <3>2, <4>1
      <4>2. CASE i # c
        <5>1. i \in 1 .. c - 1
          BY <1>1, <4>2
        <5> QED
          BY <1>2, <3>2, <5>1
      <4> QED
        BY <4>1, <4>2
    <3>7. FrameFits(open, start, c + 1)
      <4>1. \A x \in DOMAIN open : x = 1 /\ SlotAt(start, open[x]) = at
        BY <3>3
      <4>2. ~ (1 > 1)
        OBVIOUS
      <4> HIDE DEF open, c, at
      <4> QED
        BY <3>3, <3>5, <4>1, <4>2, Zenon DEF FrameFits
    <3>8. \A x \in DOMAIN open : \E j \in Q : open[x] = cap[j]
      BY <3>3
    <3>9. r.done = done /\ r.open = open /\ r.counter = c + 1
          /\ r = [done |-> r.done, open |-> r.open, counter |-> r.counter]
      BY <3>1
    <3> HIDE DEF r, p, Q, c, L, flat, done, open
    <3>10. FramesFit(r, cap, start, Q)
      BY <3>2, <3>3, <3>4, <3>5, <3>6, <3>7, <3>8, <3>9 DEF FramesFit
    <3> QED
      BY <3>10 DEF r, p, Q
  <2> QED
    BY <2>5, <2>6
<1> QED
  BY <1>5, <1>6

\* The frames of some packets, and what is left open.
FramesAndLast(done, open, used, start) ==
  /\ done \in Seq(Seq(Packet)) /\ open \in Seq(Packet)
  /\ used = Glue(FlattenSeq(done), open)
  /\ \A i \in 1 .. Len(done) : FrameFits(done[i], start, i)
  /\ FrameFits(open, start, Len(done) + 1)

\* The frames hold the late packets in order, but for those of the last one.
LEMMA FramesAre ==
  ASSUME NEW cap \in Seq(Packet), InOrder(cap), NEW start \in Nat, NEW K \in SUBSET DOMAIN cap
  PROVE  \E open : FramesAndLast(Frames(Pick(cap, K), start), open,
                                 Pick(cap, LateOf(cap, start, K)), start)
<1> DEFINE m == Cardinality(K)
           pc == Pick(cap, K)
           N(k) == Nth(K, k)
           P(k) == {N(j) : j \in 1 .. k}
<1>1. /\ m \in Nat /\ IsFiniteSet(K) /\ K \in SUBSET Int /\ DOMAIN pc = 1 .. m
      /\ \A k \in 1 .. m : N(k) \in K /\ pc[k] = cap[N(k)]
  BY PickTyped
<1>2. \A j, k \in 1 .. m : j < k => N(j) < N(k)
  BY <1>1, NthOrder
<1>3. \A x \in K : \E j \in 1 .. m : x = N(j)
  BY <1>1, Ranks
<1>4. PICK f : /\ f[0] = NoFrames /\ Frames(pc, start) = f[m].done
               /\ \A i \in 1 .. m : f[i] = FrameStep(f[i - 1], pc[i], start)
  <2>1. m \in Nat /\ DOMAIN pc = 1 .. m
    BY <1>1
  <2> HIDE DEF pc, m, N, P
  <2>2. PICK g : ScansFrames(g, pc, start, m)
    BY <2>1, FrameScan, Zenon
  <2>3. /\ g[0] = NoFrames /\ Frames(pc, start) = g[m].done
        /\ \A i \in 1 .. m : g[i] = FrameStep(g[i - 1], pc[i], start)
    BY <2>2, Zenon DEF ScansFrames
  <2> QED
    BY <2>3, Zenon
<1> DEFINE Good == {k \in 0 .. m : FramesFit(f[k], cap, start, P(k))}
<1>5. 0 \in Good
  <2>1. P(0) = {} /\ LateOf(cap, start, {}) = {}
    BY DEF LateOf
  <2>2. /\ NoFrames.done = <<>> /\ NoFrames.open = <<>> /\ NoFrames.counter = 1
        /\ NoFrames =
             [done |-> NoFrames.done, open |-> NoFrames.open, counter |-> NoFrames.counter]
    BY DEF NoFrames
  <2>3. Glue(FlattenSeq(<<>>), <<>>) = Pick(cap, {})
    <3>1. FlattenSeq(<<>>) = <<>>
      BY DEF FlattenSeq
    <3>2. Pick(cap, {}) = <<>>
      BY PickNone
    <3>3. <<>> \o <<>> = <<>>
      OBVIOUS
    <3> QED
      BY <3>1, <3>2, <3>3, Zenon DEF Glue
  <2>4. /\ 1 \in Nat \ {0} /\ <<>> \in Seq(Seq(Packet)) /\ <<>> \in Seq(Packet) /\ Len(<<>>) = 1 - 1
        /\ DOMAIN <<>> = {} /\ ~ (1 > 1) /\ 1 .. (1 - 1) = {}
    OBVIOUS
  <2>5. FrameFits(<<>>, start, 1)
    BY <2>4, Zenon DEF FrameFits
  <2>6. FramesFit(NoFrames, cap, start, {})
    <3> HIDE DEF P
    <3> QED
      BY <2>1, <2>2, <2>3, <2>4, <2>5, Zenon DEF FramesFit
  <2>7. FramesFit(f[0], cap, start, P(0))
    BY <1>4, <2>1, <2>6
  <2> HIDE DEF P, m
  <2> QED
    BY <1>1, <2>7
<1>6. ASSUME NEW k \in 1 .. m, k - 1 \in Good PROVE k \in Good
  <2> DEFINE s == f[k - 1]
             x == N(k)
  <2>1. x \in K /\ x \in DOMAIN cap /\ pc[k] = cap[x]
    BY <1>1
  <2>2. P(k - 1) \in SUBSET DOMAIN cap /\ \A j \in P(k - 1) : j < x
    <3>1. ASSUME NEW j \in P(k - 1) PROVE j \in DOMAIN cap /\ j < x
      <4>1. PICK i \in 1 .. k - 1 : j = N(i)
        OBVIOUS
      <4>2. i \in 1 .. m /\ i < k
        BY <1>1
      <4>3. N(i) \in DOMAIN cap /\ N(i) < N(k)
        BY <1>1, <1>2, <4>2
      <4> QED
        BY <4>1, <4>3
    <3> QED
      BY <3>1
  <2>3. P(k) = P(k - 1) \cup {x}
    BY <1>1
  <2>4. FramesFit(s, cap, start, P(k - 1))
    BY <1>6
  <2> HIDE DEF s, x, P
  <2>5. FramesFit(FrameStep(s, cap[x], start), cap, start, P(k - 1) \cup {x})
    BY <2>1, <2>2, <2>4, FrameNext
  <2>6. f[k] = FrameStep(s, cap[x], start)
    BY <1>4, <2>1 DEF s
  <2>7. FramesFit(f[k], cap, start, P(k))
    BY <2>3, <2>5, <2>6
  <2> HIDE DEF m
  <2> QED
    BY <2>7, <1>1
<1>7. FramesFit(f[m], cap, start, K)
  <2>1. m \in Good
    <3>1. \A k \in 0 .. m : k \in Good
      <4> HIDE DEF Good, m
      <4> QED
        BY <1>1, <1>5, <1>6, UpTo, Zenon
    <3> HIDE DEF m, Good
    <3> QED
      BY <1>1, <3>1
  <2>2. P(m) = K
    BY <1>1, <1>3
  <2> HIDE DEF P
  <2> QED
    BY <2>1, <2>2
<1> DEFINE s == f[m]
<1> HIDE DEF pc, m, Good, P, N
<1>8. /\ s.done \in Seq(Seq(Packet)) /\ s.open \in Seq(Packet) /\ Len(s.done) = s.counter - 1
      /\ s.counter \in Nat \ {0}
      /\ Glue(FlattenSeq(s.done), s.open) = Pick(cap, LateOf(cap, start, K))
      /\ FrameFits(s.open, start, s.counter)
      /\ \A i \in 1 .. s.counter - 1 : FrameFits(s.done[i], start, i)
  BY <1>7, Zenon DEF FramesFit
<1>9. Len(s.done) + 1 = s.counter
  BY <1>8
<1>10. Frames(pc, start) = s.done
  BY <1>4
<1> HIDE DEF s
<1>11. FramesAndLast(s.done, s.open, Pick(cap, LateOf(cap, start, K)), start)
  BY <1>8, <1>9, Zenon DEF FramesAndLast
<1> QED
  BY <1>10, <1>11, Zenon DEF pc

\* What FramesInPlace says of the frames of one direction.
FramesCut(out, used, start) ==
  LET kept == Len(FlattenSeq(out))
      last == SubSeq(used, kept + 1, Len(used))
      all  == Append(out, last)
  IN /\ used = FlattenSeq(out) \o last
     /\ used # <<>> => last # <<>>
     /\ \A i \in DOMAIN all :
          /\ i > 1 => all[i] # <<>>
          /\ \A k \in DOMAIN all[i] :
               IF i = 1 \/ k > 1 THEN (all[i][k].t - start) \div FrameLen + 1 = i
               ELSE (all[i][k].t - start) \div FrameLen + 1 >= i

\* Frames with an open one are cut where FramesInPlace says.
LEMMA CutWhereFull ==
  ASSUME NEW out, NEW open, NEW used, NEW start, FramesAndLast(out, open, used, start)
  PROVE  FramesCut(out, used, start)
<1> DEFINE flat == FlattenSeq(out)
           last == SubSeq(used, Len(flat) + 1, Len(used))
           all == Append(out, open)
           n == Len(out)
<1>1. /\ out \in Seq(Seq(Packet)) /\ open \in Seq(Packet) /\ used = Glue(flat, open)
      /\ FrameFits(open, start, n + 1)
  BY Zenon DEF FramesAndLast
<1>2. \A i \in 1 .. n : FrameFits(out[i], start, i)
  BY Zenon DEF FramesAndLast
<1>3. flat \in Seq(Packet)
  BY <1>1, Flat
<1>4. used = flat \o open
  BY <1>1, Zenon DEF Glue
<1>5. n \in Nat /\ DOMAIN all = 1 .. n + 1 /\ all[n + 1] = open /\ \A i \in 1 .. n : all[i] = out[i]
  BY <1>1
<1> HIDE DEF all
<1>6. last = open
  <2> HIDE DEF flat
  <2>1. /\ used \in Seq(Packet) /\ Len(used) = Len(flat) + Len(open)
        /\ Len(flat) \in Nat /\ Len(open) \in Nat
        /\ \A i \in 1 .. Len(open) : used[Len(flat) + i] = open[i]
    <3>1. flat \in Seq(Packet) /\ open \in Seq(Packet)
      BY <1>1, <1>3
    <3>2. /\ flat \o open \in Seq(Packet) /\ Len(flat \o open) = Len(flat) + Len(open)
          /\ Len(flat) \in Nat /\ Len(open) \in Nat
          /\ \A i \in 1 .. Len(open) : (flat \o open)[Len(flat) + i] = open[i]
      <4> HIDE DEF n, last
      <4> QED
        BY <3>1, Cat
    <3> QED
      BY <1>4, <3>2, Zenon
  <2> DEFINE a == Len(flat)
             b == Len(used)
  <2>2. a \in Nat /\ b \in Nat /\ a <= b /\ b <= Len(used) /\ b - a = Len(open)
    BY <2>1
  <2> HIDE DEF a, b
  <2>3. /\ SubSeq(used, a + 1, b) \in Seq(Packet) /\ Len(SubSeq(used, a + 1, b)) = b - a
        /\ \A i \in 1 .. b - a : SubSeq(used, a + 1, b)[i] = used[a + i]
    BY <2>1, <2>2, Part
  <2>4. \A i \in 1 .. Len(open) : used[a + i] = open[i]
    BY <2>1 DEF a
  <2> DEFINE u == SubSeq(used, a + 1, b)
  <2>5. u \in Seq(Packet) /\ Len(u) = Len(open) /\ \A i \in 1 .. Len(u) : u[i] = open[i]
    BY <2>2, <2>3, <2>4, Zenon
  <2> HIDE DEF u
  <2>6. u = open
    BY <1>1, <2>5, SameFile
  <2> QED
    BY <2>6, Zenon DEF u, a, b
<1>7. used # <<>> => open # <<>>
  <2> SUFFICES ASSUME open = <<>>, used # <<>> PROVE FALSE
    OBVIOUS
  <2>1. CASE n = 0
    <3>1. out = <<>>
      BY <1>1, <2>1
    <3>2. flat = <<>>
      BY <3>1 DEF FlattenSeq
    <3> HIDE DEF flat
    <3>3. <<>> \o <<>> = <<>>
      OBVIOUS
    <3> QED
      BY <1>4, <3>2, <3>3
  <2>2. CASE n # 0
    <3>1. n + 1 > 1
      BY <1>5, <2>2
    <3> QED
      BY <1>1, <3>1 DEF FrameFits
  <2> QED
    BY <2>1, <2>2
<1>8. \A i \in DOMAIN all : FrameFits(all[i], start, i)
  <2> SUFFICES ASSUME NEW i \in 1 .. n + 1 PROVE FrameFits(all[i], start, i)
    BY <1>5
  <2>1. CASE i = n + 1
    BY <1>1, <1>5, <2>1
  <2>2. CASE i \in 1 .. n
    BY <1>2, <1>5, <2>2
  <2> QED
    BY <1>5, <2>1, <2>2
<1> HIDE DEF flat, last, n
<1> QED
  BY <1>4, <1>6, <1>7, <1>8, Zenon DEF FramesCut, FrameFits, SlotAt, flat, last, all

\* The start that a user's packets count from, and the packets in frames.
StartIn(cap, u) == cap[Min({k \in DOMAIN cap : u \in {cap[k].src, cap[k].dst}})].t
FramedIn(cap, u, d) ==
  {k \in DOMAIN cap : /\ u \in {cap[k].src, cap[k].dst}
                      /\ (cap[k].dst \in Internal) <=> (d = "download")
                      /\ cap[k].t - StartIn(cap, u) >= StartLimit}

\* FramesInPlace of some captures and an answer.
FramesHold(caps, given) ==
  given.op = "frames" /\ InOrder(caps[given.stem]) =>
    \A d \in Directions :
      FramesCut(given.out[d],
                Pick(caps[given.stem], FramedIn(caps[given.stem], given.user, d)),
                StartIn(caps[given.stem], given.user))

\* The legacy frames of every answer are cut where they are full.
LEMMA LoadPcapInPlace ==
  ASSUME captures \in Seq(Seq(Packet)), NEW u, NEW i \in DOMAIN captures, LoadPcap(u, i)
  PROVE  FramesHold(captures', answer')
<1> DEFINE cap == captures[i]
           mine == {k \in DOMAIN cap : u \in {cap[k].src, cap[k].dst}}
           start == cap[Min(mine)].t
           Dir(d) == {k \in mine : (cap[k].dst \in Internal) <=> (d = "download")}
<1>1. /\ mine # {} /\ captures' = captures /\ answer'.op = "frames"
      /\ answer'.user = u /\ answer'.stem = i
      /\ answer'.out = [d \in Directions |-> Frames(Pick(cap, Dir(d)), start)]
  BY DEF LoadPcap
<1>2. cap \in Seq(Packet)
  OBVIOUS
<1>3. start \in Nat
  <2>1. mine \in SUBSET Nat /\ mine # {} /\ mine \subseteq DOMAIN cap
    BY <1>1, <1>2
  <2> HIDE DEF mine
  <2>2. \E x \in mine : \A y \in mine : x <= y
    BY <2>1, LeastOf
  <2>3. Min(mine) \in mine
    BY <2>2 DEF Min
  <2> QED
    BY <1>2, <2>1, <2>3, Fields
<1>4. start = StartIn(cap, u)
  BY DEF StartIn
<1>5. ASSUME InOrder(cap), NEW d \in Directions
      PROVE  FramesCut(answer'.out[d], Pick(cap, FramedIn(cap, u, d)), StartIn(cap, u))
  <2>1. Dir(d) \in SUBSET DOMAIN cap
    OBVIOUS
  <2>2. LateOf(cap, start, Dir(d)) = FramedIn(cap, u, d)
    BY <1>4 DEF LateOf, FramedIn
  <2>3. answer'.out[d] = Frames(Pick(cap, Dir(d)), start)
    BY <1>1
  <2> HIDE DEF cap, start, mine, Dir
  <2>4. PICK open : FramesAndLast(Frames(Pick(cap, Dir(d)), start), open,
                                  Pick(cap, LateOf(cap, start, Dir(d))), start)
    BY <1>2, <1>3, <1>5, <2>1, FramesAre
  <2>5. FramesCut(Frames(Pick(cap, Dir(d)), start), Pick(cap, LateOf(cap, start, Dir(d))), start)
    BY <2>4, CutWhereFull, Zenon
  <2> QED
    BY <1>4, <2>2, <2>3, <2>5, Zenon
<1>6. captures'[answer'.stem] = cap
  BY <1>1
<1> HIDE DEF cap
<1> QED
  BY <1>1, <1>5, <1>6, Zenon DEF FramesHold

\* It is the same said of the state, before a step and after it.
LEMMA InPlaceIs ==
  /\ FramesInPlace <=> FramesHold(captures, answer)
  /\ FramesInPlace' <=> FramesHold(captures', answer')
<1>1. FramesInPlace <=> FramesHold(captures, answer)
  BY Zenon DEF FramesInPlace, FramesHold, FramesCut, FramedIn, StartIn, Framed, StartOf, Interval
<1>2. FramesInPlace' <=> FramesHold(captures', answer')
  BY Zenon DEF FramesInPlace, FramesHold, FramesCut, FramedIn, StartIn, Framed, StartOf, Interval,
               InOrder
<1> QED
  BY <1>1, <1>2

\* Frames stay where they are while no other answer is given.
LEMMA FramesStay ==
  ASSUME FramesInPlace, UNCHANGED <<captures, answer>>
  PROVE  FramesInPlace'
<1>1. FramesHold(captures, answer)
  BY InPlaceIs
<1>2. FramesHold(captures', answer')
  BY <1>1
<1> QED
  BY <1>2, InPlaceIs

\* Another answer has no frames.
LEMMA NoFramesThere ==
  ASSUME answer'.op # "frames"
  PROVE  FramesInPlace'
BY DEF FramesInPlace

\* Where the legacy pipeline cuts its frames, for any capture in order of time,
\* any gaps in it, any user, start limit and frame length: the frames hold the
\* packets past the start limit in order, all but those of a last frame, which is
\* lost whenever there is a packet at all, and only the first packet of a frame
\* but the first may be of a later interval than the frame's own.
THEOREM FramesAreIntervals == Spec => []FramesInPlace
<1>1. Init => FramesInPlace
  <2>1. Init => answer.op = "none"
    BY DEF Init, NoAnswer
  <2>2. answer.op = "none" => FramesInPlace
    BY Zenon DEF FramesInPlace
  <2> QED
    BY <2>1, <2>2
<1>2. PipelineTyped /\ FramesInPlace /\ [Next]_vars => FramesInPlace'
  <2> SUFFICES ASSUME PipelineTyped, FramesInPlace, [Next]_vars PROVE FramesInPlace'
    OBVIOUS
  <2>1. ASSUME NEW i, NEW k, SplitCapture(i, k) PROVE FramesInPlace'
    BY <2>1, FramesStay DEF SplitCapture
  <2>2. ASSUME NEW u, NEW j, NEW k, SplitUser(u, j, k) PROVE FramesInPlace'
    BY <2>2, FramesStay DEF SplitUser
  <2>3. ASSUME NEW lost, StoreWindow(lost) PROVE FramesInPlace'
    BY <2>3, FramesStay DEF StoreWindow
  <2>4. CASE Finish
    BY <2>4, FramesStay DEF Finish
  <2>5. ASSUME NEW net, NEW w, NEW rate, NEW bin, Transform(net, w, rate, bin) PROVE FramesInPlace'
    <3>1. answer'.op = "transform"
      BY <2>5 DEF Transform
    <3> QED
      BY <3>1, NoFramesThere
  <2>6. ASSUME NEW net, NEW from, NEW to, NEW bad, Merge(net, from, to, bad) PROVE FramesInPlace'
    <3>1. answer'.op = "none"
      BY <2>6 DEF Merge, NoAnswer
    <3> QED
      BY <3>1, NoFramesThere
  <2>7. ASSUME NEW u, NEW i \in DOMAIN captures, LoadPcap(u, i) PROVE FramesInPlace'
    <3>1. captures \in Seq(Seq(Packet))
      BY DEF PipelineTyped
    <3> QED
      BY <2>7, <3>1, LoadPcapInPlace, InPlaceIs
  <2>8. CASE UNCHANGED vars
    BY <2>8, FramesStay DEF vars
  <2> QED
    BY <2>1, <2>2, <2>3, <2>4, <2>5, <2>6, <2>7, <2>8 DEF Next
<1> QED
  BY <1>1, <1>2, PipelineInvariance, PTL DEF Spec

-----------------------------------------------------------------------------
(* The stages of the pipeline.                                              *)

\* The windows are numbered; the third stage begins when the others are done,
\* and what it has stored is what it had to.
PipelineStaged ==
  /\ IsFiniteSet(DOMAIN windows) /\ DOMAIN windows \subseteq WindowNames(files)
  /\ next \in Nat \ {0}
  /\ next > 1 \/ extracted => cut = DOMAIN captures /\ windowed = Users
  /\ extracted => next > MaxWindow
  /\ \A r \in DOMAIN rows : r = <<r[1], r[2]>> /\ r[2] \in 1 .. next - 1

\* The last window is a number, and no window has a greater one.
LEMMA MaxWindowNat ==
  ASSUME PipelineStaged
  PROVE  MaxWindow \in Nat /\ \A k \in DOMAIN windows : k[4] <= MaxWindow
<1>1. \A k \in WindowNames(files) : k[4] \in Nat \ {0}
  BY DEF WindowNames
<1>2. IsFiniteSet(DOMAIN windows) /\ \A k \in DOMAIN windows : k[4] \in Nat \ {0}
  BY <1>1 DEF PipelineStaged
<1> QED
  BY <1>2, LastWindow DEF MaxWindow

\* The second stage numbers its windows.
LEMMA SplitUserStaged ==
  ASSUME PipelineTyped, PipelineStaged, NEW user \in Users, NEW j \in DOMAIN SourcesOf(user),
         NEW k \in 0 .. Len(files[SourcesOf(user)[j]]), SplitUser(user, j, k)
  PROVE  PipelineStaged'
<1> DEFINE src == SourcesOf(user)
           read == [i \in 1 .. j |-> IF i < j THEN files[src[i]] ELSE Prefix(files[src[i]], k)]
           made == UNION {{<<i, w>> : w \in DOMAIN SplitByWindow(read[i])} : i \in 1 .. j}
           Name(m) == src[m[1]] \o <<m[2]>>
           names == {Name(m) : m \in made}
<1>1. src \in Seq(DOMAIN files) /\ j \in 1 .. Len(src) /\ j \in Nat
  BY SourcesTyped
<1>2. /\ DOMAIN windows' = DOMAIN windows \cup names
      /\ cut = DOMAIN captures /\ user \notin windowed
      /\ UNCHANGED <<captures, cut, files, next, rows, extracted>>
  BY DEF SplitUser
<1>3. k \in 0 .. Len(files[src[j]])
  OBVIOUS
<1> HIDE DEF src
<1>4. \A i \in 1 .. j : src[i] \in DOMAIN files /\ files[src[i]] \in Seq(Packet)
  BY <1>1 DEF PipelineTyped, Pcaps
<1>5. Prefix(files[src[j]], k) \in Seq(Packet)
  BY <1>1, <1>3, <1>4, PrefixTyped
<1>6. \A i \in 1 .. j : read[i] \in Seq(Packet)
  <2>1. \A i \in 1 .. j : i < j \/ i = j
    BY <1>1
  <2> QED
    BY <1>4, <1>5, <2>1
<1> HIDE DEF read
<1> DEFINE Made(i) == {<<i, w>> : w \in DOMAIN SplitByWindow(read[i])}
           all == {Made(i) : i \in 1 .. j}
<1>7. IsFiniteSet(made)
  <2>1. ASSUME NEW i \in 1 .. j PROVE IsFiniteSet(Made(i))
    <3> DEFINE W == DOMAIN SplitByWindow(read[i])
               g == [w \in W |-> <<i, w>>]
    <3>1. g \in Surjection(W, Made(i))
      BY DEF Surjection
    <3>2. IsFiniteSet(W)
      BY <1>6, WindowsNumbered
    <3> QED
      BY <3>1, <3>2, FS_Surjection
  <2>2. IsFiniteSet(all)
    <3> DEFINE g == [i \in 1 .. j |-> Made(i)]
    <3>1. g \in Surjection(1 .. j, all)
      BY DEF Surjection
    <3>2. IsFiniteSet(1 .. j)
      BY <1>1, FS_Interval
    <3> QED
      BY <3>1, <3>2, FS_Surjection
  <2>3. \A A \in all : IsFiniteSet(A)
    BY <2>1
  <2>4. made = UNION all
    OBVIOUS
  <2> HIDE DEF all, made
  <2> QED
    BY <2>2, <2>3, <2>4, FS_UNION
<1>8. IsFiniteSet(names)
  <2> DEFINE g == [m \in made |-> Name(m)]
  <2>1. g \in Surjection(made, names)
    <3> HIDE DEF made
    <3> QED
      BY DEF Surjection
  <2> QED
    BY <1>7, <2>1, FS_Surjection
<1>9. names \subseteq WindowNames(files)
  <2>1. ASSUME NEW m \in made PROVE Name(m) \in WindowNames(files)
    <3>0. PICK i \in 1 .. j : m \in Made(i)
      BY <2>1
    <3>1. PICK w \in DOMAIN SplitByWindow(read[i]) : m = <<i, w>>
      BY <3>0
    <3>2. w \in Nat \ {0}
      BY <1>6, WindowsNumbered
    <3>3. src[i] \in Names
      BY <1>4 DEF PipelineTyped, Pcaps
    <3>4. PICK a, d, s : src[i] = <<a, d, s>>
      BY <3>3 DEF Names
    <3>5. m[1] = i /\ m[2] = w
      BY <3>1
    <3>6. Name(m) = <<a, d, s>> \o <<w>>
      BY <3>4, <3>5, Zenon
    <3>7. Name(m) = <<a, d, s, w>>
      BY <3>6, Named, Zenon
    <3>8. <<a, d, s, w>> = <<src[i][1], src[i][2], src[i][3], w>>
      BY <3>4
    <3> HIDE DEF Name
    <3> QED
      BY <1>4, <3>2, <3>7, <3>8 DEF WindowNames
  <2> HIDE DEF made, Name
  <2> QED
    BY <2>1
<1> HIDE DEF names
<1>10. IsFiniteSet(DOMAIN windows') /\ DOMAIN windows' \subseteq WindowNames(files)'
  <2>1. IsFiniteSet(DOMAIN windows \cup names)
    BY <1>8, FS_Union DEF PipelineStaged
  <2> QED
    BY <1>2, <1>9, <2>1 DEF PipelineStaged, WindowNames
<1>11. ~ (next > 1 \/ extracted)
  BY <1>2 DEF PipelineStaged
<1> QED
  BY <1>2, <1>10, <1>11 DEF PipelineStaged

\* What the stages have made is there for good when the third has begun.
LEMMA DataStay ==
  ASSUME PipelineTyped, PipelineStaged, UNCHANGED <<captures, cut, files, windowed, windows>>,
         next' \in Nat \ {0}, next' > 1 => cut = DOMAIN captures /\ windowed = Users,
         extracted' => cut = DOMAIN captures /\ windowed = Users /\ next' > MaxWindow,
         \A r \in DOMAIN rows' : r = <<r[1], r[2]>> /\ r[2] \in 1 .. next' - 1
  PROVE  PipelineStaged'
<1>1. MaxWindow' = MaxWindow /\ Users' = Users /\ WindowNames(files)' = WindowNames(files)
  BY DEF MaxWindow, Users, WindowNames
<1> QED
  BY <1>1 DEF PipelineStaged

\* The stages are as they were when the data is.
LEMMA StagesStay ==
  ASSUME PipelineTyped, PipelineStaged,
         UNCHANGED <<captures, cut, files, windowed, windows, next, rows, extracted>>
  PROVE  PipelineStaged'
BY DataStay DEF PipelineStaged

\* The stages come one after the other, in every state.
LEMMA StagesInvariance == Spec => []PipelineStaged
<1>1. Init => PipelineStaged
  <2> SUFFICES ASSUME Init PROVE PipelineStaged
    OBVIOUS
  <2>1. DOMAIN windows = {} /\ DOMAIN rows = {} /\ next = 1 /\ ~extracted
    BY DEF Init, NoFiles
  <2> QED
    BY <2>1, FS_EmptySet DEF PipelineStaged
<1>2. PipelineTyped /\ PipelineTyped' /\ PipelineStaged /\ [Next]_vars => PipelineStaged'
  <2> SUFFICES ASSUME PipelineTyped, PipelineTyped', PipelineStaged, [Next]_vars
               PROVE  PipelineStaged'
    OBVIOUS
  <2>1. ASSUME NEW i \in DOMAIN captures, NEW k \in 0 .. Len(captures[i]), SplitCapture(i, k)
        PROVE  PipelineStaged'
    <3>1. /\ DOMAIN files \subseteq DOMAIN files'
          /\ UNCHANGED <<captures, windowed, windows, next, rows, extracted>>
          /\ i \notin cut
      BY <2>1 DEF SplitCapture
    <3>2. ~ (next > 1 \/ extracted)
      BY <3>1 DEF PipelineStaged
    <3>3. WindowNames(files) \subseteq WindowNames(files)'
      BY <3>1 DEF WindowNames
    <3> QED
      BY <3>1, <3>2, <3>3 DEF PipelineStaged
  <2>2. ASSUME NEW u \in Users, NEW j \in DOMAIN SourcesOf(u),
               NEW k \in 0 .. Len(files[SourcesOf(u)[j]]), SplitUser(u, j, k)
        PROVE  PipelineStaged'
    BY <2>2, SplitUserStaged
  <2>3. ASSUME NEW lost \in SUBSET Users, StoreWindow(lost)
        PROVE  PipelineStaged'
    <3>1. PICK tree : rows' = [r \in DOMAIN rows \cup {<<n, next>> : n \in DOMAIN tree} |->
                                 IF r[2] = next THEN tree[r[1]] ELSE rows[r]]
      BY <2>3 DEF StoreWindow
    <3>2. /\ cut = DOMAIN captures /\ windowed = Users /\ next <= MaxWindow /\ next' = next + 1
          /\ UNCHANGED <<captures, cut, files, windowed, windows, extracted>>
      BY <2>3 DEF StoreWindow
    <3>3. next \in Nat \ {0} /\ next' \in Nat \ {0} /\ MaxWindow \in Nat
      BY <3>2, MaxWindowNat DEF PipelineStaged
    <3>4. ~ extracted'
      BY <3>2, <3>3 DEF PipelineStaged
    <3>5. ASSUME NEW r \in DOMAIN rows' PROVE r = <<r[1], r[2]>> /\ r[2] \in 1 .. next' - 1
      <4>1. r \in DOMAIN rows \/ \E n : r = <<n, next>>
        BY <3>1, <3>5
      <4> QED
        BY <3>2, <3>3, <4>1 DEF PipelineStaged
    <3> QED
      BY <3>2, <3>3, <3>4, <3>5, DataStay
  <2>4. CASE Finish
    <3>1. /\ cut = DOMAIN captures /\ windowed = Users /\ next > MaxWindow
          /\ UNCHANGED <<captures, cut, files, windowed, windows, next, rows>>
      BY <2>4 DEF Finish
    <3> QED
      BY <3>1, DataStay DEF PipelineStaged
  <2>5. ASSUME NEW r \in DOMAIN rows, NEW rate \in Thresholds, NEW bin \in TrimBins,
               Transform(r[1], r[2], rate, bin)
        PROVE  PipelineStaged'
    BY <2>5, StagesStay DEF Transform
  <2>6. ASSUME NEW net, NEW from, NEW to, NEW bad, Merge(net, from, to, bad)
        PROVE  PipelineStaged'
    BY <2>6, StagesStay DEF Merge
  <2>7. ASSUME NEW u, NEW i, LoadPcap(u, i)
        PROVE  PipelineStaged'
    BY <2>7, StagesStay DEF LoadPcap
  <2>8. CASE UNCHANGED vars
    BY <2>8, StagesStay DEF vars
  <2> QED
    BY <2>1, <2>2, <2>3, <2>4, <2>5, <2>6, <2>7, <2>8 DEF Next
<1> QED
  BY <1>1, <1>2, PipelineInvariance, PTL DEF Spec

\* Nothing that an extraction has made changes afterwards.
LEMMA NothingChanges ==
  ASSUME PipelineTyped, PipelineStaged, extracted, [Next]_vars
  PROVE  extracted' /\ UNCHANGED <<captures, cut, files, windowed, windows, next, rows>>
<1>1. cut = DOMAIN captures /\ windowed = Users /\ next > MaxWindow /\ next \in Nat
      /\ MaxWindow \in Nat
  BY MaxWindowNat DEF PipelineStaged
<1>2. ASSUME NEW i \in DOMAIN captures, NEW k, SplitCapture(i, k) PROVE FALSE
  BY <1>1, <1>2 DEF SplitCapture
<1>3. ASSUME NEW u \in Users, NEW j, NEW k, SplitUser(u, j, k) PROVE FALSE
  BY <1>1, <1>3 DEF SplitUser
<1>4. ASSUME NEW lost, StoreWindow(lost) PROVE FALSE
  BY <1>1, <1>4 DEF StoreWindow
<1>5. ~ Finish
  BY DEF Finish
<1>6. ASSUME NEW net, NEW w, NEW rate, NEW bin, Transform(net, w, rate, bin)
      PROVE  extracted' /\ UNCHANGED <<captures, cut, files, windowed, windows, next, rows>>
  BY <1>6 DEF Transform
<1>7. ASSUME NEW net, NEW from, NEW to, NEW bad, Merge(net, from, to, bad)
      PROVE  extracted' /\ UNCHANGED <<captures, cut, files, windowed, windows, next, rows>>
  BY <1>7 DEF Merge
<1>8. ASSUME NEW u, NEW i, LoadPcap(u, i)
      PROVE  extracted' /\ UNCHANGED <<captures, cut, files, windowed, windows, next, rows>>
  BY <1>8 DEF LoadPcap
<1>9. CASE UNCHANGED vars
  BY <1>9 DEF vars
<1> QED
  BY <1>2, <1>3, <1>4, <1>5, <1>6, <1>7, <1>8, <1>9 DEF Next

-----------------------------------------------------------------------------
(* The files that are read back.                                            *)

\* Every window file of a user that is read back is a file.
LEMMA FilesInTyped ==
  ASSUME PipelineTyped, NEW user, NEW dir, NEW span \in SUBSET Int, IsFiniteSet(span)
  PROVE  FilesIn(user, dir, span) \in Seq(Seq(Packet))
<1> DEFINE Of(i) == {w \in span : <<user, dir, i, w>> \in DOMAIN windows}
           Own(i) == [n \in 1 .. Cardinality(Of(i)) |-> windows[<<user, dir, i, Nth(Of(i), n)>>]]
           all == [i \in DOMAIN captures |-> Own(i)]
<1>1. ASSUME NEW i PROVE Own(i) \in Seq(Seq(Packet))
  <2> DEFINE S == Of(i)
  <2>1. S \in SUBSET Int /\ IsFiniteSet(S)
    BY FS_Subset
  <2>2. \A w \in S : windows[<<user, dir, i, w>>] \in Seq(Packet)
    BY DEF PipelineTyped
  <2> HIDE DEF S
  <2>3. Cardinality(S) \in Nat /\ \A n \in 1 .. Cardinality(S) : Nth(S, n) \in S
    BY <2>1, Ranks
  <2>4. \A n \in 1 .. Cardinality(S) : windows[<<user, dir, i, Nth(S, n)>>] \in Seq(Packet)
    BY <2>2, <2>3
  <2> DEFINE g == [n \in 1 .. Cardinality(S) |-> windows[<<user, dir, i, Nth(S, n)>>]]
             m == Cardinality(S)
             T == Seq(Packet)
  <2>5. m \in Nat /\ g = [n \in 1 .. m |-> g[n]] /\ \A n \in 1 .. m : g[n] \in T
    BY <2>3, <2>4
  <2>6. Own(i) = g
    BY Zenon DEF S
  <2> HIDE DEF g, m, T, Own
  <2>7. g \in Seq(T)
    BY <2>5
  <2> QED
    BY <2>6, <2>7 DEF T
<1>2. DOMAIN captures = 1 .. Len(captures) /\ Len(captures) \in Nat
  BY DEF PipelineTyped
<1> HIDE DEF Own
<1>3. all \in Seq(Seq(Seq(Packet)))
  BY <1>1, <1>2
<1>4. FlattenSeq(all) \in Seq(Seq(Packet))
  BY <1>3, Flat
<1>5. FilesIn(user, dir, span) = FlattenSeq(all)
  BY Zenon DEF FilesIn, Own
<1> QED
  BY <1>4, <1>5

\* The users are numbers.
LEMMA UsersAre ==
  ASSUME PipelineTyped
  PROVE  Users \in SUBSET Int /\ IsFiniteSet(Users)
<1>1. \A k \in DOMAIN files : k \in Names
  BY DEF PipelineTyped, Pcaps
<1>2. \A k \in Names : k[1] \in Internal
  BY DEF Names
<1>3. Internal \subseteq Int
  BY CtpAssumption DEF Address
<1>4. Users \in SUBSET Int
  BY <1>1, <1>2, <1>3 DEF Users
<1> QED
  BY <1>4, FinitelyMany

\* The users below a network that have a row in some windows.
Below(net, span) ==
  {u \in Users : SubNetOf(Leaf(u), net) /\ \E w \in span : <<Leaf(u), w>> \in DOMAIN rows}

\* They are read back one by one.
LEMMA LeavesAre ==
  ASSUME PipelineTyped, NEW net, NEW span
  PROVE  /\ Below(net, span) \in SUBSET Int /\ IsFiniteSet(Below(net, span))
         /\ Cardinality(Below(net, span)) \in Nat
         /\ LeavesOf(net, span) \in Seq(Below(net, span))
         /\ LeavesOf(net, span) =
              [n \in 1 .. Cardinality(Below(net, span)) |-> Nth(Below(net, span), n)]
<1> DEFINE B == Below(net, span)
<1>1. B \in SUBSET Int /\ IsFiniteSet(B)
  BY UsersAre, FS_Subset DEF Below
<1>2. LeavesOf(net, span) = [n \in 1 .. Cardinality(B) |-> Nth(B, n)]
  BY Zenon DEF LeavesOf, Below
<1> HIDE DEF B
<1>3. Cardinality(B) \in Nat /\ \A n \in 1 .. Cardinality(B) : Nth(B, n) \in B
  BY <1>1, Ranks
<1>4. LeavesOf(net, span) \in Seq(B)
  BY <1>2, <1>3
<1> QED
  BY <1>1, <1>2, <1>3, <1>4 DEF B

\* What transform joins are files.
LEMMA JoinedTyped ==
  ASSUME PipelineTyped, NEW net, NEW w \in Int, NEW dir
  PROVE  Joined(net, w, dir) \in Seq(Seq(Packet))
<1> DEFINE leaves == LeavesOf(net, {w})
           span == {w}
           all == [i \in DOMAIN leaves |-> FilesIn(leaves[i], dir, span)]
<1>1. span \in SUBSET Int /\ IsFiniteSet(span)
  BY FS_Singleton
<1>2. leaves \in Seq(Below(net, span))
  BY LeavesAre
<1>3. Joined(net, w, dir) = FlattenSeq(all)
  BY Zenon DEF Joined
<1> HIDE DEF leaves, span
<1>4. \A i \in DOMAIN leaves : FilesIn(leaves[i], dir, span) \in Seq(Seq(Packet))
  BY <1>1, FilesInTyped
<1>5. DOMAIN leaves = 1 .. Len(leaves) /\ Len(leaves) \in Nat
  BY <1>2
<1>6. all \in Seq(Seq(Seq(Packet)))
  BY <1>4, <1>5
<1> HIDE DEF all
<1>7. FlattenSeq(all) \in Seq(Seq(Packet))
  BY <1>6, Flat
<1> QED
  BY <1>3, <1>7

\* What transform trims is a file in order of time.
LEMMA ClippedTyped ==
  ASSUME PipelineTyped, NEW a, a.window \in Int, NEW d
  PROVE  Clipped(a, d) \in Seq(Packet) /\ InOrder(Clipped(a, d))
<1> DEFINE in == JoinCap(Joined(a.net, a.window, d))
           cl == Clip(in, WindowLen)
<1>1. in \in Seq(Packet)
  BY JoinedTyped, JoinCapTyped
<1> HIDE DEF in
<1>2. cl \in Seq(Packet)
  BY <1>1, ClipTyped
<1>3. Clipped(a, d) = ByTime(cl)
  BY DEF Clipped, in
<1> HIDE DEF cl
<1>4. ByTime(cl) \in Seq(Packet) /\ InOrder(ByTime(cl))
  BY <1>2, ByTimeGives
<1> QED
  BY <1>3, <1>4

\* It depends on the result of the extraction and nothing else.
LEMMA ReadsTheSame ==
  ASSUME UNCHANGED <<captures, files, windows, rows>>
  PROVE  /\ \A net, span : LeavesOf(net, span)' = LeavesOf(net, span)
         /\ \A user, dir, span : FilesIn(user, dir, span)' = FilesIn(user, dir, span)
         /\ \A net, w, dir : Joined(net, w, dir)' = Joined(net, w, dir)
<1>1. Users' = Users
  BY DEF Users
<1>2. ASSUME NEW net, NEW span PROVE LeavesOf(net, span)' = LeavesOf(net, span)
  BY <1>1 DEF LeavesOf, Leaf
<1>3. ASSUME NEW user, NEW dir, NEW span PROVE FilesIn(user, dir, span)' = FilesIn(user, dir, span)
  BY DEF FilesIn
<1>4. ASSUME NEW net, NEW w, NEW dir PROVE Joined(net, w, dir)' = Joined(net, w, dir)
  BY <1>2, <1>3 DEF Joined
<1> QED
  BY <1>2, <1>3, <1>4

\* The answer of transform is what trimming makes of the files joined.
AnswerTrimmed ==
  answer.op = "transform" =>
    /\ extracted
    /\ <<answer.net, answer.window>> \in DOMAIN rows /\ answer.window \in Nat
    /\ answer.rate \in Nat /\ Positive(answer.bin) /\ answer.rate * answer.bin \in Nat
    /\ \A d \in Directions :
         answer.out[d] = Trim(Clipped(answer, d), answer.rate * answer.bin, answer.bin)

\* It stays so, as what it was made of does.
LEMMA TrimmedStays ==
  ASSUME AnswerTrimmed, UNCHANGED <<captures, files, windows, rows, extracted, answer>>
  PROVE  AnswerTrimmed'
<1>1. \A d : Clipped(answer, d)' = Clipped(answer, d)
  BY ReadsTheSame DEF Clipped
<1> QED
  BY <1>1 DEF AnswerTrimmed

\* A transform answers with what Trim makes of its input.
LEMMA TransformTrims ==
  ASSUME PipelineTyped, NEW r \in DOMAIN rows, NEW rate \in Thresholds, NEW bin \in TrimBins,
         r = <<r[1], r[2]>>, Transform(r[1], r[2], rate, bin)
  PROVE  AnswerTrimmed'
<1> DEFINE net == r[1]
           w == r[2]
           cap == rate * bin
           given == [op |-> "transform", net |-> net, window |-> w, rate |-> rate, bin |-> bin,
                     out |-> [d \in Directions |-> Transformed(Joined(net, w, d), cap, bin)]]
<1>1. /\ extracted /\ answer' = given /\ UNCHANGED <<captures, files, windows, rows, extracted>>
  BY DEF Transform
<1>2. w \in Nat /\ <<net, w>> \in DOMAIN rows
  BY DEF PipelineTyped
<1>3. rate \in Nat /\ Positive(bin) /\ cap \in Nat
  BY PipelineAssumption DEF Positive
<1>4. given.net = net /\ given.window = w /\ given.rate = rate /\ given.bin = bin
      /\ \A d \in Directions : given.out[d] = Transformed(Joined(net, w, d), cap, bin)
  OBVIOUS
<1> HIDE DEF given, net, w, cap
<1>5. ASSUME NEW d \in Directions
      PROVE  given.out[d] = Trim(Clipped(answer, d)', cap, bin)
  <2>1. Clipped(answer, d)' = ByTime(Clip(JoinCap(Joined(net, w, d)), WindowLen))
    BY <1>1, <1>4, ReadsTheSame DEF Clipped
  <2> QED
    BY <1>4, <2>1 DEF Transformed
<1>6. given.rate * given.bin = cap
  BY <1>4 DEF cap
<1> QED
  BY <1>1, <1>2, <1>3, <1>4, <1>5, <1>6, Zenon DEF AnswerTrimmed

\* AnswerTrimmed is an invariant.
LEMMA AnswersInvariance == Spec => []AnswerTrimmed
<1>1. Init => AnswerTrimmed
  BY DEF Init, NoAnswer, AnswerTrimmed
<1>2. PipelineTyped /\ PipelineStaged /\ AnswerTrimmed /\ [Next]_vars => AnswerTrimmed'
  <2> SUFFICES ASSUME PipelineTyped, PipelineStaged, AnswerTrimmed, [Next]_vars
               PROVE  AnswerTrimmed'
    OBVIOUS
  <2>0. ASSUME UNCHANGED <<extracted, answer>> PROVE AnswerTrimmed'
    <3>1. CASE extracted
      <4>1. UNCHANGED <<captures, files, windows, rows>>
        BY <3>1, NothingChanges
      <4> QED
        BY <2>0, <4>1, TrimmedStays
    <3>2. CASE ~ extracted
      BY <2>0, <3>2 DEF AnswerTrimmed
    <3> QED
      BY <3>1, <3>2
  <2>1. ASSUME NEW i, NEW k, SplitCapture(i, k) PROVE AnswerTrimmed'
    BY <2>0, <2>1 DEF SplitCapture
  <2>2. ASSUME NEW u, NEW j, NEW k, SplitUser(u, j, k) PROVE AnswerTrimmed'
    BY <2>0, <2>2 DEF SplitUser
  <2>3. ASSUME NEW lost, StoreWindow(lost) PROVE AnswerTrimmed'
    BY <2>0, <2>3 DEF StoreWindow
  <2>4. CASE Finish
    BY <2>4 DEF Finish, AnswerTrimmed
  <2>5. ASSUME NEW r \in DOMAIN rows, NEW rate \in Thresholds, NEW bin \in TrimBins,
               Transform(r[1], r[2], rate, bin)
        PROVE  AnswerTrimmed'
    <3>1. r = <<r[1], r[2]>>
      BY DEF PipelineStaged
    <3> QED
      BY <2>5, <3>1, TransformTrims
  <2>6. ASSUME NEW net, NEW from, NEW to, NEW bad, Merge(net, from, to, bad) PROVE AnswerTrimmed'
    <3>1. answer'.op = "none"
      BY <2>6 DEF Merge, NoAnswer
    <3> QED
      BY <3>1 DEF AnswerTrimmed
  <2>7. ASSUME NEW u, NEW i, LoadPcap(u, i) PROVE AnswerTrimmed'
    <3>1. answer'.op = "frames"
      BY <2>7 DEF LoadPcap
    <3> QED
      BY <3>1 DEF AnswerTrimmed
  <2>8. CASE UNCHANGED vars
    BY <2>0, <2>8 DEF vars
  <2> QED
    BY <2>1, <2>2, <2>3, <2>4, <2>5, <2>6, <2>7, <2>8 DEF Next
<1> QED
  BY <1>1, <1>2, PipelineInvariance, StagesInvariance, PTL DEF Spec

\* Burst trimming keeps the rate, for any captures, any network and window, any
\* rate and any interval to trim by: as long as no interval passes without a
\* packet, an interval of the output carries at most one packet more than the
\* rate allows, and it has its first packet.
THEOREM TrimmingKeepsTheRate == Spec => []TrimKeepsTheRate
<1>1. PipelineTyped /\ AnswerTrimmed => TrimKeepsTheRate
  <2> SUFFICES ASSUME PipelineTyped, AnswerTrimmed, answer.op = "transform", NEW d \in Directions
               PROVE  LET in  == Clipped(answer, d)
                          out == answer.out[d]
                          At(pcap, i) ==
                            {k \in DOMAIN pcap : (pcap[k].t - in[1].t) \div answer.bin = i}
                      IN NoGap(in, answer.bin) =>
                           \A i \in 0 .. (WindowLen \div answer.bin) :
                             /\ BytesAt(out, At(out, i))
                                  <= answer.rate * answer.bin + LongestPacket(in)
                             /\ At(in, i) # {} =>
                                  At(out, i) # {} /\ out[Min(At(out, i))] = in[Min(At(in, i))]
    BY Zenon DEF TrimKeepsTheRate
  <2> DEFINE in == Clipped(answer, d)
             out == answer.out[d]
             bin == answer.bin
             cap == answer.rate * answer.bin
             At(pcap, i) == {k \in DOMAIN pcap : (pcap[k].t - in[1].t) \div bin = i}
  <2>1. /\ in \in Seq(Packet) /\ InOrder(in) /\ out = Trim(in, cap, bin)
        /\ cap \in Nat /\ Positive(bin)
    <3>1. /\ answer.window \in Nat /\ answer.rate * answer.bin \in Nat /\ Positive(answer.bin)
          /\ answer.out[d] = Trim(Clipped(answer, d), answer.rate * answer.bin, answer.bin)
      BY Zenon DEF AnswerTrimmed
    <3>2. answer.window \in Int
      BY <3>1
    <3>3. Clipped(answer, d) \in Seq(Packet) /\ InOrder(Clipped(answer, d))
      <4> DEFINE a == answer
      <4>1. a.window \in Int
        BY <3>2
      <4> HIDE DEF a
      <4>2. Clipped(a, d) \in Seq(Packet) /\ InOrder(Clipped(a, d))
        BY <4>1, ClippedTyped, Zenon
      <4> QED
        BY <4>2 DEF a
    <3> QED
      BY <3>1, <3>3, Zenon
  <2> HIDE DEF in, out, bin, cap
  <2>2. WindowLen \div bin \in Int
    BY <2>1, CtpAssumption DEF Positive
  <2>3. ASSUME NoGap(in, bin) PROVE RateOf(bin, in, out, cap)
    BY <2>1, <2>3, TrimRate
  <2>4. \A pcap, i : At(pcap, i) = InBin(bin, pcap, in[1].t, i)
    BY DEF InBin, BinAt
  <2>5. 0 .. (WindowLen \div bin) \in SUBSET Nat
    BY <2>2
  <2> HIDE DEF At
  <2>6. ASSUME NoGap(in, bin), NEW i \in 0 .. (WindowLen \div bin)
        PROVE  /\ BytesAt(out, At(out, i)) <= cap + LongestPacket(in)
               /\ At(in, i) # {} => At(out, i) # {} /\ out[Min(At(out, i))] = in[Min(At(in, i))]
    <3>1. i \in Nat
      BY <2>5, <2>6
    <3> QED
      BY <2>3, <2>4, <2>6, <3>1, Zenon DEF RateOf
  <2> QED
    BY <2>6, Zenon DEF in, out, bin, cap, At
<1> QED
  BY <1>1, PipelineInvariance, AnswersInvariance, PTL

-----------------------------------------------------------------------------
(* What a merge holds.                                                      *)

\* The parts of a window's name.
LEMMA WindowNamed ==
  ASSUME PipelineTyped, PipelineStaged, NEW k \in DOMAIN windows
  PROVE  /\ k = <<k[1], k[2], k[3], k[4]>> /\ <<k[1], k[2], k[3]>> \in DOMAIN files
         /\ k[1] \in Internal /\ k[2] \in Directions /\ k[3] \in DOMAIN captures
         /\ k[4] \in Nat \ {0} /\ k[1] \in Users
         /\ windows[k] \in Seq(Packet)
<1>1. k \in WindowNames(files)
  BY DEF PipelineStaged
<1>2. PICK f \in DOMAIN files, w \in Nat \ {0} : k = <<f[1], f[2], f[3], w>>
  BY <1>1 DEF WindowNames
<1>3. f \in Names
  BY DEF PipelineTyped, Pcaps
<1>4. f = <<f[1], f[2], f[3]>> /\ f[1] \in Internal /\ f[2] \in Directions
      /\ f[3] \in DOMAIN captures
  BY <1>3 DEF Names
<1>5. f[1] \in Users
  BY DEF Users
<1>6. k[1] = f[1] /\ k[2] = f[2] /\ k[3] = f[3] /\ k[4] = w
  BY <1>2
<1>7. windows[k] \in Seq(Packet)
  BY DEF PipelineTyped
<1> QED
  BY <1>2, <1>4, <1>5, <1>6, <1>7

\* The windows of some users in a direction and some numbers, and how often
\* each has a packet.
Held(S, dir, span) == {k \in DOMAIN windows : k[1] \in S /\ k[2] = dir /\ k[4] \in span}
Times(K, q) == [k \in K |-> Count(windows[k], q)]

\* How often some windows have a packet can be added up.
LEMMA HeldTyped ==
  ASSUME PipelineTyped, PipelineStaged, NEW K \in SUBSET DOMAIN windows, NEW q
  PROVE  Summable(Times(K, q))
<1>1. IsFiniteSet(K)
  BY FS_Subset DEF PipelineStaged
<1>2. \A k \in K : Count(windows[k], q) \in Nat
  BY WindowNamed, CountCat
<1> QED
  BY <1>1, <1>2 DEF Summable, Times

\* The windows of a user that are read from one capture.
OwnIn(user, dir, span, i) ==
  [n \in 1 .. Cardinality({w \in span : <<user, dir, i, w>> \in DOMAIN windows}) |->
     windows[<<user, dir, i, Nth({w \in span : <<user, dir, i, w>> \in DOMAIN windows}, n)>>]]

\* The files of a user of one capture are the windows of that capture.
LEMMA OwnWeighs ==
  ASSUME PipelineTyped, PipelineStaged, NEW user, NEW dir, NEW span \in SUBSET Int,
         IsFiniteSet(span), NEW i, NEW q
  PROVE  /\ OwnIn(user, dir, span, i) \in Seq(Seq(Packet))
         /\ Weigh(OwnIn(user, dir, span, i), q) =
              Total(Times({k \in Held({user}, dir, span) : k[3] = i}, q))
<1> DEFINE S == {w \in span : <<user, dir, i, w>> \in DOMAIN windows}
           K == {k \in Held({user}, dir, span) : k[3] = i}
           own == OwnIn(user, dir, span, i)
           m == Cardinality(S)
           Name(w) == <<user, dir, i, w>>
<1>1. S \in SUBSET Int /\ IsFiniteSet(S)
  BY FS_Subset
<1>2. own = [n \in 1 .. m |-> windows[Name(Nth(S, n))]]
  BY Zenon DEF OwnIn
<1>3. \A w \in S : Name(w) \in K
  <2> SUFFICES ASSUME NEW w \in S PROVE Name(w) \in K
    OBVIOUS
  <2>1. Name(w)[1] = user /\ Name(w)[2] = dir /\ Name(w)[3] = i /\ Name(w)[4] = w
    OBVIOUS
  <2> QED
    BY <2>1 DEF Held
<1>4. \A k \in K : k[4] \in S /\ Name(k[4]) = k
  <2> SUFFICES ASSUME NEW k \in K PROVE k[4] \in S /\ Name(k[4]) = k
    OBVIOUS
  <2>1. k \in DOMAIN windows /\ k[1] = user /\ k[2] = dir /\ k[3] = i /\ k[4] \in span
    BY DEF Held
  <2>2. k = <<k[1], k[2], k[3], k[4]>>
    BY <2>1, WindowNamed
  <2>3. k = Name(k[4])
    BY <2>1, <2>2
  <2> QED
    BY <2>1, <2>3
<1>5. \A w : Name(w)[4] = w
  OBVIOUS
<1>6. K \in SUBSET DOMAIN windows /\ \A k \in K : windows[k] \in Seq(Packet)
  BY WindowNamed DEF Held
<1> HIDE DEF S, K, Name
<1>7. /\ m \in Nat
      /\ \A n \in 1 .. m : Nth(S, n) \in S /\ Rank(S, Nth(S, n)) = n
      /\ \A w \in S : Rank(S, w) \in 1 .. m /\ Nth(S, Rank(S, w)) = w
  BY <1>1, Ranks
<1> HIDE DEF own, m
<1>8. DOMAIN own = 1 .. m /\ \A n \in 1 .. m : own[n] = windows[Name(Nth(S, n))]
  BY <1>2
<1>9. own \in Seq(Seq(Packet))
  <2> DEFINE T == Seq(Packet)
  <2>1. own = [n \in 1 .. m |-> own[n]] /\ \A n \in 1 .. m : own[n] \in T
    BY <1>2, <1>3, <1>6, <1>7, <1>8
  <2> HIDE DEF T
  <2>2. own \in Seq(T)
    BY <1>7, <2>1
  <2> QED
    BY <2>2 DEF T
<1>10. Weigh(own, q) = Total(Times(K, q))
  <2> DEFINE v == CountsOf(own, q)
             g == Times(K, q)
             c == [n \in 1 .. m |-> Name(Nth(S, n))]
  <2>1. Summable(v)
    BY <1>9, WeighTyped
  <2>2. DOMAIN v = 1 .. m /\ \A n \in 1 .. m : v[n] = Count(windows[Name(Nth(S, n))], q)
    BY <1>8 DEF CountsOf
  <2>3. DOMAIN g = K /\ \A k \in K : g[k] = Count(windows[k], q)
    BY DEF Times
  <2>4. \A n \in 1 .. m : c[n] = Name(Nth(S, n)) /\ c[n] \in K /\ c[n][4] = Nth(S, n)
    BY <1>3, <1>5, <1>7
  <2> HIDE DEF v, g, c
  <2>5. \A n \in DOMAIN v : c[n] \in DOMAIN g /\ g[c[n]] = v[n]
    BY <2>2, <2>3, <2>4
  <2>6. \A x, y \in DOMAIN v : c[x] = c[y] => x = y
    BY <1>7, <2>2, <2>4
  <2>7. ASSUME NEW k \in DOMAIN g PROVE \E n \in DOMAIN v : c[n] = k
    <3>1. k[4] \in S /\ Name(k[4]) = k
      BY <1>4, <2>3
    <3>2. Rank(S, k[4]) \in 1 .. m /\ Nth(S, Rank(S, k[4])) = k[4]
      BY <1>7, <3>1
    <3>3. c[Rank(S, k[4])] = k
      BY <2>4, <3>1, <3>2
    <3> QED
      BY <2>2, <3>2, <3>3
  <2>8. Total(g) = Total(v)
    BY <2>1, <2>5, <2>6, <2>7, TotalMoved
  <2> QED
    BY <2>8 DEF Weigh, v, g
<1> QED
  BY <1>9, <1>10 DEF own, K

\* What is read back of a user is every window of his in the range.
LEMMA FilesWeigh ==
  ASSUME PipelineTyped, PipelineStaged, NEW user, NEW dir, NEW span \in SUBSET Int,
         IsFiniteSet(span)
  PROVE  /\ FilesIn(user, dir, span) \in Seq(Seq(Packet))
         /\ Held({user}, dir, span) # {} => FilesIn(user, dir, span) # <<>>
         /\ \A q : Weigh(FilesIn(user, dir, span), q) = Total(Times(Held({user}, dir, span), q))
<1> DEFINE T == Seq(Packet)
           all == [i \in DOMAIN captures |-> OwnIn(user, dir, span, i)]
           K == Held({user}, dir, span)
           n == Len(captures)
<1>1. FilesIn(user, dir, span) = FlattenSeq(all)
  BY Zenon DEF FilesIn, OwnIn
<1>2. DOMAIN captures = 1 .. n /\ n \in Nat
  BY DEF PipelineTyped
<1>3. \A i : OwnIn(user, dir, span, i) \in Seq(T)
  BY OwnWeighs
<1>4. FilesIn(user, dir, span) \in Seq(T)
  BY FilesInTyped
<1>5. K \in SUBSET DOMAIN windows /\ \A k \in K : k[3] \in 1 .. n
  BY <1>2, WindowNamed DEF Held
<1> HIDE DEF n, T, K
<1>6. all = [i \in 1 .. n |-> OwnIn(user, dir, span, i)]
  BY <1>2
<1> HIDE DEF all
<1>7. all \in Seq(Seq(T)) /\ DOMAIN all = 1 .. n
      /\ \A i \in 1 .. n : all[i] = OwnIn(user, dir, span, i)
  BY <1>2, <1>3, <1>6
<1>8. ASSUME NEW q PROVE Weigh(FlattenSeq(all), q) = Total(Times(K, q))
  <2> DEFINE v == Times(K, q)
             g == WeighsOf(all, q)
             c == [k \in K |-> k[3]]
             W == 1 .. n
  <2>1. Summable(v)
    BY <1>5, HeldTyped
  <2>2. DOMAIN g = W /\ \A i \in W : g[i] = Weigh(OwnIn(user, dir, span, i), q)
    BY <1>7 DEF WeighsOf
  <2>3. DOMAIN v = K /\ \A k \in K : v[k] = Count(windows[k], q)
    BY DEF Times
  <2>4. (\A k \in K : c[k] \in W /\ c[k] = k[3]) /\ IsFiniteSet(W)
    BY <1>2, <1>5, FS_Interval
  <2>5. Weigh(FlattenSeq(all), q) = Total(g)
    BY <1>7, FlatWeighs DEF T
  <2> HIDE DEF g, c, W
  <2>6. ASSUME NEW i \in W PROVE g[i] = Total([x \in {y \in DOMAIN v : c[y] = i} |-> v[x]])
    <3> DEFINE Ki == {k \in K : k[3] = i}
               Di == {y \in DOMAIN v : c[y] = i}
    <3>1. Ki = Di
      BY <2>3, <2>4
    <3>2. g[i] = Total(Times(Ki, q))
      BY <2>2, OwnWeighs DEF K
    <3>3. Times(Ki, q) = [x \in Ki |-> v[x]]
      <4>1. \A x \in Ki : x \in K
        OBVIOUS
      <4> HIDE DEF Ki, v
      <4> QED
        BY <2>3, <4>1 DEF Times
    <3> HIDE DEF Ki, v, Di
    <3>4. g[i] = Total([x \in Di |-> v[x]])
      BY <3>1, <3>2, <3>3, Zenon
    <3> QED
      BY <3>4 DEF Di
  <2> HIDE DEF v
  <2>7. \A x \in DOMAIN v : c[x] \in W
    BY <2>3, <2>4
  <2>8. Total(g) = Total(v)
    BY <2>1, <2>2, <2>4, <2>6, <2>7, TotalParts
  <2> QED
    BY <2>5, <2>8 DEF v
<1>9. K # {} => FlattenSeq(all) # <<>>
  <2> SUFFICES ASSUME NEW k \in K PROVE FlattenSeq(all) # <<>>
    OBVIOUS
  <2> DEFINE S == {w \in span : <<user, dir, k[3], w>> \in DOMAIN windows}
  <2>1. k[4] \in S
    <3>1. k \in DOMAIN windows /\ k[1] = user /\ k[2] = dir /\ k[4] \in span
      BY DEF K, Held
    <3>2. k = <<user, dir, k[3], k[4]>>
      BY <3>1, WindowNamed
    <3> QED
      BY <3>1, <3>2
  <2>2. S \in SUBSET Int /\ IsFiniteSet(S)
    BY FS_Subset
  <2>3. DOMAIN OwnIn(user, dir, span, k[3]) = 1 .. Cardinality(S)
    BY DEF OwnIn
  <2> HIDE DEF S
  <2>4. 1 .. Cardinality(S) # {}
    <3>1. Rank(S, k[4]) \in 1 .. Cardinality(S)
      BY <2>1, <2>2, Ranks
    <3> QED
      BY <3>1
  <2>5. OwnIn(user, dir, span, k[3]) # <<>>
    <3>1. DOMAIN <<>> = {}
      OBVIOUS
    <3> QED
      BY <2>3, <2>4, <3>1, Zenon
  <2>6. k[3] \in DOMAIN all /\ all[k[3]] # <<>>
    BY <1>5, <1>7, <2>5
  <2> QED
    BY <1>7, <2>6, FlatHas, Zenon
<1> QED
  BY <1>1, <1>4, <1>8, <1>9, Zenon DEF T, K

\* The windows a merge of a network takes.
TakenFor(net, span, d) ==
  {k \in DOMAIN windows : k[1] \in ToSet(LeavesOf(net, span)) /\ k[2] = d /\ k[4] \in span}

\* The same of one packet.
LEMMA FilesCount ==
  ASSUME PipelineTyped, PipelineStaged, NEW user, NEW dir, NEW span \in SUBSET Int,
         IsFiniteSet(span), NEW q
  PROVE  Weigh(FilesIn(user, dir, span), q) = Total(Times(Held({user}, dir, span), q))
<1>1. \A p : Weigh(FilesIn(user, dir, span), p) = Total(Times(Held({user}, dir, span), p))
  BY FilesWeigh
<1> QED
  BY <1>1, Zenon

\* What is read back of the users below a network is what the merge takes.
LEMMA LeavesWeigh ==
  ASSUME PipelineTyped, PipelineStaged, NEW net, NEW span \in SUBSET Int, IsFiniteSet(span),
         NEW d, NEW filesOf, \A u \in Users : filesOf[u] = FilesIn(u, d, span), NEW q
  PROVE  Total(WeighTo(LeavesOf(net, span), filesOf, Len(LeavesOf(net, span)), q)) =
           Total(Times(TakenFor(net, span, d), q))
<1> DEFINE leaves == LeavesOf(net, span)
           len == Len(leaves)
           B == Below(net, span)
           K == TakenFor(net, span, d)
           v == Times(K, q)
           g == [u \in B |-> Weigh(FilesIn(u, d, span), q)]
           c == [k \in K |-> k[1]]
           x == WeighTo(leaves, filesOf, len, q)
           e == [n \in 1 .. len |-> Nth(B, n)]
<1>1. /\ B \in SUBSET Int /\ IsFiniteSet(B) /\ len = Cardinality(B) /\ len \in Nat
      /\ \A n \in 1 .. len : leaves[n] = Nth(B, n)
      /\ DOMAIN leaves = 1 .. len /\ B \subseteq Users
  <2>1. B \subseteq Users
    BY DEF Below
  <2>2. /\ B \in SUBSET Int /\ IsFiniteSet(B)
        /\ leaves = [n \in 1 .. Cardinality(B) |-> Nth(B, n)]
    BY LeavesAre, Zenon
  <2> HIDE DEF B, leaves
  <2>3. Cardinality(B) \in Nat
    BY <2>2, FS_CardinalityType
  <2>4. leaves \in Seq(B) /\ DOMAIN leaves = 1 .. Cardinality(B)
    <3>1. leaves \in Seq(B)
      BY LeavesAre, Zenon DEF leaves, B
    <3> QED
      BY <2>2, <3>1
  <2>5. len = Cardinality(B)
    BY <2>3, <2>4
  <2> HIDE DEF len
  <2>6. \A n \in 1 .. len : leaves[n] = Nth(B, n)
    BY <2>2, <2>5
  <2> QED
    BY <2>1, <2>2, <2>3, <2>4, <2>5, <2>6
<1>2. /\ \A n \in 1 .. len : Nth(B, n) \in B /\ Rank(B, Nth(B, n)) = n
      /\ \A u \in B : Rank(B, u) \in 1 .. len /\ Nth(B, Rank(B, u)) = u
  BY <1>1, Ranks
<1> HIDE DEF leaves, len, B
<1>3. ToSet(leaves) = B
  <2>1. \A u \in B : u = leaves[Rank(B, u)] /\ Rank(B, u) \in DOMAIN leaves
    BY <1>1, <1>2
  <2>2. \A n \in DOMAIN leaves : leaves[n] \in B
    BY <1>1, <1>2
  <2> QED
    BY <2>1, <2>2 DEF ToSet
<1>4. K = Held(B, d, span) /\ K \in SUBSET DOMAIN windows
  BY <1>3 DEF TakenFor, Held, leaves
<1> HIDE DEF K
<1>5. Summable(v)
  BY <1>4, HeldTyped
<1>6. DOMAIN v = K /\ \A k \in K : v[k] = Count(windows[k], q)
  BY DEF Times
<1>7. \A k \in K : c[k] = k[1] /\ c[k] \in B
  BY <1>4 DEF Held
<1>8. DOMAIN g = B /\ \A u \in B : g[u] = Weigh(FilesIn(u, d, span), q)
  OBVIOUS
<1>9. DOMAIN x = 1 .. len /\ \A n \in 1 .. len : x[n] = Weigh(filesOf[leaves[n]], q)
  BY DEF WeighTo
<1>10. \A n \in 1 .. len : e[n] = Nth(B, n)
  OBVIOUS
<1> HIDE DEF c, g, x, e
<1>11. ASSUME NEW u \in B PROVE g[u] = Total([k \in {y \in DOMAIN v : c[y] = u} |-> v[k]])
  <2> DEFINE Ku == Held({u}, d, span)
             Du == {y \in DOMAIN v : c[y] = u}
  <2>1. Ku = Du
    BY <1>4, <1>6, <1>7 DEF Held
  <2>2. g[u] = Total(Times(Ku, q))
    <3>1. g[u] = Weigh(FilesIn(u, d, span), q)
      BY <1>8
    <3>2. Weigh(FilesIn(u, d, span), q) = Total(Times(Held({u}, d, span), q))
      BY FilesCount
    <3> QED
      BY <3>1, <3>2, Zenon
  <2>3. Times(Ku, q) = [k \in Ku |-> v[k]]
    <3>1. \A k \in Ku : k \in K
      BY <1>6, <2>1
    <3> HIDE DEF Ku, v
    <3> QED
      BY <1>6, <3>1 DEF Times
  <2> HIDE DEF Ku, v, Du
  <2>4. g[u] = Total([k \in Du |-> v[k]])
    BY <2>1, <2>2, <2>3, Zenon
  <2> QED
    BY <2>4 DEF Du
<1> HIDE DEF v
<1>12. \A k \in DOMAIN v : c[k] \in B
  BY <1>6, <1>7
<1>13. Summable(g) /\ Total(g) = Total(v)
  BY <1>1, <1>5, <1>8, <1>11, <1>12, TotalParts
<1>14. Total(g) = Total(x)
  <2>1. Summable(x)
    <3>1. \A n \in 1 .. len : x[n] = g[Nth(B, n)] /\ Nth(B, n) \in DOMAIN g
      <4> SUFFICES ASSUME NEW n \in 1 .. len
                   PROVE  x[n] = g[Nth(B, n)] /\ Nth(B, n) \in DOMAIN g
        OBVIOUS
      <4>1. Nth(B, n) \in B /\ leaves[n] = Nth(B, n) /\ Nth(B, n) \in Users
        BY <1>1, <1>2
      <4>2. x[n] = Weigh(filesOf[Nth(B, n)], q)
        BY <1>9, <4>1
      <4>3. filesOf[Nth(B, n)] = FilesIn(Nth(B, n), d, span)
        BY <4>1
      <4> QED
        BY <1>8, <4>1, <4>2, <4>3
    <3>2. IsFiniteSet(1 .. len)
      BY <1>1, FS_Interval
    <3> QED
      BY <1>9, <1>13, <3>1, <3>2 DEF Summable
  <2>2. \A n \in DOMAIN x : e[n] \in DOMAIN g /\ g[e[n]] = x[n]
    <3> SUFFICES ASSUME NEW n \in 1 .. len PROVE e[n] \in DOMAIN g /\ g[e[n]] = x[n]
      BY <1>9
    <3>1. Nth(B, n) \in B /\ leaves[n] = Nth(B, n) /\ Nth(B, n) \in Users
      BY <1>1, <1>2
    <3>2. x[n] = Weigh(filesOf[Nth(B, n)], q)
      BY <1>9, <3>1
    <3>3. filesOf[Nth(B, n)] = FilesIn(Nth(B, n), d, span)
      BY <3>1
    <3> QED
      BY <1>8, <1>10, <3>1, <3>2, <3>3
  <2>3. \A m, n \in DOMAIN x : e[m] = e[n] => m = n
    BY <1>2, <1>9, <1>10
  <2>4. ASSUME NEW u \in DOMAIN g PROVE \E n \in DOMAIN x : e[n] = u
    <3>1. Rank(B, u) \in 1 .. len /\ e[Rank(B, u)] = u
      BY <1>2, <1>8, <1>10
    <3> QED
      BY <1>9, <3>1
  <2> QED
    BY <2>1, <2>2, <2>3, <2>4, TotalMoved
<1> QED
  BY <1>13, <1>14 DEF v, x, K, leaves, len

\* A file has the packets that a merge takes, in order of time.
TakesAll(out, net, span, d) ==
  InOrder(out) /\ \A p : Count(out, p) = Total(Times(TakenFor(net, span, d), p))

\* What joining in batches makes of nothing, or when the first batch has sent
\* something.
LEMMA BatchesTakeAll ==
  ASSUME PipelineTyped, PipelineStaged, NEW net, NEW span \in SUBSET Int, IsFiniteSet(span),
         NEW d, NEW stale,
         \/ stale = <<>>
         \/ \E i \in DOMAIN LeavesOf(net, span), k \in TakenFor(net, span, d) :
              i <= BatchSize /\ k[1] = LeavesOf(net, span)[i]
  PROVE  TakesAll(JoinInBatches(LeavesOf(net, span), [u \in Users |-> FilesIn(u, d, span)], stale),
                  net, span, d)
<1> DEFINE leaves == LeavesOf(net, span)
           len == Len(leaves)
           filesOf == [u \in Users |-> FilesIn(u, d, span)]
           out == JoinInBatches(leaves, filesOf, stale)
<1>1. /\ len \in Nat /\ DOMAIN leaves = 1 .. len
      /\ \A i \in 1 .. len : leaves[i] \in Users
  <2>1. leaves \in Seq(Below(net, span)) /\ Below(net, span) \subseteq Users
    BY LeavesAre DEF Below
  <2> QED
    BY <2>1
<1>2. \A u \in Users : filesOf[u] = FilesIn(u, d, span)
  OBVIOUS
<1>3. \A u \in Users : FilesIn(u, d, span) \in Seq(Seq(Packet))
  BY FilesInTyped
<1> HIDE DEF filesOf, leaves, len, out
<1>4. \A i \in 1 .. len : filesOf[leaves[i]] \in Seq(Seq(Packet))
  BY <1>1, <1>2, <1>3
<1>5. ASSUME NEW i \in DOMAIN leaves, NEW k \in TakenFor(net, span, d),
             i <= BatchSize, k[1] = leaves[i]
      PROVE  len # 0 /\ BatchOf(leaves, filesOf, 1) # <<>>
  <2> DEFINE n == (len + BatchSize - 1) \div BatchSize
             m == Taken(len, 1)
             F == [j \in 1 .. m |-> filesOf[leaves[j]]]
  <2>1. i \in 1 .. len /\ len # 0 /\ BatchSize \in Nat \ {0} /\ len \in Nat
    BY <1>1, <1>5, CtpAssumption
  <2>2. n \in Nat /\ n # 0
    <3>1. Taken(len, 0) = 0 /\ Taken(len, n) = len /\ n \in Nat
      BY <2>1, TakenAre, Zenon
    <3> HIDE DEF n
    <3> QED
      BY <2>1, <3>1
  <2>3. (1 - 1) * BatchSize = 0 /\ 1 * BatchSize = BatchSize
    BY <2>1
  <2>4. m = (IF BatchSize <= len THEN BatchSize ELSE len) /\ m \in Nat /\ i \in 1 .. m
    BY <1>5, <2>1, <2>3 DEF Taken
  <2>5. Min({BatchSize, len - 0}) = m
    <3>1. 1 \in 1 .. n
      BY <2>2
    <3> HIDE DEF n
    <3>2. n = (len + BatchSize - 1) \div BatchSize
      BY DEF n
    <3>3. Min({BatchSize, len - (1 - 1) * BatchSize}) = Taken(len, 1) - (1 - 1) * BatchSize
      BY <2>1, <3>1, <3>2, TakenAre, ZenonT(60)
    <3>4. Min({BatchSize, len - 0}) = Taken(len, 1) - 0
      BY <2>3, <3>3
    <3> QED
      BY <2>4, <3>4
  <2> HIDE DEF m
  <2>6. BatchOf(leaves, filesOf, 1) = FlattenSeq(F)
    <3>1. \A j \in 1 .. m : 0 + j = j
      BY <2>4
    <3>2. [j \in 1 .. m |-> filesOf[leaves[0 + j]]] = F
      BY <3>1
    <3> QED
      BY <2>3, <2>5, <3>2 DEF BatchOf, len
  <2>7. F = [j \in 1 .. m |-> F[j]] /\ \A j \in 1 .. m : F[j] = filesOf[leaves[j]]
    OBVIOUS
  <2> HIDE DEF F
  <2>8. \A j \in 1 .. m : j \in 1 .. len
    BY <2>1, <2>4
  <2> DEFINE T == Seq(Packet)
  <2>9. \A j \in 1 .. m : F[j] \in Seq(T)
    BY <1>4, <2>7, <2>8
  <2>10. F[i] # <<>>
    <3>1. F[i] = FilesIn(leaves[i], d, span)
      BY <1>1, <1>2, <2>1, <2>4, <2>7
    <3>2. k \in Held({leaves[i]}, d, span)
      BY <1>5 DEF Held, TakenFor
    <3> QED
      BY <3>1, <3>2, FilesWeigh
  <2> HIDE DEF T
  <2>11. F \in Seq(Seq(T)) /\ i \in DOMAIN F
    BY <2>4, <2>7, <2>9
  <2>12. FlattenSeq(F) # <<>>
    BY <2>10, <2>11, FlatHas, Zenon
  <2> QED
    BY <2>1, <2>6, <2>12
<1>6. stale = <<>> \/ (len # 0 /\ BatchOf(leaves, filesOf, 1) # <<>>)
  BY <1>5 DEF leaves
<1>7. Joins(out, leaves, filesOf, len)
  BY <1>1, <1>4, <1>6, JoinsAll, Zenon DEF len, out
<1>8. \A q : Total(WeighTo(leaves, filesOf, len, q)) = Total(Times(TakenFor(net, span, d), q))
  BY <1>2, LeavesWeigh DEF leaves, len
<1>9. TakesAll(out, net, span, d)
  BY <1>7, <1>8 DEF Joins, TakesAll
<1> QED
  BY <1>9 DEF out, leaves, filesOf

\* A merge that succeeds has the packets of its range, when it is the first of
\* its name or its first batch has sent something.
MergeFits(name) ==
  merges[name].ok =>
    \A d \in Directions :
      (\/ merges[name].times = 1
       \/ \E i \in DOMAIN LeavesOf(name[1], name[2] .. name[3]),
             k \in TakenFor(name[1], name[2] .. name[3], d) :
            i <= BatchSize /\ k[1] = LeavesOf(name[1], name[2] .. name[3])[i])
      => TakesAll(merges[name].out[d], name[1], name[2] .. name[3], d)

\* The merges that there are were made of a finished extraction.
MergesMade ==
  \A name \in DOMAIN merges : extracted /\ merges[name].times \in Nat \ {0} /\ MergeFits(name)

\* What has been merged fits as long as the result it was made of is there.
LEMMA MergesStay ==
  ASSUME MergesMade, UNCHANGED <<captures, files, windows, rows, extracted, merges>>
  PROVE  MergesMade'
<1>1. \A net, span : LeavesOf(net, span)' = LeavesOf(net, span)
  BY ReadsTheSame
<1>2. \A net, span, d : TakenFor(net, span, d)' = TakenFor(net, span, d)
  BY <1>1 DEF TakenFor
<1>3. ASSUME NEW out, NEW net, NEW span, NEW d, TakesAll(out, net, span, d)
      PROVE  TakesAll(out, net, span, d)'
  BY <1>2, <1>3 DEF TakesAll, Times
<1>4. ASSUME NEW name \in DOMAIN merges PROVE MergeFits(name)'
  <2>1. MergeFits(name)
    BY <1>4 DEF MergesMade
  <2> QED
    BY <1>1, <1>2, <1>3, <2>1 DEF MergeFits
<1> QED
  BY <1>4 DEF MergesMade

\* A merge makes one that fits.
LEMMA MergeMakes ==
  ASSUME PipelineTyped, PipelineStaged, MergesMade,
         NEW net, NEW from \in Int, NEW to \in Int, NEW bad, Merge(net, from, to, bad)
  PROVE  MergesMade'
<1> DEFINE name == <<net, from, to>>
           span == from .. to
           leaves == LeavesOf(net, span)
           filesOf(d) == [u \in Users |-> FilesIn(u, d, span)]
           times == IF name \in DOMAIN merges THEN merges[name].times ELSE 0
           New(d) == JoinInBatches(leaves, filesOf(d), Left(name, d))
           Out(kept, d) == IF d = bad THEN kept
                           ELSE IF d = "upload" /\ bad = "download" THEN Left(name, d)
                           ELSE New(d)
           Made(kept) == [out |-> [d \in Directions |-> Out(kept, d)],
                          times |-> times + 1, ok |-> bad = "none"]
<1>1. /\ extracted /\ UNCHANGED <<captures, files, windows, rows, extracted>>
      /\ \E kept : merges' = [n \in {name} |-> Made(kept)]
  BY DEF Merge
<1>2. PICK kept : merges' = [n \in {name} |-> Made(kept)]
  BY <1>1
<1>m. PICK m : m = Made(kept)
  OBVIOUS
<1>3. m.times = times + 1 /\ m.ok = (bad = "none")
      /\ \A d \in Directions : m.out[d] = Out(kept, d)
  BY <1>m
<1>4. DOMAIN merges' = {name} /\ merges'[name] = m
  BY <1>2, <1>m
<1>5. times \in Nat /\ (times = 0 => name \notin DOMAIN merges)
  BY DEF MergesMade
<1>6. span \in SUBSET Int /\ IsFiniteSet(span)
  BY FS_Interval
<1>7. name[1] = net /\ name[2] = from /\ name[3] = to
  OBVIOUS
<1> HIDE DEF times, span, name
<1>8. m.times \in Nat \ {0}
  BY <1>3, <1>5
<1>9. /\ \A n, s : LeavesOf(n, s)' = LeavesOf(n, s)
      /\ \A n, s, d : TakenFor(n, s, d)' = TakenFor(n, s, d)
  <2>1. \A n, s : LeavesOf(n, s)' = LeavesOf(n, s)
    BY <1>1, ReadsTheSame
  <2> QED
    BY <1>1, <2>1 DEF TakenFor
<1>10. ASSUME NEW out, NEW n, NEW s, NEW d, TakesAll(out, n, s, d) PROVE TakesAll(out, n, s, d)'
  BY <1>1, <1>9, <1>10 DEF TakesAll, Times
<1>11. ASSUME NEW d \in Directions, m.ok,
              \/ m.times = 1
              \/ \E i \in DOMAIN leaves, k \in TakenFor(net, span, d) :
                   i <= BatchSize /\ k[1] = leaves[i]
       PROVE  TakesAll(m.out[d], net, span, d)
  <2>1. bad = "none" /\ d # "none"
    BY <1>3, <1>11 DEF Directions
  <2>2. m.out[d] = New(d)
    BY <1>3, <2>1
  <2>3. \/ Left(name, d) = <<>>
        \/ \E i \in DOMAIN leaves, k \in TakenFor(net, span, d) :
             i <= BatchSize /\ k[1] = leaves[i]
    <3>1. m.times = 1 => times = 0
      BY <1>3, <1>5
    <3> QED
      BY <1>5, <1>11, <3>1 DEF Left
  <2> HIDE DEF leaves
  <2>4. TakesAll(JoinInBatches(LeavesOf(net, span), [u \in Users |-> FilesIn(u, d, span)],
                               Left(name, d)),
                 net, span, d)
    BY <1>6, <2>3, BatchesTakeAll DEF leaves
  <2> QED
    BY <2>2, <2>4, Zenon DEF leaves
<1>12. MergeFits(name)'
  <2> SUFFICES ASSUME m.ok, NEW d \in Directions,
                      \/ m.times = 1
                      \/ \E i \in DOMAIN leaves, k \in TakenFor(net, span, d) :
                           i <= BatchSize /\ k[1] = leaves[i]
               PROVE  TakesAll(m.out[d], net, span, d)'
    <3>1. merges'[name] = m
      BY <1>4
    <3> QED
      BY <1>4, <1>7, <1>9, <3>1 DEF MergeFits, span, name
  <2>1. TakesAll(m.out[d], net, span, d)
    BY <1>11
  <2> QED
    BY <1>10, <2>1 DEF span
<1> QED
  BY <1>1, <1>4, <1>8, <1>12 DEF MergesMade

\* MergesMade is an invariant.
LEMMA MergesInvariance == Spec => []MergesMade
<1>1. Init => MergesMade
  BY DEF Init, NoFiles, MergesMade
<1>2. PipelineTyped /\ PipelineStaged /\ MergesMade /\ [Next]_vars => MergesMade'
  <2> SUFFICES ASSUME PipelineTyped, PipelineStaged, MergesMade, [Next]_vars
               PROVE  MergesMade'
    OBVIOUS
  <2>0. ASSUME UNCHANGED merges PROVE MergesMade'
    <3>1. CASE DOMAIN merges = {}
      BY <2>0, <3>1 DEF MergesMade
    <3>2. CASE DOMAIN merges # {}
      <4>1. extracted
        BY <3>2 DEF MergesMade
      <4> QED
        BY <2>0, <4>1, NothingChanges, MergesStay
    <3> QED
      BY <3>1, <3>2
  <2>1. ASSUME NEW i, NEW k, SplitCapture(i, k) PROVE MergesMade'
    BY <2>0, <2>1 DEF SplitCapture
  <2>2. ASSUME NEW u, NEW j, NEW k, SplitUser(u, j, k) PROVE MergesMade'
    BY <2>0, <2>2 DEF SplitUser
  <2>3. ASSUME NEW lost, StoreWindow(lost) PROVE MergesMade'
    BY <2>0, <2>3 DEF StoreWindow
  <2>4. CASE Finish
    BY <2>0, <2>4 DEF Finish
  <2>5. ASSUME NEW net, NEW w, NEW rate, NEW bin, Transform(net, w, rate, bin) PROVE MergesMade'
    BY <2>0, <2>5 DEF Transform
  <2>6. ASSUME NEW net, NEW from \in 1 .. MaxWindow, NEW to \in 1 .. MaxWindow, NEW bad,
               Merge(net, from, to, bad)
        PROVE  MergesMade'
    BY <2>6, MergeMakes
  <2>7. ASSUME NEW u, NEW i, LoadPcap(u, i) PROVE MergesMade'
    BY <2>0, <2>7 DEF LoadPcap
  <2>8. CASE UNCHANGED vars
    BY <2>0, <2>8 DEF vars
  <2> QED
    BY <2>1, <2>2, <2>3, <2>4, <2>5, <2>6, <2>7, <2>8 DEF Next
<1> QED
  BY <1>1, <1>2, PipelineInvariance, StagesInvariance, PTL DEF Spec

\* A merge that succeeds holds exactly the packets of every window file in its
\* range, in order of time, for any captures, any range and any size of a batch
\* and whatever was merged or failed before it, with the one exception that
\* MergeTakesAll states.
THEOREM MergesTakeAllPackets == Spec => []MergeTakesAll
<1>1. MergesMade => MergeTakesAll
  <2> SUFFICES ASSUME MergesMade, NEW name \in DOMAIN merges, merges[name].ok, NEW d \in Directions,
                      \/ merges[name].times = 1
                      \/ \E i \in DOMAIN LeavesOf(name[1], name[2] .. name[3]),
                            k \in TakenFor(name[1], name[2] .. name[3], d) :
                           i <= BatchSize /\ k[1] = LeavesOf(name[1], name[2] .. name[3])[i]
               PROVE  /\ InOrder(merges[name].out[d])
                      /\ \A p : Count(merges[name].out[d], p) =
                            Total([k \in TakenFor(name[1], name[2] .. name[3], d) |->
                                    Count(windows[k], p)])
    BY DEF MergeTakesAll, TakenFor
  <2>1. TakesAll(merges[name].out[d], name[1], name[2] .. name[3], d)
    BY DEF MergesMade, MergeFits
  <2> QED
    BY <2>1 DEF TakesAll, Times
<1> QED
  BY <1>1, MergesInvariance, PTL

-----------------------------------------------------------------------------
(* The rows.                                                                *)

\* The users a window was stored with; a row has those below its network and
\* the sums of their series, and theirs are the series of their files.
Kept(w) == {u \in Users : <<Leaf(u), w>> \in DOMAIN rows}
RowSums(r) ==
  /\ r[1].len \in 0 .. AddrBits /\ \E u \in Kept(r[2]) : r[1] = SuperNet(Leaf(u), r[1].len)
  /\ rows[r].users = Under(Kept(r[2]), r[1])
  /\ \A d \in Directions, i \in Bins(WindowLen) :
       rows[r].series[d][i] =
         Total([u \in Under(Kept(r[2]), r[1]) |-> rows[<<Leaf(u), r[2]>>].series[d][i]])
OwnSeries(w) ==
  \A u \in Kept(w) : \A d \in Directions : rows[<<Leaf(u), w>>].series[d] = SeriesOf(u, d, w)
RowsFit ==
  /\ \A r \in DOMAIN rows : RowSums(r) /\ OwnSeries(r[2])
  /\ failed \in Nat
  /\ failed = 0 => \A w \in 1 .. next - 1 : Kept(w) = Users

\* The leaves of a window are leaves.
LeavesFor(kept, w) ==
  [n \in {Leaf(u) : u \in kept} |->
     LET u == CHOOSE u \in kept : Leaf(u) = n
     IN [series |-> [d \in Directions |-> SeriesOf(u, d, w)], users  |-> {u}]]

\* The leaves that a window is stored with are those of the users kept.
LEMMA LeavesMade ==
  ASSUME PipelineTyped, NEW kept \in SUBSET Users, NEW w \in Nat
  PROVE  /\ kept \in SUBSET Nat /\ IsFiniteSet(kept) /\ LeafLevel(LeavesFor(kept, w), kept)
         /\ \A u \in kept : \A d \in Directions :
              LeavesFor(kept, w)[Leaf(u)].series[d] = SeriesOf(u, d, w)
<1> DEFINE leaves == LeavesFor(kept, w)
<1>1. kept \in SUBSET Nat /\ IsFiniteSet(kept)
  <2>1. \A k \in DOMAIN files : k \in Names
    BY DEF PipelineTyped, Pcaps
  <2>2. Internal \subseteq Nat
    <3>1. AddrBits \in Nat
      BY CtpAssumption
    <3>2. 2 ^ AddrBits \in Nat
      BY <3>1, PowPos
    <3> QED
      BY <3>2, CtpAssumption DEF Address
  <2>3. Users \subseteq Nat
    BY <2>1, <2>2 DEF Users, Names
  <2> QED
    BY <2>3, FinitelyMany, FS_Subset
<1>2. \A u, v \in kept : Leaf(u) = Leaf(v) => u = v
  <2>1. AddrBits \in 0 .. AddrBits
    BY CtpAssumption
  <2>2. \A u \in Nat : Leaf(u) = [len |-> AddrBits, top |-> u]
    BY <2>1, NetworksNest
  <2>3. \A u \in Nat : Leaf(u).top = u
    BY <2>2
  <2> QED
    BY <1>1, <2>3
<1>3. \A u \in kept : (CHOOSE v \in kept : Leaf(v) = Leaf(u)) = u
  BY <1>2
<1> DEFINE Node(u) == [series |-> [d \in Directions |-> SeriesOf(u, d, w)], users |-> {u}]
<1>4. leaves = [n \in {Leaf(u) : u \in kept} |-> Node(CHOOSE u \in kept : Leaf(u) = n)]
  BY Zenon DEF LeavesFor
<1> HIDE DEF leaves
<1>5. \A u \in kept : Node(u).users = {u}
      /\ \A d \in Directions : Node(u).series[d] = SeriesOf(u, d, w)
  OBVIOUS
<1>6. \A u \in kept : Node(u).series \in [Directions -> Amounts]
  BY SeriesOfTyped
<1> HIDE DEF Node
<1>7. DOMAIN leaves = {Leaf(u) : u \in kept} /\ \A u \in kept : leaves[Leaf(u)] = Node(u)
  <2> DEFINE Only(n) == CHOOSE u \in kept : Leaf(u) = n
  <2>1. leaves = [n \in {Leaf(u) : u \in kept} |-> Node(Only(n))]
    BY <1>4, Zenon
  <2>2. \A u \in kept : Only(Leaf(u)) = u
    BY <1>3, Zenon
  <2> HIDE DEF Only
  <2> QED
    BY <2>1, <2>2
<1> QED
  BY <1>1, <1>5, <1>6, <1>7 DEF LeafLevel, leaves

\* The rows of a window are the nodes of its tree.
LEMMA WindowStored ==
  ASSUME PipelineTyped, PipelineStaged, RowsFit, NEW lost \in SUBSET Users, StoreWindow(lost)
  PROVE  RowsFit'
<1> DEFINE kept   == Users \ lost
           leaves == LeavesFor(kept, next)
           tree   == IF kept = {} THEN NoFiles ELSE Tree(leaves)
<1>0. PICK now : now = next
  OBVIOUS
<1>1. /\ rows' = [r \in DOMAIN rows \cup {<<n, next>> : n \in DOMAIN tree} |->
                    IF r[2] = next THEN tree[r[1]] ELSE rows[r]]
      /\ next' = next + 1 /\ failed' = failed + Cardinality(lost)
      /\ UNCHANGED <<captures, files, windows>>
  BY DEF StoreWindow, LeavesFor
<1>2. next \in Nat \ {0} /\ \A r \in DOMAIN rows : r = <<r[1], r[2]>> /\ r[2] \in 1 .. next - 1
  BY DEF PipelineStaged
<1>3. /\ kept \in SUBSET Nat /\ IsFiniteSet(kept) /\ LeafLevel(leaves, kept)
      /\ \A u \in kept : \A d \in Directions : leaves[Leaf(u)].series[d] = SeriesOf(u, d, next)
  <2>1. kept \in SUBSET Users /\ next \in Nat
    BY <1>2
  <2> HIDE DEF kept
  <2> QED
    BY <2>1, LeavesMade
<1>4. TreeFits(tree, kept, leaves)
  <2> HIDE DEF leaves, kept
  <2>1. CASE kept = {}
    BY <2>1, FS_EmptySet DEF TreeFits, NoFiles
  <2>2. CASE kept # {}
    BY <1>3, <2>2, TreeGives
  <2> QED
    BY <2>1, <2>2
<1>5. Users' = Users /\ kept \subseteq Users
  BY <1>1 DEF Users
<1>6. \A u \in Users : Leaf(u) \in DOMAIN tree => u \in kept
  <2> SUFFICES ASSUME NEW u \in Users, Leaf(u) \in DOMAIN tree PROVE u \in kept
    OBVIOUS
  <2>0. AddrBits \in 0 .. AddrBits
    BY CtpAssumption
  <2>1. Users \subseteq Nat
    <3>1. Users \in SUBSET Users /\ next \in Nat
      BY <1>2
    <3>2. Users \in SUBSET Nat
      BY <3>1, LeavesMade
    <3> QED
      BY <3>2
  <2>2. \A x \in Nat : Leaf(x) = [len |-> AddrBits, top |-> x]
        /\ SuperNet(Leaf(x), AddrBits) = Leaf(x)
    BY <2>0, NetworksNest
  <2>3. \A x \in Nat : Leaf(x).len = AddrBits /\ Leaf(x).top = x
    BY <2>2
  <2>4. PICK v \in kept : Leaf(u) = SuperNet(Leaf(v), Leaf(u).len)
    BY <1>4 DEF TreeFits
  <2>5. Leaf(u) = Leaf(v)
    BY <1>3, <2>1, <2>2, <2>3, <2>4
  <2>6. u = v
    BY <1>3, <2>1, <2>3, <2>5
  <2> QED
    BY <2>6
<1> HIDE DEF leaves, kept, tree
<1>7. /\ \A r \in DOMAIN rows : r \in DOMAIN rows' /\ rows'[r] = rows[r]
      /\ \A n \in DOMAIN tree : <<n, now>> \in DOMAIN rows' /\ rows'[<<n, now>>] = tree[n]
      /\ \A r \in DOMAIN rows' : r \in DOMAIN rows
                                 \/ (r[2] = now /\ r[1] \in DOMAIN tree /\ r = <<r[1], now>>)
  BY <1>0, <1>1, <1>2
<1>8. \A u, d, w : SeriesOf(u, d, w)' = SeriesOf(u, d, w)
  BY <1>1 DEF SeriesOf
<1>9. Kept(now)' = kept
  BY <1>0, <1>2, <1>4, <1>5, <1>6, <1>7 DEF Kept, TreeFits
<1>10. \A w : w # now => Kept(w)' = Kept(w)
  BY <1>5, <1>7 DEF Kept
<1>11. ASSUME NEW r \in DOMAIN rows PROVE RowSums(r)' /\ OwnSeries(r[2])'
  <2>1. RowSums(r) /\ OwnSeries(r[2]) /\ r[2] # now /\ rows'[r] = rows[r]
    BY <1>0, <1>2, <1>7 DEF RowsFit
  <2>2. Kept(r[2])' = Kept(r[2])
    BY <1>10, <2>1
  <2>3. \A u \in Kept(r[2]) : rows'[<<Leaf(u), r[2]>>] = rows[<<Leaf(u), r[2]>>]
    BY <1>7 DEF Kept
  <2>4. OwnSeries(r[2])'
    BY <1>8, <2>1, <2>2, <2>3 DEF OwnSeries
  <2>5. Under(Kept(r[2]), r[1])' = Under(Kept(r[2]), r[1])
        /\ Under(Kept(r[2]), r[1]) \subseteq Kept(r[2])
    BY <2>2 DEF Under
  <2>6. RowSums(r)'
    BY <2>1, <2>2, <2>3, <2>5 DEF RowSums
  <2> QED
    BY <2>4, <2>6
<1>12. OwnSeries(now)'
  <2>1. \A u \in kept : rows'[<<Leaf(u), now>>] = leaves[Leaf(u)]
    BY <1>4, <1>7 DEF TreeFits
  <2> QED
    BY <1>0, <1>3, <1>8, <1>9, <2>1 DEF OwnSeries
<1>13. ASSUME NEW r \in DOMAIN rows', r[2] = now, r[1] \in DOMAIN tree, r = <<r[1], now>>
       PROVE  RowSums(r)'
  <2>1. rows'[r] = tree[r[1]] /\ NodeSums(tree[r[1]], r[1], kept, leaves)
        /\ r[1].len \in 0 .. AddrBits /\ \E u \in kept : r[1] = SuperNet(Leaf(u), r[1].len)
    BY <1>4, <1>7, <1>13 DEF TreeFits
  <2>2. \A u \in kept : rows'[<<Leaf(u), r[2]>>] = leaves[Leaf(u)]
    BY <1>4, <1>7, <1>13 DEF TreeFits
  <2>3. Kept(r[2])' = kept /\ Under(Kept(r[2]), r[1])' = Under(kept, r[1])
        /\ Under(kept, r[1]) \subseteq kept
    BY <1>9, <1>13 DEF Under
  <2> QED
    BY <2>1, <2>2, <2>3, ZenonT(60) DEF RowSums, NodeSums
<1>14. \A r \in DOMAIN rows' : RowSums(r)' /\ OwnSeries(r[2])'
  BY <1>7, <1>11, <1>12, <1>13
<1>15. IsFiniteSet(lost) /\ Cardinality(lost) \in Nat
  BY FinitelyMany, FS_Subset, FS_CardinalityType
<1>16. failed \in Nat /\ failed' \in Nat /\ (failed' = 0 => failed = 0 /\ Cardinality(lost) = 0)
  BY <1>1, <1>15 DEF RowsFit
<1>17. ASSUME failed' = 0, NEW w \in 1 .. next' - 1 PROVE Kept(w)' = Users'
  <2>1. lost = {} /\ failed = 0
    BY <1>15, <1>16, <1>17, FS_EmptySet
  <2>2. w = now \/ w \in 1 .. now - 1
    BY <1>0, <1>1, <1>2
  <2>3. kept = Users
    BY <2>1 DEF kept
  <2>4. \A x \in 1 .. now - 1 : Kept(x) = Users
    BY <1>0, <2>1 DEF RowsFit
  <2>5. CASE w = now
    BY <1>5, <1>9, <2>3, <2>5
  <2>6. CASE w \in 1 .. now - 1
    <3>1. w # now
      BY <1>0, <1>2, <2>6
    <3> QED
      BY <1>5, <1>10, <2>4, <2>6, <3>1
  <2> QED
    BY <2>2, <2>5, <2>6
<1> QED
  BY <1>14, <1>16, <1>17 DEF RowsFit

\* The rows fit as long as what they were made of is there, and when there are
\* none.
LEMMA RowsStay ==
  ASSUME RowsFit, UNCHANGED <<captures, files, windows, next, rows>>,
         failed' \in Nat, failed' = 0 => failed = 0
  PROVE  RowsFit'
<1>1. Users' = Users
  BY DEF Users
<1>2. \A w : Kept(w)' = Kept(w)
  BY <1>1 DEF Kept
<1>3. \A u, d, w : SeriesOf(u, d, w)' = SeriesOf(u, d, w)
  BY DEF SeriesOf
<1>4. \A w : OwnSeries(w) => OwnSeries(w)'
  BY <1>2, <1>3 DEF OwnSeries
<1>5. \A net, w : Under(Kept(w), net)' = Under(Kept(w), net)
  BY <1>2 DEF Under
<1>6. \A r : RowSums(r) => RowSums(r)'
  BY <1>2, <1>5 DEF RowSums
<1> QED
  BY <1>1, <1>2, <1>4, <1>6 DEF RowsFit

\* RowsFit holds of no rows.
LEMMA NoRowsFit ==
  ASSUME DOMAIN rows = {}, next = 1, failed \in Nat
  PROVE  RowsFit
BY DEF RowsFit

\* RowsFit is an invariant.
LEMMA RowsInvariance == Spec => []RowsFit
<1>1. Init => RowsFit
  <2> SUFFICES ASSUME Init PROVE RowsFit
    OBVIOUS
  <2>1. DOMAIN rows = {} /\ next = 1 /\ failed \in Nat
    BY DEF Init, NoFiles
  <2> QED
    BY <2>1, NoRowsFit
<1>2. PipelineTyped /\ PipelineStaged /\ RowsFit /\ [Next]_vars => RowsFit'
  <2> SUFFICES ASSUME PipelineTyped, PipelineStaged, RowsFit, [Next]_vars
               PROVE  RowsFit'
    OBVIOUS
  <2>0. failed \in Nat /\ next \in Nat \ {0}
    BY DEF RowsFit, PipelineStaged
  <2>a. ASSUME next = 1, next' = 1, UNCHANGED rows, failed' \in Nat PROVE RowsFit'
    <3>1. DOMAIN rows = {}
      <4>1. 1 .. next - 1 = {}
        BY <2>a
      <4> QED
        BY <4>1, Zenon DEF PipelineStaged
    <3>2. DOMAIN rows' = {}
      BY <2>a, <3>1
    <3> QED
      BY <2>a, <3>2 DEF RowsFit
  <2>1. ASSUME NEW i, NEW k, SplitCapture(i, k), i \in DOMAIN captures PROVE RowsFit'
    <3>1. UNCHANGED <<next, rows>> /\ failed' \in Nat /\ i \notin cut
      BY <2>0, <2>1 DEF SplitCapture, Fails
    <3>2. next = 1
      BY <2>0, <2>1, <3>1 DEF PipelineStaged
    <3> QED
      BY <2>a, <3>1, <3>2
  <2>2. ASSUME NEW u \in Users, NEW j, NEW k, SplitUser(u, j, k) PROVE RowsFit'
    <3>0. PICK n, all : Fails(n, all)
      BY <2>2 DEF SplitUser
    <3>1. UNCHANGED <<next, rows>> /\ failed' \in Nat /\ u \notin windowed
      <4>1. UNCHANGED <<next, rows>> /\ u \notin windowed
        BY <2>2 DEF SplitUser
      <4>2. failed' \in Nat
        BY <2>0, <3>0 DEF Fails
      <4> QED
        BY <4>1, <4>2
    <3>2. next = 1
      BY <2>0, <3>1 DEF PipelineStaged
    <3> QED
      BY <2>a, <3>1, <3>2
  <2>3. ASSUME NEW lost \in SUBSET Users, StoreWindow(lost) PROVE RowsFit'
    BY <2>3, WindowStored
  <2>4. CASE Finish
    BY <2>0, <2>4, RowsStay DEF Finish
  <2>5. ASSUME NEW net, NEW w, NEW rate, NEW bin, Transform(net, w, rate, bin) PROVE RowsFit'
    BY <2>0, <2>5, RowsStay DEF Transform
  <2>6. ASSUME NEW net, NEW from, NEW to, NEW bad, Merge(net, from, to, bad) PROVE RowsFit'
    <3>1. UNCHANGED <<captures, files, windows, next, rows>>
          /\ failed' = failed + (IF bad = "none" THEN 0 ELSE 1)
      BY <2>6 DEF Merge
    <3> QED
      BY <2>0, <3>1, RowsStay
  <2>7. ASSUME NEW u, NEW i, LoadPcap(u, i) PROVE RowsFit'
    BY <2>0, <2>7, RowsStay DEF LoadPcap
  <2>8. CASE UNCHANGED vars
    BY <2>0, <2>8, RowsStay DEF vars
  <2> QED
    BY <2>1, <2>2, <2>3, <2>4, <2>5, <2>6, <2>7, <2>8 DEF Next
<1> QED
  BY <1>1, <1>2, PipelineInvariance, StagesInvariance, PTL DEF Spec

\* The first half of RowsAddUp.
LEMMA NodesAddUp ==
  ASSUME PipelineTyped, RowsFit, NEW r \in DOMAIN rows
  PROVE  /\ rows[r].users = {u \in Users : <<Leaf(u), r[2]>> \in DOMAIN rows
                                           /\ SubNetOf(Leaf(u), r[1])}
         /\ \A d \in Directions, i \in Bins(WindowLen) :
              rows[r].series[d][i] =
                Total([u \in rows[r].users |-> rows[<<Leaf(u), r[2]>>].series[d][i]])
<1>0. AddrBits \in 0 .. AddrBits
  BY CtpAssumption
<1>1. RowSums(r)
  BY DEF RowsFit
<1>2. r[2] \in Nat /\ Kept(r[2]) \in SUBSET Users
  BY DEF PipelineTyped, Kept
<1>3. Kept(r[2]) \in SUBSET Nat
  BY <1>2, LeavesMade
<1>4. \A u \in Nat : Leaf(u).len = AddrBits
  <2>1. \A u \in Nat : Leaf(u) = [len |-> AddrBits, top |-> u]
    BY <1>0, NetworksNest
  <2> QED
    BY <2>1
<1>5. r[1].len \in 0 .. AddrBits
  BY <1>1 DEF RowSums
<1>6. \A u \in Kept(r[2]) : SubNetOf(Leaf(u), r[1]) <=> SuperNet(Leaf(u), r[1].len) = r[1]
  BY <1>3, <1>4, <1>5 DEF SubNetOf
<1>7. Under(Kept(r[2]), r[1]) = {u \in Users : <<Leaf(u), r[2]>> \in DOMAIN rows
                                              /\ SubNetOf(Leaf(u), r[1])}
  BY <1>6 DEF Under, Kept
<1> QED
  BY <1>1, <1>7, Zenon DEF RowSums

-----------------------------------------------------------------------------
(* What the two stages have made of the captures.                           *)

\* The names of a user's files, of the captures up to the m-th.
OwnNames(names, user, dir, m) ==
  /\ \A j \in DOMAIN names : names[j][1] = user
  /\ \A i \in 1 .. m : <<user, dir, i>> \in DOMAIN files =>
                         \E j \in DOMAIN names : names[j] = <<user, dir, i>>

\* One more of them.
LEMMA NamesMore ==
  ASSUME NEW names \in Seq(DOMAIN files), NEW user, NEW dir, NEW m \in Nat \ {0},
         OwnNames(names, user, dir, m - 1)
  PROVE  OwnNames(StemStep(names, user, dir, m), user, dir, m)
<1> DEFINE x == <<user, dir, m>>
           D == DOMAIN files
           n == Len(names)
           r == Append(names, x)
<1>1. StemStep(names, user, dir, m) = IF x \in D THEN r ELSE names
  BY DEF StemStep
<1>2. \A i \in 1 .. m : i = m \/ i \in 1 .. m - 1
  OBVIOUS
<1>3. /\ n \in Nat /\ DOMAIN names = 1 .. n /\ DOMAIN r = 1 .. n + 1 /\ r[n + 1] = x
      /\ \A k \in 1 .. n : r[k] = names[k]
  OBVIOUS
<1>4. x[1] = user
  OBVIOUS
<1> HIDE DEF r, x, n
<1>5. CASE x \in D
  <2>1. ASSUME NEW k \in DOMAIN r PROVE r[k][1] = user
    <3>1. k = n + 1 \/ k \in 1 .. n
      BY <1>3
    <3> QED
      BY <1>3, <1>4, <3>1 DEF OwnNames
  <2>2. ASSUME NEW i \in 1 .. m, <<user, dir, i>> \in D
        PROVE  \E k \in DOMAIN r : r[k] = <<user, dir, i>>
    <3>1. CASE i = m
      <4>1. n + 1 \in DOMAIN r
        BY <1>3
      <4> QED
        BY <1>3, <3>1, <4>1 DEF x
    <3>2. CASE i \in 1 .. m - 1
      <4>1. PICK k \in DOMAIN names : names[k] = <<user, dir, i>>
        BY <2>2, <3>2 DEF OwnNames
      <4>2. k \in DOMAIN r /\ r[k] = names[k]
        BY <1>3
      <4> QED
        BY <4>1, <4>2
    <3> QED
      BY <1>2, <3>1, <3>2
  <2> QED
    BY <1>1, <1>5, <2>1, <2>2 DEF OwnNames
<1>6. CASE x \notin D
  <2>1. \A i \in 1 .. m : <<user, dir, i>> \in D => i \in 1 .. m - 1
    BY <1>2, <1>6 DEF x
  <2> QED
    BY <1>1, <1>6, <2>1 DEF OwnNames
<1> QED
  BY <1>5, <1>6

\* SourcesIn has the names of all of the user's files of a direction.
LEMMA NamesScanned ==
  ASSUME NEW n \in Nat, DOMAIN Stems = 1 .. n, NEW user, NEW dir
  PROVE  OwnNames(SourcesIn(user, dir), user, dir, n)
<1> DEFINE D == DOMAIN files
           Done(names, i) == names \in Seq(D) /\ OwnNames(names, user, dir, i)
<1>1. PICK f : /\ f[0] = <<>> /\ SourcesIn(user, dir) = f[n]
               /\ \A i \in 1 .. n : f[i] = StemStep(f[i - 1], user, dir, Stems[i])
  BY StemScan
<1>2. ASSUME NEW names, NEW i \in 1 .. n, Done(names, i - 1)
      PROVE  Done(StemStep(names, user, dir, i), i)
  <2>1. names \in Seq(DOMAIN files) /\ OwnNames(names, user, dir, i - 1) /\ i \in Nat \ {0}
    BY <1>2
  <2>2. OwnNames(StemStep(names, user, dir, i), user, dir, i)
    BY <2>1, NamesMore
  <2>3. StemStep(names, user, dir, i) \in Seq(D)
    BY <2>1, StemStepTyped
  <2> QED
    BY <2>2, <2>3, Zenon
<1>3. Done(<<>>, 0)
  <2>1. <<>> \in Seq(D)
    OBVIOUS
  <2>2. DOMAIN <<>> = {} /\ 1 .. 0 = {}
    OBVIOUS
  <2>3. OwnNames(<<>>, user, dir, 0)
    BY <2>2 DEF OwnNames
  <2> QED
    BY <2>1, <2>3, Zenon
<1> HIDE DEF D, Done
<1> DEFINE Good == {i \in 0 .. n : Done(f[i], i)}
<1>4. 0 \in Good
  BY <1>1, <1>3
<1>5. ASSUME NEW i \in 1 .. n, i - 1 \in Good PROVE i \in Good
  <2>1. Stems[i] = i /\ i \in 0 .. n
    BY DEF Stems
  <2>2. f[i] = StemStep(f[i - 1], user, dir, i) /\ Done(f[i - 1], i - 1)
    BY <1>1, <1>5, <2>1
  <2> QED
    BY <1>2, <2>1, <2>2
<1>6. \A i \in 0 .. n : i \in Good
  <2> HIDE DEF Good
  <2> QED
    BY <1>4, <1>5, UpTo, Zenon
<1>7. n \in 0 .. n
  OBVIOUS
<1> QED
  BY <1>1, <1>6, <1>7 DEF Done

\* A user's sources are the user's files.
LEMMA SourcesAre ==
  ASSUME PipelineTyped, NEW user
  PROVE  /\ \A i \in DOMAIN SourcesOf(user) : SourcesOf(user)[i][1] = user
         /\ \A f \in DOMAIN files : f[1] = user =>
              \E i \in DOMAIN SourcesOf(user) : SourcesOf(user)[i] = f
<1> DEFINE n == Len(captures)
           a == SourcesIn(user, "upload")
           b == SourcesIn(user, "download")
           D == DOMAIN files
<1>1. captures \in Seq(Seq(Packet)) /\ n \in Nat /\ DOMAIN captures = 1 .. n
      /\ DOMAIN Stems = 1 .. n
  BY DEF PipelineTyped, Stems
<1> HIDE DEF n
<1>2. a \in Seq(D) /\ b \in Seq(D)
  BY <1>1, SourcesInTyped
<1>3. OwnNames(a, user, "upload", n) /\ OwnNames(b, user, "download", n)
  BY <1>1, NamesScanned
<1>4. SourcesOf(user) = a \o b
  BY DEF SourcesOf
<1> HIDE DEF a, b, D
<1>5. Len(a) \in Nat /\ Len(b) \in Nat /\ DOMAIN a = 1 .. Len(a) /\ DOMAIN b = 1 .. Len(b)
  BY <1>2
<1>6. /\ DOMAIN (a \o b) = 1 .. Len(a) + Len(b)
      /\ \A i \in 1 .. Len(a) : (a \o b)[i] = a[i]
      /\ \A i \in 1 .. Len(b) : (a \o b)[Len(a) + i] = b[i]
  BY <1>2
<1> DEFINE s == a \o b
           x == Len(a)
           y == Len(b)
<1>7. /\ x \in Nat /\ y \in Nat /\ DOMAIN a = 1 .. x /\ DOMAIN b = 1 .. y /\ DOMAIN s = 1 .. x + y
      /\ \A i \in 1 .. x : s[i] = a[i]
      /\ \A i \in 1 .. y : s[x + i] = b[i]
  BY <1>5, <1>6, Zenon
<1>8. SourcesOf(user) = s
  BY <1>4
<1> HIDE DEF s, x, y
<1>9. ASSUME NEW i \in DOMAIN s PROVE s[i][1] = user
  <2>1. i \in 1 .. x \/ (i - x \in 1 .. y /\ x + (i - x) = i)
    BY <1>7
  <2>2. CASE i \in 1 .. x
    BY <1>3, <1>7, <2>2 DEF OwnNames
  <2>3. CASE i - x \in 1 .. y /\ x + (i - x) = i
    <3>1. s[i] = b[i - x] /\ i - x \in DOMAIN b
      BY <1>7, <2>3
    <3> QED
      BY <1>3, <3>1 DEF OwnNames
  <2> QED
    BY <2>1, <2>2, <2>3
<1>10. ASSUME NEW f \in DOMAIN files, f[1] = user PROVE \E i \in DOMAIN s : s[i] = f
  <2>1. f \in Names
    BY DEF PipelineTyped, Pcaps
  <2>2. f = <<f[1], f[2], f[3]>> /\ f[2] \in {"upload", "download"} /\ f[3] \in 1 .. n
    BY <1>1, <2>1 DEF Names, Directions
  <2>3. CASE f[2] = "upload"
    <3>1. f = <<user, "upload", f[3]>>
      BY <1>10, <2>2, <2>3
    <3>2. PICK j \in DOMAIN a : a[j] = f
      BY <1>3, <2>2, <3>1 DEF OwnNames
    <3> QED
      BY <1>7, <3>2
  <2>4. CASE f[2] = "download"
    <3>1. f = <<user, "download", f[3]>>
      BY <1>10, <2>2, <2>4
    <3>2. PICK j \in DOMAIN b : b[j] = f
      BY <1>3, <2>2, <3>1 DEF OwnNames
    <3>3. x + j \in DOMAIN s /\ s[x + j] = b[j]
      BY <1>7
    <3> QED
      BY <3>2, <3>3
  <2> QED
    BY <2>2, <2>3, <2>4
<1> QED
  BY <1>8, <1>9, <1>10

\* A prefix of a file in order is in order, and all of it is the file.
LEMMA PrefixOrdered ==
  ASSUME NEW file \in Seq(Packet), NEW k \in 0 .. Len(file)
  PROVE  /\ Prefix(file, k) \in Seq(Packet)
         /\ InOrder(file) => InOrder(Prefix(file, k))
         /\ k = Len(file) => Prefix(file, k) = file
<1> DEFINE r == Prefix(file, k)
           n == Len(file)
<1>1. /\ n \in Nat /\ r \in Seq(Packet) /\ Len(r) = k /\ DOMAIN r = 1 .. k /\ k \in 0 .. n
      /\ \A i \in 1 .. k : r[i] = file[i]
  BY DEF Prefix
<1>2. InOrder(file) => InOrder(r)
  <2> SUFFICES ASSUME InOrder(file), NEW i \in 2 .. k PROVE r[i - 1].t <= r[i].t
    BY <1>1 DEF InOrder
  <2>1. i \in 2 .. n /\ i \in 1 .. k /\ i - 1 \in 1 .. k
    BY <1>1
  <2>2. file[i - 1].t <= file[i].t
    BY <2>1 DEF InOrder, n
  <2> HIDE DEF r
  <2> QED
    BY <1>1, <2>1, <2>2
<1>3. k = n => r = file
  <2> HIDE DEF r
  <2> SUFFICES ASSUME k = n PROVE r = file
    OBVIOUS
  <2>1. Len(r) = Len(file) /\ \A i \in 1 .. Len(r) : r[i] = file[i]
    BY <1>1 DEF n
  <2> QED
    BY <1>1, <2>1, SameFile
<1> QED
  BY <1>1, <1>2, <1>3

\* What a worker of the second stage has made: read[i] is what it has read of
\* the i-th of the user's files, all of it unless a worker failed.
MadeOf(read, src, j) ==
  /\ \A i \in 1 .. j : /\ src[i] \in DOMAIN files /\ read[i] \in Seq(Packet)
                       /\ InOrder(files[src[i]]) => InOrder(read[i])
                       /\ \A w \in DOMAIN SplitByWindow(read[i]) :
                            NameOf(src[i], w) \in DOMAIN windows'
  /\ \A f \in DOMAIN windows : f \in DOMAIN windows' /\ windows'[f] = windows[f]
  /\ \A f \in DOMAIN windows' :
       f \in DOMAIN windows
       \/ \E i \in 1 .. j : \E w \in DOMAIN SplitByWindow(read[i]) :
            f = NameOf(src[i], w) /\ windows'[f] = SplitByWindow(read[i])[w]
  /\ failed' = failed => j = Len(src) /\ \A i \in 1 .. j : read[i] = files[src[i]]

\* A second stage that is done with a user has made the windows of what it
\* read.
LEMMA WindowsMade ==
  ASSUME PipelineTyped, failed \in Nat, NEW user, NEW j \in DOMAIN SourcesOf(user),
         NEW k \in 0 .. Len(files[SourcesOf(user)[j]]), SplitUser(user, j, k)
  PROVE  \E read : MadeOf(read, SourcesOf(user), j)
<1> DEFINE src == SourcesOf(user)
           read == [i \in 1 .. j |-> IF i < j THEN files[src[i]] ELSE Prefix(files[src[i]], k)]
           made == UNION {{<<i, w>> : w \in DOMAIN SplitByWindow(read[i])} : i \in 1 .. j}
           Name(m) == src[m[1]] \o <<m[2]>>
           Of(f) == CHOOSE m \in made : Name(m) = f
           all == IF j < Len(src) THEN k + 1 ELSE Len(files[src[j]])
<1>1. src \in Seq(DOMAIN files) /\ j \in 1 .. Len(src) /\ Len(src) \in Nat
  BY SourcesTyped
<1>2. /\ windows' = [f \in DOMAIN windows \cup {Name(m) : m \in made} |->
                      IF f \in DOMAIN windows THEN windows[f]
                      ELSE SplitByWindow(read[Of(f)[1]])[Of(f)[2]]]
      /\ Fails(k, all)
  BY DEF SplitUser
<1>3. k \in 0 .. Len(files[src[j]])
  OBVIOUS
<1> HIDE DEF src
<1>4. \A i \in 1 .. j : src[i] \in DOMAIN files /\ src[i] \in Names /\ files[src[i]] \in Seq(Packet)
  BY <1>1 DEF PipelineTyped, Pcaps
<1> DEFINE last == files[src[j]]
<1>5. /\ last \in Seq(Packet) /\ Len(last) \in Nat /\ Prefix(last, k) \in Seq(Packet)
      /\ InOrder(last) => InOrder(Prefix(last, k))
      /\ k = Len(last) => Prefix(last, k) = last
  <2>1. last \in Seq(Packet) /\ k \in 0 .. Len(last)
    BY <1>1, <1>3, <1>4
  <2> HIDE DEF last
  <2>2. Len(last) \in Nat
    BY <2>1
  <2> QED
    BY <2>1, <2>2, PrefixOrdered
<1>6. \A i \in 1 .. j : read[i] = IF i = j THEN Prefix(last, k) ELSE files[src[i]]
  <2>1. \A i \in 1 .. j : i < j \/ i = j
    BY <1>1
  <2> QED
    BY <2>1
<1>7. failed' = failed => j = Len(src) /\ k = Len(last)
  <2> SUFFICES ASSUME failed' = failed PROVE j = Len(src) /\ k = Len(last)
    OBVIOUS
  <2> HIDE DEF all
  <2>1. ~ (k < all)
    <3>1. failed' = failed + (IF k < all THEN 1 ELSE 0)
      BY <1>2 DEF Fails
    <3> QED
      BY <3>1
  <2>2. k \in Nat /\ j <= Len(src)
    BY <1>1, <1>3
  <2>3. ~ (j < Len(src))
    BY <2>1, <2>2 DEF all
  <2>4. ~ (k < Len(last))
    BY <2>1, <2>3 DEF all
  <2> HIDE DEF last
  <2>5. k <= Len(last)
    BY <1>3 DEF last
  <2> QED
    BY <1>1, <1>5, <2>2, <2>3, <2>4, <2>5
<1> HIDE DEF all
<1>8. ASSUME failed' = failed, NEW i \in 1 .. j PROVE read[i] = files[src[i]]
  BY <1>5, <1>6, <1>7, <1>8
<1>9. ASSUME NEW i \in 1 .. j
      PROVE  read[i] \in Seq(Packet) /\ (InOrder(files[src[i]]) => InOrder(read[i]))
  BY <1>4, <1>5, <1>6
<1> HIDE DEF read, last
<1>10. \A m \in made : m[1] \in 1 .. j /\ m[2] \in DOMAIN SplitByWindow(read[m[1]])
  OBVIOUS
<1>11. \A i \in 1 .. j : \A w \in DOMAIN SplitByWindow(read[i]) : <<i, w>> \in made
  OBVIOUS
<1>12. ASSUME NEW i \in 1 .. j, NEW w PROVE src[i] \o <<w>> = NameOf(src[i], w)
  <2>1. src[i] \in Names
    BY <1>4
  <2>2. PICK a, d, s : src[i] = <<a, d, s>>
    BY <2>1 DEF Names
  <2>3. <<a, d, s>> \o <<w>> = <<a, d, s, w>>
    BY Named, Zenon
  <2>4. <<a, d, s>>[1] = a /\ <<a, d, s>>[2] = d /\ <<a, d, s>>[3] = s
    OBVIOUS
  <2> QED
    BY <2>2, <2>3, <2>4, Zenon DEF NameOf
<1> HIDE DEF made
<1>13. ASSUME NEW i \in 1 .. j, NEW w \in DOMAIN SplitByWindow(read[i])
       PROVE  NameOf(src[i], w) \in DOMAIN windows'
  <2> DEFINE m == <<i, w>>
  <2>1. m \in made /\ m[1] = i /\ m[2] = w
    BY <1>11
  <2>2. Name(m) = NameOf(src[i], w)
    BY <1>12, <2>1
  <2> HIDE DEF m, Name
  <2>3. Name(m) \in DOMAIN windows'
    BY <1>2, <2>1
  <2> QED
    BY <2>2, <2>3
<1>14. \A f \in DOMAIN windows : f \in DOMAIN windows' /\ windows'[f] = windows[f]
  BY <1>2
<1>15. ASSUME NEW f \in DOMAIN windows', f \notin DOMAIN windows
       PROVE  \E i \in 1 .. j : \E w \in DOMAIN SplitByWindow(read[i]) :
                f = NameOf(src[i], w) /\ windows'[f] = SplitByWindow(read[i])[w]
  <2> DEFINE m == Of(f)
  <2>1. f \in {Name(x) : x \in made} /\ windows'[f] = SplitByWindow(read[m[1]])[m[2]]
    BY <1>2, <1>15
  <2>2. m \in made /\ Name(m) = f
    BY <2>1
  <2> HIDE DEF m
  <2>3. m[1] \in 1 .. j /\ m[2] \in DOMAIN SplitByWindow(read[m[1]])
    BY <1>10, <2>2
  <2>4. f = NameOf(src[m[1]], m[2])
    BY <1>12, <2>2, <2>3
  <2> QED
    BY <2>1, <2>3, <2>4
<1>16. MadeOf(read, src, j)
  BY <1>4, <1>7, <1>8, <1>9, <1>13, <1>14, <1>15 DEF MadeOf
<1> QED
  BY <1>16 DEF src

\* Of captures in order come files in order and window files; and, as long as
\* no worker has failed, the files and the windows are all that the splits
\* make of what they were made of.
SameWindow(f, w) ==
  /\ NameOf(f, w) \in DOMAIN windows <=> w \in DOMAIN SplitByWindow(files[f])
  /\ w \in DOMAIN SplitByWindow(files[f]) => windows[NameOf(f, w)] = SplitByWindow(files[f])[w]

\* The files of a capture are those of its split.
AllSplit(i) ==
  \A u \in Internal, d \in Directions :
    FileOf(files, <<u, d, i>>) = FileOf(SplitByIp(captures[i]), <<u, d>>)

\* What the two stages keep of the captures, in every state.
SplitsKept ==
  /\ failed \in Nat
  /\ windowed # {} => cut = DOMAIN captures
  /\ \A f \in DOMAIN files : f[3] \in cut /\ (InOrder(captures[f[3]]) => InOrder(files[f]))
  /\ \A k \in DOMAIN windows : k[1] \in windowed /\ (InOrder(captures[k[3]]) => WinGood(windows[k]))
  /\ failed = 0 => \A i \in cut : AllSplit(i)
  /\ failed = 0 => \A f \in DOMAIN files : f[1] \in windowed => \A w : SameWindow(f, w)

\* The second stage keeps this.
LEMMA SplitUserKept ==
  ASSUME PipelineTyped, SplitsKept, NEW user, NEW j \in DOMAIN SourcesOf(user),
         NEW k \in 0 .. Len(files[SourcesOf(user)[j]]), SplitUser(user, j, k)
  PROVE  SplitsKept'
<1> DEFINE src == SourcesOf(user)
<1>1. PICK read : MadeOf(read, src, j)
  BY WindowsMade DEF SplitsKept
<1>2. j \in 1 .. Len(src) /\ DOMAIN src = 1 .. Len(src)
  <2>1. src \in Seq(DOMAIN files)
    BY SourcesTyped
  <2> HIDE DEF src
  <2> QED
    BY <2>1 DEF src
<1>3. /\ cut = DOMAIN captures /\ user \notin windowed /\ windowed' = windowed \cup {user}
      /\ UNCHANGED <<captures, cut, files>>
  BY DEF SplitUser
<1>4. failed' \in Nat /\ (failed' = 0 => failed = 0 /\ failed' = failed)
  <2>1. PICK all : Fails(k, all)
    BY DEF SplitUser
  <2> QED
    BY <2>1 DEF SplitsKept, Fails
<1>5. /\ \A i \in 1 .. j : src[i][1] = user
      /\ \A f \in DOMAIN files : f[1] = user => \E i \in DOMAIN src : src[i] = f
  BY <1>2, SourcesAre
<1> HIDE DEF src
<1>6. ASSUME NEW f \in DOMAIN windows'
      PROVE  f[1] \in windowed' /\ (InOrder(captures[f[3]]) => WinGood(windows'[f]))
  <2>1. CASE f \in DOMAIN windows
    BY <1>1, <1>3, <2>1 DEF SplitsKept, MadeOf
  <2>2. CASE f \notin DOMAIN windows
    <3>1. PICK i \in 1 .. j : \E w \in DOMAIN SplitByWindow(read[i]) :
                f = NameOf(src[i], w) /\ windows'[f] = SplitByWindow(read[i])[w]
      BY <1>1, <1>6, <2>2 DEF MadeOf
    <3>2. PICK w \in DOMAIN SplitByWindow(read[i]) :
                f = NameOf(src[i], w) /\ windows'[f] = SplitByWindow(read[i])[w]
      BY <3>1
    <3>3. f[1] = src[i][1] /\ f[3] = src[i][3]
      BY <3>2 DEF NameOf
    <3>4. f[1] \in windowed'
      BY <1>3, <1>5, <3>3
    <3>5. ASSUME InOrder(captures[f[3]]) PROVE WinGood(windows'[f])
      <4>1. src[i] \in DOMAIN files /\ read[i] \in Seq(Packet)
            /\ (InOrder(files[src[i]]) => InOrder(read[i]))
        BY <1>1 DEF MadeOf
      <4>2. InOrder(files[src[i]])
        BY <3>3, <3>5, <4>1 DEF SplitsKept
      <4>3. WinGood(SplitByWindow(read[i])[w])
        BY <3>2, <4>1, <4>2, WindowsAddUp
      <4> QED
        BY <3>2, <4>3
    <3> QED
      BY <3>4, <3>5
  <2> QED
    BY <2>1, <2>2
<1>7. ASSUME failed' = 0, NEW f \in DOMAIN files, f[1] \in windowed', NEW w
      PROVE  SameWindow(f, w)'
  <2> DEFINE x == NameOf(f, w)
             split == SplitByWindow(files[f])
  <2>0. f = <<f[1], f[2], f[3]>>
    <3>1. f \in Names
      BY DEF PipelineTyped, Pcaps
    <3> QED
      BY <3>1 DEF Names
  <2>1. x[1] = f[1] /\ \A g : g = <<g[1], g[2], g[3]>> /\ NameOf(g, w) = x => g = f
    <3> SUFFICES ASSUME NEW g, g = <<g[1], g[2], g[3]>>, NameOf(g, w) = x PROVE g = f /\ x[1] = f[1]
      BY DEF NameOf
    <3>1. g[1] = f[1] /\ g[2] = f[2] /\ g[3] = f[3] /\ x[1] = f[1]
      BY DEF NameOf
    <3> QED
      BY <2>0, <3>1, Zenon
  <2> SUFFICES (x \in DOMAIN windows' <=> w \in DOMAIN split)
               /\ (w \in DOMAIN split => windows'[x] = split[w])
    BY <1>3 DEF SameWindow, NameOf
  <2>2. CASE f[1] \in windowed
    <3>1. (x \in DOMAIN windows <=> w \in DOMAIN split)
          /\ (w \in DOMAIN split => windows[x] = split[w])
      BY <1>4, <1>7, <2>2 DEF SplitsKept, SameWindow
    <3>2. x \in DOMAIN windows' => x \in DOMAIN windows
      <4> SUFFICES ASSUME x \in DOMAIN windows', x \notin DOMAIN windows PROVE FALSE
        OBVIOUS
      <4>0. x \in DOMAIN windows' /\ x \notin DOMAIN windows
        OBVIOUS
      <4>1. PICK i \in 1 .. j : \E y : x = NameOf(src[i], y)
        <5> HIDE DEF x
        <5>1. \A g \in DOMAIN windows' :
                g \in DOMAIN windows
                \/ \E i \in 1 .. j : \E y \in DOMAIN SplitByWindow(read[i]) :
                     g = NameOf(src[i], y) /\ windows'[g] = SplitByWindow(read[i])[y]
          BY <1>1 DEF MadeOf
        <5>2. PICK i \in 1 .. j : \E y \in DOMAIN SplitByWindow(read[i]) :
                x = NameOf(src[i], y) /\ windows'[x] = SplitByWindow(read[i])[y]
          BY <4>0, <5>1
        <5> QED
          BY <5>2
      <4>2. x[1] = src[i][1]
        BY <4>1 DEF NameOf
      <4> QED
        BY <1>3, <1>5, <2>1, <2>2, <4>2
    <3> HIDE DEF x, split
    <3> QED
      BY <1>1, <3>1, <3>2 DEF MadeOf
  <2>3. CASE f[1] \notin windowed
    <3>1. f[1] = user
      BY <1>3, <1>7, <2>3
    <3>2. j = Len(src) /\ \A i \in 1 .. j : read[i] = files[src[i]] /\ src[i] \in DOMAIN files
      BY <1>1, <1>4, <1>7 DEF MadeOf
    <3>3. PICK i \in 1 .. j : src[i] = f
      BY <1>2, <1>5, <3>1, <3>2
    <3>4. x \notin DOMAIN windows
      BY <2>1, <2>3 DEF SplitsKept
    <3>5. w \in DOMAIN split => x \in DOMAIN windows'
      BY <1>1, <3>2, <3>3 DEF MadeOf
    <3>6. ASSUME x \in DOMAIN windows' PROVE w \in DOMAIN split /\ windows'[x] = split[w]
      <4>1. PICK l \in 1 .. j : \E y \in DOMAIN SplitByWindow(read[l]) :
                x = NameOf(src[l], y) /\ windows'[x] = SplitByWindow(read[l])[y]
        BY <1>1, <3>4, <3>6 DEF MadeOf
      <4>2. PICK y \in DOMAIN SplitByWindow(read[l]) :
                x = NameOf(src[l], y) /\ windows'[x] = SplitByWindow(read[l])[y]
        BY <4>1
      <4>3. y = w /\ NameOf(src[l], w) = x
        BY <4>2 DEF NameOf
      <4>4. src[l] = <<src[l][1], src[l][2], src[l][3]>>
        <5>1. src[l] \in Names
          BY <3>2 DEF PipelineTyped, Pcaps
        <5> QED
          BY <5>1 DEF Names
      <4>5. src[l] = f
        BY <2>1, <4>3, <4>4
      <4> QED
        BY <3>2, <4>2, <4>3, <4>5
    <3> QED
      BY <3>5, <3>6
  <2> QED
    BY <2>2, <2>3
<1>8. failed' = 0 => \A i \in cut' : AllSplit(i)'
  BY <1>3, <1>4 DEF SplitsKept, AllSplit
<1> QED
  BY <1>3, <1>4, <1>6, <1>7, <1>8 DEF SplitsKept

\* The first stage keeps what the splits keep.
LEMMA SplitCaptureKept ==
  ASSUME PipelineTyped, SplitsKept, NEW i \in DOMAIN captures, NEW k \in 0 .. Len(captures[i]),
         SplitCapture(i, k)
  PROVE  SplitsKept'
<1> DEFINE cap == captures[i]
           split == SplitByIp(Prefix(cap, k))
<1>1. cap \in Seq(Packet) /\ Len(cap) \in Nat
  BY DEF PipelineTyped
<1>2. /\ Prefix(cap, k) \in Seq(Packet) /\ (InOrder(cap) => InOrder(Prefix(cap, k)))
      /\ k = Len(cap) => Prefix(cap, k) = cap
  <2>1. k \in 0 .. Len(cap)
    OBVIOUS
  <2> HIDE DEF cap
  <2> QED
    BY <1>1, <2>1, PrefixOrdered
<1>3. Pcaps(split, Keys)
  BY <1>2, SplitByIpTyped
<1>4. /\ files' = [f \in DOMAIN files \cup {<<u[1], u[2], i>> : u \in DOMAIN split} |->
                    IF f \in DOMAIN files THEN files[f] ELSE split[<<f[1], f[2]>>]]
      /\ UNCHANGED <<captures, windowed, windows, next, rows>>
      /\ i \notin cut /\ cut' = cut \cup {i}
  BY DEF SplitCapture
<1>5. failed' \in Nat /\ (failed' = 0 => failed = 0 /\ k = Len(cap))
  <2>1. failed' = failed + (IF k < Len(captures[i]) THEN 1 ELSE 0) /\ failed \in Nat
    BY DEF SplitCapture, Fails, SplitsKept
  <2>2. k \in Nat /\ k <= Len(cap)
    BY <1>1
  <2> QED
    BY <1>1, <2>1, <2>2
<1>6. windowed = {} /\ DOMAIN windows = {}
  BY <1>4 DEF SplitsKept
<1> HIDE DEF split
<1>7. ASSUME NEW u \in DOMAIN split
      PROVE  u = <<u[1], u[2]>> /\ u[1] \in Internal /\ u[2] \in Directions
             /\ <<u[1], u[2], i>> \in DOMAIN files' /\ <<u[1], u[2], i>> \notin DOMAIN files
             /\ files'[<<u[1], u[2], i>>] = split[u]
  <2>1. u = <<u[1], u[2]>> /\ u[1] \in Internal /\ u[2] \in Directions
    BY <1>3 DEF Pcaps, Keys
  <2> DEFINE x == <<u[1], u[2], i>>
  <2>2. x \in DOMAIN files' /\ x[3] = i /\ <<x[1], x[2]>> = u
    BY <1>4, <2>1
  <2>3. x \notin DOMAIN files
    BY <1>4, <2>2 DEF SplitsKept
  <2>4. files'[x] = split[<<x[1], x[2]>>]
    <3> HIDE DEF x
    <3> QED
      BY <1>4, <2>2, <2>3
  <2> QED
    BY <2>1, <2>2, <2>3, <2>4
<1>8. \A f \in DOMAIN files : f \in DOMAIN files' /\ files'[f] = files[f]
  BY <1>4
<1>9. ASSUME NEW f \in DOMAIN files'
      PROVE  f[3] \in cut' /\ (InOrder(captures[f[3]]) => InOrder(files'[f]))
  <2>1. CASE f \in DOMAIN files
    BY <1>4, <1>8, <2>1 DEF SplitsKept
  <2>2. CASE f \notin DOMAIN files
    <3>1. PICK u \in DOMAIN split : f = <<u[1], u[2], i>>
      BY <1>4, <1>9, <2>2
    <3>2. f[3] = i /\ files'[f] = split[u] /\ u = <<u[1], u[2]>> /\ u[1] \in Internal
          /\ u[2] \in Directions
      BY <1>7, <3>1
    <3>3. FileOf(split, u) = split[u]
      BY DEF FileOf
    <3>4. InOrder(Prefix(cap, k)) => InOrder(FileOf(split, <<u[1], u[2]>>))
      <4> DEFINE a == u[1]
                 b == u[2]
      <4>1. a \in Internal /\ b \in Directions
        BY <3>2
      <4> HIDE DEF a, b
      <4>2. InOrder(Prefix(cap, k)) => InOrder(FileOf(split, <<a, b>>))
        BY <1>2, <4>1, SplitByIpKeeps DEF split
      <4> QED
        BY <4>2 DEF a, b
    <3>5. InOrder(captures[f[3]]) => InOrder(files'[f])
      BY <1>2, <3>2, <3>3, <3>4
    <3> QED
      BY <1>4, <3>2, <3>5
  <2> QED
    BY <2>1, <2>2
<1>10. ASSUME failed' = 0, NEW c \in cut' PROVE AllSplit(c)'
  <2> SUFFICES ASSUME NEW u \in Internal, NEW d \in Directions
               PROVE  FileOf(files', <<u, d, c>>) = FileOf(SplitByIp(captures[c]), <<u, d>>)
    BY <1>4 DEF AllSplit
  <2> DEFINE x == <<u, d, c>>
             y == <<u, d>>
  <2>0. x[3] = c /\ x = <<y[1], y[2], c>>
    OBVIOUS
  <2>1. CASE c # i
    <3>1. FileOf(files, x) = FileOf(SplitByIp(captures[c]), y)
      <4>1. AllSplit(c)
        BY <1>4, <1>5, <1>10, <2>1 DEF SplitsKept
      <4> QED
        BY <4>1 DEF AllSplit
    <3>2. x \in DOMAIN files' => x \in DOMAIN files
      <4> SUFFICES ASSUME x \in DOMAIN files', x \notin DOMAIN files PROVE FALSE
        OBVIOUS
      <4>0. x \in DOMAIN files' /\ x \notin DOMAIN files
        OBVIOUS
      <4> HIDE DEF x
      <4>1. PICK v \in DOMAIN split : x = <<v[1], v[2], i>>
        BY <1>4, <4>0
      <4>2. x[3] = i
        BY <4>1
      <4> QED
        BY <2>0, <2>1, <4>2
    <3> HIDE DEF x, y
    <3>3. FileOf(files', x) = FileOf(files, x)
      BY <1>8, <3>2 DEF FileOf
    <3> QED
      BY <3>1, <3>3 DEF x, y
  <2>2. CASE c = i
    <3>1. split = SplitByIp(captures[c])
      BY <1>2, <1>5, <1>10, <2>2 DEF split
    <3>2. x \notin DOMAIN files
      BY <1>4, <2>0, <2>2 DEF SplitsKept
    <3>3. x \in DOMAIN files' => y \in DOMAIN split
      <4> SUFFICES ASSUME x \in DOMAIN files' PROVE y \in DOMAIN split
        OBVIOUS
      <4>1. PICK v \in DOMAIN split : x = <<v[1], v[2], i>>
        <5>0. x \in DOMAIN files'
          OBVIOUS
        <5> HIDE DEF x
        <5> QED
          BY <1>4, <3>2, <5>0
      <4>2. v[1] = u /\ v[2] = d /\ v = <<v[1], v[2]>>
        BY <1>7, <4>1
      <4> QED
        BY <4>2
    <3>4. y \in DOMAIN split => x \in DOMAIN files' /\ files'[x] = split[y]
      <4> SUFFICES ASSUME y \in DOMAIN split PROVE x \in DOMAIN files' /\ files'[x] = split[y]
        OBVIOUS
      <4> HIDE DEF y
      <4>1. <<y[1], y[2], i>> \in DOMAIN files' /\ files'[<<y[1], y[2], i>>] = split[y]
        BY <1>7
      <4> HIDE DEF x
      <4> QED
        BY <2>0, <2>2, <4>1
    <3> HIDE DEF x, y
    <3>5. FileOf(files', x) = FileOf(split, y)
      BY <3>3, <3>4 DEF FileOf
    <3> QED
      BY <3>1, <3>5 DEF x, y
  <2> QED
    BY <2>1, <2>2
<1> QED
  BY <1>4, <1>5, <1>6, <1>9, <1>10 DEF SplitsKept

\* It is kept as long as nothing is split.
LEMMA SplitsStay ==
  ASSUME SplitsKept, UNCHANGED <<captures, cut, files, windowed, windows>>,
         failed' \in Nat, failed' = 0 => failed = 0
  PROVE  SplitsKept'
<1>1. \A i : AllSplit(i)' = AllSplit(i)
  BY DEF AllSplit
<1>2. \A f, w : SameWindow(f, w)' = SameWindow(f, w)
  BY DEF SameWindow
<1> QED
  BY <1>1, <1>2 DEF SplitsKept

\* SplitsKept is an invariant.
LEMMA SplitsInvariance == Spec => []SplitsKept
<1>1. Init => SplitsKept
  BY DEF Init, NoFiles, SplitsKept
<1>2. PipelineTyped /\ SplitsKept /\ [Next]_vars => SplitsKept'
  <2> SUFFICES ASSUME PipelineTyped, SplitsKept, [Next]_vars PROVE SplitsKept'
    OBVIOUS
  <2>0. failed \in Nat
    BY DEF SplitsKept
  <2>1. ASSUME NEW i \in DOMAIN captures, NEW k \in 0 .. Len(captures[i]), SplitCapture(i, k)
        PROVE  SplitsKept'
    BY <2>1, SplitCaptureKept
  <2>2. ASSUME NEW u \in Users, NEW j \in DOMAIN SourcesOf(u),
               NEW k \in 0 .. Len(files[SourcesOf(u)[j]]), SplitUser(u, j, k)
        PROVE  SplitsKept'
    BY <2>2, SplitUserKept
  <2>3. ASSUME NEW lost \in SUBSET Users, StoreWindow(lost) PROVE SplitsKept'
    <3>1. IsFiniteSet(lost) /\ Cardinality(lost) \in Nat
      BY FinitelyMany, FS_Subset, FS_CardinalityType
    <3>2. failed' = failed + Cardinality(lost)
          /\ UNCHANGED <<captures, cut, files, windowed, windows>>
      BY <2>3 DEF StoreWindow
    <3> QED
      BY <2>0, <3>1, <3>2, SplitsStay
  <2>4. CASE Finish
    BY <2>0, <2>4, SplitsStay DEF Finish
  <2>5. ASSUME NEW net, NEW w, NEW rate, NEW bin, Transform(net, w, rate, bin) PROVE SplitsKept'
    BY <2>0, <2>5, SplitsStay DEF Transform
  <2>6. ASSUME NEW net, NEW from, NEW to, NEW bad, Merge(net, from, to, bad) PROVE SplitsKept'
    <3>1. UNCHANGED <<captures, cut, files, windowed, windows>>
          /\ failed' = failed + (IF bad = "none" THEN 0 ELSE 1)
      BY <2>6 DEF Merge
    <3> QED
      BY <2>0, <3>1, SplitsStay
  <2>7. ASSUME NEW u, NEW i, LoadPcap(u, i) PROVE SplitsKept'
    BY <2>0, <2>7, SplitsStay DEF LoadPcap
  <2>8. CASE UNCHANGED vars
    BY <2>0, <2>8, SplitsStay DEF vars
  <2> QED
    BY <2>1, <2>2, <2>3, <2>4, <2>5, <2>6, <2>7, <2>8 DEF Next
<1> QED
  BY <1>1, <1>2, PipelineInvariance, PTL DEF Spec

\* Of one capture, the series of a user is that of the user's window.
LEMMA SeriesOfOne ==
  ASSUME PipelineTyped, Len(captures) = 1, NEW u, NEW d, NEW w
  PROVE  SeriesOf(u, d, w) = IF <<u, d, 1, w>> \in DOMAIN windows
                             THEN Series(windows[<<u, d, 1, w>>], WindowLen) ELSE NoBytes
<1> DEFINE stems == {i \in DOMAIN captures : <<u, d, i, w>> \in DOMAIN windows}
<1>1. DOMAIN captures = {1}
  <2>1. DOMAIN captures = 1 .. 1
    BY DEF PipelineTyped
  <2> QED
    BY <2>1
<1>2. SeriesOf(u, d, w) = IF stems = {} THEN NoBytes
                          ELSE Series(windows[<<u, d, Min(stems), w>>], WindowLen)
  BY DEF SeriesOf, NoBytes
<1>3. stems = IF <<u, d, 1, w>> \in DOMAIN windows THEN {1} ELSE {}
  BY <1>1
<1>4. Min({1}) = 1
  <2> DEFINE N == {}
  <2>1. N \in SUBSET Nat /\ 1 \in Nat /\ \A x \in N : x < 1
    OBVIOUS
  <2>2. N = {} /\ N \cup {1} = {1}
    OBVIOUS
  <2> HIDE DEF N
  <2>3. Min(N \cup {1}) = 1
    BY <2>1, <2>2, LeastStays
  <2> QED
    BY <2>2, <2>3
<1> HIDE DEF stems
<1> QED
  BY <1>2, <1>3, <1>4

\* The second half of RowsAddUp: the bytes of a user's window, in the bins and past them.
RowTotal(u, d, w) ==
  IF <<Leaf(u), w>> \in DOMAIN rows THEN Total(rows[<<Leaf(u), w>>].series[d]) ELSE 0
Counted(u, d, w) == BytesPastBins(u, d, w) + RowTotal(u, d, w)

\* Of one capture in order, with no failure, the rows add up to it.
LEMMA BytesAddUp ==
  ASSUME PipelineTyped, PipelineStaged, RowsFit, SplitsKept, extracted, failed = 0, OneCapture,
         NEW u \in Internal, NEW d \in Directions
  PROVE  BytesAt(captures[1], Owned(u, d)) =
           Total([w \in 1 .. MaxWindow |-> Counted(u, d, w)])
<1> DEFINE cap == captures[1]
           key == <<u, d, 1>>
           v == [w \in 1 .. MaxWindow |-> Counted(u, d, w)]
<1>1. Len(captures) = 1 /\ InOrder(cap) /\ cap \in Seq(Packet) /\ 1 \in DOMAIN captures
  BY DEF OneCapture, PipelineTyped
<1>2. cut = DOMAIN captures /\ windowed = Users /\ next > MaxWindow /\ MaxWindow \in Nat
      /\ next \in Nat
  BY MaxWindowNat DEF PipelineStaged
<1>3. \A w \in 1 .. MaxWindow : Kept(w) = Users
  <2>1. \A w \in 1 .. MaxWindow : w \in 1 .. next - 1
    BY <1>2
  <2> QED
    BY <2>1 DEF RowsFit
<1>4. BytesAt(cap, Owned(u, d)) = BytesOf(FileOf(files, key))
  <2>1. FileOf(files, key) = FileOf(SplitByIp(cap), <<u, d>>)
    <3>1. AllSplit(1)
      BY <1>1, <1>2 DEF SplitsKept
    <3> QED
      BY <3>1 DEF AllSplit
  <2>2. BytesOf(FileOf(SplitByIp(cap), <<u, d>>)) =
          BytesAt(cap, {k \in DOMAIN cap : EndOf(cap[k], d) = u})
    <3> HIDE DEF cap
    <3> QED
      BY <1>1, SplitByIpKeeps
  <2>3. Owned(u, d) = {k \in DOMAIN cap : EndOf(cap[k], d) = u}
    BY DEF Owned, EndOf
  <2> QED
    BY <2>1, <2>2, <2>3, Zenon
<1>5. IsFiniteSet(1 .. MaxWindow)
  BY <1>2, FS_Interval
<1>6. \A w \in 1 .. MaxWindow :
        RowTotal(u, d, w) = IF u \in Users THEN Total(SeriesOf(u, d, w)) ELSE RowTotal(u, d, w)
  <2> SUFFICES ASSUME NEW w \in 1 .. MaxWindow, u \in Users
               PROVE  RowTotal(u, d, w) = Total(SeriesOf(u, d, w))
    OBVIOUS
  <2>1. <<Leaf(u), w>> \in DOMAIN rows
    BY <1>3 DEF Kept
  <2>2. OwnSeries(w)
    <3> DEFINE r == <<Leaf(u), w>>
    <3>1. r \in DOMAIN rows /\ r[2] = w
      BY <2>1
    <3> HIDE DEF r
    <3> QED
      BY <3>1 DEF RowsFit
  <2>3. rows[<<Leaf(u), w>>].series[d] = SeriesOf(u, d, w)
    BY <1>3, <2>2 DEF OwnSeries
  <2> QED
    BY <2>1, <2>3 DEF RowTotal
<1>7. ASSUME u \in Users, NEW w \in 1 .. MaxWindow
      PROVE  Counted(u, d, w) = IF <<u, d, 1, w>> \in DOMAIN windows
                                THEN BytesOf(windows[<<u, d, 1, w>>]) ELSE 0
  <2> DEFINE x == <<u, d, 1, w>>
             file == windows[x]
  <2>1. RowTotal(u, d, w) = Total(SeriesOf(u, d, w))
    BY <1>6, <1>7
  <2>2. SeriesOf(u, d, w) = IF x \in DOMAIN windows THEN Series(file, WindowLen) ELSE NoBytes
    BY <1>1, SeriesOfOne
  <2>3. x[3] = 1
    OBVIOUS
  <2>4. BytesPastBins(u, d, w) = IF x \in DOMAIN windows THEN BytesAt(file, PastBins(file)) ELSE 0
    BY Zenon DEF BytesPastBins
  <2> HIDE DEF x, file
  <2>5. ASSUME x \in DOMAIN windows
        PROVE  /\ Total(Series(file, WindowLen)) + BytesAt(file, PastBins(file)) = BytesOf(file)
               /\ Total(Series(file, WindowLen)) \in Nat /\ BytesAt(file, PastBins(file)) \in Nat
    <3>1. WinGood(file)
      BY <1>1, <2>3, <2>5 DEF SplitsKept, file
    <3> QED
      BY <3>1, SeriesAddsUp
  <2>6. CASE x \in DOMAIN windows
    <3>1. RowTotal(u, d, w) = Total(Series(file, WindowLen))
          /\ BytesPastBins(u, d, w) = BytesAt(file, PastBins(file))
      BY <2>1, <2>2, <2>4, <2>6, Zenon
    <3>2. Counted(u, d, w) = BytesOf(file)
      BY <2>5, <2>6, <3>1 DEF Counted
    <3> QED
      BY <2>6, <3>2 DEF x, file
  <2>7. CASE x \notin DOMAIN windows
    <3>1. RowTotal(u, d, w) = 0 /\ BytesPastBins(u, d, w) = 0
      BY <2>1, <2>2, <2>4, <2>7, NoBytesTotal, Zenon
    <3>2. Counted(u, d, w) = 0
      BY <3>1 DEF Counted
    <3> QED
      BY <2>7, <3>2 DEF x
  <2> QED
    BY <2>6, <2>7
<1>8. ASSUME NEW w, <<u, d, 1, w>> \in DOMAIN windows PROVE key \in DOMAIN files
  <2> DEFINE x == <<u, d, 1, w>>
  <2>1. x \in WindowNames(files) /\ x[1] = u /\ x[2] = d /\ x[3] = 1
    BY <1>8 DEF PipelineStaged
  <2> HIDE DEF x
  <2>2. PICK k \in DOMAIN files : \E n : x = <<k[1], k[2], k[3], n>>
    BY <2>1 DEF WindowNames
  <2>3. k[1] = u /\ k[2] = d /\ k[3] = 1
    BY <2>1, <2>2
  <2>4. k = <<k[1], k[2], k[3]>>
    <3>1. k \in Names
      BY DEF PipelineTyped, Pcaps
    <3> QED
      BY <3>1 DEF Names
  <2> QED
    BY <2>3, <2>4
<1> HIDE DEF cap
<1>9. CASE key \notin DOMAIN files
  <2>1. BytesOf(FileOf(files, key)) = 0
    BY <1>9, NothingOrdered DEF FileOf
  <2>2. \A w \in 1 .. MaxWindow : Counted(u, d, w) = 0
    <3> SUFFICES ASSUME NEW w \in 1 .. MaxWindow PROVE Counted(u, d, w) = 0
      OBVIOUS
    <3>1. CASE u \in Users
      BY <1>7, <1>8, <1>9, <3>1
    <3>2. CASE u \notin Users
      <4>1. u \notin Kept(w)
        BY <1>3, <3>2
      <4>2. <<Leaf(u), w>> \notin DOMAIN rows
        <5> SUFFICES ASSUME <<Leaf(u), w>> \in DOMAIN rows PROVE FALSE
          OBVIOUS
        <5> DEFINE r == <<Leaf(u), w>>
        <5>0. r \in DOMAIN rows /\ r[1] = Leaf(u) /\ r[2] = w
          OBVIOUS
        <5> HIDE DEF r
        <5>1. RowSums(r)
          BY <5>0 DEF RowsFit
        <5>2. PICK x \in Kept(w) : Leaf(u) = SuperNet(Leaf(x), Leaf(u).len)
          BY <5>0, <5>1 DEF RowSums
        <5>3. AddrBits \in 0 .. AddrBits
          BY CtpAssumption
        <5>4. Users \subseteq Nat
          <6>1. Users \in SUBSET Users /\ w \in Nat
            OBVIOUS
          <6> QED
            BY <6>1, LeavesMade
        <5>5. u \in Nat
          <6>1. AddrBits \in Nat /\ 2 ^ AddrBits \in Nat
            BY CtpAssumption, PowPos
          <6> QED
            BY <6>1, CtpAssumption DEF Address
        <5>6. x \in Nat
          BY <5>4 DEF Kept
        <5>7. \A y \in Nat : Leaf(y) = [len |-> AddrBits, top |-> y]
                             /\ SuperNet(Leaf(y), AddrBits) = Leaf(y)
          BY <5>3, NetworksNest
        <5>8. Leaf(u).len = AddrBits /\ Leaf(u).top = u /\ Leaf(x).top = x
          BY <5>5, <5>6, <5>7
        <5>9. Leaf(u) = Leaf(x)
          BY <5>2, <5>6, <5>7, <5>8
        <5>10. u = x
          BY <5>8, <5>9
        <5> QED
          BY <4>1, <5>10
      <4>3. RowTotal(u, d, w) = 0
        BY <4>2 DEF RowTotal
      <4>4. BytesPastBins(u, d, w) = 0
        <5>1. <<u, d, 1, w>> \notin DOMAIN windows
          BY <1>8, <1>9
        <5> QED
          BY <5>1 DEF BytesPastBins
      <4> QED
        BY <4>3, <4>4 DEF Counted
    <3> QED
      BY <3>1, <3>2
  <2>3. IsFiniteSet(DOMAIN v) /\ \A w \in DOMAIN v : v[w] = 0
    BY <1>5, <2>2
  <2> HIDE DEF v
  <2>4. Total(v) = 0
    BY <2>3, TotalZero
  <2> QED
    BY <1>4, <2>1, <2>4 DEF v, cap
<1>10. CASE key \in DOMAIN files
  <2> DEFINE file == files[key]
             split == SplitByWindow(file)
             W == DOMAIN split
             g == [w \in W |-> BytesOf(split[w])]
             z == [w \in (1 .. MaxWindow) \ W |-> 0]
  <2>1. u \in Users
    <3>1. key[1] = u
      OBVIOUS
    <3> QED
      BY <1>10, <3>1 DEF Users
  <2>2. file \in Seq(Packet) /\ InOrder(file)
    <3>1. key[3] = 1
      OBVIOUS
    <3> HIDE DEF key
    <3> QED
      BY <1>1, <1>10, <3>1 DEF PipelineTyped, Pcaps, SplitsKept, cap
  <2>3. Summable(g) /\ Total(g) = BytesOf(file) /\ DOMAIN g = W
    <3> HIDE DEF file
    <3> QED
      BY <2>2, WindowsAddUp
  <2>4. ASSUME NEW w
        PROVE  /\ <<u, d, 1, w>> \in DOMAIN windows <=> w \in W
               /\ w \in W => windows[<<u, d, 1, w>>] = split[w]
    <3>1. SameWindow(key, w)
      <4>1. key[1] \in windowed
        BY <1>2, <2>1
      <4> HIDE DEF key
      <4> QED
        BY <1>10, <4>1 DEF SplitsKept
    <3>2. NameOf(key, w) = <<u, d, 1, w>>
      BY DEF NameOf
    <3> QED
      BY <3>1, <3>2 DEF SameWindow
  <2>5. W \subseteq 1 .. MaxWindow
    <3> SUFFICES ASSUME NEW w \in W PROVE w \in 1 .. MaxWindow
      OBVIOUS
    <3> DEFINE x == <<u, d, 1, w>>
    <3>1. x \in DOMAIN windows /\ x[4] = w
      BY <2>4
    <3>2. IsFiniteSet(DOMAIN windows) /\ \A k \in DOMAIN windows : k[4] \in Nat \ {0}
      BY DEF PipelineStaged, WindowNames
    <3> HIDE DEF x
    <3>3. w <= MaxWindow /\ w \in Nat \ {0}
      BY <3>1, <3>2, LastWindow DEF MaxWindow
    <3> QED
      BY <1>2, <3>3
  <2>6. \A w \in W : v[w] = g[w]
    <3> SUFFICES ASSUME NEW w \in W PROVE v[w] = g[w]
      OBVIOUS
    <3>1. w \in 1 .. MaxWindow
      BY <2>5
    <3>2. Counted(u, d, w) = BytesOf(split[w])
      BY <1>7, <2>1, <2>4, <3>1
    <3> HIDE DEF split
    <3> QED
      BY <3>1, <3>2
  <2>7. \A w \in DOMAIN z : v[w] = z[w]
    <3> SUFFICES ASSUME NEW w \in (1 .. MaxWindow) \ W PROVE v[w] = 0
      OBVIOUS
    <3>1. Counted(u, d, w) = 0
      BY <1>7, <2>1, <2>4
    <3> QED
      BY <3>1
  <2>8. DOMAIN v = 1 .. MaxWindow /\ DOMAIN z = (1 .. MaxWindow) \ W /\ \A w \in DOMAIN z : z[w] = 0
    OBVIOUS
  <2> HIDE DEF v, g, z, W, file, split
  <2>9. IsFiniteSet(DOMAIN z)
    BY <1>5, <2>8, FS_Subset
  <2>10. Summable(z) /\ Total(z) = 0
    BY <2>8, <2>9, TotalZero
  <2>11. Summable(v)
    <3>1. \A w \in DOMAIN v : w \in DOMAIN g \/ w \in DOMAIN z
      BY <2>3, <2>8
    <3>2. \A w \in DOMAIN v : v[w] \in Nat
      BY <2>3, <2>6, <2>7, <2>10, <3>1 DEF Summable
    <3> QED
      BY <1>5, <2>8, <3>2 DEF Summable
  <2>12. /\ DOMAIN v = DOMAIN g \cup DOMAIN z /\ DOMAIN g \cap DOMAIN z = {}
         /\ (\A w \in DOMAIN g : g[w] = v[w]) /\ (\A w \in DOMAIN z : z[w] = v[w])
    BY <2>3, <2>5, <2>6, <2>7, <2>8
  <2>13. Total(v) = Total(g) + Total(z)
    BY <2>11, <2>12, TotalSplit
  <2>14. BytesOf(file) \in Nat
    <3>1. DOMAIN file \in SUBSET DOMAIN file
      OBVIOUS
    <3> QED
      BY <2>2, <3>1, BytesTyped DEF BytesOf
  <2>15. BytesOf(FileOf(files, key)) = BytesOf(file)
    BY <1>10 DEF FileOf, file
  <2>16. BytesAt(cap, Owned(u, d)) = Total(v)
    BY <1>4, <2>3, <2>10, <2>13, <2>14, <2>15
  <2> QED
    BY <2>16 DEF v, cap
<1> QED
  BY <1>9, <1>10

\* No byte is counted twice on the way from the capture to the tree, and of one
\* capture in order that no worker failed on only those past the last bin of a
\* window are left out, for any settings, whether or not the length of a bin
\* divides the window's (_aggregate_nodes, split_pcap_by_ip,
\* split_pcap_into_windows, build_timeseries_from_window).
THEOREM NoByteIsLost == Spec => []RowsAddUp
<1>1. PipelineTyped /\ PipelineStaged /\ RowsFit /\ SplitsKept => RowsAddUp
  <2> SUFFICES ASSUME PipelineTyped, PipelineStaged, RowsFit, SplitsKept PROVE RowsAddUp
    OBVIOUS
  <2>1. \A r \in DOMAIN rows :
          /\ rows[r].users = {u \in Users : <<Leaf(u), r[2]>> \in DOMAIN rows
                                             /\ SubNetOf(Leaf(u), r[1])}
          /\ \A d \in Directions, i \in Bins(WindowLen) :
               rows[r].series[d][i] =
                 Total([u \in rows[r].users |-> rows[<<Leaf(u), r[2]>>].series[d][i]])
    BY NodesAddUp
  <2>2. ASSUME extracted, failed = 0, OneCapture, NEW u \in Internal, NEW d \in Directions
        PROVE  BytesAt(captures[1], Owned(u, d)) =
                 Total([w \in 1 .. MaxWindow |->
                          BytesPastBins(u, d, w) +
                            IF <<Leaf(u), w>> \in DOMAIN rows
                            THEN Total(rows[<<Leaf(u), w>>].series[d]) ELSE 0])
    BY <2>2, BytesAddUp, Zenon DEF Counted, RowTotal
  <2> QED
    BY <2>1, <2>2, Zenon DEF RowsAddUp
<1> QED
  BY <1>1, PipelineInvariance, StagesInvariance, RowsInvariance, SplitsInvariance, PTL

\* A user's window in a direction, of one capture: it has a file or none.
OneFile(pcaps, u, d, w) ==
  /\ pcaps \in Seq(Seq(Packet))
  /\ IF <<u, d, 1, w>> \in DOMAIN windows
     THEN Len(pcaps) = 1 /\ pcaps[1] = windows[<<u, d, 1, w>>]
     ELSE pcaps = <<>>

\* FilesIn finds the one file of a user's window, or none.
LEMMA OneFileIn ==
  ASSUME PipelineTyped, Len(captures) = 1, NEW u, NEW d, NEW w \in Int
  PROVE  OneFile(FilesIn(u, d, {w}), u, d, w)
<1> DEFINE span == {w}
           Of(i) == {x \in span : <<u, d, i, x>> \in DOMAIN windows}
           Own(i) == [n \in 1 .. Cardinality(Of(i)) |-> windows[<<u, d, i, Nth(Of(i), n)>>]]
           all == [i \in DOMAIN captures |-> Own(i)]
           S == Of(1)
           own == Own(1)
           x == <<u, d, 1, w>>
<1>1. DOMAIN captures = 1 .. 1 /\ 1 \in {1}
  BY DEF PipelineTyped
<1>2. FilesIn(u, d, {w}) = FlattenSeq(all)
  BY Zenon DEF FilesIn
<1>3. all = [i \in 1 .. 1 |-> own]
  <2>1. \A i \in 1 .. 1 : i = 1
    OBVIOUS
  <2>2. \A i \in 1 .. 1 : Own(i) = own
    BY <2>1, Zenon
  <2> HIDE DEF Own, own
  <2> QED
    BY <1>1, <2>2
<1> HIDE DEF all
<1>4. S = IF x \in DOMAIN windows THEN {w} ELSE {}
  OBVIOUS
<1>5. own = [n \in 1 .. Cardinality(S) |-> windows[<<u, d, 1, Nth(S, n)>>]]
  BY Zenon
<1> HIDE DEF own, S, x
<1>6. CASE x \in DOMAIN windows
  <2>1. S = {w} /\ Cardinality(S) = 1 /\ IsFiniteSet(S) /\ S \in SUBSET Int
    <3>1. Cardinality({w}) = 1 /\ IsFiniteSet({w})
      BY FS_Singleton
    <3> QED
      BY <1>4, <1>6, <3>1
  <2>2. 1 \in 1 .. Cardinality(S) /\ Nth(S, 1) \in S
    BY <2>1, Ranks
  <2>3. Nth(S, 1) = w
    BY <2>1, <2>2
  <2>4. \A n \in 1 .. 1 : n = 1
    OBVIOUS
  <2>5. own = [n \in 1 .. 1 |-> windows[x]]
    BY <1>5, <2>1, <2>3, <2>4 DEF x
  <2>6. windows[x] \in Seq(Packet)
    BY <1>6 DEF PipelineTyped
  <2> DEFINE T == Seq(Packet)
             win == windows[x]
  <2>7. win \in T /\ own = [n \in 1 .. 1 |-> win]
    BY <2>5, <2>6
  <2> HIDE DEF T, win
  <2>8. own \in Seq(T) /\ Len(own) = 1 /\ own[1] = win
    BY <2>7
  <2>9. FlattenSeq(all) = own
    BY <1>1, <1>3, <2>8, OneFlat
  <2> QED
    BY <1>2, <1>6, <2>8, <2>9, Zenon DEF OneFile, T, win, x
<1>7. CASE x \notin DOMAIN windows
  <2>1. S = {} /\ Cardinality(S) = 0
    BY <1>4, <1>7, FS_EmptySet
  <2>2. 1 .. 0 = {}
    OBVIOUS
  <2>3. own = <<>>
    BY <1>5, <2>1, <2>2
  <2>4. <<>> \in Seq(Seq(Packet))
    OBVIOUS
  <2>5. FlattenSeq(all) = <<>>
    <3>1. own \in Seq(Seq(Packet))
      BY <2>3, <2>4, Zenon
    <3>2. FlattenSeq(all) = own
      BY <1>1, <1>3, <3>1, OneFlat
    <3> QED
      BY <2>3, <3>2
  <2> QED
    BY <1>2, <1>7, <2>4, <2>5, Zenon DEF OneFile, x
<1> QED
  BY <1>6, <1>7

\* The row of an address is that of a user, of no other and of all of them.
LEMMA OneLeaf ==
  ASSUME PipelineTyped, RowsFit, NEW r \in DOMAIN rows, r = <<r[1], r[2]>>, r[1].len = AddrBits
  PROVE  \E u \in Kept(r[2]) : /\ r[1] = Leaf(u) /\ LeavesOf(r[1], {r[2]}) = [n \in 1 .. 1 |-> u]
                               /\ \A d \in Directions : rows[r].series[d] = SeriesOf(u, d, r[2])
<1> DEFINE net == r[1]
           w == r[2]
<1>0. AddrBits \in 0 .. AddrBits
  BY CtpAssumption
<1>1. RowSums(r) /\ OwnSeries(w) /\ w \in Nat
  BY DEF RowsFit, PipelineTyped
<1>2. PICK u \in Kept(w) : net = SuperNet(Leaf(u), net.len)
  BY <1>1 DEF RowSums
<1>3. Users \in SUBSET Nat
  <2>1. Users \in SUBSET Users
    OBVIOUS
  <2> QED
    BY <1>1, <2>1, LeavesMade
<1>4. \A y \in Nat : Leaf(y) = [len |-> AddrBits, top |-> y]
                     /\ SuperNet(Leaf(y), AddrBits) = Leaf(y)
  BY <1>0, NetworksNest
<1>5. \A y \in Nat : Leaf(y).len = AddrBits /\ Leaf(y).top = y
  BY <1>4
<1>6. u \in Users /\ u \in Nat /\ <<Leaf(u), w>> \in DOMAIN rows
  BY <1>3 DEF Kept
<1>7. net = Leaf(u)
  BY <1>2, <1>4, <1>6
<1>8. Below(net, {w}) = {u}
  <2>1. ASSUME NEW v \in Users PROVE SubNetOf(Leaf(v), net) <=> v = u
    <3>1. v \in Nat
      BY <1>3
    <3>2. SubNetOf(Leaf(v), net) <=> Leaf(v) = Leaf(u)
      BY <1>0, <1>4, <1>5, <1>6, <1>7, <3>1 DEF SubNetOf
    <3>3. Leaf(v) = Leaf(u) => v = u
      BY <1>5, <1>6, <3>1
    <3> QED
      BY <3>2, <3>3
  <2> HIDE DEF net, w
  <2> QED
    BY <1>6, <2>1 DEF Below
<1>9. LeavesOf(net, {w}) = [n \in 1 .. 1 |-> u]
  <2> DEFINE span == {w}
             B == Below(net, span)
             l == LeavesOf(net, span)
  <2>0. Below(net, span) \in SUBSET Nat /\ IsFiniteSet(Below(net, span))
    BY <1>6, <1>8, FS_Singleton
  <2>1. l = [n \in 1 .. Cardinality(B) |-> Nth(B, n)]
    BY Zenon DEF LeavesOf, Below
  <2>2. B = {u} /\ Cardinality(B) = 1
    BY <1>8, FS_Singleton
  <2>3. B \in SUBSET Int /\ IsFiniteSet(B) /\ 1 \in 1 .. Cardinality(B)
    BY <2>0, <2>2
  <2> HIDE DEF B, l
  <2>4. \A n \in 1 .. 1 : Nth(B, n) = u
    BY <2>2, <2>3, Ranks
  <2>5. l = [n \in 1 .. 1 |-> u]
    BY <2>1, <2>2, <2>4
  <2> QED
    BY <2>5 DEF l
<1>10. rows[r] = rows[<<Leaf(u), w>>]
  BY <1>7
<1>11. \A d \in Directions : rows[r].series[d] = SeriesOf(u, d, w)
  BY <1>1, <1>10 DEF OwnSeries
<1> QED
  BY <1>7, <1>9, <1>11

\* What is selected by its peak has no combined bin above it, and no bin of
\* one direction.
LEMMA SelectedBelow ==
  ASSUME NEW rate, NEW threshold \in Nat, threshold = rate * BinLen,
         NEW r \in Selected([peakMax |-> rate]),
         rows[r].series \in [Directions -> Amounts],
         NEW d \in Directions, NEW b \in Bins(WindowLen)
  PROVE  rows[r].series[d][b] <= threshold
<1> DEFINE query == [peakMax |-> rate]
           node == rows[r]
<1>1. Matches(r[1], r[2], node, query)
  BY DEF Selected
<1>2. DOMAIN query = {"peakMax"} /\ query.peakMax * BinLen = threshold
  OBVIOUS
<1>3. "peakMax" \in DOMAIN query /\ "direction" \notin DOMAIN query
  BY <1>2
<1> HIDE DEF query
<1>4. PeakOf(node, "both") <= threshold
  BY <1>1, <1>2, <1>3 DEF Matches
<1>5. Peak(Combined(node)) <= threshold
  BY <1>4 DEF PeakOf
<1>6. node.series["upload"] \in Amounts /\ node.series["download"] \in Amounts
  BY DEF Directions
<1> HIDE DEF node
<1>7. /\ Combined(node) \in Amounts
      /\ \A i \in Bins(WindowLen) :
           Combined(node)[i] = node.series["upload"][i] + node.series["download"][i]
  BY <1>6 DEF Combined, Amounts
<1>8. Combined(node)[b] <= Peak(Combined(node)) /\ Peak(Combined(node)) \in Nat
  BY <1>7, TotalIs
<1>9. node.series["upload"][b] \in Nat /\ node.series["download"][b] \in Nat
  BY <1>6 DEF Amounts
<1>10. d = "upload" \/ d = "download"
  BY DEF Directions
<1>11. node.series[d][b] <= threshold
  BY <1>5, <1>7, <1>8, <1>9, <1>10
<1> QED
  BY <1>11 DEF node

\* What is trimmed for an address, of one capture in order: its window, or nothing.
WindowFile(u, d, w) ==
  IF <<u, d, 1, w>> \in DOMAIN windows THEN windows[<<u, d, 1, w>>] ELSE <<>>

\* The window is joined, clipped and put in order as it is.
LEMMA ClippedIs ==
  ASSUME PipelineTyped, SplitsKept, OneCapture, NEW u, NEW a, NEW d, a.window \in Nat,
         LeavesOf(a.net, {a.window}) = [n \in 1 .. 1 |-> u]
  PROVE  /\ Clipped(a, d) = WindowFile(u, d, a.window)
         /\ WindowFile(u, d, a.window) = <<>> \/ WinGood(WindowFile(u, d, a.window))
<1> DEFINE w == a.window
           T == Seq(Packet)
           own == FilesIn(u, d, {w})
           joined == Joined(a.net, w, d)
           leaves == LeavesOf(a.net, {w})
           all == [i \in DOMAIN leaves |-> FilesIn(leaves[i], d, {w})]
           pcap == WindowFile(u, d, w)
           x == <<u, d, 1, w>>
<1>1. w \in Int /\ Len(captures) = 1 /\ InOrder(captures[1])
  BY DEF OneCapture
<1>2. OneFile(own, u, d, w)
  BY <1>1, OneFileIn
<1>3. joined = FlattenSeq(all)
  BY Zenon DEF Joined
<1>4. DOMAIN leaves = 1 .. 1 /\ \A i \in 1 .. 1 : leaves[i] = u
  OBVIOUS
<1>5. all = [i \in 1 .. 1 |-> own]
  <2> HIDE DEF leaves
  <2>1. \A i \in 1 .. 1 : FilesIn(leaves[i], d, {w}) = own
    BY <1>4, Zenon
  <2> QED
    BY <1>4, <2>1, Zenon
<1>6. own \in Seq(T)
  BY <1>2, Zenon DEF OneFile
<1> HIDE DEF all, own, T, joined
<1>7. joined = own
  <2>1. 1 \in {1}
    OBVIOUS
  <2> QED
    BY <1>3, <1>5, <1>6, <2>1, OneFlat
<1>8. pcap = <<>> \/ WinGood(pcap)
  <2>1. ASSUME x \in DOMAIN windows PROVE WinGood(windows[x])
    <3>1. x[3] = 1
      OBVIOUS
    <3> QED
      BY <1>1, <2>1, <3>1 DEF SplitsKept
  <2> QED
    BY <2>1, Zenon DEF WindowFile, x
<1>9. (Len(own) = 1 /\ own[1] = pcap) \/ (own = <<>> /\ pcap = <<>>)
  BY <1>2, Zenon DEF OneFile, WindowFile
<1> HIDE DEF pcap
<1>10. /\ pcap \in Seq(Packet) /\ InOrder(pcap)
       /\ \A i \in DOMAIN pcap : ~ (pcap[i].t - pcap[1].t > WindowLen)
  <2>1. CASE pcap = <<>>
    BY <2>1 DEF InOrder
  <2>2. CASE WinGood(pcap)
    <3>1. pcap \in Seq(Packet) /\ pcap # <<>> /\ InOrder(pcap)
          /\ \A j \in DOMAIN pcap : pcap[j].t - pcap[1].t < WindowLen
      BY <2>2 DEF WinGood
    <3>2. \A j \in DOMAIN pcap : pcap[j].t - pcap[1].t \in Int
      <4>1. \A j \in DOMAIN pcap : pcap[j].t \in Nat
        BY <3>1, Fields
      <4>2. 1 \in DOMAIN pcap
        BY <3>1
      <4> QED
        BY <4>1, <4>2
    <3> QED
      BY <3>1, <3>2, CtpAssumption
  <2> QED
    BY <1>8, <2>1, <2>2
<1>11. ByTime(Clip(JoinCap(own), WindowLen)) = pcap
  BY <1>6, <1>9, <1>10, JoinedAsIs DEF T
<1>12. Clipped(a, d) = pcap
  BY <1>7, <1>11, Zenon DEF Clipped, joined
<1> QED
  BY <1>8, <1>12 DEF pcap

\* A user's row selected for a peak no higher than the threshold comes out of
\* transform untrimmed, for any settings, rates and captures in order of time,
\* where the interval configured for trimming is the one of the extraction and
\* no packet of the window is past its last bin (peak_intensity_max_mbps,
\* trim_pcap_by_rate).  With a shorter interval it need not.
THEOREM SelectedComeUntrimmed == Spec => []SelectedUserIsUntrimmed
<1>1. PipelineTyped /\ PipelineStaged /\ RowsFit /\ SplitsKept /\ AnswerTrimmed
      => SelectedUserIsUntrimmed
  <2> SUFFICES ASSUME PipelineTyped, PipelineStaged, RowsFit, SplitsKept, AnswerTrimmed,
                      OfSelectedUser, answer.bin = BinLen, NEW d \in Directions,
                      PastBins(Clipped(answer, d)) = {}
               PROVE  answer.out[d] = Clipped(answer, d)
    BY Zenon DEF SelectedUserIsUntrimmed
  <2> DEFINE r == <<answer.net, answer.window>>
             w == answer.window
             rate == answer.rate
             threshold == answer.rate * answer.bin
             in == Clipped(answer, d)
  <2>0. /\ answer.op = "transform" /\ OneCapture /\ answer.net.len = AddrBits
        /\ r \in Selected([peakMax |-> rate])
    BY DEF OfSelectedUser
  <2>1. /\ r \in DOMAIN rows /\ w \in Nat /\ threshold \in Nat
        /\ answer.out[d] = Trim(in, threshold, BinLen) /\ Positive(BinLen)
    BY <2>0, CtpAssumption DEF AnswerTrimmed, Positive
  <2>2. r[1] = answer.net /\ r[2] = w /\ r = <<r[1], r[2]>>
    OBVIOUS
  <2> HIDE DEF r
  <2>3. PICK u \in Kept(w) : /\ LeavesOf(answer.net, {w}) = [n \in 1 .. 1 |-> u]
                             /\ \A dir \in Directions : rows[r].series[dir] = SeriesOf(u, dir, w)
    <3>1. r[1].len = AddrBits
      BY <2>0, <2>2
    <3>2. \E u \in Kept(r[2]) : /\ r[1] = Leaf(u) /\ LeavesOf(r[1], {r[2]}) = [n \in 1 .. 1 |-> u]
                                /\ \A dir \in Directions :
                                     rows[r].series[dir] = SeriesOf(u, dir, r[2])
      BY <2>1, <2>2, <3>1, OneLeaf
    <3> QED
      BY <2>2, <3>2, Zenon
  <2>4. in = WindowFile(u, d, w) /\ (in = <<>> \/ WinGood(in))
    <3> DEFINE a == answer
    <3>1. a.window \in Nat /\ LeavesOf(a.net, {a.window}) = [n \in 1 .. 1 |-> u]
      BY <2>1, <2>3
    <3> HIDE DEF a
    <3>2. /\ Clipped(a, d) = WindowFile(u, d, a.window)
          /\ WindowFile(u, d, a.window) = <<>> \/ WinGood(WindowFile(u, d, a.window))
      BY <2>0, <3>1, ClippedIs, Zenon
    <3> QED
      BY <3>2, Zenon DEF a
  <2>5. ASSUME WinGood(in) PROVE BinsBelow(BinLen, in, threshold)
    <3>1. in # <<>> /\ in \in Seq(Packet)
      BY <2>5 DEF WinGood
    <3>2. <<u, d, 1, w>> \in DOMAIN windows /\ in = windows[<<u, d, 1, w>>]
      BY <2>4, <3>1 DEF WindowFile
    <3>3. SeriesOf(u, d, w) = Series(in, WindowLen)
      BY <2>0, <3>2, SeriesOfOne DEF OneCapture
    <3>5. PastBins(in) = {}
      OBVIOUS
    <3> HIDE DEF in, w, threshold
    <3>4. ASSUME NEW b \in Bins(WindowLen)
          PROVE  BytesAt(in, InBin(BinLen, in, in[1].t, b)) <= threshold
      <4>1. rows[r].series[d][b] <= threshold
        <5>1. rows[r].series \in [Directions -> Amounts]
          BY <2>1 DEF PipelineTyped
        <5>2. r \in Selected([peakMax |-> rate]) /\ threshold = rate * BinLen
          BY <2>0 DEF threshold, rate
        <5> HIDE DEF rate
        <5> QED
          BY <2>1, <3>4, <5>1, <5>2, SelectedBelow
      <4>2. Series(in, WindowLen)[b] = BytesAt(in, InBin(BinLen, in, in[1].t, b))
        BY <3>1, <3>4, SeriesIs
      <4> QED
        BY <2>3, <3>3, <4>1, <4>2
    <3>6. \A j \in DOMAIN in : BinAt(BinLen, in[1].t, in[j]) \in Bins(WindowLen)
      BY <2>5, <3>5, InABin
    <3> QED
      BY <3>4, <3>6 DEF BinsBelow
  <2>6. Trim(in, threshold, BinLen) = in
    <3> HIDE DEF in, threshold
    <3>1. CASE in = <<>>
      BY <3>1, Zenon DEF Trim
    <3>2. CASE WinGood(in)
      BY <2>1, <2>5, <3>2, NothingTrimmed
    <3> QED
      BY <2>4, <3>1, <3>2
  <2> QED
    BY <2>1, <2>6
<1> QED
  BY <1>1, PipelineInvariance, StagesInvariance, RowsInvariance, SplitsInvariance,
     AnswersInvariance, PTL
=============================================================================
