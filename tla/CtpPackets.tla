----------------------------- MODULE CtpPackets -----------------------------
(***************************************************************************)
(* What ctp-service computes from packets, as operators: the split of a    *)
(* gateway capture by user and by time window, the byte series, the prefix *)
(* tree with its descriptors, selection, and the joining, clipping and     *)
(* trimming behind transform and merge (ctp-service/app/operations,        *)
(* pcap_utils.py).  A capture, a per-user file and a window file are       *)
(* sequences of packets; a packet is its time, its two addresses and its   *)
(* ip.len.  Frame padding changes none of these.  Times are whole numbers, *)
(* BinLen and WindowLen are settings of the extraction in the same unit, no *)
(* more related than the code makes them; an address has AddrBits bits (32 *)
(* in the code), and a network is a prefix of one.                         *)
(***************************************************************************)
EXTENDS Integers, Sequences, FiniteSets, FiniteSetsExt, SequencesExt

CONSTANTS
  AddrBits,      \* bits of an address
  TopPrefix,     \* top_prefix_len: the shortest prefix below the root
  Internal,      \* the addresses internal_subnets matches
  WindowLen,     \* window_duration_sec
  BinLen,        \* burst_interval_ms of the extraction
  MaxWriters,    \* _MAX_OPEN_WRITERS
  BatchSize      \* _JOINCAP_BATCH_SIZE

Address == 0 .. (2 ^ AddrBits - 1)

ASSUME CtpAssumption ==
  /\ AddrBits \in Nat \ {0} /\ TopPrefix \in 1 .. AddrBits
  /\ Internal \subseteq Address
  /\ WindowLen \in Nat \ {0} /\ BinLen \in Nat \ {0}
  /\ MaxWriters \in Nat \ {0} /\ BatchSize \in Nat \ {0}

Directions == {"download", "upload"}
Packet == [t : Nat, src : Address, dst : Address, len : Nat]

NoFiles == [k \in {} |-> <<>>]

\* The sum of a series, and of the packets at some positions of a file.
Total(series) == MapThenSumSet(LAMBDA i : series[i], DOMAIN series)
BytesAt(pcap, at) == Total([k \in at |-> pcap[k].len])

\* The n-th of a set of numbers, and the packets at a set of positions, in order.
Nth(set, n) == CHOOSE k \in set : Cardinality({j \in set : j <= k}) = n
Pick(pcap, at) == [n \in 1 .. Cardinality(at) |-> pcap[Nth(at, n)]]

(***************************************************************************)
(* Step 1, split by internal address.  The open writers are a cache in     *)
(* order of use; evicting one closes it, and the next packet of that user  *)
(* and direction opens the file again.                                     *)
(***************************************************************************)

\* What writing one packet does to the files and to the open writers.
WritePacket(s, key, p) ==
  LET held == IF key \in ToSet(s.open) THEN s.open
              ELSE IF Len(s.open) >= MaxWriters THEN Tail(s.open) ELSE s.open
      file == IF key \in DOMAIN s.files THEN s.files[key] ELSE <<>>
  IN [files |-> [k \in DOMAIN s.files \cup {key} |->
                   IF k = key THEN Append(file, p) ELSE s.files[k]],
      open  |-> Append(Remove(held, key), key)]

\* The per-user files of one capture: [<<user, direction>> -> packets].
SplitByIp(capture) ==
  LET Step(s, p) ==
        LET up == IF p.src \in Internal
                  THEN WritePacket(s, <<p.src, "upload">>, p) ELSE s
        IN IF p.dst \in Internal
           THEN WritePacket(up, <<p.dst, "download">>, p) ELSE up
  IN FoldLeft(Step, [files |-> NoFiles, open |-> <<>>], capture).files

(***************************************************************************)
(* Step 2, split by time.  Windows are counted from the file's own first   *)
(* packet; a packet of another window than the last one opens that         *)
(* window's file, and opening truncates it.                                *)
(***************************************************************************)
SplitByWindow(pcap) ==
  LET Step(s, p) ==
        LET w == (p.t - pcap[1].t) \div WindowLen + 1
        IN IF p.t < pcap[1].t THEN s
           ELSE [at    |-> w,
                 files |-> [k \in DOMAIN s.files \cup {w} |->
                              IF k # w THEN s.files[k]
                              ELSE IF w = s.at THEN Append(s.files[w], p)
                              ELSE <<p>>]]
  IN FoldLeft(Step, [at |-> 0, files |-> NoFiles], pcap).files

(***************************************************************************)
(* Step 3, the byte series of one file, in the bins that fit in a window,  *)
(* counted from its first packet.  Bytes past the last bin do not count.   *)
(***************************************************************************)
Bins(len) == 0 .. (len \div BinLen - 1)
Series(pcap, len) ==
  LET Step(ts, p) == LET bin == (p.t - pcap[1].t) \div BinLen
                     IN [i \in Bins(len) |-> IF i = bin THEN ts[i] + p.len ELSE ts[i]]
  IN FoldLeft(Step, [i \in Bins(len) |-> 0], pcap)

(***************************************************************************)
(* Step 4, the prefix tree.  A level is a function from networks to nodes; *)
(* a node has its two series and the users below it.                       *)
(***************************************************************************)
Network(addr, len) == [len |-> len, top |-> addr \div 2 ^ (AddrBits - len)]
Leaf(user) == Network(user, AddrBits)
SuperNet(net, len) == [len |-> len, top |-> net.top \div 2 ^ (net.len - len)]
SubNetOf(net, super) == net.len >= super.len /\ SuperNet(net, super.len) = super

\* A slip: the series of one child instead of the sum.
Aggregate_One(level, len) ==
  [net \in {SuperNet(n, len) : n \in DOMAIN level} |->
     LET kids == {n \in DOMAIN level : SuperNet(n, len) = net}
         one  == CHOOSE k \in kids : TRUE
     IN [series |-> level[one].series,
         users  |-> UNION {level[k].users : k \in kids}]]

\* The parents of a level, at prefix length len.
Aggregate(level, len) ==
  [net \in {SuperNet(n, len) : n \in DOMAIN level} |->
     LET kids == {n \in DOMAIN level : SuperNet(n, len) = net}
     IN [series |-> [d \in Directions |-> [i \in Bins(WindowLen) |->
                       Total([k \in kids |-> level[k].series[d][i]])]],
         users  |-> UNION {level[k].users : k \in kids}]]

\* Every node of the tree over the leaves, /AddrBits up to /TopPrefix and /0.
Tree(leaves) ==
  LET lens == [i \in 1 .. (AddrBits - TopPrefix) |-> AddrBits - i] \o <<0>>
      Step(s, len) == LET up == Aggregate(s.level, len)
                      IN [level |-> up,
                          all   |-> [n \in DOMAIN s.all \cup DOMAIN up |->
                                       IF n \in DOMAIN up THEN up[n] ELSE s.all[n]]]
  IN FoldLeft(Step, [level |-> leaves, all |-> leaves], lens).all

(***************************************************************************)
(* The descriptors of a node that are whole numbers.                       *)
(***************************************************************************)
Combined(node) ==
  [i \in Bins(WindowLen) |-> node.series["upload"][i] + node.series["download"][i]]
Peak(series) == Max({series[i] : i \in DOMAIN series} \cup {0})

\* A slip: an off bin does not end the on period.
OnOffPeriods_Sticky(series) ==
  LET n == Cardinality(DOMAIN series)
      Step(s, i) == LET on == series[i - 1] > 0
                    IN [prev |-> IF on \/ s.prev = "on" THEN "on" ELSE "off",
                        on   |-> s.on  + IF on  /\ s.prev # "on"  THEN 1 ELSE 0,
                        off  |-> s.off + IF ~on /\ s.prev # "off" THEN 1 ELSE 0]
  IN FoldLeft(Step, [prev |-> "none", on |-> 0, off |-> 0], [i \in 1 .. n |-> i])

\* _count_on_off_periods: a fold over the bins that remembers the last one.
OnOffPeriods(series) ==
  LET n == Cardinality(DOMAIN series)
      Step(s, i) == LET on == series[i - 1] > 0
                    IN [prev |-> IF on THEN "on" ELSE "off",
                        on   |-> s.on  + IF on  /\ s.prev # "on"  THEN 1 ELSE 0,
                        off  |-> s.off + IF ~on /\ s.prev # "off" THEN 1 ELSE 0]
  IN FoldLeft(Step, [prev |-> "none", on |-> 0, off |-> 0], [i \in 1 .. n |-> i])

\* compute_burstiness: a series without bytes has no periods, not an off one.
Burstiness(series) == IF Total(series) = 0 THEN [on |-> 0, off |-> 0]
                      ELSE [on |-> OnOffPeriods(series).on, off |-> OnOffPeriods(series).off]

Descriptors(node) ==
  [total |-> Total(Combined(node)), peak |-> Peak(Combined(node)),
   up    |-> Total(node.series["upload"]), down |-> Total(node.series["download"]),
   on    |-> Burstiness(Combined(node)).on,
   off   |-> Burstiness(Combined(node)).off,
   contributors |-> Cardinality(node.users)]

\* calculate_on_off_transitions: the bins that cross the burst size upwards.
OnTransitions(series, burst) ==
  {i \in DOMAIN series : series[i] >= burst /\ (i = 0 \/ series[i - 1] < burst)}

(***************************************************************************)
(* The WHERE clause of a selection.  Absent fields do not restrict.  The   *)
(* cap on the peak is a rate: bytes per unit of time, in every bin.        *)
(***************************************************************************)
\* A slip: the mean of the bins for the peak.
PeakOf_Mean(row, direction) ==
  (IF direction = "both" THEN Total(Combined(row)) ELSE Total(row.series[direction]))
    \div Cardinality(Bins(WindowLen))

PeakOf(row, direction) ==
  IF direction = "both" THEN Peak(Combined(row)) ELSE Peak(row.series[direction])
MeanTotalOf(row, direction) ==
  IF direction = "both" THEN Total(Combined(row)) ELSE Total(row.series[direction])
Matches(net, window, row, query) ==
  LET has(f) == f \in DOMAIN query
      dir == IF has("direction") THEN query.direction ELSE "both"
  IN /\ has("prefixLen") => net.len = query.prefixLen
     /\ has("windows") => window \in query.windows[1] .. query.windows[2]
     /\ has("intensity") => MeanTotalOf(row, dir) \in query.intensity[1] .. query.intensity[2]
     /\ has("contributorsMin") => Cardinality(row.users) >= query.contributorsMin
     /\ has("contributorsMax") => Cardinality(row.users) <= query.contributorsMax
     /\ has("peakMax") => PeakOf(row, dir) <= query.peakMax * BinLen

(***************************************************************************)
(* Transform: join, clip, reorder, trim.  joincap and reordercap both      *)
(* leave the packets in order of time.                                     *)
(***************************************************************************)
InsertByTime(s, p) == InsertAt(s, Cardinality({i \in DOMAIN s : s[i].t <= p.t}) + 1, p)
ByTime(pcap) == FoldLeft(InsertByTime, <<>>, pcap)
JoinCap(pcaps) == ByTime(FlattenSeq(pcaps))

\* clip_pcap_to_window: the packets before the first one that is too late.
Clip(pcap, len) ==
  LET late == {i \in DOMAIN pcap : pcap[i].t - pcap[1].t > len}
  IN IF late = {} THEN pcap ELSE SubSeq(pcap, 1, Min(late) - 1)

\* A slip: the bytes of an interval are never reset.
Trim_NoReset(pcap, threshold, bin) ==
  LET Step(s, p) ==
        IF p.t - s.start < bin
        THEN [s EXCEPT !.out = IF s.bytes <= threshold THEN Append(@, p) ELSE @,
                       !.bytes = 0]
        ELSE [start |-> s.start + bin, bytes |-> p.len, out |-> Append(s.out, p)]
  IN IF pcap = <<>> THEN <<>>
     ELSE FoldLeft(Step, [start |-> pcap[1].t, bytes |-> 0, out |-> <<>>], pcap).out

\* trim_pcap_by_rate: a packet beyond the interval is kept and moves the
\* interval on by one, however far behind the packet it is.  bin is the
\* configured burst_interval_ms, whatever the extraction was asked to use.
Trim(pcap, threshold, bin) ==
  LET Step(s, p) ==
        IF p.t - s.start < bin
        THEN [s EXCEPT !.out = IF s.bytes <= threshold THEN Append(@, p) ELSE @,
                       !.bytes = @ + p.len]
        ELSE [start |-> s.start + bin, bytes |-> p.len, out |-> Append(s.out, p)]
  IN IF pcap = <<>> THEN <<>>
     ELSE FoldLeft(Step, [start |-> pcap[1].t, bytes |-> 0, out |-> <<>>], pcap).out

Transformed(pcaps, threshold, bin) ==
  Trim(ByTime(Clip(JoinCap(pcaps), WindowLen)), threshold, bin)

(***************************************************************************)
(* Merge: join in batches of users, each batch taking the output of the    *)
(* last one along.  filesOf[u] are the window files of a user in range, in *)
(* a sequence; stale is what an earlier merge left under the output name,  *)
(* <<>> if nothing is there.                                               *)
(***************************************************************************)

\* A slip: a batch does not take the last output along.
JoinInBatches_Last(userSeq, filesOf, stale) ==
  LET batches == (Len(userSeq) + BatchSize - 1) \div BatchSize
      Batch(b) == FlattenSeq([i \in 1 .. Min({BatchSize, Len(userSeq) - (b - 1) * BatchSize}) |->
                                filesOf[userSeq[(b - 1) * BatchSize + i]]])
      Step(out, b) == IF Batch(b) = <<>> THEN out ELSE JoinCap(Batch(b))
  IN FoldLeft(Step, stale, [b \in 1 .. batches |-> b])

JoinInBatches(userSeq, filesOf, stale) ==
  LET batches == (Len(userSeq) + BatchSize - 1) \div BatchSize
      Batch(b) == FlattenSeq([i \in 1 .. Min({BatchSize, Len(userSeq) - (b - 1) * BatchSize}) |->
                                filesOf[userSeq[(b - 1) * BatchSize + i]]])
      Step(out, b) == IF Batch(b) = <<>> THEN out
                      ELSE JoinCap(IF b = 1 THEN Batch(b) ELSE Append(Batch(b), out))
  IN FoldLeft(Step, stale, [b \in 1 .. batches |-> b])

(***************************************************************************)
(* What the properties say of a file: its packets are in order of time, no *)
(* interval passes without one, which of them the series leaves out, how   *)
(* long the longest is, and how often it has a packet.                     *)
(***************************************************************************)
InOrder(pcap) == \A i \in 2 .. Len(pcap) : pcap[i - 1].t <= pcap[i].t
NoGap(pcap, bin) == \A i \in 2 .. Len(pcap) : pcap[i].t - pcap[i - 1].t < bin
PastBins(pcap) ==
  {k \in DOMAIN pcap : pcap[k].t - pcap[1].t >= Cardinality(Bins(WindowLen)) * BinLen}
LongestPacket(pcap) == Max({pcap[i].len : i \in DOMAIN pcap} \cup {0})
Count(pcap, p) == Cardinality({i \in DOMAIN pcap : pcap[i] = p})
=============================================================================
