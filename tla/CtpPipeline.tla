---------------------------- MODULE CtpPipeline ----------------------------
(***************************************************************************)
(* One extraction of ctp-service and what is made of its result: gateway   *)
(* captures are split by user, the per-user files by time window, every    *)
(* window becomes a prefix tree whose nodes are stored as rows, and rows   *)
(* are turned into replayable files by transform and merge                 *)
(* (ctp-service/app/operations).  The first two stages and the series run  *)
(* in process pools whose workers swallow their own failures, so a stage   *)
(* may leave part of its work behind and the pipeline goes on all the      *)
(* same.  The legacy pipeline (time_series_modules.py) frames the same     *)
(* per-user files.  CtpPackets has the computations.                       *)
(***************************************************************************)
EXTENDS CtpPackets

CONSTANTS
  Inputs,        \* the inputs: sequences of captures, by sorted file name
  Thresholds,    \* throughput_threshold_mbps, in bytes per unit of time
  TrimBins,      \* configured burst_interval_ms, which transform trims by
  MaxFailures,   \* bound: pool workers and joins that fail
  MaxMerges,     \* bound: merges of one subnet and range
  StartLimit,    \* TimeFrame.START_LIMIT
  FrameLen       \* TimeFrame.TIME_FRAME_LEN

ASSUME PipelineAssumption ==
  /\ Inputs \subseteq Seq(Seq(Packet))
  /\ Thresholds \subseteq Nat /\ TrimBins \subseteq Nat \ {0}
  /\ MaxFailures \in Nat /\ MaxMerges \in Nat
  /\ StartLimit \in Nat /\ FrameLen \in Nat /\ StartLimit < FrameLen

VARIABLES
  captures,   \* the input
  cut,        \* stems the first stage is done with
  files,      \* users/<ip>/<direction>/<stem>.pcap
  windowed,   \* users the second stage is done with
  windows,    \* .../windows/<stem>/window_<w>.pcap
  next,       \* the window to be stored next
  rows,       \* ctp_nodes: [<<network, window>> -> node]
  extracted,  \* the dataset row is written and the call has returned
  failed,     \* how many pool workers and joins failed
  merges,     \* the merged files, by the name of their row
  answer      \* what the last call on the result has produced

vars == <<captures, cut, files, windowed, windows, next, rows, extracted,
          failed, merges, answer>>

NoAnswer == [op |-> "none"]

Users == {k[1] : k \in DOMAIN files}
MaxWindow == Max({k[4] : k \in DOMAIN windows} \cup {0})
Prefix(s, k) == SubSeq(s, 1, k)

Init ==
  /\ captures \in Inputs
  /\ cut = {} /\ files = NoFiles
  /\ windowed = {} /\ windows = NoFiles
  /\ next = 1 /\ rows = NoFiles /\ extracted = FALSE
  /\ failed = 0 /\ merges = NoFiles /\ answer = NoAnswer

-----------------------------------------------------------------------------
(***************************************************************************)
(* Steps 1 and 2.  pool.map returns when every worker has; a worker that   *)
(* fails leaves the files of the packets it has read.                      *)
(***************************************************************************)
Fails(n, all) == failed' = failed + (IF n < all THEN 1 ELSE 0) /\ failed' <= MaxFailures

\* _split_pcap_worker for the i-th capture, which reads k packets of it.
SplitCapture(i, k) ==
  /\ i \notin cut
  /\ cut' = cut \cup {i}
  /\ LET split == SplitByIp(Prefix(captures[i], k))
     IN files' = [f \in DOMAIN files \cup {<<u[1], u[2], i>> : u \in DOMAIN split} |->
                    IF f \in DOMAIN files THEN files[f] ELSE split[<<f[1], f[2]>>]]
  /\ Fails(k, Len(captures[i]))
  /\ UNCHANGED <<captures, windowed, windows, next, rows, extracted, merges, answer>>

\* The files of a user in the order of split_user_windows: the upload first, by stem.
SourcesIn(user, dir) ==
  FoldLeftDomain(LAMBDA names, i : IF <<user, dir, i>> \in DOMAIN files
                                   THEN Append(names, <<user, dir, i>>) ELSE names,
                 <<>>, captures)
SourcesOf(user) == SourcesIn(user, "upload") \o SourcesIn(user, "download")

\* _split_user_worker: all of the first j - 1 files, and k packets of the j-th.
SplitUser(user, j, k) ==
  LET src == SourcesOf(user)
      read == [i \in 1 .. j |-> IF i < j THEN files[src[i]] ELSE Prefix(files[src[i]], k)]
      made == UNION {{<<i, w>> : w \in DOMAIN SplitByWindow(read[i])} : i \in 1 .. j}
      Name(m) == src[m[1]] \o <<m[2]>>
  IN /\ cut = DOMAIN captures
     /\ user \notin windowed
     /\ windowed' = windowed \cup {user}
     /\ windows' = [f \in DOMAIN windows \cup {Name(m) : m \in made} |->
                      IF f \in DOMAIN windows THEN windows[f]
                      ELSE LET m == CHOOSE m \in made : Name(m) = f
                           IN SplitByWindow(read[m[1]])[m[2]]]
     /\ Fails(k, IF j < Len(src) THEN k + 1 ELSE Len(files[src[j]]))
     /\ UNCHANGED <<captures, cut, files, next, rows, extracted, merges, answer>>

-----------------------------------------------------------------------------
(***************************************************************************)
(* Steps 3 to 5, one window at a time.                                     *)
(***************************************************************************)

\* _window_pcap_path: the first stem that has the window, or no file.
SeriesOf(user, dir, w) ==
  LET stems == {i \in DOMAIN captures : <<user, dir, i, w>> \in DOMAIN windows}
  IN IF stems = {} THEN [i \in Bins(WindowLen) |-> 0]
     ELSE Series(windows[<<user, dir, Min(stems), w>>], WindowLen)

\* _process_window, with the users whose series worker failed left out.
StoreWindow(lost) ==
  LET kept   == Users \ lost
      leaves == [n \in {Leaf(u) : u \in kept} |->
                   LET u == CHOOSE u \in kept : Leaf(u) = n
                   IN [series |-> [d \in Directions |-> SeriesOf(u, d, next)],
                       users  |-> {u}]]
      tree   == IF kept = {} THEN NoFiles ELSE Tree(leaves)
  IN /\ cut = DOMAIN captures /\ windowed = Users
     /\ next <= MaxWindow
     /\ rows' = [r \in DOMAIN rows \cup {<<n, next>> : n \in DOMAIN tree} |->
                   IF r[2] = next THEN tree[r[1]] ELSE rows[r]]
     /\ next' = next + 1
     /\ failed' = failed + Cardinality(lost) /\ failed' <= MaxFailures
     /\ UNCHANGED <<captures, cut, files, windowed, windows, extracted, merges, answer>>

\* upsert_dataset, and the call returns; without a user directory it raises.
Finish ==
  /\ Users # {}
  /\ cut = DOMAIN captures /\ windowed = Users /\ next > MaxWindow
  /\ ~extracted
  /\ extracted' = TRUE
  /\ UNCHANGED <<captures, cut, files, windowed, windows, next, rows, failed,
                 merges, answer>>

-----------------------------------------------------------------------------
(***************************************************************************)
(* What is made of the result.                                             *)
(***************************************************************************)

\* The window files of a user, stem by stem, in the given windows.
FilesIn(user, dir, span) ==
  LET Of(i) == {w \in span : <<user, dir, i, w>> \in DOMAIN windows}
  IN FlattenSeq([i \in DOMAIN captures |->
                   [n \in 1 .. Cardinality(Of(i)) |-> windows[<<user, dir, i, Nth(Of(i), n)>>]]])

\* get_leaf_ctps_for_subnet(_range), by address.
LeavesOf(net, span) ==
  LET below == {u \in Users : SubNetOf(Leaf(u), net)
                              /\ \E w \in span : <<Leaf(u), w>> \in DOMAIN rows}
  IN [n \in 1 .. Cardinality(below) |-> Nth(below, n)]

\* The files that one direction of transform() joins.
Joined(net, w, dir) ==
  FlattenSeq([i \in DOMAIN LeavesOf(net, {w}) |-> FilesIn(LeavesOf(net, {w})[i], dir, {w})])

\* select(): the rows of the result that match the query.
Selected(query) == {r \in DOMAIN rows : Matches(r[1], r[2], rows[r], query)}

\* transform() of a row to a rate, with bin as the configured interval: the
\* extraction may have been asked for another one.
Transform(net, w, rate, bin) ==
  /\ extracted
  /\ <<net, w>> \in DOMAIN rows
  /\ answer' = [op |-> "transform", net |-> net, window |-> w, rate |-> rate, bin |-> bin,
                out |-> [d \in Directions |->
                           Transformed(Joined(net, w, d), rate * bin, bin)]]
  /\ UNCHANGED <<captures, cut, files, windowed, windows, next, rows, extracted,
                 failed, merges>>

\* What an earlier merge of that name left in a direction.
Left(name, dir) == IF name \in DOMAIN merges THEN merges[name].out[dir] ELSE <<>>

\* merge_subnet_range, the download first.  When joincap fails in a direction,
\* what was under that name is still there or is gone, and the call raises.
Merge(net, from, to, bad) ==
  LET name == <<net, from, to>>
      leaves == LeavesOf(net, from .. to)
      New(d) == JoinInBatches(leaves, [u \in Users |-> FilesIn(u, d, from .. to)], Left(name, d))
      times == IF name \in DOMAIN merges THEN merges[name].times ELSE 0
  IN /\ extracted
     /\ DOMAIN merges \subseteq {name} /\ times < MaxMerges
     /\ leaves # <<>>
     /\ failed' = failed + (IF bad = "none" THEN 0 ELSE 1) /\ failed' <= MaxFailures
     /\ \E kept \in IF bad = "none" THEN {<<>>} ELSE {<<>>, Left(name, bad)} :
          LET Out(d) == IF d = bad THEN kept
                        ELSE IF d = "upload" /\ bad = "download" THEN Left(name, d)
                        ELSE New(d)
          IN merges' = [n \in {name} |-> [out |-> [d \in Directions |-> Out(d)],
                                          times |-> times + 1, ok |-> bad = "none"]]
     /\ answer' = NoAnswer
     /\ UNCHANGED <<captures, cut, files, windowed, windows, next, rows, extracted>>

-----------------------------------------------------------------------------
(***************************************************************************)
(* The legacy frames of a user's packets (one capture), both directions    *)
(* counted from the first packet of the file: split_time_frames.           *)
(***************************************************************************)

\* A slip: the packet that opens a frame is left out of it.
Frames_Open(pcap, start) ==
  LET Step(s, p) ==
        IF p.t - start < StartLimit THEN s
        ELSE IF p.t - start < s.counter * FrameLen THEN [s EXCEPT !.open = Append(@, p)]
        ELSE [done |-> Append(s.done, s.open), open |-> <<>>, counter |-> s.counter + 1]
  IN FoldLeft(Step, [done |-> <<>>, open |-> <<>>, counter |-> 1], pcap).done

Frames(pcap, start) ==
  LET Step(s, p) ==
        IF p.t - start < StartLimit THEN s
        ELSE IF p.t - start < s.counter * FrameLen THEN [s EXCEPT !.open = Append(@, p)]
        ELSE [done |-> Append(s.done, s.open), open |-> <<p>>, counter |-> s.counter + 1]
  IN FoldLeft(Step, [done |-> <<>>, open |-> <<>>, counter |-> 1], pcap).done

\* load_pcap over a user's packets of one capture.
LoadPcap(user, i) ==
  LET cap  == captures[i]
      mine == {k \in DOMAIN cap : user \in {cap[k].src, cap[k].dst}}
      Dir(d) == {k \in mine : (cap[k].dst \in Internal) <=> (d = "download")}
  IN /\ extracted
     /\ mine # {}
     /\ answer' = [op |-> "frames", user |-> user, stem |-> i,
                   out |-> [d \in Directions |-> Frames(Pick(cap, Dir(d)), cap[Min(mine)].t)]]
     /\ UNCHANGED <<captures, cut, files, windowed, windows, next, rows, extracted,
                    failed, merges>>

-----------------------------------------------------------------------------
Next ==
  \/ \E i \in DOMAIN captures : \E k \in 0 .. Len(captures[i]) : SplitCapture(i, k)
  \/ \E u \in Users : \E j \in DOMAIN SourcesOf(u) :
       \E k \in 0 .. Len(files[SourcesOf(u)[j]]) : SplitUser(u, j, k)
  \/ \E lost \in SUBSET Users : StoreWindow(lost)
  \/ Finish
  \/ \E r \in DOMAIN rows, rate \in Thresholds, bin \in TrimBins :
       Transform(r[1], r[2], rate, bin)
  \/ \E net \in {r[1] : r \in DOMAIN rows}, from, to \in 1 .. MaxWindow :
       \E bad \in Directions \cup {"none"} : from <= to /\ Merge(net, from, to, bad)
  \/ \E u \in Users, i \in DOMAIN captures : LoadPcap(u, i)

Spec == Init /\ [][Next]_vars

-----------------------------------------------------------------------------
(***************************************************************************)
(* Properties                                                              *)
(***************************************************************************)
OneCapture == Len(captures) = 1 /\ InOrder(captures[1])

\* The packets of the capture that belong in a user's file of a direction, and
\* the bytes of a window's file that no bin takes in.
Owned(user, dir) ==
  {k \in DOMAIN captures[1] :
     user = IF dir = "upload" THEN captures[1][k].src ELSE captures[1][k].dst}

BytesPastBins(user, dir, w) ==
  IF <<user, dir, 1, w>> \in DOMAIN windows
  THEN LET file == windows[<<user, dir, 1, w>>] IN BytesAt(file, PastBins(file)) ELSE 0

\* No byte is counted twice on the way from the capture to the tree, and only
\* those past the last bin of a window are left out, where the length of a bin
\* does not divide the window's.  A node has exactly the users below it and its
\* two series are the sums of theirs, bin by bin (_aggregate_nodes); and, of one
\* capture in order of time that no worker failed on, the windows of a user add
\* up to the user's own packets but for those bytes (split_pcap_by_ip,
\* split_pcap_into_windows, build_timeseries_from_window).
RowsAddUp ==
  /\ \A r \in DOMAIN rows :
       /\ rows[r].users = {u \in Users : <<Leaf(u), r[2]>> \in DOMAIN rows
                                          /\ SubNetOf(Leaf(u), r[1])}
       /\ \A d \in Directions, i \in Bins(WindowLen) :
            rows[r].series[d][i] =
              Total([u \in rows[r].users |-> rows[<<Leaf(u), r[2]>>].series[d][i]])
  /\ extracted /\ failed = 0 /\ OneCapture =>
       \A u \in Internal, d \in Directions :
         BytesAt(captures[1], Owned(u, d)) =
           Total([w \in 1 .. MaxWindow |->
                    BytesPastBins(u, d, w) +
                      IF <<Leaf(u), w>> \in DOMAIN rows
                      THEN Total(rows[<<Leaf(u), w>>].series[d]) ELSE 0])

\* The descriptors of a row tell one story: the peak carries the total, the on
\* periods that metrics.py counts are the upward crossings that pcap_utils.py
\* counts, with an off period between any two; a row that carries bytes has an
\* on period, and one that carries none has no period at all.
DescriptorsAgree ==
  \A r \in DOMAIN rows :
    LET d == Descriptors(rows[r])
        ups == OnTransitions(Combined(rows[r]), 1)
    IN /\ d.total = d.up + d.down
       /\ d.peak <= d.total /\ d.total <= d.peak * Cardinality(Bins(WindowLen))
       /\ d.on = Cardinality(ups)
       /\ d.off - d.on \in {-1, 0, 1}
       /\ d.on > 0 <=> d.total > 0
       /\ d.total = 0 => d.off = 0

\* What transform() trims, in the order the trimming reads it.
Clipped(a, d) == ByTime(Clip(JoinCap(Joined(a.net, a.window, d)), WindowLen))

\* Burst trimming keeps the rate: as long as no interval passes without a
\* packet, an interval of the output carries at most one packet more than the
\* rate allows, and it has its first packet (trim_pcap_by_rate).
TrimKeepsTheRate ==
  answer.op = "transform" =>
    \A d \in Directions :
      LET in  == Clipped(answer, d)
          out == answer.out[d]
          At(pcap, i) == {k \in DOMAIN pcap : (pcap[k].t - in[1].t) \div answer.bin = i}
      IN NoGap(in, answer.bin) =>
           \A i \in 0 .. (WindowLen \div answer.bin) :
             /\ BytesAt(out, At(out, i)) <= answer.rate * answer.bin + LongestPacket(in)
             /\ At(in, i) # {} => At(out, i) # {} /\ out[Min(At(out, i))] = in[Min(At(in, i))]

\* transform() of a user's row that is selected for a peak within its rate.
OfSelectedUser ==
  /\ answer.op = "transform" /\ OneCapture /\ answer.net.len = AddrBits
  /\ <<answer.net, answer.window>> \in Selected([peakMax |-> answer.rate])

\* A user's row selected for a peak no higher than the threshold comes out of
\* transform untrimmed, if it was extracted with the interval that is configured
\* for trimming and no packet of its file is past the last bin: the bins of the
\* series are then the intervals of the trimming (peak_intensity_max_mbps).
SelectedUserIsUntrimmed ==
  OfSelectedUser /\ answer.bin = BinLen =>
    \A d \in Directions :
      PastBins(Clipped(answer, d)) = {} => answer.out[d] = Clipped(answer, d)

\* A merge that succeeds holds exactly the packets of every window file in its
\* range, in order of time, whatever the number of batches; unless users that
\* fill a whole first batch sent nothing in a direction and an earlier merge
\* has left a file under the name (_join_pcaps_for_range).
MergeTakesAll ==
  \A name \in DOMAIN merges : merges[name].ok =>
    \A d \in Directions :
      LET span   == name[2] .. name[3]
          leaves == LeavesOf(name[1], span)
          taken  == {k \in DOMAIN windows : k[1] \in ToSet(leaves) /\ k[2] = d /\ k[4] \in span}
          out    == merges[name].out[d]
      IN \/ merges[name].times = 1
         \/ \E i \in DOMAIN leaves, k \in taken : i <= BatchSize /\ k[1] = leaves[i]
         => /\ InOrder(out)
            /\ \A p \in ToSet(out) \cup UNION {ToSet(windows[k]) : k \in taken} :
                 Count(out, p) = Total([k \in taken |-> Count(windows[k], p)])

\* The packets of a capture that LoadPcap puts in frames, by direction, and the
\* interval of FrameLen, counted from 1, that a packet falls in.
StartOf(a) ==
  LET cap == captures[a.stem]
  IN cap[Min({k \in DOMAIN cap : a.user \in {cap[k].src, cap[k].dst}})].t
Framed(a, d) ==
  LET cap == captures[a.stem]
  IN {k \in DOMAIN cap : /\ a.user \in {cap[k].src, cap[k].dst}
                         /\ (cap[k].dst \in Internal) <=> (d = "download")
                         /\ cap[k].t - StartOf(a) >= StartLimit}
Interval(a, p) == (p.t - StartOf(a)) \div FrameLen + 1

\* The legacy frames cut the packets past the start limit where a frame is full,
\* of any capture in order of time: together they are these packets but for the
\* last frame, which is begun and never kept.  Every packet of the first frame,
\* and all but the first of another one, are of the frame's own interval; the
\* first one may be of a later interval, for a frame is begun by the packet that
\* is too late for the one before, so that after a gap frames of one packet each
\* follow until the count has caught up (split_time_frames).
FramesInPlace ==
  answer.op = "frames" /\ InOrder(captures[answer.stem]) =>
    \A d \in Directions :
      LET used == Pick(captures[answer.stem], Framed(answer, d))
          kept == Len(FlattenSeq(answer.out[d]))
          last == SubSeq(used, kept + 1, Len(used))
          all  == Append(answer.out[d], last)
      IN /\ used = FlattenSeq(answer.out[d]) \o last
         /\ used # <<>> => last # <<>>
         /\ \A i \in DOMAIN all :
              /\ i > 1 => all[i] # <<>>
              /\ \A k \in DOMAIN all[i] :
                   IF i = 1 \/ k > 1 THEN Interval(answer, all[i][k]) = i
                   ELSE Interval(answer, all[i][k]) >= i
=============================================================================
