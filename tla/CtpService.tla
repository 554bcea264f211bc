----------------------------- MODULE CtpService -----------------------------
(***************************************************************************)
(* The calls of ctp-service on one dataset, and the worker that fetches    *)
(* what they make.  FastAPI runs the handlers on a thread pool in each of  *)
(* four gunicorn processes (Dockerfile), so calls interleave; what they    *)
(* share is the rows in PostgreSQL and files that are rewritten in place.  *)
(* The files of one transformed row and of one exported row are followed,  *)
(* both of the root of window 1, and the copy of the first on a worker.    *)
(* Their packets are given by the per-user files they were joined from and *)
(* the passes made over them since.  A pass over a file that is being      *)
(* written gives what is no better, or fails; of a file that two calls     *)
(* write at once nothing is said but that it may be torn.                  *)
(***************************************************************************)
EXTENDS Naturals, Sequences, FiniteSets, SequencesExt

CONSTANTS
  Calls,       \* threads that serve a call
  Users,       \* the users of the capture, below the root
  Windows,     \* the number of windows
  Silent,      \* user and direction that have no file in window 1
  MaxCalls,    \* bound: calls in all
  MaxFails     \* bound: calls and pool workers that fail

ASSUME ServiceAssumption ==
  /\ Windows \in Nat \ {0} /\ MaxCalls \in Nat /\ MaxFails \in Nat
  /\ IsFiniteSet(Users) /\ Users # {} /\ "root" \notin Users
  /\ Silent \subseteq Users \X {"download", "upload"}

Dirs == {"download", "upload"}
Passes == {"clip", "order", "pad", "trim"}
Nodes == Users \cup {"root"}

VARIABLES
  row,      \* extracted rows, by node and window: 1 if it is stored, 0 if not
  split,    \* the per-user window files: [user -> the extraction that wrote them]
  dataset,  \* the row of the dataset, in the same way
  trow,     \* the transformed row: the files its series were read from
  file,     \* the files of transform and of replay-data, by kind and direction
  tmp,      \* the scratch file beside each of them, by pass
  worker,   \* the copy in the worker's CTP directory, by direction
  call,     \* per thread: the operation, its next step, and what it has read
  made,     \* how many calls were made
  fails,    \* how many calls failed, and pools with a failed worker
  extracts, \* how many extractions were started
  left,     \* rows that an extraction left out, their pool workers having failed
  tidy      \* whose last writer ran to its end with none beside it

vars == <<row, split, dataset, trow, file, tmp, worker, call, made, fails, extracts, left,
          tidy>>
store == <<row, split, dataset>>
disk == <<file, tmp>>
calls == <<made, fails, extracts, left>>

Absent == [is |-> "absent"]
Torn   == [is |-> "torn"]
Pcap(from, passes) == [is |-> "pcap", from |-> from, passes |-> passes]

Kinds == {"transform", "replay"}
Idle == [op |-> "idle", gen |-> 0, step |-> 0, users |-> {}, alone |-> TRUE,
         read |-> [d \in Dirs |-> Absent]]

AllPasses == <<"clip", "order", "pad", "trim">>
SaidBy(d) == {u \in Users : <<u, d>> \notin Silent}
Made(d, g, passes) == Pcap([u \in SaidBy(d) |-> g], passes)

\* The service starts on what its database and its volumes hold: nothing, a
\* dataset, or a dataset with a transformed and an exported row.
Init ==
  \E g \in {0, 1}, done \in {{}, Kinds} :
    /\ done # {} => g = 1
    /\ row = [n \in Nodes |-> [w \in 1 .. Windows |-> g]]
    /\ split = [u \in Users |-> g]
    /\ dataset = g /\ extracts = g
    /\ trow = [d \in Dirs |-> IF done = {} THEN Absent ELSE Made(d, 1, AllPasses)]
    /\ file = [k \in Kinds |-> [d \in Dirs |->
         IF done = {} \/ (k = "replay" /\ SaidBy(d) = {}) THEN Absent
         ELSE Made(d, 1, IF k = "replay" THEN <<"order">> ELSE AllPasses)]]
    /\ tmp = [p \in Passes |-> [k \in Kinds |-> [d \in Dirs |-> Absent]]]
    /\ worker = [d \in Dirs |-> Absent]
    /\ call = [c \in Calls |-> Idle]
    /\ made = 0 /\ fails = 0 /\ left = {}
    /\ tidy = done

-----------------------------------------------------------------------------
(***************************************************************************)
(* The steps of a call, one for each thing another call can see.           *)
(***************************************************************************)
Join(d) == <<<<"join", d>>, <<"joined", d>>>>
Swap(p, d) == <<<<"write", d, p>>, <<"swap", d, p>>>>
Both(p) == Swap(p, "download") \o Swap(p, "upload")
Pad(d) == <<<<"write", d, "pad">>, <<"rewrite", d>>, <<"padded", d>>>>
Series == <<<<"series", "download">>, <<"series", "upload">>, <<"upsert">>>>

\* A slip: the series are read, and the row stored, before the trimming.
TransformSteps_RowFirst ==
  <<<<"row">>, <<"leaves">>>> \o Join("download") \o Join("upload")
  \o Both("clip") \o Both("order") \o Pad("download") \o Pad("upload")
  \o Series \o Both("trim")

\* transform(): join both, then every pass over both, then the row.
TransformSteps ==
  <<<<"row">>, <<"leaves">>>> \o Join("download") \o Join("upload")
  \o Both("clip") \o Both("order") \o Pad("download") \o Pad("upload")
  \o Both("trim") \o Series

\* export_replay_pcap(): join and reorder one direction, then the other.
ReplaySteps ==
  <<<<"row">>, <<"cached">>, <<"leaves">>>>
  \o Join("download") \o Swap("order", "download")
  \o Join("upload") \o Swap("order", "upload")

\* fetch_ctp() of an /export URL: the archive is made of the two files, and
\* unpacked over the worker's copies.
FetchSteps ==
  <<<<"find">>, <<"zip", "download">>, <<"zip", "upload">>,
    <<"copy", "download">>, <<"copied", "download">>,
    <<"copy", "upload">>, <<"copied", "upload">>>>

\* The rows of a window, the root first (_collect_all_nodes).
RowsOf(w) == <<<<"store", "root", w>>>>
             \o [i \in 1 .. Cardinality(Users) |-> <<"store", SetToSeq(Users)[i], w>>]
\* A slip: the row of the dataset goes first.
ExtractSteps_DatasetFirst ==
  [i \in 1 .. Cardinality(Users) |-> <<"split", SetToSeq(Users)[i]>>]
  \o <<<<"dataset">>>> \o FlattenSeq([w \in 1 .. Windows |-> RowsOf(w)])

\* run(): the per-user files, the rows window by window, the row of the dataset.
ExtractSteps ==
  [i \in 1 .. Cardinality(Users) |-> <<"split", SetToSeq(Users)[i]>>]
  \o FlattenSeq([w \in 1 .. Windows |-> RowsOf(w)]) \o <<<<"dataset">>>>

Ops == {"extract", "transform", "replay", "fetch"}
StepsOf == [op \in Ops |->
  CASE op = "extract"   -> ExtractSteps
    [] op = "transform" -> TransformSteps
    [] op = "replay"    -> ReplaySteps
    [] op = "fetch"     -> FetchSteps]

At(c) == StepsOf[call[c].op][call[c].step]
Doing(c, what) == call[c].op # "idle" /\ At(c)[1] = what
AtLast(c) == call[c].step = Len(StepsOf[call[c].op])

\* Calls of an operation write what a call of another reads or writes.
Disturbs(op, other) ==
  \/ op = other
  \/ op = "extract" /\ other \in Kinds
  \/ op = "transform" /\ other = "fetch"

-----------------------------------------------------------------------------
\* A call comes in; those it disturbs are no longer alone.
Start(c, op) ==
  LET Beside == {o \in Calls : call[o].op # "idle"}
  IN  /\ call[c].op = "idle" /\ made < MaxCalls
      /\ made' = made + 1
      /\ extracts' = extracts + (IF op = "extract" THEN 1 ELSE 0)
      /\ call' = [o \in Calls |->
           IF o = c THEN [Idle EXCEPT !.op = op, !.step = 1, !.gen = extracts',
                            !.alone = \A b \in Beside : ~Disturbs(call[b].op, op)]
           ELSE IF o \in Beside /\ Disturbs(op, call[o].op)
                THEN [call[o] EXCEPT !.alone = FALSE] ELSE call[o]]
      /\ UNCHANGED <<store, trow, disk, worker, fails, left, tidy>>

\* The call goes on to its next step, or answers after its last.
Go(c) == IF AtLast(c) THEN [call EXCEPT ![c] = Idle]
         ELSE [call EXCEPT ![c].step = @ + 1]
GoWith(c, read) == [call EXCEPT ![c].step = @ + 1, ![c].read = read]
Answer(c) == /\ call' = [call EXCEPT ![c] = Idle]
             /\ UNCHANGED <<store, trow, disk, worker, made, extracts, left, tidy>>

\* A step of the call raises (a 4xx, a 5xx, or its process was killed): what
\* it did so far stays, what it was writing stays as it is.
Fail(c) == /\ call[c].op # "idle" /\ fails < MaxFails
           /\ fails' = fails + 1
           /\ Answer(c)

\* What the files of a kind are worth after a step of a writer of them.
Tidy(c) == IF AtLast(c) /\ call[c].alone THEN tidy \cup {call[c].op}
           ELSE tidy \ ({call[c].op} \cup (IF call[c].op = "transform" THEN {"fetch"} ELSE {}))

(***************************************************************************)
(* Extraction.  A pool worker that fails says so in the log and nowhere    *)
(* else: the extraction goes on without what it was to make.               *)
(***************************************************************************)
SplitUsers(c) ==
  /\ Doing(c, "split")
  /\ \/ /\ split' = [split EXCEPT ![At(c)[2]] = call[c].gen]
        /\ UNCHANGED calls
     \/ /\ fails < MaxFails /\ fails' = fails + 1
        /\ UNCHANGED <<split, made, extracts, left>>
  /\ call' = Go(c)
  /\ UNCHANGED <<row, dataset, trow, disk, worker, tidy>>

AtRoot(c) == Doing(c, "store") /\ At(c)[2] = "root"

\* No user has a file: there is no window to store, and the row of the dataset
\* is next.
NoWindows(c) ==
  /\ AtRoot(c) /\ \A u \in Users : split[u] = 0
  /\ call' = [call EXCEPT ![c].step = Len(ExtractSteps)]
  /\ left' = left \cup Nodes \X (1 .. Windows)
  /\ UNCHANGED <<store, trow, disk, worker, made, fails, extracts, tidy>>

\* upsert_ctp(), a transaction of its own for each row: a row of the tree of the
\* window is stored, any other is left out.
Store(c, isInTree) ==
  LET n == At(c)[2]  w == At(c)[3]
  IN  IF isInTree THEN /\ row' = [row EXCEPT ![n][w] = 1]
                       /\ UNCHANGED left
      ELSE /\ left' = left \cup {<<n, w>>}
           /\ UNCHANGED row

\* _process_window(): the users whose bytes were counted make the tree, and its
\* rows are stored from the root; without any the window is passed over.
StoreRoot(c) ==
  /\ AtRoot(c) /\ \E u \in Users : split[u] # 0
  /\ \E counted \in SUBSET Users :
       /\ IF counted = Users THEN UNCHANGED fails
          ELSE fails < MaxFails /\ fails' = fails + 1
       /\ Store(c, counted # {})
       /\ call' = [Go(c) EXCEPT ![c].users = counted]
  /\ UNCHANGED <<split, dataset, trow, disk, worker, made, extracts, tidy>>

StoreRow(c) ==
  /\ Doing(c, "store") /\ At(c)[2] # "root"
  /\ Store(c, At(c)[2] \in call[c].users)
  /\ call' = Go(c)
  /\ UNCHANGED <<split, dataset, trow, disk, worker, made, fails, extracts, tidy>>

StoreDataset(c) ==
  /\ Doing(c, "dataset")
  /\ dataset' = 1
  /\ call' = Go(c)
  /\ UNCHANGED <<row, split, trow, disk, worker, calls, tidy>>

(***************************************************************************)
(* transform and replay-data.                                              *)
(***************************************************************************)
\* The row is there, and is a row of the corpus: without it the call fails.
FindRow(c) ==
  /\ Doing(c, "row") /\ row["root"][1] # 0
  /\ call' = Go(c)
  /\ UNCHANGED <<store, trow, disk, worker, calls, tidy>>

\* Both files exist: they are the answer.
AnswerCached(c) ==
  /\ Doing(c, "cached") /\ \A d \in Dirs : file["replay"][d] # Absent
  /\ Answer(c) /\ UNCHANGED fails

NotCached(c) ==
  /\ Doing(c, "cached") /\ \E d \in Dirs : file["replay"][d] = Absent
  /\ call' = Go(c)
  /\ UNCHANGED <<store, trow, disk, worker, calls, tidy>>

\* get_leaf_ctps_for_subnet(): without a leaf the call fails.
FindLeaves(c) ==
  LET leaves == {u \in Users : row[u][1] # 0}
  IN  /\ Doing(c, "leaves") /\ leaves # {}
      /\ call' = [Go(c) EXCEPT ![c].users = leaves]
      /\ UNCHANGED <<store, trow, disk, worker, calls, tidy>>

\* The users whose files of a direction joincap is given.
Given(c, d) == {u \in call[c].users : <<u, d>> \notin Silent /\ split[u] # 0}

\* Without any, transform writes an empty file and the export passes over the
\* direction.
Skipped(c, d) == call[c].op = "replay" /\ Given(c, d) = {}

\* What is known of a file that a call wrote.
Known(c, f) == IF call[c].alone THEN f ELSE Torn

\* joincap truncates its output and writes it.
JoinFiles(c) ==
  LET d == At(c)[2]
  IN  /\ Doing(c, "join")
      /\ file' = [file EXCEPT ![call[c].op][d] =
           IF Skipped(c, d) THEN @ ELSE Torn]
      /\ call' = Go(c) /\ tidy' = Tidy(c)
      /\ UNCHANGED <<store, trow, tmp, worker, calls>>

Joined(c) ==
  LET d == At(c)[2]
  IN  /\ Doing(c, "joined")
      /\ file' = [file EXCEPT ![call[c].op][d] =
           IF Skipped(c, d) THEN @
           ELSE Known(c, Pcap([u \in Given(c, d) |-> split[u]], <<>>))]
      /\ call' = Go(c)
      /\ UNCHANGED <<store, trow, tmp, worker, calls, tidy>>

\* A slip: the packets of a file in two parts are not put in order.
After_Skip(p, f) == IF f.is = "pcap" /\ ~(p = "order" /\ Cardinality(DOMAIN f.from) = 1)
                    THEN [f EXCEPT !.passes = Append(@, p)] ELSE f

\* What a pass makes of a file.
After(p, f) == IF f.is = "pcap" THEN [f EXCEPT !.passes = Append(@, p)] ELSE f

\* A pass reads the file and writes its output beside it, where a call on the
\* same row writes too.
WritePass(c) ==
  LET k == call[c].op  d == At(c)[2]  p == At(c)[3]
  IN  /\ Doing(c, "write")
      /\ tmp' = [tmp EXCEPT ![p][k][d] =
           IF Skipped(c, d) THEN @ ELSE Known(c, After(p, file[k][d]))]
      /\ call' = Go(c)
      /\ UNCHANGED <<store, trow, file, worker, calls, tidy>>

\* The output is renamed over the file; renamed already by another call, it is
\* not there and the call fails.
SwapPass(c) ==
  LET k == call[c].op  d == At(c)[2]  p == At(c)[3]
  IN  /\ Doing(c, "swap")
      /\ IF Skipped(c, d) THEN UNCHANGED disk
         ELSE /\ tmp[p][k][d] # Absent
              /\ file' = [file EXCEPT ![k][d] = tmp[p][k][d]]
              /\ tmp' = [tmp EXCEPT ![p][k][d] = Absent]
      /\ call' = Go(c) /\ tidy' = Tidy(c)
      /\ UNCHANGED <<store, trow, worker, calls>>

\* tcprewrite writes over the file itself, from the scratch file, which is then
\* removed; without it the call fails.
Rewrite(c) ==
  LET d == At(c)[2]
  IN  /\ Doing(c, "rewrite") /\ tmp["pad"]["transform"][d] # Absent
      /\ file' = [file EXCEPT !["transform"][d] = Torn]
      /\ call' = Go(c)
      /\ UNCHANGED <<store, trow, tmp, worker, calls, tidy>>

Padded(c) ==
  LET d == At(c)[2]
  IN  /\ Doing(c, "padded") /\ tmp["pad"]["transform"][d] # Absent
      /\ file' = [file EXCEPT !["transform"][d] = tmp["pad"]["transform"][d]]
      /\ tmp' = [tmp EXCEPT !["pad"]["transform"][d] = Absent]
      /\ call' = Go(c)
      /\ UNCHANGED <<store, trow, worker, calls, tidy>>

\* build_timeseries_from_window() of one of the two files, and the row that
\* holds both series.
ReadSeries(c) ==
  /\ Doing(c, "series")
  /\ call' = GoWith(c, [call[c].read EXCEPT ![At(c)[2]] = file["transform"][At(c)[2]]])
  /\ UNCHANGED <<store, trow, disk, worker, calls, tidy>>

Upsert(c) ==
  /\ Doing(c, "upsert")
  /\ trow' = call[c].read
  /\ call' = Go(c) /\ tidy' = Tidy(c)
  /\ UNCHANGED <<store, disk, worker, calls>>

(***************************************************************************)
(* /export and the worker that fetches it.                                 *)
(***************************************************************************)
FindTransformed(c) ==
  /\ Doing(c, "find") /\ \A d \in Dirs : trow[d] # Absent
  /\ call' = Go(c)
  /\ UNCHANGED <<store, trow, disk, worker, calls, tidy>>

ZipFile(c) ==
  /\ Doing(c, "zip")
  /\ call' = GoWith(c, [call[c].read EXCEPT ![At(c)[2]] = file["transform"][At(c)[2]]])
  /\ UNCHANGED <<store, trow, disk, worker, calls, tidy>>

\* write_bytes() truncates the copy and writes it.
Copy(c) ==
  /\ Doing(c, "copy")
  /\ worker' = [worker EXCEPT ![At(c)[2]] = Torn]
  /\ call' = Go(c) /\ tidy' = Tidy(c)
  /\ UNCHANGED <<store, trow, disk, calls>>

\* A slip: the first .pcap, under whatever folder.
Unpacked_First(c, d) == call[c].read["download"]

\* The first .pcap of the archive under the folder of the direction.
Unpacked(c, d) == call[c].read[d]

\* A fetch of what a transform left tidy leaves the copy tidy.
Copied(c) ==
  /\ Doing(c, "copied")
  /\ worker' = [worker EXCEPT ![At(c)[2]] = Unpacked(c, At(c)[2])]
  /\ call' = Go(c)
  /\ tidy' = IF "transform" \in tidy THEN Tidy(c) ELSE tidy
  /\ UNCHANGED <<store, trow, disk, calls>>

-----------------------------------------------------------------------------
Next ==
  \/ \E c \in Calls, op \in Ops : Start(c, op)
  \/ \E c \in Calls :
       \/ SplitUsers(c) \/ NoWindows(c) \/ StoreRoot(c) \/ StoreRow(c) \/ StoreDataset(c)
       \/ FindRow(c) \/ AnswerCached(c) \/ NotCached(c) \/ FindLeaves(c)
       \/ JoinFiles(c) \/ Joined(c)
       \/ WritePass(c) \/ SwapPass(c) \/ Rewrite(c) \/ Padded(c)
       \/ ReadSeries(c) \/ Upsert(c)
       \/ FindTransformed(c) \/ ZipFile(c) \/ Copy(c) \/ Copied(c)
       \/ Fail(c)

Spec == Init /\ [][Next]_vars

-----------------------------------------------------------------------------
(***************************************************************************)
(* Properties.                                                             *)
(***************************************************************************)
\* Two files of the packets of the same users, each whole, after all its passes;
\* Lacks is what a direction without packets is left with.
SameUsers(f, passes, Lacks(_)) ==
  \E of \in SUBSET Users : \A d \in Dirs :
    LET from == {u \in of : <<u, d>> \notin Silent}
    IN  IF from = {} THEN Lacks(f[d])
        ELSE f[d].is = "pcap" /\ f[d].passes = passes /\ DOMAIN f[d].from = from

\* The row is there, or an extraction whose worker had failed left it out.
Settled(n, w) == row[n][w] # 0 \/ <<n, w>> \in left

\* However extractions interleave and wherever they fail, row by row: a row of
\* a window is stored only after every row of the windows before it, and the
\* row of the dataset only after all of them, but for the rows whose own pool
\* workers failed; and no row is left out while nothing fails.
StoredInOrder ==
  /\ \A n \in Nodes, w \in 1 .. Windows : row[n][w] # 0 =>
       \A m \in Nodes, v \in 1 .. w - 1 : Settled(m, v)
  /\ dataset # 0 => \A m \in Nodes, v \in 1 .. Windows : Settled(m, v)
  /\ fails = 0 => left = {}

\* After a transform that nothing clashed with, and until the next begins, the
\* stored row was measured on the very packets the two files hold, which are of
\* the same users and went through all passes in their order: what is selected
\* is what is replayed.
IsEmptied(f) == f.is = "pcap" /\ f.from = <<>> /\ f.passes = AllPasses
RowDescribesFiles ==
  "transform" \in tidy =>
    /\ trow = file["transform"]
    /\ SameUsers(trow, AllPasses, IsEmptied)

\* A worker that fetched the archive of such a row holds these packets, in both
\* directions, until the row is transformed anew.
CopyIsTheRow == {"fetch", "transform"} \subseteq tidy => worker = trow

\* An export that nothing clashed with leaves the packets of the same users in
\* both directions, whole and in order, and no later call spoils them.
IsAbsent(f) == f = Absent
Exported == file["replay"]
ReplayFilesOrdered == "replay" \in tidy => SameUsers(Exported, <<"order">>, IsAbsent)

\* "Produce or locate replay-ready PCAP files" (export.py:61): files that are
\* answered from the cache are whole and in order.
CachedIsReady ==
  [][\A c \in Calls : AnswerCached(c) => SameUsers(Exported, <<"order">>, IsAbsent)]_vars
=============================================================================
