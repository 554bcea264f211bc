------------------------- MODULE SubstrateSessions -------------------------
(***************************************************************************)
(* The session tables of one substrate worker                              *)
(* (services/substrate-worker/src/substrate/main.py): ACTIVE_CAPTURES,     *)
(* ACTIVE_QTRACES and ACTIVE_REPLAYS, and the processes (tshark,           *)
(* tcpreplay-edit) or sampler threads they stand for.  One experiment owns *)
(* at most one session of each kind, under an id (uuid4) that nobody else  *)
(* knows, so a kind stands for the session of that kind.                   *)
(*                                                                         *)
(* The module has no Next: the handlers below are the worker's half of the *)
(* calls of ExperimentRun.                                                 *)
(***************************************************************************)

Sessions == {"capture", "qtrace", "replay"}

VARIABLES
  proc,   \* per kind: what became of the session's process or sampler thread
  table   \* the kinds whose session is registered in its ACTIVE_ table

sessionVars == <<proc, table>>

\* "finished": it ended by itself.  "stopping": told to end (SIGTERM and
\* SIGKILL sent, or the stop event set), not gone when the handler answered.
ProcStates == {"none", "running", "finished", "stopping", "stopped"}

Ended(k) == proc[k] \in {"finished", "stopped"}

SessionsTypeOK ==
  /\ proc \in [Sessions -> ProcStates]
  /\ table \subseteq Sessions

SessionsInit ==
  /\ proc = [k \in Sessions |-> "none"]
  /\ table = {}

-----------------------------------------------------------------------------
(* start_capture, start_qtrace, start_replay.  The process exists before    *)
(* the entry for capture and replay, after it for qtrace; either way both   *)
(* are there when the handler answers 200.                                  *)

Spawn(k) ==
  /\ proc' = [proc EXCEPT ![k] = "running"]
  /\ table' = table \cup {k}

\* The handler raises with a process already spawned and no entry for it.
\* capture: tshark died within the 0.2 s probe.  replay: the download
\* tcpreplay was started, then Popen of the upload one failed; nothing
\* terminates the first.
SpawnUnregistered(k) ==
  /\ \/ k = "capture" /\ proc' = [proc EXCEPT ![k] = "stopped"]
     \/ k = "replay"  /\ proc' = [proc EXCEPT ![k] = "running"]
  /\ UNCHANGED table

\* delete_capture, delete_replay: terminate, wait 5 s, kill without waiting,
\* then drop the entry.  stop_qtrace: set the event, join for 5 s, and keep
\* the entry so that the trace stays downloadable.
Stop(k) ==
  /\ k \in table
  /\ IF proc[k] = "running"
       THEN \E s \in {"stopping", "stopped"} : proc' = [proc EXCEPT ![k] = s]
       ELSE UNCHANGED proc
  /\ table' = IF k = "qtrace" THEN table ELSE table \ {k}

\* get_capture answers at all / answers "finished".
Known(k) == k \in table
ReportsFinished(k) == Known(k) /\ Ended(k)

\* A slip: the 409 is left out.
Downloadable_Unchecked(k) == Known(k)

\* download_capture_pcap, download_qtrace: 404 for an unknown id, 409 while
\* the process or thread is alive.
Downloadable(k) == Known(k) /\ Ended(k)

\* What a reader of the session's file gets now.
Contents(k) == IF Ended(k) THEN "final" ELSE "partial"

-----------------------------------------------------------------------------
\* The duration elapsed, the process died, or a signalled one is gone.
ProcEnds(k) ==
  /\ proc[k] \in {"running", "stopping"}
  /\ proc' = [proc EXCEPT ![k] = IF @ = "running" THEN "finished" ELSE "stopped"]
  /\ UNCHANGED table
=============================================================================
