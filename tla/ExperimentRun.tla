---------------------------- MODULE ExperimentRun ----------------------------
(***************************************************************************)
(* One experiment on one provisioned substrate worker:                     *)
(* _run_experiment_on_worker of                                            *)
(* services/orchestration/app/engine/orchestration_manager.py, with the    *)
(* calls it makes to the worker (SubstrateSessions), to ConnectivityManager*)
(* and to the telemetry service.                                           *)
(*                                                                         *)
(* The main thread selects a CTP, starts four threads that fire POST       *)
(* /capture, /qtrace, /replay and the shape-congestion-run sequence, joins *)
(* them, cleans up, uploads the artifacts and classifies the result.       *)
(*                                                                         *)
(* Every HTTP call may be refused (no effect), lose its reply (the effect  *)
(* happened, the client sees an exception) or, for the calls that start a  *)
(* session, be executed after the client gave up.  A sleep is an arbitrary *)
(* delay, and a deadline may pass at any moment.                           *)
(***************************************************************************)
EXTENDS SubstrateSessions

Threads == Sessions \cup {"workflow"}

VARIABLES
  env,       \* ORCH_QTRACE_ENABLED, and whether TELEMETRY_SERVICE_URL is set
  pc,        \* where the main thread is
  thr,       \* per fired thread: its progress, "ok" if thread_results has it
  late,      \* starts the worker will execute although the client gave up
  wf,        \* the workflow on the worker, POST /run
  capStatus, \* capture_status["status"] as the main thread knows it
  stopped,   \* per session: how its DELETE call went
  row,       \* telemetry has a row for this experiment, POST /results
  telem,     \* run["telemetry"]: a result_id, an error, or not called
  artifact,  \* per session: what telemetry stored, POST /artifacts
  upload,    \* per session: the status the upload helper returned
  outcome,   \* result["status"]
  warned     \* what result["warnings"] names

vars == <<proc, table, env, pc, thr, late, wf, capStatus, stopped, row, telem,
          artifact, upload, outcome, warned>>

workerVars == <<proc, table, late, wf>>
resultVars == <<outcome, warned>>
storeVars  == <<row, telem, artifact, upload>>

Uploads == {"capture", "qtrace"}

PCs == {"select", "fire", "stopReplay", "waitCapture", "stopCapture",
        "stopQtrace", "uploadPcap", "uploadQtrace", "classify", "done"}

ThreadStates == {"idle", "waiting", "shaped", "tuned", "running", "ran",
                 "ok", "error", "skipped"}

TypeOK ==
  /\ SessionsTypeOK
  /\ env \in [qtrace : BOOLEAN, telemetry : BOOLEAN]
  /\ pc \in PCs
  /\ thr \in [Threads -> ThreadStates]
  /\ late \subseteq Sessions
  /\ wf \in {"none", "running", "done", "failed"}
  /\ capStatus \in {"none", "running", "finished", "timeout", "missing"}
  /\ stopped \in [Sessions -> {"no", "ok", "error"}]
  /\ row \in BOOLEAN
  /\ telem \in {"none", "off", "id", "error"}
  /\ artifact \in [Uploads -> {"none", "partial", "final"}]
  /\ upload \in [Uploads -> {"none", "stored", "error"}]
  /\ outcome \in {"none", "success", "failed"}
  /\ warned \subseteq {"replay", "capture", "telemetry", "pcap"}

Init ==
  /\ SessionsInit
  /\ env \in [qtrace : BOOLEAN, telemetry : BOOLEAN]
  /\ pc = "select"
  /\ thr = [t \in Threads |-> "idle"]
  /\ late = {}
  /\ wf = "none"
  /\ capStatus = "none"
  /\ stopped = [k \in Sessions |-> "no"]
  /\ row = FALSE
  /\ telem = "none"
  /\ artifact = [k \in Uploads |-> "none"]
  /\ upload = [k \in Uploads |-> "none"]
  /\ outcome = "none"
  /\ warned = {}

-----------------------------------------------------------------------------
(* Steps 1 and 2: _select_ctp and POST /ctp/fetch.  No match, an invalid    *)
(* range, a failed select and a failed fetch all end in a run without       *)
(* replay.  Then the four threads start; the qtrace and replay threads      *)
(* return at once when they have nothing to fire.                           *)

SelectAndStart ==
  /\ pc = "select"
  /\ pc' = "fire"
  /\ \E ctpFetched \in BOOLEAN :
       thr' = [t \in Threads |->
                 IF \/ t = "qtrace" /\ ~env.qtrace
                    \/ t = "replay" /\ ~ctpFetched
                 THEN "skipped" ELSE "waiting"]
  /\ UNCHANGED <<env, workerVars, capStatus, stopped, storeVars, resultVars>>

-----------------------------------------------------------------------------
(* Step 3: _fire_capture, _fire_qtrace, _fire_replay.                       *)

Fire(k) ==
  /\ thr[k] = "waiting"
  /\ \/ /\ Spawn(k)
        /\ \E seen \in {"ok", "error"} : thr' = [thr EXCEPT ![k] = seen]
        /\ UNCHANGED late
     \/ /\ SpawnUnregistered(k) \/ UNCHANGED sessionVars
        /\ thr' = [thr EXCEPT ![k] = "error"]
        /\ UNCHANGED late
     \/ /\ late' = late \cup {k}
        /\ thr' = [thr EXCEPT ![k] = "error"]
        /\ UNCHANGED sessionVars
  /\ UNCHANGED <<env, pc, wf, capStatus, stopped, storeVars, resultVars>>

\* The worker executes a start whose client timed out (ORCH_HTTP_TIMEOUT).
LateStart(k) ==
  /\ k \in late
  /\ late' = late \ {k}
  /\ Spawn(k) \/ SpawnUnregistered(k) \/ UNCHANGED sessionVars
  /\ UNCHANGED <<env, pc, thr, wf, capStatus, stopped, storeVars, resultVars>>

SessionEnds(k) ==
  /\ ProcEnds(k)
  /\ UNCHANGED <<env, pc, thr, late, wf, capStatus, stopped, storeVars,
                 resultVars>>

-----------------------------------------------------------------------------
(* _fire_workflow: ConnectivityManager.run_experiment.                      *)

WorkflowStep(from, to) ==
  /\ thr["workflow"] = from
  /\ thr' = [thr EXCEPT !["workflow"] = to]
  /\ UNCHANGED <<env, pc, sessionVars, late, capStatus, stopped, resultVars>>

\* apply_shaping and apply_congestion raise on any status other than 200.
ApplyShaping ==
  /\ \E to \in {"shaped", "error"} : WorkflowStep("waiting", to)
  /\ UNCHANGED <<wf, storeVars>>

ApplyCongestion ==
  /\ \E to \in {"tuned", "error"} : WorkflowStep("shaped", to)
  /\ UNCHANGED <<wf, storeVars>>

PostRun ==
  /\ \/ WorkflowStep("tuned", "running") /\ wf' = "running"
     \/ WorkflowStep("tuned", "error") /\ UNCHANGED wf
  /\ UNCHANGED storeVars

\* The /run handler ends whether or not its client is still there.
WorkflowEnds ==
  /\ wf = "running"
  /\ wf' \in {"done", "failed"}
  /\ UNCHANGED <<env, pc, thr, sessionVars, late, capStatus, stopped,
                 storeVars, resultVars>>

\* run_workflow returns the reply, or raises: HTTP 500, a lost reply, or the
\* 300 s client timeout with the workflow still running.
RunReturns ==
  /\ \/ WorkflowStep("running", "ran") /\ wf = "done"
     \/ WorkflowStep("running", "error")
  /\ UNCHANGED <<wf, storeVars>>

\* POST /results.  Its failure is kept in telemetry_save and never raised.
PostResult ==
  /\ WorkflowStep("ran", "ok")
  /\ IF env.telemetry
       THEN /\ row' \in BOOLEAN
            /\ telem' \in {"id", "error"}
            /\ telem' = "id" => row'
       ELSE telem' = "off" /\ UNCHANGED row
  /\ UNCHANGED <<wf, artifact, upload>>

-----------------------------------------------------------------------------
(* Step 4: cleanup, on the main thread.                                     *)

\* A slip: only the workflow's thread is joined.
Joined_WorkflowOnly == thr["workflow"] \in {"ok", "error", "skipped"}

\* t.join() on the four threads.
Joined == \A t \in Threads : thr[t] \in {"ok", "error", "skipped"}

MainStep(from, to) ==
  /\ pc = from
  /\ pc' = to
  /\ UNCHANGED <<env, thr, late, wf>>

JoinThreads ==
  /\ Joined
  /\ MainStep("fire", "stopReplay")
  /\ UNCHANGED <<sessionVars, capStatus, stopped, storeVars, resultVars>>

\* One DELETE call: answered, answered but the reply lost, or refused.
StopCall(k) ==
  \/ /\ Stop(k)
     /\ \E seen \in {"ok", "error"} : stopped' = [stopped EXCEPT ![k] = seen]
  \/ /\ stopped' = [stopped EXCEPT ![k] = "error"]
     /\ UNCHANGED sessionVars

\* A session whose start answered has an id, and only an id can be stopped.
StopIfStarted(k) ==
  \/ thr[k] = "ok" /\ StopCall(k)
  \/ thr[k] # "ok" /\ UNCHANGED <<sessionVars, stopped>>

\* A slip: the replay is stopped on the success path only.
StopReplay_OnSuccess ==
  /\ MainStep("stopReplay", "waitCapture")
  /\ IF thr["workflow"] = "ok" THEN StopIfStarted("replay")
       ELSE UNCHANGED <<sessionVars, stopped>>
  /\ UNCHANGED <<capStatus, storeVars, resultVars>>

StopReplay ==
  /\ MainStep("stopReplay", "waitCapture")
  /\ StopIfStarted("replay")
  /\ UNCHANGED <<capStatus, storeVars, resultVars>>

\* _wait_and_stop_capture.  A GET that fails is retried: no step here.
CaptureMissing ==
  /\ MainStep("waitCapture", "stopQtrace")
  /\ thr["capture"] # "ok"
  /\ capStatus' = "missing"
  /\ UNCHANGED <<sessionVars, stopped, storeVars, resultVars>>

\* A slip: the status of POST /capture where GET /capture has its own.
PollRunning_Started ==
  /\ MainStep("waitCapture", "waitCapture")
  /\ thr["capture"] = "ok"
  /\ Known("capture") /\ ~ReportsFinished("capture")
  /\ capStatus' = "started"
  /\ UNCHANGED <<sessionVars, stopped, storeVars, resultVars>>

PollRunning ==
  /\ MainStep("waitCapture", "waitCapture")
  /\ thr["capture"] = "ok"
  /\ Known("capture") /\ ~ReportsFinished("capture")
  /\ capStatus' = "running"
  /\ UNCHANGED <<sessionVars, stopped, storeVars, resultVars>>

PollFinished ==
  /\ MainStep("waitCapture", "stopQtrace")
  /\ thr["capture"] = "ok"
  /\ ReportsFinished("capture")
  /\ capStatus' = "finished"
  /\ UNCHANGED <<sessionVars, stopped, storeVars, resultVars>>

\* A slip: a poll must have succeeded before the deadline is looked at.
CaptureDeadline_AfterPoll ==
  /\ MainStep("waitCapture", "stopCapture")
  /\ thr["capture"] = "ok" /\ capStatus # "none"
  /\ UNCHANGED <<sessionVars, capStatus, stopped, storeVars, resultVars>>

\* time.time() reached the deadline, whatever the polls returned.
CaptureDeadline ==
  /\ MainStep("waitCapture", "stopCapture")
  /\ thr["capture"] = "ok"
  /\ UNCHANGED <<sessionVars, capStatus, stopped, storeVars, resultVars>>

\* stop_capture, then get_capture: the DELETE dropped the entry, so the GET is
\* a 404 and `last` stays what the last poll returned.
ForceStop ==
  /\ MainStep("stopCapture", "stopQtrace")
  /\ StopCall("capture")
  /\ capStatus' = IF capStatus = "none" THEN "timeout" ELSE capStatus
  /\ UNCHANGED <<storeVars, resultVars>>

StopQtrace ==
  /\ MainStep("stopQtrace", "uploadPcap")
  /\ StopIfStarted("qtrace")
  /\ UNCHANGED <<capStatus, storeVars, resultVars>>

-----------------------------------------------------------------------------
(* stream_capture_pcap_to_telemetry, stream_qtrace_to_telemetry: download   *)
(* from the worker, POST /artifacts to telemetry.                           *)

Upload(k) ==
  \/ /\ Downloadable(k)
     /\ artifact' = [artifact EXCEPT ![k] = Contents(k)]
     /\ \E seen \in {"stored", "error"} : upload' = [upload EXCEPT ![k] = seen]
  \/ /\ upload' = [upload EXCEPT ![k] = "error"]
     /\ UNCHANGED artifact

UploadIf(k, wanted) ==
  /\ \/ wanted /\ Upload(k)
     \/ ~wanted /\ UNCHANGED <<artifact, upload>>
  /\ UNCHANGED <<sessionVars, capStatus, stopped, row, telem, resultVars>>

UploadPcap ==
  /\ MainStep("uploadPcap", "uploadQtrace")
  /\ UploadIf("capture", /\ telem = "id"
                         /\ thr["capture"] = "ok"
                         /\ capStatus = "finished")

UploadQtrace ==
  /\ MainStep("uploadQtrace", "classify")
  /\ UploadIf("qtrace", telem = "id" /\ thr["qtrace"] = "ok")

\* A slip: the warning of a failed PCAP upload is forgotten.
Warnings_NoPcap ==
  {w \in {"replay", "capture", "telemetry"} :
     \/ w = "replay" /\ thr["replay"] = "error"
     \/ w = "capture" /\ capStatus # "finished"
     \/ w = "telemetry" /\ telem = "error"}

\* result["warnings"].
Warnings ==
  {w \in {"replay", "capture", "telemetry", "pcap"} :
     \/ w = "replay" /\ thr["replay"] = "error"
     \/ w = "capture" /\ capStatus # "finished"
     \/ w = "telemetry" /\ telem = "error"
     \/ w = "pcap" /\ upload["capture"] = "error"}

Classify ==
  /\ MainStep("classify", "done")
  /\ outcome' = IF thr["workflow"] = "ok" THEN "success" ELSE "failed"
  /\ warned' = Warnings
  /\ UNCHANGED <<sessionVars, capStatus, stopped, storeVars>>

-----------------------------------------------------------------------------
MainThread ==
  \/ SelectAndStart \/ JoinThreads \/ StopReplay
  \/ CaptureMissing \/ PollRunning \/ PollFinished \/ CaptureDeadline
  \/ ForceStop \/ StopQtrace \/ UploadPcap \/ UploadQtrace \/ Classify

WorkflowThread ==
  ApplyShaping \/ ApplyCongestion \/ PostRun \/ RunReturns \/ PostResult

Worker == WorkflowEnds \/ \E k \in Sessions : LateStart(k) \/ SessionEnds(k)

Next == MainThread \/ WorkflowThread \/ Worker \/ \E k \in Sessions : Fire(k)

Spec == Init /\ [][Next]_vars

(* Every call of the orchestrator has a client timeout, so the main thread   *)
(* and the fired threads always go on; the deadline of the capture wait is   *)
(* the main thread's clock.  Nothing is assumed of the worker: its processes *)
(* and its workflow may never end, and a poll may never succeed.             *)
Fairness ==
  /\ WF_vars(SelectAndStart \/ JoinThreads \/ StopReplay \/ CaptureMissing
             \/ CaptureDeadline \/ ForceStop \/ StopQtrace \/ UploadPcap
             \/ UploadQtrace \/ Classify)
  /\ WF_vars(WorkflowThread)
  /\ \A k \in Sessions : WF_vars(Fire(k))

FairSpec == Spec /\ Fairness

-----------------------------------------------------------------------------
(* Safety.                                                                  *)

\* telemetry never holds a file that tshark or the sampler was still writing:
\* the 409 of download_capture_pcap and download_qtrace, on every path by which
\* an upload is reached (a stop that failed, a join that timed out).
ArtifactsAreFinal == \A k \in Uploads : artifact[k] # "partial"

\* A row in telemetry stands for a workflow the worker really completed, even
\* when replies were lost on the way (run_experiment posts only after /run
\* answered 200), and an artifact is attached to nothing else.
ResultRowMeansCompleted ==
  /\ row => wf = "done"
  /\ \A k \in Uploads : artifact[k] # "none" => row /\ telem = "id"

\* When the run returns, anything of it still running on the worker is
\* accounted for by a call that failed: the cleanup leaves out no session that
\* was started, and never waits for a workflow it should have stopped.
QuietOnReturn ==
  pc = "done" =>
    /\ \A k \in Sessions :
         proc[k] = "running" => thr[k] = "error" \/ stopped[k] = "error"
    /\ wf = "running" => thr["workflow"] = "error"

\* Once a poll answered "finished" the PCAP can be downloaded until the end:
\* no later step of the cleanup deletes the session or reopens the file.
FinishedStaysDownloadable == capStatus = "finished" => Downloadable("capture")

\* A success without warnings, with telemetry configured, has its result row
\* and its complete PCAP in telemetry: the warning list leaves out no way of
\* losing either.
CleanSuccessHasPcap ==
  outcome = "success" /\ warned = {} /\ env.telemetry =>
    row /\ artifact["capture"] = "final"

\* Nothing is started on the worker once cleanup began, but for the starts
\* whose client already saw an error (the threads are joined first).
NoStartAfterCleanup ==
  [][\A k \in Sessions :
       proc[k] = "none" /\ proc'[k] # "none" => pc = "fire" \/ thr[k] = "error"]_vars

(* Liveness.                                                                *)

\* The run returns a result whatever the worker does: a workflow that never
\* ends, a capture that never finishes, a worker that stopped answering.
Returns == <>(pc = "done")
=============================================================================
