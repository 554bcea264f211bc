----------------------------- MODULE NetgentJobs -----------------------------
(***************************************************************************)
(* The jobs of the NetGent service                                         *)
(* (services/netgent-service/src/api): WorkflowService.generate and        *)
(* execute, which write a row and defer a task, and _run_netgent_job,      *)
(* which a queue worker runs in another process on the same row.           *)
(*                                                                         *)
(* The sessions are made with expire_on_commit=False, so the API writes    *)
(* back the row as it created it, whatever a worker did to it since.  The  *)
(* worker loads the row again in a session of its own for every write.     *)
(* Any commit may be refused, the defer call may take effect and lose its  *)
(* answer, and a worker may die at any point.                              *)
(***************************************************************************)
EXTENDS Naturals, FiniteSets

CONSTANTS
  Workflows,   \* workflow specifications; also the ids of their generate jobs
  Executions,  \* ids of execute jobs
  WorkflowOf,  \* the workflow_id of each execute request
  Concurrency  \* NETGENT_QUEUE_CONCURRENCY

ASSUME DisjointAssumption == Workflows \cap Executions = {}
ASSUME WorkflowOfAssumption == WorkflowOf \in [Executions -> Workflows]
ASSUME ConcurrencyAssumption == Concurrency \in Nat \ {0}

Jobs == Workflows \cup Executions

VARIABLES
  status,   \* workflow_runs.status, "absent" before the row is committed
  meta,     \* the keys "error" and "artifacts" of workflow_runs.metadata
  defn,     \* workflow_specifications.workflow: no row, {}, or a definition
  api,      \* the request handler of the job: where it is, what it answered
  queue,    \* Procrastinate's task for the job
  worker,   \* where the worker that took the task is
  seen,     \* the metadata the worker loaded for its last write
  objects,  \* how many of the job's artifacts are in object storage
  cut       \* jobs that lost a write to the database or their worker

jobVars == <<status, meta, defn, api, queue, worker, seen, objects, cut>>

Finished == {"completed", "failed"}
Working == {"loading", "running", "storing", "uploading", "failing",
            "finishing", "writing"}

JobTypeOK ==
  /\ status \in [Jobs -> {"absent", "pending", "running"} \cup Finished]
  /\ meta \in [Jobs -> SUBSET {"error", "artifacts"}]
  /\ defn \in [Workflows -> {"absent", "empty", "stored"}]
  /\ api \in [Jobs -> {"idle", "deferring", "failing",
                       "accepted", "rejected", "crashed"}]
  /\ queue \in [Jobs -> {"none", "todo", "taken"}]
  /\ worker \in [Jobs -> {"none", "ended"} \cup Working]
  /\ seen \in [Jobs -> SUBSET {"error", "artifacts"}]
  /\ objects \in [Jobs -> {"none", "some", "all"}]
  /\ cut \subseteq Jobs

JobInit ==
  /\ status = [j \in Jobs |-> "absent"]
  /\ meta = [j \in Jobs |-> {}]
  /\ defn = [w \in Workflows |-> "absent"]
  /\ api = [j \in Jobs |-> "idle"]
  /\ queue = [j \in Jobs |-> "none"]
  /\ worker = [j \in Jobs |-> "none"]
  /\ seen = [j \in Jobs |-> {}]
  /\ objects = [j \in Jobs |-> "none"]
  /\ cut = {}

-----------------------------------------------------------------------------
(* WorkflowService.  A request it turns down writes nothing.                *)

Moves(f, j, from, to) == f[j] = from /\ f' = [f EXCEPT ![j] = to]

Generate(w) ==
  /\ Moves(api, w, "idle", "deferring")
  /\ defn' = [defn EXCEPT ![w] = "empty"]
  /\ status' = [status EXCEPT ![w] = "pending"]
  /\ UNCHANGED <<meta, queue, worker, seen, objects, cut>>

Execute(j) ==
  /\ defn[WorkflowOf[j]] = "stored"
  /\ Moves(api, j, "idle", "deferring")
  /\ status' = [status EXCEPT ![j] = "pending"]
  /\ UNCHANGED <<meta, defn, queue, worker, seen, objects, cut>>

\* _defer_job: the task is queued, it is queued and the answer is lost, or it
\* is not.
Defer(j) ==
  /\ \/ /\ Moves(api, j, "deferring", "accepted") \/ Moves(api, j, "deferring", "failing")
        /\ queue' = [queue EXCEPT ![j] = "todo"]
     \/ /\ Moves(api, j, "deferring", "failing")
        /\ UNCHANGED queue
  /\ UNCHANGED <<status, meta, defn, worker, seen, objects, cut>>

\* The except clause of _defer_job writes status and metadata from the copy of
\* the row the session holds since it created it.
RejectJob(j) ==
  /\ \/ /\ Moves(api, j, "failing", "rejected")
        /\ status' = [status EXCEPT ![j] = "failed"]
        /\ meta' = [meta EXCEPT ![j] = {"error"}]
        /\ UNCHANGED cut
     \/ /\ Moves(api, j, "failing", "crashed")
        /\ cut' = cut \cup {j}
        /\ UNCHANGED <<status, meta>>
  /\ UNCHANGED <<defn, queue, worker, seen, objects>>

-----------------------------------------------------------------------------
(* _run_netgent_job.                                                        *)

Busy == {j \in Jobs : worker[j] \in Working}

TakeTask(j) ==
  /\ Cardinality(Busy) < Concurrency
  /\ Moves(queue, j, "todo", "taken")
  /\ worker' = [worker EXCEPT ![j] = "loading"]
  /\ UNCHANGED <<status, meta, defn, api, seen, objects, cut>>

NotGenerated(j) == j \in Executions /\ defn[WorkflowOf[j]] # "stored"

\* The first session.  Rows are never deleted, so the job and its workflow are
\* found; the branch for a missing definition writes what _fail_job writes.
Load(j) ==
  /\ \/ /\ ~NotGenerated(j)
        /\ Moves(worker, j, "loading", "running")
        /\ status' = [status EXCEPT ![j] = "running"]
        /\ UNCHANGED meta
     \/ /\ Moves(worker, j, "loading", "failing")
        /\ UNCHANGED <<status, meta>>
  /\ UNCHANGED <<defn, api, queue, seen, objects, cut>>

\* A slip: an exception of the client leaves the task.
RunClient_Escapes(j) ==
  /\ \/ Moves(worker, j, "running", "storing")
     \/ j \in Workflows /\ Moves(worker, j, "running", "uploading")
     \/ Moves(worker, j, "running", "ended")
  /\ UNCHANGED <<status, meta, defn, api, queue, seen, objects, cut>>

\* NetGent.generate may return no workflow; what is stored is then not touched.
RunClient(j) ==
  /\ \/ Moves(worker, j, "running", "storing")
     \/ j \in Workflows /\ Moves(worker, j, "running", "uploading")
     \/ Moves(worker, j, "running", "failing")
  /\ UNCHANGED <<status, meta, defn, api, queue, seen, objects, cut>>

\* A slip: what is stored after an execution is the "workflow" of its result.
StoreWorkflow_OfResult(j) ==
  /\ \/ /\ Moves(worker, j, "storing", "uploading")
        /\ defn' = IF j \in Workflows THEN [defn EXCEPT ![j] = "stored"]
                    ELSE [defn EXCEPT ![WorkflowOf[j]] = "empty"]
     \/ /\ Moves(worker, j, "storing", "failing")
        /\ UNCHANGED defn
  /\ UNCHANGED <<status, meta, api, queue, seen, objects, cut>>

\* An execute job writes back the definition it ran.
StoreWorkflow(j) ==
  /\ \/ /\ Moves(worker, j, "storing", "uploading")
        /\ defn' = [defn EXCEPT ![IF j \in Workflows THEN j ELSE WorkflowOf[j]] = "stored"]
     \/ /\ Moves(worker, j, "storing", "failing")
        /\ UNCHANGED defn
  /\ UNCHANGED <<status, meta, api, queue, seen, objects, cut>>

\* A slip: an upload that fails is logged, and the job goes on.
Upload_Swallows(j) ==
  /\ Moves(worker, j, "uploading", "finishing")
  /\ \E stored \in {"none", "some", "all"} :
       objects' = [objects EXCEPT ![j] = stored]
  /\ UNCHANGED <<status, meta, defn, api, queue, seen, cut>>

\* A slip: the uploads are moved behind the except clause.
Upload_Escapes(j) ==
  /\ \/ /\ Moves(worker, j, "uploading", "finishing")
        /\ objects' = [objects EXCEPT ![j] = "all"]
     \/ /\ Moves(worker, j, "uploading", "ended")
        /\ \E stored \in {"none", "some"} :
             objects' = [objects EXCEPT ![j] = stored]
  /\ UNCHANGED <<status, meta, defn, api, queue, seen, cut>>

\* upload_job_artifacts: one put_object after the other, any of which may raise.
Upload(j) ==
  /\ \/ /\ Moves(worker, j, "uploading", "finishing")
        /\ objects' = [objects EXCEPT ![j] = "all"]
     \/ /\ Moves(worker, j, "uploading", "failing")
        /\ \E stored \in {"none", "some"} :
             objects' = [objects EXCEPT ![j] = stored]
  /\ UNCHANGED <<status, meta, defn, api, queue, seen, cut>>

\* _fail_job.  When its commit fails too, the exception leaves the task.
FailJob(j) ==
  /\ Moves(worker, j, "failing", "ended")
  /\ \/ /\ status' = [status EXCEPT ![j] = "failed"]
        /\ meta' = [meta EXCEPT ![j] = @ \cup {"error"}]
        /\ UNCHANGED cut
     \/ /\ cut' = cut \cup {j}
        /\ UNCHANGED <<status, meta>>
  /\ UNCHANGED <<defn, api, queue, seen, objects>>

\* The last session, outside the try: load the row, then write it.
LoadAgain(j) ==
  /\ Moves(worker, j, "finishing", "writing")
  /\ seen' = [seen EXCEPT ![j] = meta[j]]
  /\ UNCHANGED <<status, meta, defn, api, queue, objects, cut>>

\* A slip: the status orchestration uses for the same thing.
CompleteJob_Word(j) ==
  /\ Moves(worker, j, "writing", "ended")
  /\ status' = [status EXCEPT ![j] = "complete"]
  /\ meta' = [meta EXCEPT ![j] = seen[j] \cup {"artifacts"}]
  /\ UNCHANGED <<defn, api, queue, seen, objects, cut>>

\* A slip: the last session is moved into the try, and something after its
\* commit raises.
CompleteJob_InTry(j) ==
  /\ \/ Moves(worker, j, "writing", "ended") \/ Moves(worker, j, "writing", "failing")
  /\ status' = [status EXCEPT ![j] = "completed"]
  /\ meta' = [meta EXCEPT ![j] = seen[j] \cup {"artifacts"}]
  /\ UNCHANGED <<defn, api, queue, seen, objects, cut>>

CompleteJob(j) ==
  /\ Moves(worker, j, "writing", "ended")
  /\ \/ /\ status' = [status EXCEPT ![j] = "completed"]
        /\ meta' = [meta EXCEPT ![j] = seen[j] \cup {"artifacts"}]
        /\ UNCHANGED cut
     \/ /\ cut' = cut \cup {j}
        /\ UNCHANGED <<status, meta>>
  /\ UNCHANGED <<defn, api, queue, seen, objects>>

\* The process dies.  Procrastinate leaves its task as it is, nothing retries it.
WorkerDies(j) ==
  /\ worker[j] \in Working
  /\ worker' = [worker EXCEPT ![j] = "ended"]
  /\ cut' = cut \cup {j}
  /\ UNCHANGED <<status, meta, defn, api, queue, seen, objects>>

-----------------------------------------------------------------------------
Handler(j) == Defer(j) \/ RejectJob(j)

Task(j) ==
  \/ Load(j) \/ StoreWorkflow(j) \/ Upload(j) \/ FailJob(j)
  \/ LoadAgain(j) \/ CompleteJob(j)

JobNext ==
  \/ \E w \in Workflows : Generate(w)
  \/ \E j \in Executions : Execute(j)
  \/ \E j \in Jobs : Handler(j) \/ TakeTask(j) \/ Task(j) \/ RunClient(j) \/ WorkerDies(j)

JobSpec == JobInit /\ [][JobNext]_jobVars

(* Handlers and tasks do not stop half way but for the failures above, and    *)
(* an idle worker takes the next task.  Whether NetGent ever returns is not   *)
(* assumed: the worker puts no limit on it (the timeout of the request is     *)
(* only stored).                                                              *)
JobFairness ==
  \A j \in Jobs : /\ WF_jobVars(Handler(j))
                  /\ WF_jobVars(Task(j))
                  /\ WF_jobVars(TakeTask(j))

FairJobSpec == JobSpec /\ JobFairness

-----------------------------------------------------------------------------
(* Properties.                                                              *)

\* A job reads "completed" only when all its artifacts are stored and its row
\* lists them, whatever the API wrote to the row in between.
CompletedHasArtifacts ==
  \A j \in Jobs : status[j] = "completed" => "artifacts" \in meta[j] /\ objects[j] = "all"

\* netgent-service/README.md:140: a job reads "failed" only with a reason in its
\* metadata, also when two processes fail it or a worker writes back metadata
\* it read before.
FailedHasError ==
  \A j \in Jobs : status[j] = "failed" => "error" \in meta[j]

\* A job reads "running" only while a worker works on it, or it was cut: every
\* way out of the task passes a write of the final status.
RunningHasWorker ==
  \A j \in Jobs : status[j] = "running" => worker[j] \in Working \/ j \in cut

\* An execute job that reaches NetGent has a definition to run, although the
\* check was made by another process, at the time of the request.
RunsADefinition ==
  \A j \in Executions :
    worker[j] \in {"running", "storing", "uploading"} => defn[WorkflowOf[j]] = "stored"

\* A final status changes only for a job whose request saw its defer fail.
FinalUnlessDeferFailed ==
  [][\A j \in Jobs :
       status[j] \in Finished /\ status'[j] # status[j] =>
         api[j] \in {"failing", "rejected", "crashed"}]_jobVars

Settled(j) == status[j] \in Finished \cup {"absent"}

\* If NetGent always returns, every job ends up completed or failed for good,
\* but for those that lost their worker or a write.
JobsSettle ==
  (\A k \in Jobs : []<>(worker[k] # "running")) =>
    \A j \in Jobs : <>[](Settled(j) \/ j \in cut)
=============================================================================
