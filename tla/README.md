# A TLA+ verification of the agentic thin waist

The repository runs network-measurement experiments: a research intent is turned into
experiment specifications, each specification is executed on a *substrate worker* (a
container with network namespaces, shaped bottleneck, packet capture, cross-traffic replay),
and results go to a telemetry service.  This directory models the parts of it whose
correctness depends on the order in which things happen: threads, HTTP calls that are lost or
late, processes on a worker, queue workers, module globals and files shared by request handlers,
calls to a cloud that fail half way.

Source paths below are relative to `src/services/`.

## 1. Inventory

| component | state it keeps | operations | talks to |
|---|---|---|---|
| **experiment run engine** `orchestration/app/engine/orchestration_manager.py` `_run_experiment_on_worker`, `telemetry_*_pull.py` | `thread_results`, `thread_errors`, `capture_status`, the result dict | select and fetch a CTP; four threads firing capture, qtrace, replay and the workflow; join; stop, wait, upload, classify | worker (HTTP), telemetry (HTTP), ctp-service |
| **dispatch and worker pool** `orchestration_manager.py` `run`, `_dispatch_one`; `connectivity.py` | the registry `_workers`, containers | `run` sequential or in a thread pool; create and destroy a worker on the docker or static backend, or on aws (next but last row) | Docker API, EC2 |
| **substrate worker: sessions** `substrate-worker/src/substrate/main.py` | `ACTIVE_CAPTURES`, `ACTIVE_QTRACES`, `ACTIVE_REPLAYS`, child processes, sampler threads, files | start, poll, stop, download | called by the run engine |
| **substrate worker: shaping** same file | `CURRENT_BOTTLENECK_STATE`, `CURRENT_INTERFACES`, the qdiscs of three interfaces and two namespaces | `POST /shape`, the verifiers, `GET /state` | the kernel through `tc` |
| **substrate worker: congestion control, `POST /run`** `main_local.py`, `main_aws.py`, `cca_preload/` | the default algorithm of each namespace and the kernel's allowed list, the links' qdiscs, a shell or browser subprocess, its children and sockets | `POST /congestion`, `POST /run`, the preload shim | the kernel, NetGent |
| **CTP fetch** `substrate/ctp_fetcher.py` | PCAP pairs on disk | fetch from a zip, a URL or a path | ctp-service |
| **telemetry service** `telemetry-service/app/telemetry/routes.py` | results, artifacts, tags, orchestrations; object storage | add, list, tag, upload, upsert | PostgreSQL, S3 |
| **netgent service** `netgent-service/src/api` | `workflow_specifications`, `workflow_runs`, the Procrastinate queue, object storage | generate, execute, poll; `_run_netgent_job` in a queue worker | NetGent, S3 |
| **intent API, orchestration store** `orchestration/app/api/intent.py`, `engine/orchestration_store.py` | one record per orchestration | submit, process in the background, read | agents, telemetry |
| **experiment lifecycle** `engine/experiment_lifecycle.py` | `_last_status`, a phase trace | `mark_*`, each a PATCH | experiment API |
| **experiment API** `experiment-api/app/main.py` | a dict in memory | create, get, list | |
| **executor and tools** `engine/executor.py`, `engine/claude_client.py`, `agent/orchestrator/tools.py` | the items of a run | register, shape, capture, wait, close; the same as a tool of a model | experiment API, worker, telemetry |
| **agents, parser, generator** `orchestration/app/agent`, `engine/*` | what a language model said | prompts, validation | everything above |
| **AWS provisioner and backend** `engine/aws_provisioner.py`, `connectivity.py` `AWSBackend` | a cache file, cloud resources, instances, the shared config | ensure, teardown, create and destroy a worker | AWS |
| **ctp-service** `ctp-service/app` | profiles in PostgreSQL, PCAPs in S3 | extract, select, merge, transform, export | PostgreSQL, files on a volume |
| netforge-setup, browserless worker, analysis | host configuration, images, notebooks | | |

What is hard in them, and what makes each correct:

* **Run engine.**  Four threads, each with calls that may be refused, take effect and lose
  their reply, or be executed after the client gave up.  Correct when the cleanup accounts for
  everything started, nothing half-written reaches telemetry, the result tells what was lost,
  and the run always returns.
* **Pool.**  Specs share a registry, addresses are reused, destroying may fail.  Correct when
  a workflow runs under the bottleneck of its own spec on a worker nobody takes away, the bound
  and the order of dispatch hold, and the summary is that of all specs.
* **Shaping.**  A sequence of `tc` commands, unsynchronised globals, handlers on a thread pool.
  Correct when a request that meets no other leaves exactly what it asked for, whatever earlier
  ones left, and `GET /state` never shows a refused bottleneck.
* **NetGent jobs.**  An API process and a queue worker write the same row, one of them from a
  stale copy; a worker may die anywhere.  Correct when a row's status is true of the artifacts,
  the error and the worker behind it, and jobs settle.
* **Orchestration record.**  Four nodes of the graph, the request handler and the background task
  save the whole record, each over HTTP; a save may be refused, unanswered or late, and two
  upserts may overlap.  Correct when a record that reads `complete` is that of a successful run
  with its results, every way through the graph ends in a verdict, and only a failed save can
  take a verdict back.
* **ctp-service, computations.**  Captures are split by user and window, windows become series and
  a prefix tree, rows are selected by descriptors, and packets are joined, clipped and trimmed by
  other code.  Correct when all of them count the same packets in the same bins.
* **ctp-service, calls.**  Rows are stored one by one, files are rewritten in place under names
  that calls share, calls fail between any two of them, and pool workers fail without the call
  knowing.  Correct when a row that is listed has
  what it names, and describes the packets that are replayed.
* **AWS.**  Fifteen calls to set up and eight to tear down, each of which may fail, made by threads
  and by commands that know nothing of each other, and a launch whose answer may be lost.  Correct
  when only a failed call can leave an instance to nobody, none is launched half configured, and
  trying again helps.
* **Executor.**  Three views of one experiment: the API's record, the session's `_last_status`, the
  item.  Correct when the views do not run ahead of the record and every caller ends.
* **`POST /run`.**  Rates, sysctls, the allowed list and processes of one request meet what others
  set and left, on kernels that refuse part of it to a container.  Correct when a run that meets
  nobody has the network it asked for, or knows what was refused.

`PROJECT.json` lists every component with what is and is not modelled, and every hazard at its
line with the properties that cover it.

## 2. The modules

```
SubstrateSessions <- ExperimentRun <- MCExperimentRun
                          ^---------- ExperimentRunProofs
DispatchContract  <= WorkerPool    <- MCWorkerPool          (<= : implemented by)
                          ^---------- BackendProofs
NetgentJobs         <- MCNetgentJobs, OrchestrationProofs
ShapeState          <- MCShapeState,  ShapeStateProofs
OrchestrationRecord <- MCOrchestrationRecord, OrchestrationProofs
CtpPackets <- CtpPipeline <- MCCtpPipeline, CtpPipelineProofs
      ^------ CtpPacketsProofs <------------ CtpPipelineProofs
CtpService          <- MCCtpService,  CtpServiceProofs
AwsCloud            <- MCAwsCloud,    BackendProofs
ExperimentLifecycle <- MCExperimentLifecycle, OrchestrationProofs
WorkerRuns          <- MCWorkerRuns,  WorkerRunsProofs
```

### ExperimentRun over SubstrateSessions

`SubstrateSessions` is the worker's half: `proc` is what became of the process (tshark,
tcpreplay) or sampler thread of each kind of session, `table` the kinds registered in the
`ACTIVE_*` dicts.  Its operators are the handlers: `Spawn`, `SpawnUnregistered` (the error paths
that leave a process without a session), `Stop`, the poll (`ReportsFinished`), the guarded
download (`Downloadable`).

`ExperimentRun` is `_run_experiment_on_worker`.  `pc` is where the main thread is: one value per
call of the cleanup.  `thr` is the progress of the four fired threads (`"ok"` is "in
`thread_results`", `"error"` is "in `thread_errors`"); `late` holds the starts whose client gave
up.  Each call of the code is one action with all its outcomes.  The constants of a run
(`ORCH_QTRACE_ENABLED`, whether telemetry is configured) are in `env`, chosen in `Init`.  A
sleep is an arbitrary delay; a deadline may pass at any time.

### WorkerPool and DispatchContract

`DispatchContract` says what `run` promises: specs taken in order, at most `Slots` at a time,
each ending in one verdict, the summary drawn from all of them.  `WorkerPool` is the code: per
spec the steps of `_dispatch_one` and of `create_worker` and `destroy_worker`, the Docker
container and its address, the registry, and the bottleneck each endpoint is shaped to.
`env` holds `CONNECTIVITY_BACKEND` (docker or static) and `ORCH_KEEP_WORKER`.  Of the experiment
only `/shape` and `/run` are kept: they tie it to its worker.  `Contract!ContractSpec`, with
`state <- Visible`, is both model-checked and proved.

### NetgentJobs

`status`, `meta` and `defn` are the columns of the two tables, `api` the request handler of each
job, `queue` Procrastinate's task, `worker` the queue worker's place in `_run_netgent_job`.
`seen` is the metadata the worker read in its last session: `LoadAgain` and `CompleteJob` are
apart because the API's error path may write in between.  `cut` remembers the jobs that lost a
commit or their worker: the only ones excused from the liveness property.

### ShapeState

One step per `tc` command or access to the globals.  `root`, `class`, `leaf` and `delay` say
whose setting a device carries; a command that finds what it adds already there fails, and any
command may fail on its own.  `solo` is a history variable: the last request, as long as it met
no other.

### OrchestrationRecord

`pc` is where the request handler, and after it the background task, is: at one of the eight
places that save the record (`Saves`), at a call of a language model or of the run engine
(`Calls`), or stopped.  `put` and `base` are the telemetry service's side of each save: `LoadRow`
and `CommitRow` are the two database accesses of `upsert_orchestration`, apart because another
handler may commit between them, and `CommitRow` writes the status column only if the status
differs from the one loaded, as the ORM does.  A client that gives up (`GiveUp`) leaves its PUT
to be carried out at any later time, or never.  `row` is the stored record, of whose payload only
the presence of results is kept: everything else in it follows the save that wrote it.  The
record's `created_at` and the rows of other orchestrations play no part.

### CtpPipeline over CtpPackets

`CtpPackets` has the computations as operators on sequences of packets: the splitters, the series,
the tree, the descriptors that are whole numbers, `_build_where_clause`, clip, trim and the joining
in batches.  `CtpPipeline` is one extraction and what is made of its result.  A capture, a user and
a window are one action each, because they are what a pool worker does and loses when it fails
(`SplitCapture`, `SplitUser`, `StoreWindow`); `Transform`, `Merge` and the legacy framing then read
the result.  The bins of a series are those that fit in a window: `WindowLen` need not be a multiple
of `BinLen`, and the bytes behind the last bin are in no series (`BytesPastBins`).  `Transform` trims
by the configured interval, one of `TrimBins`; an extraction may have been asked for another,
`BinLen`.  `Frames` never keeps the frame it has open at the end, as the code does not.  Time is
counted in whole units and an address has `AddrBits` bits; `joincap` is taken as a
merge by time that may fail.  Where the code filters a list the model has the set of the positions
it keeps (`Pick`, `BytesAt`): the same packets, in a form that can be reasoned about.

### CtpService

The calls as other calls see them: each is a sequence of the accesses to the rows and files it
makes (`TransformSteps`, `ReplaySteps`, `FetchSteps`, `ExtractSteps`), and an action per kind of
access.  A call may raise between any two steps (`Fail`).  A pool worker that fails does not raise: a
user keeps no files (`SplitUsers`), or is left out of a window (`StoreRoot`), the extraction goes on to
the row of the dataset, and the history variable `left` has the rows it left out.  Without any user's
files there is no window (`NoWindows`).  A file is known by the per-user files it was joined from and
the passes made over it, or is torn.  `tidy` is a history variable: the files whose last writer ran to its end with no other
beside it.

### AwsCloud

`aws` is what exists in the account; an AWS call is one step.  `pc` is the next one of each thread
or command; `newKey`, `group` and `hold` are what it has in its local variables.  `config` has, of
each field that `_auto_provision` sets, whether it is set.  A security group has an id, of which two
are enough: one is free whenever one is made, as the group itself, the cache, the config and the
processes that hold one never need more.  `scar` remembers that a call failed behind which `ensure`
later takes a half-made resource for whole, `raced` that two of setup, teardown and provisioning
overlapped.  `keep` is `ORCH_KEEP_WORKER`, with which `_dispatch_one` ends without destroying the
worker.  A failed call of provisioning or teardown has no effect in the model; `run_instances` and
`terminate_instances` also fail after they took effect (`LaunchUnheard`, `Terminate`), because what
they leave behind costs money.

### ExperimentLifecycle

`run_experiments` for a list of specs per caller, against the records of the experiment API; the
API answers one request at a time and forgets its records when its process is replaced.  A call
that fails may have taken effect.  The API of this repository has no PATCH route, so no mark ever
takes effect there; `PatchRoutes` also has the one the session is written for, because the claims
about the session are about that one.  `Tools` are conversations with a model that uses
`run_experiment` as a tool beside them.

### WorkerRuns

Two of the three worker programs, the deployed ones, chosen by `profile` together with the network
the worker's container is on: `local` is a container on a bridge (docker-compose.yml, the docker
backend), `aws` and `awsWan` are on the host's network (the user data of the EC2 instance), and
`hostLocal` is `main_local.py` there.  A request has a phase and,
in `"cca"`, the next of its commands per namespace: read the available list, widen the allowed list,
set the default (`NsCommands`, where the programs differ).  The kernel has one allowed list, `allowed`,
as the comments of `set_congestion` and `cca_preload.c` say: only the host's own namespace writes it
(`IsInit`, `Widened`), and another namespace's default must be on it, which it is for those of
`Default` (cubic and reno) from the start.  A default that is refused is put down in `deferred` and
the request goes on.  A workflow is its command and a child
that may keep the output open, or not; a socket is its algorithm and whether it is under the shim.
`shared` is a history variable: the request met another one, or something one has left.

## 3. What is checked

Every passing run is exhaustive for its bounds.

| run | instance | shows |
|---|---|---|
| `experiment_run` | one run, all environments, no bound needed (about 263 000 states) | telemetry never holds a half-written file (`ArtifactsAreFinal`); what still runs on return belongs to a call that failed (`QuietOnReturn`); a success without warnings has its row and its PCAP (`CleanSuccessHasPcap`); nothing starts after the cleanup began but abandoned starts (`NoStartAfterCleanup`); the run returns (`Returns`) |
| `worker_pool` | 3 specs, 2 slots, 2 addresses, both backends, kept or not (136 000) | `OwnShape`, `WorkerThere`, `ImplementsContract`, `Concludes` |
| `netgent_jobs` | 1 workflow, 2 executions, concurrency 2 (374 000) | `CompletedHasArtifacts`, `RunningHasWorker`, `RunsADefinition`, `FinalUnlessDeferFailed`, `JobsSettle` |
| `shape_state` | 3 requests, 2 interfaces, 2 namespaces, all verifying (309 000, up to symmetry) | `SoloShapes`, `NeverARefusedState` |
| `orchestration_record` | one orchestration, no bound needed (525 000) | a record that reads `complete` is that of a successful run, with its results (`CompleteIsTrue`); a task that ended without a failed save left the verdict of the run (`EndedRecordIsRight`); a verdict or results go back only by a late save (`GoesBackOnlyLate`); records settle unless they lost their task or a save (`Settles`) |
| `ctp_pipeline` | 21 inputs of two to five packets, 4 addresses, a window of 7 with bins of 2, trim intervals of 1 and 2, one failure, 2 merges | rows add up to their users and, when nothing failed, to the packets but for those past the last bin (`RowsAddUp`); the two counts of on periods agree, and a row without bytes has no period (`DescriptorsAgree`); trimming keeps the rate unless an interval is empty (`TrimKeepsTheRate`); a user's row selected by its peak is not trimmed, if it was extracted with the configured interval and nothing is past its bins (`SelectedUserIsUntrimmed`); a merge takes every packet once (`MergeTakesAll`); the legacy frames and the one that is dropped are the packets past the start limit, cut where a frame is full (`FramesInPlace`) |
| `ctp_service` | 2 calls, 2 users, 2 windows, 3 failures of calls and pool workers (270 000, up to symmetry) | below a stored row, and in a listed dataset, only rows are missing that a failed pool worker left out (`StoredInOrder`); a transformed row describes its files (`RowDescribesFiles`); so does a worker's copy (`CopyIsTheRow`); exported files are whole and in order (`ReplayFilesOrdered`) |
| `aws_workers` | 2 threads, 2 commands, 1 instance, kept or destroyed, one failed call (3.6 million, up to symmetry) | an instance that runs with nobody to end it is the work of a failed call, one each (`NoOrphans`); none is launched half configured (`LaunchedWhole`); a setup that ends suffices (`SetupSuffices`) |
| `experiment_lifecycle` | 3 specs and 2 tool calls that share an id, two failures or restarts (114 000) | a session never believes more than the record says (`RecordKeepsUp`); every caller ends, with an item per spec (`RunsAll`) |
| `worker_runs` | 2 requests, local on a bridge and on the host's network, aws with an egress link, one failing command (4.3 million) | an undisturbed run has its links, and ns1's default or a note that it was refused, which without a failure only the kernel's list explains; it observes its own flows (`SoloRunHasItsNetwork`) |

Two further runs check what a comment says and show, by a counterexample, that the
code does otherwise:

| run | claim | what happens |
|---|---|---|
| `cca_sticks` | a flow under the shim uses the requested algorithm, whatever the namespace allows | `/run` on aws hands the shim the name as it was written: in capitals it passes the whitelist, both ways of setting it fail, and `/run` answers `ok` |
| `ctp_cached` | the replay files of an export are ready to be replayed | files another call is writing, or one that failed has left, are answered from the cache |

**Why the bounds are enough.**  One experiment has at most one session of each kind and nothing
of it is unbounded, so `ExperimentRun` needs no bound; neither does `OrchestrationRecord`, whose
task makes at most eight saves.  In the pool, three specs over two slots
let a slot be reused while another dispatch is in flight, and two addresses force the address of
a destroyed worker onto the next spec.  In NetGent, one execute job overlaps the generate job's
last writes and another execute job of the same workflow.  In shaping, two requests mix and a
third has to repair what they left; two interfaces (the loop repeats for the third) of which one
is verified before and one after another request's command.  The pipeline's captures have packets in
one bin, in neighbouring ones, past the last one (a window of 7 has three bins of 2), after a gap and
out of order, of users that share a subnet and that
do not, and a batch of one user makes every merge a chain of batches; two merges of one name find
what the first left.  The trim interval is a bin long, or shorter.
Two calls of ctp-service overlap, or one reads what the other left; what a third would have left is
there at the start (nothing, a dataset, or a dataset with a transformed and an exported row).  Files of one
window are followed; the second window is there for the order of the rows.  Three failures leave both
users without files and then end a call, or one user without files and a window without rows.
On AWS, two commands and a provisioning thread set up, tear down half way and set up again; a second
thread reads the config meanwhile; whichever launches first has the one instance.
The executor's specs meet a record that is there, one that is not,
and one that is gone.  Two requests on a worker overlap, or one finds what the other left, of an
algorithm that the kernel allows by itself, of one that is loaded at boot and of one that is not, on
a host whose setup widened the list and on one where it did not.  The theorems below remove these
bounds for the safety properties they state.

**Fairness.**  The orchestrator's threads always go on, because every call they make has a
client timeout (`httpx.Client(timeout=...)`, `ORCH_HTTP_TIMEOUT`) and the capture wait has a
deadline; an idle executor thread takes the next spec.  Nothing is assumed of a worker: its
processes and its workflow may run for ever and it may never answer.  In NetGent, handlers and
tasks do not stop half way except for the failures modelled, and an idle worker takes the next
task.  That NetGent returns is not assumed of the specification, because the code puts no limit
on it: `JobsSettle` carries it as its hypothesis.  Of the executor's callers each goes on by itself: its clients have
timeouts and both its waits have deadlines, whatever records and the API do.  Of the orchestration record only the clients
are fair: `save_orchestration` and `load_orchestration` have a timeout.  The telemetry service
need not answer, and that model calls and runs return is the hypothesis of `Settles`.  `Settles`
also says how much is lost when the process dies or a save fails: such a record may stay
`pending` or `executing` for ever, because nothing takes a task up again.

Each property has a mutant: the operators introduced by "A slip" replace the definition they
follow the way a plausible bug would, and the property then fails.

`CHECK_DEADLOCK` is off in all runs: a finished run, pool, set of jobs or set of requests stops.

## 4. What is proved

All theorems are checked by TLAPS for every value of the constants, under the named assumptions
of the modules only (the number of specs is a natural number, the parallelism is positive, the
static address is not one of Docker's; workflow and execution ids are disjoint; there are at
least two interfaces; a caller is a manager or a tool, not both; and so on).

* **ExperimentRunProofs.**  `Invariance` proves `IInv`.  No property is inductive by itself:
  each relates what the orchestrator believes to what is true elsewhere, so `IInv` says, part by
  part, what a belief entails: `StartsMatch` (an id stands for a process), `StopsMatch` (an
  answered stop left no running process), `CleanupInOrder` (how far the main thread is tells
  what has been stopped), `FinishedIsStable`, `WorkflowMatch`, `UploadsMatch`,
  `VerdictMatches`.  From it follow `TelemetryIsSound`, `Quiet`, `Downloads`, `CleanSuccess` and
  the action property `StartsBeforeCleanup`.
* **BackendProofs, the pool.**  `PoolInvariance` proves `PoolInv`: `PhasesMatch` (a dispatch's place
  tells its container, request and verdict), `AddrsDistinct` (two running containers have two
  addresses) and `ShapeKept` (an acknowledged shape stays).  The last needs the second: a late
  request can only reach the container it was sent to, because it ends with it.
  `MeasuredAsConfigured`, `NobodyTakesMyWorker`; and `PoolImplementsContract`, the refinement
  of `DispatchContract`: each step maps to a step of the contract or to a stutter.
* **OrchestrationProofs, the NetGent jobs.**  `JobInvariance` proves `JobInv`: `TakenOnce`,
  `FinalHasWriter` (a final status has a finished worker or a rejected request behind it),
  `ArtifactsStored`, `DefinedOnce`.  `JobTypes`, `CompletedRows`, `FailedRows`, `RunningRows`,
  `ExecutionsAreDefined`, and the action property `FinalStays`.
* **ShapeStateProofs.**  `ShapeInvariance` proves `ShapeInv`, whose heart is `Alone`: how far a
  request that met no other has got on every device.  `SoloShapesExactly`, `SoloFailuresClear`,
  `RefusedNeverShown`.
* **OrchestrationProofs, the stored record.**  `RecordInvariance` proves `RecordInv`.  `SavesInOrder` and
  `OneUnderWay` order the saves: one that is under way and not given up is the last one made.
  `RowIsWritten` says the record holds no status of an earlier save that was not committed, which
  is why the mixed write of two upserts cannot pair `complete` with a payload without results;
  `LastSaveWins` ties the record to the last save as long as none failed.  `CompleteRecords`,
  `EndedRecords`, and the action properties `GoesBack` and `CompleteLost`.
* **BackendProofs, the cloud.**  `CloudInvariance` proves `CloudInv`: `HoldersHold` and `OneHolder`
  (a thread between `run_instances` and the end of its worker has an instance, which runs and is
  nobody else's), `Accounted` (the instances in nobody's hands are finitely many, and no more than the
  failed calls: each step that adds one is a failed call and adds only that one, `CountedGrowth`),
  `RegisteredServes`, and `FieldsInOrder`, by which the image id stands
  for every field that is set before it.  Most steps are of the account only: `EnsureEffects`,
  `TeardownEffects` and `BeginEffects` say so once, and the invariant is then shown for a step
  that is quiet and for the few that are not.  `Orphanless`, `Whole`.  `SetupInvariant` proves
  `SetupInv`: while nothing raced only one process sets up or tears down (`OneAtWork`), and if no call
  failed behind which a resource is left half made, `Fits` says for each of its steps which of the
  resources that have their names are whole, and what its local variables name; nobody at work, the
  cache names what is whole.  `SetupIsWhole` is `SetupSuffices`.
* **OrchestrationProofs, the experiment records.**  `LifecycleInvariance` proves `LifecycleInv`: `SessionInOrder` (a session
  believes "pending" up to its first mark, and in an end only when it is over) and `ItemsInOrder`
  (the items are those of the specs before the current one), which keep a record from being
  written by a session other than its own, or after its item.  Every step either leaves the
  record (`Stays`) or moves it at least as far as its session believes (`Advances`).  `KeepsUp`.
* **WorkerRunsProofs.**  `Invariant` proves `RunsInv`, which is stated per request.  `Alone` (a
  request that met no other is the only one with a handler or a process) makes most of it easy: the
  only step of another request beside such a one is its arrival, after which they have met
  (`Disturbed`).  What is left is the request's own way: `ShapedSoFar` link by link; `SetBefore`, by
  which ns1's default is set or deferred once its command is behind; and `ListsBefore`, which says
  whether the list the request read and the allowed list hold its algorithm yet, where its commands
  begin in the host's namespace (`Lifted`).  `Defaults` keeps what the kernel allows by itself on the
  list, whatever is written over it, and so permits it where nothing can be widened.
  `CommandsOrdered` computes the order of the commands from `NsCommands`.  `OwnNetwork`.
* **CtpServiceProofs.**  `ServiceInvariance` proves `ServiceInv`.  The steps of a call are a sequence
  joined from those of its users and windows, so the first part computes which step stands where
  (`ExtractSteps` by induction on the users, for any number of users and windows); after it the
  invariant can speak of `call[c].step`.  `StoreInv` (what is behind an extraction is done or
  was left out after a failure, and nothing is left out while none happened, since then every user has
  files and is counted) needs nothing else.  For the files, `AloneInv` says that a call that met no
  other has none beside it that could disturb it; then `TransformInv`, `FetchInv` and `ReplayInv`
  say, pass by pass, what the files of such a call hold, and `TidyInv` that the files which count
  have no other writer under way.  `UsersInv` (a call has found users) keeps a file from being
  joined of nothing, `AbsentInv` says which exported files may be missing: users may be leaves and have
  no files, and those that have both (`Heard`) only become more.
  `ListedIsComplete`, `MeasuredIsReplayed`, `FetchedIsMeasured`, `ExportedInOrder`.
* **CtpPacketsProofs.**  What the computations compute, for packets, files and settings of any size.
  A fold of the library is a `CHOOSE` of a recursive function; for each (`SplitByIp`, `SplitByWindow`,
  `Series`, `Tree`, `OnOffPeriods`, `ByTime`, `Trim`, `FlattenSeq`, `JoinInBatches`, the sums) it is
  first shown that the function exists and takes one step after the other (`IpScan`, `WinScan`,
  `SeriesScan`, `TreeScan`, `PeriodsScan`, `TimeScan`, `TrimScan`, `FlatScan`, `BatchScan`, `SumOf`).
  An invariant of that step, kept up to the last packet, is then what the fold computes:
  - `SplitByIpKeeps`: a user's file of a direction weighs what the user's packets of the capture
    weigh, whatever the cache of open writers evicts, and is in order if the capture is.
  - `WindowsAddUp`: of a file in order, no window is opened twice, so truncating loses nothing, and
    the windows weigh what the file does.  `SeriesAddsUp`: so does the series of a window together
    with the packets past its last bin; where the length of a bin divides the window's there is none.
  - `TreeGives`: a node at any prefix length has the users below it and the sums of their series.
    `NetworksNest` is why: cutting an address in two steps is cutting it in one, which is arithmetic of
    powers of two; the provers have none, and take it from the number of subsets of a set (`PowNext`).
  - `TrimRate`: as long as no interval is empty, the counter of the trimming names the interval of the
    packet; an interval carries at most the threshold and one packet, and keeps its first.
    `NothingTrimmed`: nothing is cut from a window whose bins are below the threshold.
  - `ByTimeGives`, `JoinsAll`: sorting by time, joining and batches leave each packet as often as it was.
  - `Agreement`: `TotalAdds` (the totals of the directions add up), `TotalIs` (the peak carries the
    total) and `PeriodsAre`, by which the fold of `metrics.py` that remembers the last bin counts the
    upward crossings of `pcap_utils.py`, with on and off in turn (`Alternate`); without bytes there are
    neither.
* **CtpPipelineProofs.**  The theorems about the pipeline's states, for any captures, settings and
  failures of the workers.  Six inductive invariants say what the lemmas need to apply:
  `PipelineTyped` (every file of every stage holds packets, every row an amount of bytes in every bin),
  `PipelineStaged` (a stage begins when the one before is done; the windows are numbered and finite),
  `SplitsKept` (as long as nothing failed, a capture's files are its split and a file's windows are
  the file's; the windows of an ordered capture are ordered and no longer than a window), `RowsFit` (a row is the sum of the rows of the users kept in its
  window, whose own series are those of their files; nobody is left out if nothing failed),
  `AnswerTrimmed` and `MergesMade` (what an answer or a merge was made of is still what the files
  give, since nothing of an extraction that ended changes).  Each needs those before it, and none of the
  properties is inductive: all of them compare the two ends of a computation that takes many steps.
  - `RowsAgree`: the descriptors of every row agree.
  - `NoByteIsLost`: rows are sums of their users', from `RowsFit`; and of one ordered capture nothing
    failed on, `SplitsKept` joins the weights along the way, capture to files to windows to series and
    what is past them (`BytesAddUp`).  Nothing relates the window to the bins.
  - `TrimmingKeepsTheRate`: from `AnswerTrimmed` and `TrimRate`.
  - `SelectedComeUntrimmed`, for rows that were extracted with the configured interval and windows with
    nothing past their bins (section 5 says what happens otherwise): what one leaf's transform reads is
    one window file (`OneFileIn`, `OneLeaf`), which is in order, so joining and clipping leave it as it
    is (`ClippedIs`); its bins are those of the row the selection matched (`SelectedBelow`).
  - `MergesTakeAllPackets`: by induction on the leaves, what the batches join has a packet as often as
    the window files of the range (`LeavesWeigh`, `BatchesTakeAll`).
  - `FramesAreIntervals`: the frames the scan has closed and the open one are, joined, the packets it
    has read past the start limit, and hold packets of their own interval only, but for the first of
    each (`FrameNext`).  Gaps are included, and so is the frame that is lost at the end.

Only model-checked: the liveness properties `Returns`, `Concludes`, `JobsSettle`, `Settles` and
`RunsAll` (liveness under fairness is out of the prover's reach here).  Every invariant and every
action property that a passing run checks is also a theorem.  The two runs that show a
counterexample have nothing to prove.

An induction is made by hand where a proof needs one, as the library's induction theorems cannot be
instantiated here: on a number, a counterexample has a least one; on a recursive function, it is
first shown that a function with that recursion exists (length by length), and then
that it has the property; on a finite set, along the sets that grow by one element.

## 5. What is not modelled

* Two handler calls for one session at the same time, and a worker restart.
* Telemetry's tags, listings and object storage: each is one request on its own row.
* Of the ctp-service the descriptors that are fractions, the paging of a selection and the operator
  scripts; of the fetch the copies from a URL or a mounted path.
* The prompts and replies of the agents, the parser and the generator: what a language model
  returns is data.  netforge-setup, the browserless image and the notebooks keep no state that
  interleaves.
* `substrate/main.py` as a program of its own: its sessions and shaping are modelled, its
  `/congestion` and `/run` only as the orchestrator sees them, because the image starts
  `main_local.py` or `main_aws.py`.

Abstractions that matter: two requests never ask for the same bottleneck (`Owner` is a request),
so a shape that is right by coincidence does not count; an HTTP status other than the expected
one and a transport error before the effect are the same outcome, unless the code tells them
apart.  A pass over a file that is being written counts as torn.  An EC2 instance comes up with what
the account has when it boots.  Of the fifteen calls of provisioning and the eight of teardown a failed
one had no effect; that a repeated setup makes up for one that had is not shown.

Properties that speak of an undisturbed call say nothing of a disturbed one.  A `/run` that meets
another request or a child of a former one is marked in `shared`, and what network it then has, and
what its observer counts, is left open.  So are the files of overlapping transforms, exports and fetches
(`tidy`), a setup that races another or follows a half-made one (`raced`, `scar`), and the jobs that
lost their worker (`cut`).

Some statements of the repository do not hold in these models without a run that shows it: the
capture need not run when the workflow starts (`orchestration_manager.py:592`), a queue trace that
was not stored leaves no warning (`orchestration_manager.py:749`), a refused `DELETE` leaves the
container up (`connectivity.py:265`), parallel specs on the static backend share its worker
(`orchestration/README.md:294`), a polled `failed` may become `completed`
(`netgent-service/README.md:25`), a generation without a workflow completes
(`netgent-service/README.md:104`), a second `/shape` replaces what the verifiers of the first read
(`main.py:923`), and no experiment's status is PATCHed (`executor.py:534`).

Others are about what the properties above had to be careful with, and the models do not satisfy them:

* "Selecting CTPs where peak <= threshold guarantees burst trimming is a no-op"
  (`descriptors.py:114`).  An extraction takes its bins from the request when it gives them
  (`extract.py:276`), the trimming its interval from the configuration (`transform.py:184`).  With a
  shorter interval two packets that share a bin exceed an interval's budget; and a packet past the
  last bin is in no peak.  `SelectedUserIsUntrimmed` is about the other rows.
* A `TimeSeries` "contains one Fragment per TIME_FRAME_LEN-second window found in the PCAP"
  (`time_series_modules.py:73`).  The frame that is open at the end is never kept, so that a capture
  of one window has none, and after a gap the frames lag behind the windows.  `FramesInPlace` says
  what the frames hold instead.
* "`500` on pipeline failure" (ctp-service's `README.md:74`).  A pool worker that fails logs it and
  returns `None` (`extract.py:143`, `:445`; `window_split.py:176`); the rows it was for are left out, the
  dataset is listed, and `extraction_status` is success.  `StoredInOrder` says that nothing else is
  missing.
* Workers are "created fresh for each experiment and destroyed after"
  (`demo_plan_april_2026.md:214`).  The answer of `run_instances` can be lost (`connectivity.py:498`), and
  `_terminate_instance` (`connectivity.py:576`) swallows its errors and is not repeated: the instance
  runs on.  `NoOrphans` bounds how many do.
* Widening the root's list first, "a Go binary in ns1" is not left with "ns1's stuck-at-cubic default"
  (`main_local.py:1346`), as if the root namespace were init's.  The code also disagrees with itself
  about the allowed list: `_apply_cca_in_ns` (`main_local.py:1337`) and `setup_local.sh` speak of one
  per namespace, `set_congestion` (`main_local.py:1428`, `:1574`) and `cca_preload.c:3` of a global one that
  only init's network namespace can write.  The model follows the second, which is what the shim is
  there for: the worker is a container on a bridge network (`docker-compose.yml:151`), the write changes
  nothing, bbr is refused, and ns1 stays at cubic.  `SoloRunHasItsNetwork` asks for the default only
  where the kernel permits it, and for a note that it was deferred everywhere else.

## 6. Plan

What is left, in this order: telemetry's tags and artifacts under concurrent writers
(`TelemetryStore`); two handler calls for one session (`SessionHandlers`); an abstract specification
of one experiment (started, cleaned up, reported) that `ExperimentRun` implements; the paging of a
selection while an extraction stores rows.
