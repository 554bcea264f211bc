----------------------------- MODULE WorkerPool -----------------------------
(***************************************************************************)
(* OrchestrationManager.run, _run_sequential, _run_parallel and            *)
(* _dispatch_one (services/orchestration/app/engine/                       *)
(* orchestration_manager.py) over the local_docker and static backends of  *)
(* connectivity.py: one dispatch per spec, its worker container, the       *)
(* registry self._workers, and the bottleneck each worker is shaped to.    *)
(*                                                                         *)
(* Of the experiment itself only the two calls that tie it to its worker   *)
(* are kept, POST /shape and POST /run; ExperimentRun has the rest.  Every *)
(* call to the Docker API may answer with an error, be refused, or take    *)
(* effect and lose its answer; POST /shape may outlive its client.         *)
(***************************************************************************)
EXTENDS Naturals, FiniteSets

CONSTANTS
  N,            \* how many experiment specs the generator returned
  MaxParallel,  \* max_parallel_workers
  Addrs,        \* addresses Docker can give to containers
  StaticAddr    \* SUBSTRATE_WORKER_URL

ASSUME NAssumption == N \in Nat
ASSUME MaxParallelAssumption == MaxParallel \in Nat \ {0}
ASSUME AddrsAssumption == StaticAddr \notin Addrs

Specs == 1..N
Endpoints == Addrs \cup {StaticAddr}

\* run: parallel mode needs more than one worker and more than one spec.
Slots == IF MaxParallel > 1 /\ N > 1 THEN MaxParallel ELSE 1

VARIABLES
  env,        \* CONNECTIVITY_BACKEND and ORCH_KEEP_WORKER
  phase,      \* per spec: where its dispatch is
  result,     \* per spec: the status of the result dict, once decided
  container,  \* per spec: the container made for it
  addr,       \* per spec: the address its container got
  registry,   \* specs whose worker is in self._workers
  req,        \* per spec: its POST /shape, as the worker sees it
  shape,      \* per endpoint: whose bottleneck it is shaped to, 0 for nobody's
  summary     \* status of the aggregated result

vars == <<env, phase, result, container, addr, registry, req, shape, summary>>

Phases == {"queued", "create", "start", "inspect", "ready", "shaping",
           "shaped", "running", "destroy", "returned"}

Environments == [backend : {"docker", "static"}, keepWorker : BOOLEAN]

Backend == env.backend
KeepWorker == env.keepWorker

TypeOK ==
  /\ env \in Environments
  /\ phase \in [Specs -> Phases]
  /\ result \in [Specs -> {"none", "success", "failed"}]
  /\ container \in [Specs -> {"none", "created", "up", "gone"}]
  /\ addr \in [Specs -> Endpoints]
  /\ registry \subseteq Specs
  /\ req \in [Specs -> {"none", "sent", "ok", "error"}]
  /\ shape \in [Endpoints -> Specs \cup {0}]
  /\ summary \in {"none", "complete", "partial", "failed"}

Init ==
  /\ env \in Environments
  /\ phase = [s \in Specs |-> "queued"]
  /\ result = [s \in Specs |-> "none"]
  /\ container = [s \in Specs |-> "none"]
  /\ addr = [s \in Specs |-> StaticAddr]
  /\ registry = {}
  /\ req = [s \in Specs |-> "none"]
  /\ shape = [e \in Endpoints |-> 0]
  /\ summary = "none"

InFlight == {s \in Specs : phase[s] \notin {"queued", "returned"}}

\* A slip: the docker backend hands out SUBSTRATE_WORKER_URL too.
Endpoint_Static(s) == StaticAddr

\* WorkerInfo.endpoint.
Endpoint(s) == addr[s]

Goto(s, from, to) ==
  /\ phase[s] = from
  /\ phase' = [phase EXCEPT ![s] = to]

\* An exception before there is a worker to destroy.
Abort(s) == result' = [result EXCEPT ![s] = "failed"]

-----------------------------------------------------------------------------
(* The executor hands out the specs in order, the sequential loop one by    *)
(* one.                                                                     *)

\* A slip: the executor gets one thread per spec, not max_parallel_workers.
Take_Unbounded(s) ==
  /\ \A t \in Specs : t < s => phase[t] # "queued"
  /\ Goto(s, "queued", "create")
  /\ UNCHANGED <<env, result, container, addr, registry, req, shape, summary>>

Take(s) ==
  /\ \A t \in Specs : t < s => phase[t] # "queued"
  /\ Cardinality(InFlight) < Slots
  /\ Goto(s, "queued", "create")
  /\ UNCHANGED <<env, result, container, addr, registry, req, shape, summary>>

-----------------------------------------------------------------------------
(* create_worker.                                                           *)

\* StaticWorkerBackend: a registry entry for the shared endpoint.
CreateStatic(s) ==
  /\ Backend = "static"
  /\ Goto(s, "create", "ready")
  /\ registry' = registry \cup {s}
  /\ UNCHANGED <<env, result, container, addr, req, shape, summary>>

\* LocalDockerBackend, POST /containers/create.  The configuration check that
\* raises ValueError ends like a refused call.
CreateContainer(s) ==
  /\ Backend = "docker"
  /\ \/ Goto(s, "create", "start") /\ UNCHANGED result
        /\ container' = [container EXCEPT ![s] = "created"]
     \/ Goto(s, "create", "returned") /\ Abort(s)
        /\ \/ UNCHANGED container
           \/ container' = [container EXCEPT ![s] = "created"]
  /\ UNCHANGED <<env, addr, registry, req, shape, summary>>

FreeAddrs == Addrs \ {addr[t] : t \in {u \in Specs : container[u] = "up"}}

\* The container runs: Docker gives it a free address, and no qdisc is set.
Boot(s) ==
  \E a \in FreeAddrs :
    /\ container' = [container EXCEPT ![s] = "up"]
    /\ addr' = [addr EXCEPT ![s] = a]
    /\ shape' = [shape EXCEPT ![a] = 0]

\* POST /containers/{id}/start.  On a bad status the container is deleted and
\* the status of that delete is not looked at; on a transport error it is left.
StartContainer(s) ==
  /\ \/ Goto(s, "start", "inspect") /\ Boot(s) /\ UNCHANGED result
     \/ Goto(s, "start", "returned") /\ Abort(s)
        /\ \/ Boot(s)
           \/ /\ container' \in {container, [container EXCEPT ![s] = "gone"]}
              /\ UNCHANGED <<addr, shape>>
  /\ UNCHANGED <<env, registry, req, summary>>

\* GET /containers/{id}/json, then the endpoint and the registry entry.  No
\* error path removes the container.
InspectContainer(s) ==
  /\ \/ Goto(s, "inspect", "ready") /\ UNCHANGED result
        /\ registry' = registry \cup {s}
     \/ Goto(s, "inspect", "returned") /\ Abort(s)
        /\ UNCHANGED registry
  /\ UNCHANGED <<env, container, addr, req, shape, summary>>

-----------------------------------------------------------------------------
(* _run_experiment_on_worker, reduced to /shape and /run.  A failure of     *)
(* either ends in a result "failed" and goes on to destroy the worker.      *)

Decide(s, verdict) == result' = [result EXCEPT ![s] = verdict]

PostShape(s) ==
  /\ \/ Goto(s, "ready", "shaping") /\ UNCHANGED result
        /\ req' = [req EXCEPT ![s] = "sent"]
     \/ Goto(s, "ready", "destroy") /\ Decide(s, "failed")
        /\ UNCHANGED req
  /\ UNCHANGED <<env, container, addr, registry, shape, summary>>

\* The worker carries out a /shape request, its client may be long gone.  A
\* tc command that fails leaves the interfaces as far as the commands before
\* it got: untouched, stripped of the old qdisc, or all but verified.
WorkerShapes(s) ==
  /\ req[s] = "sent"
  /\ \/ /\ req' = [req EXCEPT ![s] = "ok"]
        /\ shape' = [shape EXCEPT ![Endpoint(s)] = s]
     \/ /\ req' = [req EXCEPT ![s] = "error"]
        /\ \E left \in {shape[Endpoint(s)], 0, s} :
             shape' = [shape EXCEPT ![Endpoint(s)] = left]
  /\ UNCHANGED <<env, phase, result, container, addr, registry, summary>>

\* A slip: POST /shape without a client timeout.
ShapeReturns_NoTimeout(s) ==
  /\ \/ Goto(s, "shaping", "shaped") /\ UNCHANGED result
        /\ req[s] = "ok"
     \/ Goto(s, "shaping", "destroy") /\ Decide(s, "failed")
        /\ req[s] = "error"
  /\ UNCHANGED <<env, container, addr, registry, req, shape, summary>>

\* apply_shaping returns on a 200 and raises on anything else or a timeout.
ShapeReturns(s) ==
  /\ \/ Goto(s, "shaping", "shaped") /\ UNCHANGED result
        /\ req[s] = "ok"
     \/ Goto(s, "shaping", "destroy") /\ Decide(s, "failed")
  /\ UNCHANGED <<env, container, addr, registry, req, shape, summary>>

PostRun(s) ==
  /\ \/ Goto(s, "shaped", "running") /\ UNCHANGED result
     \/ Goto(s, "shaped", "destroy") /\ Decide(s, "failed")
  /\ UNCHANGED <<env, container, addr, registry, req, shape, summary>>

RunReturns(s) ==
  /\ Goto(s, "running", "destroy")
  /\ \E verdict \in {"success", "failed"} : Decide(s, verdict)
  /\ UNCHANGED <<env, container, addr, registry, req, shape, summary>>

-----------------------------------------------------------------------------
(* The finally block of _dispatch_one.                                      *)

\* Requests in a container end with it.
RemoveContainer(s) ==
  /\ container' = [container EXCEPT ![s] = "gone"]
  /\ req' = [req EXCEPT ![s] = "none"]

\* A slip: self._workers.clear() where one entry was to be popped.
DestroyContainer_Clears(s) ==
  /\ Backend = "docker" /\ ~KeepWorker
  /\ Goto(s, "destroy", "returned")
  /\ RemoveContainer(s) \/ UNCHANGED <<container, req>>
  /\ registry' = {}
  /\ UNCHANGED <<env, result, addr, shape, summary>>

\* DELETE /containers/{id}?force=true.  Its status is not looked at, so the
\* registry entry goes even when Docker answered with an error; a transport
\* error keeps the entry, is caught and logged by _dispatch_one.
DestroyContainer(s) ==
  /\ Backend = "docker" /\ ~KeepWorker
  /\ Goto(s, "destroy", "returned")
  /\ RemoveContainer(s) \/ UNCHANGED <<container, req>>
  /\ registry' \in {registry, registry \ {s}}
  /\ UNCHANGED <<env, result, addr, shape, summary>>

\* StaticWorkerBackend.destroy: the entry goes, the shared worker stays.
ReleaseStatic(s) ==
  /\ Backend = "static" /\ ~KeepWorker
  /\ Goto(s, "destroy", "returned")
  /\ registry' = registry \ {s}
  /\ UNCHANGED <<env, result, container, addr, req, shape, summary>>

Keep(s) ==
  /\ KeepWorker
  /\ Goto(s, "destroy", "returned")
  /\ UNCHANGED <<env, result, container, addr, registry, req, shape, summary>>

-----------------------------------------------------------------------------
\* A slip: the word of the result dicts where the summary has its own.
SummaryOf_Success(good) ==
  IF good = {} THEN "failed" ELSE IF good = Specs THEN "success" ELSE "partial"

\* run: the summary; an empty list of specs is a failure of its own.
SummaryOf(good) ==
  IF good = {} THEN "failed" ELSE IF good = Specs THEN "complete" ELSE "partial"

Summarise ==
  /\ summary = "none"
  /\ \A s \in Specs : phase[s] = "returned"
  /\ summary' = SummaryOf({s \in Specs : result[s] = "success"})
  /\ UNCHANGED <<env, phase, result, container, addr, registry, req, shape>>

Dispatch(s) ==
  \/ CreateStatic(s) \/ CreateContainer(s) \/ StartContainer(s)
  \/ InspectContainer(s) \/ PostShape(s) \/ ShapeReturns(s) \/ PostRun(s)
  \/ RunReturns(s) \/ DestroyContainer(s) \/ ReleaseStatic(s) \/ Keep(s)

Next ==
  \/ Summarise
  \/ \E s \in Specs : Take(s) \/ Dispatch(s) \/ WorkerShapes(s)

Spec == Init /\ [][Next]_vars

(* Every call of a dispatch has a client timeout, a free executor thread     *)
(* takes the next spec, and the main thread waits for the futures only.      *)
(* Nothing is assumed of the workers.                                        *)
Fairness ==
  /\ WF_vars(Summarise)
  /\ \A s \in Specs : WF_vars(Take(s)) /\ WF_vars(Dispatch(s))

FairSpec == Spec /\ Fairness

-----------------------------------------------------------------------------
(* Properties.                                                              *)

\* With a container per spec, a workflow runs under the bottleneck of its own
\* spec to the end, whatever the other dispatches do and however late the
\* shape requests they gave up on are carried out.
OwnShape ==
  Backend = "docker" =>
    \A s \in Specs : phase[s] = "running" => shape[Endpoint(s)] = s

\* get_worker_info, which every call of a running experiment goes through,
\* finds the worker, and the worker is there: no dispatch removes another's.
WorkerThere ==
  \A s \in Specs :
    phase[s] \in {"ready", "shaping", "shaped", "running", "destroy"} =>
      s \in registry /\ (Backend = "docker" => container[s] = "up")

\* What the caller of run can tell of a spec.
Visible ==
  [s \in Specs |-> IF phase[s] = "queued" THEN "queued"
                   ELSE IF phase[s] = "returned" THEN result[s] ELSE "active"]

Contract == INSTANCE DispatchContract WITH state <- Visible

\* run implements its contract: order, bound, one verdict per spec, summary.
ImplementsContract == Contract!ContractSpec

\* run returns, whatever the workers and Docker do.
Concludes == <>(summary # "none")
=============================================================================
