------------------------ MODULE ExperimentLifecycle ------------------------
(***************************************************************************)
(* The executor of orchestration (services/orchestration/app/engine/       *)
(* executor.py, experiment_lifecycle.py) against the experiment API        *)
(* (services/experiment-api/app/main.py): run_experiments takes its specs  *)
(* one after another through register, shape, capture, wait and close, and *)
(* an ExperimentLifecycleSession per spec keeps the record's status and    *)
(* its own last_status in step by PATCHes that may all fail.               *)
(*                                                                         *)
(* The experiment API serves one request at a time in the order they come  *)
(* (gunicorn, one sync worker), so a call whose answer was lost has taken  *)
(* effect before the next one of anybody, or never does.  It keeps its     *)
(* records in memory: a restart forgets them.  It has no PATCH route, so   *)
(* PatchRoutes is {FALSE}; with TRUE in it the session is also checked     *)
(* against an API that has the route it is written for.                    *)
(*                                                                         *)
(* Tools are the conversations with a model that calls run_experiment as a *)
(* tool (claude_client.py with ToolRouter, or agent/orchestrator/tools.py) *)
(* beside them: the same three calls, no session, and no waiting.          *)
(*                                                                         *)
(* The worker's calls only answer or raise here: SubstrateSessions and     *)
(* ShapeState have what they do, and every wait for a capture has a        *)
(* deadline that may pass whatever the capture does.                       *)
(***************************************************************************)
EXTENDS Integers, Sequences, SequencesExt, FiniteSets

CONSTANTS
  Managers,     \* the callers of run_experiments
  Tools,        \* the callers of the tool
  Plan,         \* per caller its list of specs, [id, good]
  PatchRoutes,  \* whether the experiment API has PATCH /experiments/<id>
  MaxFails      \* bound: failed or unanswered calls and API restarts

Callers == Managers \cup Tools

RecordStatuses == {"pending", "running", "collecting", "complete", "failed"}

\* The id run_experiments gives a spec that has none.  tools.py makes one up
\* instead: in a plan of Tools such a spec has an id of its own.
Unknown == "unknown"

Ids == {s.id : s \in UNION {ToSet(Plan[m]) : m \in Callers}} \ {Unknown}

ASSUME PlanAssumption ==
  /\ Managers \cap Tools = {}
  /\ PatchRoutes \subseteq BOOLEAN
  /\ MaxFails \in Nat
  /\ \A m \in Callers : Plan[m] \in Seq([id : Ids \cup {Unknown}, good : BOOLEAN])

VARIABLES
  record,   \* the API's records: id -> status, or "none"
  env,      \* the executor's switches (validation, intermediate marks, polling)
            \* and the API's patch route
  doing,    \* per caller: the next call of the current spec
  at,       \* per caller: the index of the current spec
  last,     \* per caller: _last_status of the current session
  items,    \* per caller: experiment_results
  fails

lifecycleVars == <<record, env, doing, at, last, items, fails>>

FinalStatuses == {"complete", "failed"}

\* _ALLOWED_FROM and transition_allowed, the statuses the executor marks.
AllowedFrom(s) ==
  CASE s = "pending"    -> {"running", "failed"}
    [] s = "running"    -> {"collecting", "complete", "failed"}
    [] s = "collecting" -> {"complete", "failed"}
    [] OTHER            -> {}

\* Where a spec starts.  A model asks for validation in a call of its own.
First(m) == IF m \in Managers /\ env.validate THEN "validate" ELSE "post"

LifecycleInit ==
  /\ record = [i \in Ids |-> "none"]
  /\ env \in [validate : BOOLEAN, marks : BOOLEAN, poll : BOOLEAN, patch : PatchRoutes]
  /\ doing = [m \in Callers |-> First(m)]
  /\ at = [m \in Callers |-> 1]
  /\ last = [m \in Callers |-> "pending"]
  /\ items = [m \in Callers |-> <<>>]
  /\ fails = 0

Current(m) == Plan[m][at[m]]
Id(m) == Current(m).id
At(m, p) == at[m] <= Len(Plan[m]) /\ doing[m] = p
Goto(m, p) == doing' = [doing EXCEPT ![m] = p]

CountFail == fails < MaxFails /\ fails' = fails + 1
NoFail == UNCHANGED fails

\* A call that raises goes to the except branch of run_experiments, or out
\* of the tool.
Raises(m) == CountFail /\ Goto(m, "failed")

-----------------------------------------------------------------------------
(* experiment-api *)

Registers(i) == record' = [record EXCEPT ![i] = "pending"]

\* The worker process is replaced and its registry with it.
ApiRestarts ==
  /\ CountFail
  /\ \E i \in Ids : record[i] # "none"
  /\ record' = [i \in Ids |-> "none"]
  /\ UNCHANGED <<env, doing, at, last, items>>

CanPatch(i) == env.patch /\ i \in Ids /\ record[i] # "none"

-----------------------------------------------------------------------------
(* ExperimentLifecycleSession *)

\* A slip: _last_status is set although the PATCH raised.
Patch_Optimistic(m, s) ==
  \/ /\ CanPatch(Id(m))
     /\ record' = [record EXCEPT ![Id(m)] = s]
     /\ last' = [last EXCEPT ![m] = s]
     /\ NoFail
  \/ ~CanPatch(Id(m)) /\ last' = [last EXCEPT ![m] = s] /\ NoFail /\ UNCHANGED record
  \/ CountFail /\ last' = [last EXCEPT ![m] = s] /\ UNCHANGED record

\* _patch with optional=True, as every caller has it: a refused, failed or
\* unanswered PATCH is swallowed and _last_status stays.
Patch(m, s) ==
  \/ /\ CanPatch(Id(m))
     /\ record' = [record EXCEPT ![Id(m)] = s]
     /\ \/ last' = [last EXCEPT ![m] = s] /\ NoFail
        \/ CountFail /\ UNCHANGED last
  \/ ~CanPatch(Id(m)) /\ NoFail /\ UNCHANGED <<record, last>>
  \/ CountFail /\ UNCHANGED <<record, last>>

\* mark_running, mark_collecting: only with the switch on, and only along
\* the table, read against what the session last got through.
Mark(m, s, p) ==
  /\ IF env.marks /\ s \in AllowedFrom(last[m])
       THEN Patch(m, s)
       ELSE NoFail /\ UNCHANGED <<record, last>>
  /\ Goto(m, p)
  /\ UNCHANGED <<env, at, items>>

MarkRunning(m) == At(m, "running") /\ Mark(m, "running", "collecting")
MarkCollecting(m) == At(m, "collecting") /\ Mark(m, "collecting", "waitCapture")

-----------------------------------------------------------------------------
(* run_experiments, one spec *)

\* validate_ctp: ctp-service has no POST /ctps/validate; whatever the call
\* does, _validate_ctp answers and the spec goes on.
ValidateCtp(m) ==
  /\ At(m, "validate")
  /\ Goto(m, "post")
  /\ UNCHANGED <<record, env, at, last, items, fails>>

\* _run_experiment raises before any call: no experiment_id, or a spec
\* without one of the fields it converts.
RejectSpec(m) ==
  /\ At(m, "post")
  /\ Id(m) = Unknown \/ ~Current(m).good
  /\ Goto(m, "failed")
  /\ UNCHANGED <<record, env, at, last, items, fails>>

\* POST /experiments: 201, 409 for an id that is there, or no answer, the
\* record written or not.
PostExperiment(m) ==
  /\ At(m, "post")
  /\ Id(m) # Unknown /\ Current(m).good
  /\ \/ record[Id(m)] = "none" /\ Registers(Id(m)) /\ NoFail /\ Goto(m, "shape")
     \/ record[Id(m)] # "none" /\ Goto(m, "failed") /\ NoFail /\ UNCHANGED record
     \/ record[Id(m)] = "none" /\ Registers(Id(m)) /\ Raises(m)
     \/ Raises(m) /\ UNCHANGED record
  /\ UNCHANGED <<env, at, last, items>>

ShapeSubstrate(m) ==
  /\ At(m, "shape")
  /\ \/ NoFail /\ Goto(m, "capture")
     \/ Raises(m)
  /\ UNCHANGED <<record, env, at, last, items>>

\* With the answer of POST /capture on_registered_pending sets _last_status;
\* the tool has no session and returns.
StartCapture(m) ==
  /\ At(m, "capture")
  /\ \/ last' = [last EXCEPT ![m] = "pending"] /\ NoFail
        /\ Goto(m, IF m \in Tools THEN "dispatched" ELSE "running")
     \/ Raises(m) /\ UNCHANGED last
  /\ UNCHANGED <<record, env, at, items>>

\* _wait_for_capture ends with a "finished" or with its deadline, and by the
\* first poll that raises.
WaitForCapture(m) ==
  /\ At(m, "waitCapture")
  /\ \/ NoFail /\ Goto(m, "waitRecord")
     \/ Raises(m)
  /\ UNCHANGED <<record, env, at, last, items>>

\* A slip: the deadline of the wait is left out.
WaitForRecord_NoDeadline(m) ==
  /\ At(m, "waitRecord")
  /\ \/ /\ env.poll => record[Id(m)] \in FinalStatuses
        /\ NoFail /\ Goto(m, "telemetry")
     \/ env.poll /\ record[Id(m)] = "none" /\ NoFail /\ Goto(m, "failed")
     \/ env.poll /\ Raises(m)
  /\ UNCHANGED <<record, env, at, last, items>>

\* _wait_for_experiment: a terminal status or the deadline; a record that is
\* gone (404) or a failed poll raises.  Without polling the status is that
\* of the 201.
WaitForRecord(m) ==
  /\ At(m, "waitRecord")
  /\ \/ NoFail /\ Goto(m, "telemetry")
     \/ env.poll /\ record[Id(m)] = "none" /\ NoFail /\ Goto(m, "failed")
     \/ env.poll /\ Raises(m)
  /\ UNCHANGED <<record, env, at, last, items>>

\* query_results answers with a warning when telemetry does not.
QueryResults(m) ==
  /\ At(m, "telemetry")
  /\ Goto(m, "complete")
  /\ UNCHANGED <<record, env, at, last, items, fails>>

\* mark_complete and mark_failed check no table and no switch; a spec
\* without an id is not marked.
Close(m, s, p) ==
  /\ IF Id(m) = Unknown THEN NoFail /\ UNCHANGED <<record, last>> ELSE Patch(m, s)
  /\ Goto(m, p)
  /\ UNCHANGED <<env, at, items>>

MarkComplete(m) == At(m, "complete") /\ Close(m, "complete", "success")
MarkFailed(m) == m \in Managers /\ At(m, "failed") /\ Close(m, "failed", "error")

\* The finally clause: the item with the session's last_status, and a new
\* session for the next spec.
FinishItem(m, p, status) ==
  /\ At(m, p)
  /\ items' = [items EXCEPT ![m] =
       Append(@, [id |-> Id(m), status |-> status, last |-> last[m]])]
  /\ at' = [at EXCEPT ![m] = @ + 1]
  /\ last' = [last EXCEPT ![m] = "pending"]
  /\ Goto(m, First(m))
  /\ UNCHANGED <<record, env, fails>>

\* The tool's answer goes back to the model, which calls it for the next.
ToolReturns(m) == FinishItem(m, "dispatched", "dispatched")

\* Nothing catches what a tool raises: it ends the conversation.
ToolRaises(m) ==
  /\ m \in Tools /\ At(m, "failed")
  /\ at' = [at EXCEPT ![m] = Len(Plan[m]) + 1]
  /\ UNCHANGED <<record, env, doing, last, items, fails>>

-----------------------------------------------------------------------------
CallerStep(m) ==
  \/ ValidateCtp(m) \/ RejectSpec(m) \/ PostExperiment(m)
  \/ ShapeSubstrate(m) \/ StartCapture(m)
  \/ MarkRunning(m) \/ MarkCollecting(m)
  \/ WaitForCapture(m) \/ WaitForRecord(m) \/ QueryResults(m)
  \/ MarkComplete(m) \/ MarkFailed(m)
  \/ FinishItem(m, "success", "success") \/ FinishItem(m, "error", "failed")
  \/ ToolReturns(m) \/ ToolRaises(m)

LifecycleNext ==
  \/ \E m \in Callers : CallerStep(m)
  \/ ApiRestarts

\* A caller's thread goes on: its calls time out and its waits have
\* deadlines.  Nothing is assumed of records or of the API.
LifecycleFairness == \A m \in Callers : WF_lifecycleVars(CallerStep(m))

LifecycleSpec == LifecycleInit /\ [][LifecycleNext]_lifecycleVars /\ LifecycleFairness

-----------------------------------------------------------------------------
(* What must hold *)

Ranks == [s \in RecordStatuses |->
  CASE s = "pending" -> 1 [] s = "running" -> 2 [] s = "collecting" -> 3 [] OTHER -> 4]

\* The ids that only one spec of all the plans carries.
Sole ==
  {i \in Ids : \A m, n \in Callers : \A j \in DOMAIN Plan[m], k \in DOMAIN Plan[n] :
     Plan[m][j].id = i /\ Plan[n][k].id = i => m = n /\ j = k}

\* The record i has got at least as far as a session believes it has.
NotBehind(i, believed) ==
  i \in Sole /\ record[i] # "none" =>
    /\ Ranks[record[i]] >= Ranks[believed]
    /\ believed \in FinalStatuses => record[i] = believed

\* The last_status a session works by and reports in its item is never
\* ahead of the experiment's record, whatever PATCH failed or lost its
\* answer, and a terminal one is the record's own.
RecordKeepsUp ==
  \A m \in Managers :
    /\ at[m] <= Len(Plan[m]) => NotBehind(Id(m), last[m])
    /\ \A k \in DOMAIN items[m] : NotBehind(items[m][k].id, items[m][k].last)

\* run_experiments comes to an end with one item per spec: a failed spec
\* does not stop the ones after it, and a record that never becomes
\* terminal holds no spec for longer than its deadline.  A conversation
\* ends too, with an item for each spec up to one that raised.
RunsAll ==
  /\ \A m \in Managers : <>(Len(items[m]) = Len(Plan[m]))
  /\ \A m \in Tools : <>(at[m] > Len(Plan[m]))
=============================================================================
