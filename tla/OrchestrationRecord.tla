------------------------- MODULE OrchestrationRecord -------------------------
(***************************************************************************)
(* The stored record of one orchestration: submit_intent and               *)
(* process_intent (services/orchestration/app/api/intent.py), the nodes of *)
(* the orchestrator's graph (app/agent/orchestrator/agent.py) and their    *)
(* save_state, and the upsert of the telemetry service that all of them    *)
(* call.  Every save replaces the whole record.                            *)
(*                                                                         *)
(* A save may be refused, lose its reply, or be carried out long after its *)
(* client gave up on it.  save_state swallows the exception, submit_intent *)
(* and process_intent do not.  The process may die at any point, and the   *)
(* background task with it.                                                *)
(***************************************************************************)

\* The places a save is made from.
Saves == {"submit", "parsing", "generating", "executing", "noWorkflow",
          "agentEnd", "final", "except"}

\* The places that wait for a language model or for the experiments.
Calls == {"parse", "generate", "workflow", "run"}

Stopped == {"rejected", "unread", "ended", "dead"}

VARIABLES
  pc,       \* where the request handler, then the background task is
  outcome,  \* what the graph returned as orchestration_result, or "raised"
  put,      \* per save: how far the telemetry service is with its PUT
  base,     \* per save: the status its handler loaded, until it commits
  gaveUp,   \* saves whose client saw an exception
  row       \* the stored record: its status column, and results in its payload

vars == <<pc, outcome, put, base, gaveUp, row>>

Terminal == {"complete", "failed"}
Statuses == {"absent", "pending", "parsing", "generating", "executing"} \cup Terminal

\* The outcomes of a run that dispatched experiments; "nothing" is any failure
\* before that: no workflow, no experiments.
Dispatched == {"complete", "partial", "failed"}

TypeOK ==
  /\ pc \in Saves \cup Calls \cup Stopped \cup {"load"}
  /\ outcome \in {"none", "nothing", "raised"} \cup Dispatched
  /\ put \in [Saves -> {"none", "sent", "loaded", "done"}]
  /\ base \in [Saves -> Statuses]
  /\ gaveUp \subseteq Saves
  /\ row \in [status : Statuses, results : BOOLEAN]

Init ==
  /\ pc = "submit"
  /\ outcome = "none"
  /\ put = [i \in Saves |-> "none"]
  /\ base = [i \in Saves |-> "absent"]
  /\ gaveUp = {}
  /\ row = [status |-> "absent", results |-> FALSE]

-----------------------------------------------------------------------------
(* What each save writes.                                                   *)

\* execute_experiments and process_intent: anything but "complete" is a failure.
Verdict == IF outcome = "complete" THEN "complete" ELSE "failed"

\* A slip: the agent saves the status of the manager's result as it is.
StatusOf_Verbatim(i) ==
  IF i = "agentEnd" THEN outcome
  ELSE IF i = "final" THEN Verdict
  ELSE IF i \in {"noWorkflow", "except"} THEN "failed"
  ELSE IF i = "submit" THEN "pending" ELSE i

\* A slip: the agent counts everything but "failed" as complete.
StatusOf_NotFailed(i) ==
  IF i = "agentEnd" THEN IF outcome \in {"complete", "partial"} THEN "complete" ELSE "failed"
  ELSE IF i = "final" THEN Verdict
  ELSE IF i \in {"noWorkflow", "except"} THEN "failed"
  ELSE IF i = "submit" THEN "pending" ELSE i

StatusOf(i) ==
  IF i \in {"agentEnd", "final"} THEN Verdict
  ELSE IF i \in {"noWorkflow", "except"} THEN "failed"
  ELSE IF i = "submit" THEN "pending" ELSE i

\* A slip: the except clause saves the record as it was loaded.
ResultsOf_AsLoaded(i) == i \in {"agentEnd", "final"} /\ outcome \in Dispatched

\* save_state writes results [] unless it is given some; the except clause of
\* process_intent saves a record that has its results when the final save failed.
ResultsOf(i) == i \in {"agentEnd", "final", "except"} /\ outcome \in Dispatched

-----------------------------------------------------------------------------
(* upsert_orchestration of the telemetry service: load the row, assign its   *)
(* two columns, commit.  The ORM writes a column only when the value differs *)
(* from the one it loaded; the payloads of two saves always differ.  A PUT   *)
(* that is refused, or whose commit fails, is one that is never finished.    *)

LoadRow(i) ==
  /\ put[i] = "sent"
  /\ put' = [put EXCEPT ![i] = "loaded"]
  /\ base' = [base EXCEPT ![i] = row.status]
  /\ UNCHANGED <<pc, outcome, gaveUp, row>>

CommitRow(i) ==
  /\ put[i] = "loaded"
  /\ put' = [put EXCEPT ![i] = "done"]
  /\ base' = [base EXCEPT ![i] = "absent"]
  /\ row' = [status |-> IF StatusOf(i) = base[i] THEN row.status ELSE StatusOf(i),
             results |-> ResultsOf(i)]
  /\ UNCHANGED <<pc, outcome, gaveUp>>

-----------------------------------------------------------------------------
(* save_orchestration, as its callers see it.                               *)

Send(i) ==
  /\ pc = i /\ put[i] = "none"
  /\ put' = [put EXCEPT ![i] = "sent"]
  /\ UNCHANGED <<pc, outcome, base, gaveUp, row>>

\* Where a save leads when it is answered 200.
Next200 ==
  [submit |-> "load", parsing |-> "parse", generating |-> "generate",
   executing |-> "run", noWorkflow |-> "final", agentEnd |-> "final",
   final |-> "ended", except |-> "ended"]

\* Where it leads when the client raises.
NextError == [Next200 EXCEPT !["submit"] = "rejected", !["final"] = "except"]

Answered(i) ==
  /\ pc = i /\ put[i] = "done"
  /\ pc' = Next200[i]
  /\ UNCHANGED <<outcome, put, base, gaveUp, row>>

\* A slip: httpx.put is given timeout=None.
GiveUp_NoTimeout(i) ==
  /\ pc = i /\ put[i] = "done"
  /\ pc' = NextError[i]
  /\ gaveUp' = gaveUp \cup {i}
  /\ UNCHANGED <<outcome, put, base, row>>

\* An error status, a lost reply, or the client timeout.
GiveUp(i) ==
  /\ pc = i /\ put[i] # "none"
  /\ pc' = NextError[i]
  /\ gaveUp' = gaveUp \cup {i}
  /\ UNCHANGED <<outcome, put, base, row>>

-----------------------------------------------------------------------------
(* process_intent and the nodes of the graph.                               *)

Step(from, to) ==
  /\ pc = from
  /\ pc' = to
  /\ UNCHANGED <<put, base, gaveUp, row>>

\* load_orchestration returns None on every failure, and the task returns.
LoadRecord ==
  /\ \E to \in {"parsing", "unread"} : Step("load", to)
  /\ UNCHANGED outcome

\* A slip: the exception passes the except clause by.
Raise_Escapes(from) == Step(from, "ended") /\ outcome' = "raised"

\* Preferences that are no numbers, a model call, the workflow agent, the
\* generator: process_intent catches what they raise.
Raise(from) == Step(from, "except") /\ outcome' = "raised"

ParseIntent == Step("parse", "generating") /\ UNCHANGED outcome

GenerateExperiments == Step("generate", "workflow") /\ UNCHANGED outcome

MakeWorkflow ==
  \/ Step("workflow", "executing") /\ UNCHANGED outcome
  \/ Step("workflow", "noWorkflow") /\ outcome' = "nothing"

\* Without experiments the node returns before the manager runs and saves no
\* status; a manager that generates none returns a failure with no results.
ExecuteExperiments ==
  \/ Step("run", "final") /\ outcome' = "nothing"
  \/ /\ Step("run", "agentEnd")
     /\ outcome' \in Dispatched \cup {"nothing"}

ProcessDies ==
  /\ pc \notin Stopped
  /\ pc' = "dead"
  /\ UNCHANGED <<outcome, put, base, gaveUp, row>>

-----------------------------------------------------------------------------
Client(i) == Send(i) \/ Answered(i) \/ GiveUp(i)

Agent ==
  \/ ParseIntent \/ GenerateExperiments \/ MakeWorkflow \/ ExecuteExperiments
  \/ \E c \in Calls \cup {"load"} : Raise(c)

Next ==
  \/ LoadRecord \/ Agent \/ ProcessDies
  \/ \E i \in Saves : Client(i) \/ LoadRow(i) \/ CommitRow(i)

Spec == Init /\ [][Next]_vars

(* Every call of save_orchestration and load_orchestration has a client      *)
(* timeout.  Nothing is assumed of the telemetry service, nor that a model   *)
(* call or a run returns.                                                    *)
Fairness == WF_vars(LoadRecord) /\ \A i \in Saves : WF_vars(Client(i))

FairSpec == Spec /\ Fairness

-----------------------------------------------------------------------------
(* Properties.                                                              *)

\* A record that reads "complete" is that of a run whose experiments all
\* succeeded, and carries their results, although four saves write verdicts and
\* the service may write the two columns of two saves one by one.
CompleteIsTrue ==
  row.status = "complete" => outcome = "complete" /\ row.results

\* When the task ends and none of its saves failed, the record has the verdict
\* of the run and its results: no way through the graph ends without a save.
EndedRecordIsRight ==
  pc = "ended" /\ gaveUp = {} =>
    /\ row.status = IF outcome = "raised" THEN "failed" ELSE Verdict
    /\ row.results <=> outcome \in Dispatched

\* A record that is final, or has results, goes back to less only by a save its
\* client gave up on and the service carried out late.
GoesBackOnlyLate ==
  [][(\/ row.status \in Terminal /\ row'.status \notin Terminal
      \/ row.results /\ ~row'.results)
     => \E i \in gaveUp : put[i] = "loaded" /\ put'[i] = "done"]_vars

\* A record that reads "complete" stays so unless one of its saves failed.
CompleteLostOnlyWithASave ==
  [][row.status = "complete" /\ row'.status # "complete" => gaveUp # {}]_vars

\* Lost its task, or a save.
Cut == pc \in {"unread", "dead"} \/ gaveUp # {}

\* If the agent's calls return, every record settles in a final status, but for
\* those that lost their task or a save.
Settles ==
  []<>(pc \notin Calls) => <>[](row.status \in Terminal \/ Cut)
=============================================================================
