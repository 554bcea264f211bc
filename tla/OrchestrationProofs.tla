------------------------- MODULE OrchestrationProofs -------------------------
(***************************************************************************)
(* Proofs about the records of an orchestration: the stored record of the  *)
(* orchestration itself (OrchestrationRecord), the experiment records its  *)
(* executor keeps in step (ExperimentLifecycle), and the rows of the       *)
(* NetGent jobs that make its workflows (NetgentJobs).                     *)
(***************************************************************************)
EXTENDS OrchestrationRecord, ExperimentLifecycle, NetgentJobs, TLAPS

-----------------------------------------------------------------------------
(***************************************************************************)
(* OrchestrationRecord.  Its properties speak of which save wrote the      *)
(* record last; the invariant says in which order the saves are made, that *)
(* only one is under way unless its client gave up, and what the record    *)
(* can hold given the saves made so far.                                   *)
(***************************************************************************)

\* The places of the background task, in the order it reaches them.
Rank ==
  [submit |-> 1, load |-> 2, parsing |-> 3, parse |-> 4, generating |-> 5,
   generate |-> 6, workflow |-> 7, executing |-> 8, run |-> 9,
   noWorkflow |-> 10, agentEnd |-> 11, final |-> 12, except |-> 13,
   rejected |-> 14, unread |-> 14, ended |-> 14, dead |-> 14]

Early == {"submit", "parsing", "generating", "executing"}

\* What the graph returned is known from the end of the graph on.
OutcomeKnown ==
  /\ Rank[pc] < 10 => outcome = "none"
  /\ pc \in {"rejected", "unread"} => outcome = "none"
  /\ pc = "noWorkflow" \/ put["noWorkflow"] # "none" => outcome = "nothing"
  /\ pc \in {"agentEnd", "final"} => outcome \in Dispatched \cup {"nothing"}
  /\ put["agentEnd"] # "none" \/ put["final"] # "none" =>
       outcome \in Dispatched \cup {"nothing"}
  /\ (pc = "except" \/ put["except"] # "none") /\ gaveUp = {} => outcome = "raised"

\* No save is made before the task reaches it.
SavesInOrder == \A i \in Saves : put[i] # "none" => Rank[i] <= Rank[pc]

\* A save that is under way is the last one made, unless its client gave up.
OneUnderWay ==
  \A i \in Saves :
    put[i] \in {"sent", "loaded"} /\ i \notin gaveUp =>
      /\ pc \in {i, "dead"}
      /\ \A j \in Saves : Rank[j] > Rank[i] => put[j] = "none"

\* The record holds nothing that no save has written yet.
RowIsWritten ==
  /\ \A i \in Early : put[i] # "done" => row.status # StatusOf(i) /\ base[i] # StatusOf(i)
  /\ row.status \in Terminal => \E i \in Saves \ Early : put[i] = "done"
  /\ row.results => /\ outcome \in Dispatched
                    /\ \E i \in Saves \ Early : put[i] = "done"

\* As long as no client gave up, the record is that of the save made last.
LastSaveWins ==
  gaveUp = {} =>
    /\ pc \in Saves /\ put[pc] = "loaded" => base[pc] = row.status
    /\ pc \in Saves /\ put[pc] = "done" =>
         row.status = StatusOf(pc) /\ row.results = ResultsOf(pc)

RecordInv ==
  /\ TypeOK
  /\ OutcomeKnown
  /\ SavesInOrder
  /\ OneUnderWay
  /\ RowIsWritten
  /\ LastSaveWins
  /\ CompleteIsTrue
  /\ EndedRecordIsRight

\* No save has been made at the start.
LEMMA InitInv == Init => RecordInv
BY DEF Init, RecordInv, TypeOK, OutcomeKnown, SavesInOrder, OneUnderWay, RowIsWritten,
   LastSaveWins, CompleteIsTrue, EndedRecordIsRight, Saves, Calls, Stopped, Statuses,
   Terminal, Dispatched, Rank, Early, StatusOf, Verdict


\* Every step keeps the types.
LEMMA NextType == RecordInv /\ [Next]_vars => TypeOK'
<1> SUFFICES ASSUME RecordInv, [Next]_vars PROVE TypeOK'
  OBVIOUS
<1> USE DEF RecordInv, TypeOK, StatusOf, ResultsOf, Verdict, Saves, Calls, Stopped, Statuses, Terminal, Dispatched, Early
<1>1. CASE LoadRecord
  BY <1>1 DEF LoadRecord, Step
<1>2. CASE ParseIntent
  BY <1>2 DEF ParseIntent, Step
<1>3. CASE GenerateExperiments
  BY <1>3 DEF GenerateExperiments, Step
<1>4. CASE MakeWorkflow
  BY <1>4 DEF MakeWorkflow, Step
<1>5. CASE ExecuteExperiments
  BY <1>5 DEF ExecuteExperiments, Step
<1>6. ASSUME NEW c \in Calls \cup {"load"}, Raise(c) PROVE TypeOK'
  BY <1>6 DEF Raise, Step
<1>7. CASE ProcessDies
  BY <1>7 DEF ProcessDies
<1>8. ASSUME NEW i \in Saves, Send(i) PROVE TypeOK'
  BY <1>8 DEF Send
<1>9. ASSUME NEW i \in Saves, Answered(i) PROVE TypeOK'
  BY <1>9 DEF Answered, Next200
<1>10. ASSUME NEW i \in Saves, GiveUp(i) PROVE TypeOK'
  BY <1>10 DEF GiveUp, NextError, Next200
<1>11. ASSUME NEW i \in Saves, LoadRow(i) PROVE TypeOK'
  BY <1>11 DEF LoadRow
<1>12. ASSUME NEW i \in Saves, CommitRow(i) PROVE TypeOK'
  BY <1>12 DEF CommitRow
<1>13. CASE UNCHANGED vars
  BY <1>13 DEF vars
<1> QED
  BY <1>1, <1>2, <1>3, <1>4, <1>5, <1>6, <1>7, <1>8, <1>9, <1>10, <1>11, <1>12, <1>13 DEF Next, Agent, Client

\* What is known of the outcome stays so.
LEMMA NextOutcome == RecordInv /\ [Next]_vars => OutcomeKnown'
<1> SUFFICES ASSUME RecordInv, [Next]_vars PROVE OutcomeKnown'
  OBVIOUS
<1> USE DEF RecordInv, TypeOK, OutcomeKnown, SavesInOrder, EndedRecordIsRight, Rank, Saves, Calls, Stopped, Statuses, Terminal, Dispatched, Early
<1>1. CASE LoadRecord
  BY <1>1 DEF LoadRecord, Step
<1>2. CASE ParseIntent
  BY <1>2 DEF ParseIntent, Step
<1>3. CASE GenerateExperiments
  BY <1>3 DEF GenerateExperiments, Step
<1>4. CASE MakeWorkflow
  BY <1>4 DEF MakeWorkflow, Step
<1>5. CASE ExecuteExperiments
  BY <1>5 DEF ExecuteExperiments, Step
<1>6. ASSUME NEW c \in Calls \cup {"load"}, Raise(c) PROVE OutcomeKnown'
  BY <1>6 DEF Raise, Step
<1>7. CASE ProcessDies
  BY <1>7 DEF ProcessDies
<1>8. ASSUME NEW i \in Saves, Send(i) PROVE OutcomeKnown'
  BY <1>8 DEF Send
<1>9. ASSUME NEW i \in Saves, Answered(i) PROVE OutcomeKnown'
  BY <1>9 DEF Answered, Next200
<1>10. ASSUME NEW i \in Saves, GiveUp(i) PROVE OutcomeKnown'
  BY <1>10 DEF GiveUp, NextError, Next200
<1>11. ASSUME NEW i \in Saves, LoadRow(i) PROVE OutcomeKnown'
  BY <1>11 DEF LoadRow
<1>12. ASSUME NEW i \in Saves, CommitRow(i) PROVE OutcomeKnown'
  BY <1>12 DEF CommitRow
<1>13. CASE UNCHANGED vars
  BY <1>13 DEF vars
<1> QED
  BY <1>1, <1>2, <1>3, <1>4, <1>5, <1>6, <1>7, <1>8, <1>9, <1>10, <1>11, <1>12, <1>13 DEF Next, Agent, Client

\* No step makes a save early.
LEMMA NextOrder == RecordInv /\ [Next]_vars => SavesInOrder'
<1> SUFFICES ASSUME RecordInv, [Next]_vars PROVE SavesInOrder'
  OBVIOUS
<1> USE DEF RecordInv, TypeOK, SavesInOrder, Rank, Saves, Calls, Stopped, Statuses, Terminal, Dispatched, Early
<1>1. CASE LoadRecord
  BY <1>1 DEF LoadRecord, Step
<1>2. CASE ParseIntent
  BY <1>2 DEF ParseIntent, Step
<1>3. CASE GenerateExperiments
  BY <1>3 DEF GenerateExperiments, Step
<1>4. CASE MakeWorkflow
  BY <1>4 DEF MakeWorkflow, Step
<1>5. CASE ExecuteExperiments
  BY <1>5 DEF ExecuteExperiments, Step
<1>6. ASSUME NEW c \in Calls \cup {"load"}, Raise(c) PROVE SavesInOrder'
  BY <1>6 DEF Raise, Step
<1>7. CASE ProcessDies
  BY <1>7 DEF ProcessDies
<1>8. ASSUME NEW i \in Saves, Send(i) PROVE SavesInOrder'
  BY <1>8 DEF Send
<1>9. ASSUME NEW i \in Saves, Answered(i) PROVE SavesInOrder'
  BY <1>9 DEF Answered, Next200
<1>10. ASSUME NEW i \in Saves, GiveUp(i) PROVE SavesInOrder'
  BY <1>10 DEF GiveUp, NextError, Next200
<1>11. ASSUME NEW i \in Saves, LoadRow(i) PROVE SavesInOrder'
  BY <1>11 DEF LoadRow
<1>12. ASSUME NEW i \in Saves, CommitRow(i) PROVE SavesInOrder'
  BY <1>12 DEF CommitRow
<1>13. CASE UNCHANGED vars
  BY <1>13 DEF vars
<1> QED
  BY <1>1, <1>2, <1>3, <1>4, <1>5, <1>6, <1>7, <1>8, <1>9, <1>10, <1>11, <1>12, <1>13 DEF Next, Agent, Client

\* A save is made only when its predecessors were answered or given up.
LEMMA NextUnderWay == RecordInv /\ [Next]_vars => OneUnderWay'
<1> SUFFICES ASSUME RecordInv, [Next]_vars PROVE OneUnderWay'
  OBVIOUS
<1> USE DEF RecordInv, TypeOK, SavesInOrder, OneUnderWay, Rank, Saves, Calls, Stopped, Statuses, Terminal, Dispatched, Early
<1>1. CASE LoadRecord
  BY <1>1 DEF LoadRecord, Step
<1>2. CASE ParseIntent
  BY <1>2 DEF ParseIntent, Step
<1>3. CASE GenerateExperiments
  BY <1>3 DEF GenerateExperiments, Step
<1>4. CASE MakeWorkflow
  BY <1>4 DEF MakeWorkflow, Step
<1>5. CASE ExecuteExperiments
  BY <1>5 DEF ExecuteExperiments, Step
<1>6. ASSUME NEW c \in Calls \cup {"load"}, Raise(c) PROVE OneUnderWay'
  BY <1>6 DEF Raise, Step
<1>7. CASE ProcessDies
  BY <1>7 DEF ProcessDies
<1>8. ASSUME NEW i \in Saves, Send(i) PROVE OneUnderWay'
  BY <1>8 DEF Send
<1>9. ASSUME NEW i \in Saves, Answered(i) PROVE OneUnderWay'
  BY <1>9 DEF Answered, Next200
<1>10. ASSUME NEW i \in Saves, GiveUp(i) PROVE OneUnderWay'
  BY <1>10 DEF GiveUp, NextError, Next200
<1>11. ASSUME NEW i \in Saves, LoadRow(i) PROVE OneUnderWay'
  BY <1>11 DEF LoadRow
<1>12. ASSUME NEW i \in Saves, CommitRow(i) PROVE OneUnderWay'
  BY <1>12 DEF CommitRow
<1>13. CASE UNCHANGED vars
  BY <1>13 DEF vars
<1> QED
  BY <1>1, <1>2, <1>3, <1>4, <1>5, <1>6, <1>7, <1>8, <1>9, <1>10, <1>11, <1>12, <1>13 DEF Next, Agent, Client

\* The record gets from each commit only what that save brings or what it held.
LEMMA NextWritten == RecordInv /\ [Next]_vars => RowIsWritten'
<1> SUFFICES ASSUME RecordInv, [Next]_vars PROVE RowIsWritten'
  OBVIOUS
<1> USE DEF RecordInv, TypeOK, OutcomeKnown, RowIsWritten, SavesInOrder, StatusOf, ResultsOf, Verdict, Rank, Saves, Calls, Stopped, Statuses, Terminal, Dispatched, Early
<1>1. CASE LoadRecord
  BY <1>1 DEF LoadRecord, Step
<1>2. CASE ParseIntent
  BY <1>2 DEF ParseIntent, Step
<1>3. CASE GenerateExperiments
  BY <1>3 DEF GenerateExperiments, Step
<1>4. CASE MakeWorkflow
  BY <1>4 DEF MakeWorkflow, Step
<1>5. CASE ExecuteExperiments
  BY <1>5 DEF ExecuteExperiments, Step
<1>6. ASSUME NEW c \in Calls \cup {"load"}, Raise(c) PROVE RowIsWritten'
  BY <1>6 DEF Raise, Step
<1>7. CASE ProcessDies
  BY <1>7 DEF ProcessDies
<1>8. ASSUME NEW i \in Saves, Send(i) PROVE RowIsWritten'
  BY <1>8 DEF Send
<1>9. ASSUME NEW i \in Saves, Answered(i) PROVE RowIsWritten'
  BY <1>9 DEF Answered, Next200
<1>10. ASSUME NEW i \in Saves, GiveUp(i) PROVE RowIsWritten'
  BY <1>10 DEF GiveUp, NextError, Next200
<1>11. ASSUME NEW i \in Saves, LoadRow(i) PROVE RowIsWritten'
  BY <1>11 DEF LoadRow
<1>12. ASSUME NEW i \in Saves, CommitRow(i) PROVE RowIsWritten'
  BY <1>12 DEF CommitRow
<1>13. CASE UNCHANGED vars
  BY <1>13 DEF vars
<1> QED
  BY <1>1, <1>2, <1>3, <1>4, <1>5, <1>6, <1>7, <1>8, <1>9, <1>10, <1>11, <1>12, <1>13 DEF Next, Agent, Client

\* While no client gave up, a commit is that of the save the task waits for.
LEMMA NextLast == RecordInv /\ [Next]_vars => LastSaveWins'
<1> SUFFICES ASSUME RecordInv, [Next]_vars PROVE LastSaveWins'
  OBVIOUS
<1> USE DEF RecordInv, TypeOK, OutcomeKnown, SavesInOrder, OneUnderWay, LastSaveWins, RowIsWritten, StatusOf, ResultsOf, Verdict, Rank, Saves, Calls, Stopped, Statuses, Terminal, Dispatched, Early
<1>1. CASE LoadRecord
  BY <1>1 DEF LoadRecord, Step
<1>2. CASE ParseIntent
  BY <1>2 DEF ParseIntent, Step
<1>3. CASE GenerateExperiments
  BY <1>3 DEF GenerateExperiments, Step
<1>4. CASE MakeWorkflow
  BY <1>4 DEF MakeWorkflow, Step
<1>5. CASE ExecuteExperiments
  BY <1>5 DEF ExecuteExperiments, Step
<1>6. ASSUME NEW c \in Calls \cup {"load"}, Raise(c) PROVE LastSaveWins'
  BY <1>6 DEF Raise, Step
<1>7. CASE ProcessDies
  BY <1>7 DEF ProcessDies
<1>8. ASSUME NEW i \in Saves, Send(i) PROVE LastSaveWins'
  BY <1>8 DEF Send
<1>9. ASSUME NEW i \in Saves, Answered(i) PROVE LastSaveWins'
  BY <1>9 DEF Answered, Next200
<1>10. ASSUME NEW i \in Saves, GiveUp(i) PROVE LastSaveWins'
  BY <1>10 DEF GiveUp, NextError, Next200
<1>11. ASSUME NEW i \in Saves, LoadRow(i) PROVE LastSaveWins'
  BY <1>11 DEF LoadRow
<1>12. ASSUME NEW i \in Saves, CommitRow(i) PROVE LastSaveWins'
  BY <1>12 DEF CommitRow
<1>13. CASE UNCHANGED vars
  BY <1>13 DEF vars
<1> QED
  BY <1>1, <1>2, <1>3, <1>4, <1>5, <1>6, <1>7, <1>8, <1>9, <1>10, <1>11, <1>12, <1>13 DEF Next, Agent, Client

\* A commit that leaves the status column alone also brings the results.
LEMMA NextComplete == RecordInv /\ [Next]_vars => CompleteIsTrue'
<1> SUFFICES ASSUME RecordInv, [Next]_vars PROVE CompleteIsTrue'
  OBVIOUS
<1> USE DEF RecordInv, TypeOK, OutcomeKnown, RowIsWritten, CompleteIsTrue, StatusOf, ResultsOf, Verdict, Rank, Saves, Calls, Stopped, Statuses, Terminal, Dispatched, Early
<1>1. CASE LoadRecord
  BY <1>1 DEF LoadRecord, Step
<1>2. CASE ParseIntent
  BY <1>2 DEF ParseIntent, Step
<1>3. CASE GenerateExperiments
  BY <1>3 DEF GenerateExperiments, Step
<1>4. CASE MakeWorkflow
  BY <1>4 DEF MakeWorkflow, Step
<1>5. CASE ExecuteExperiments
  BY <1>5 DEF ExecuteExperiments, Step
<1>6. ASSUME NEW c \in Calls \cup {"load"}, Raise(c) PROVE CompleteIsTrue'
  BY <1>6 DEF Raise, Step
<1>7. CASE ProcessDies
  BY <1>7 DEF ProcessDies
<1>8. ASSUME NEW i \in Saves, Send(i) PROVE CompleteIsTrue'
  BY <1>8 DEF Send
<1>9. ASSUME NEW i \in Saves, Answered(i) PROVE CompleteIsTrue'
  BY <1>9 DEF Answered, Next200
<1>10. ASSUME NEW i \in Saves, GiveUp(i) PROVE CompleteIsTrue'
  BY <1>10 DEF GiveUp, NextError, Next200
<1>11. ASSUME NEW i \in Saves, LoadRow(i) PROVE CompleteIsTrue'
  BY <1>11 DEF LoadRow
<1>12. ASSUME NEW i \in Saves, CommitRow(i) PROVE CompleteIsTrue'
  BY <1>12 DEF CommitRow
<1>13. CASE UNCHANGED vars
  BY <1>13 DEF vars
<1> QED
  BY <1>1, <1>2, <1>3, <1>4, <1>5, <1>6, <1>7, <1>8, <1>9, <1>10, <1>11, <1>12, <1>13 DEF Next, Agent, Client

\* The task ends right after its last save was answered.
LEMMA NextEnded == RecordInv /\ [Next]_vars => EndedRecordIsRight'
<1> SUFFICES ASSUME RecordInv, [Next]_vars PROVE EndedRecordIsRight'
  OBVIOUS
<1> USE DEF RecordInv, TypeOK, OutcomeKnown, OneUnderWay, LastSaveWins, EndedRecordIsRight, StatusOf, ResultsOf, Verdict, Rank, Saves, Calls, Stopped, Statuses, Terminal, Dispatched, Early
<1>1. CASE LoadRecord
  BY <1>1 DEF LoadRecord, Step
<1>2. CASE ParseIntent
  BY <1>2 DEF ParseIntent, Step
<1>3. CASE GenerateExperiments
  BY <1>3 DEF GenerateExperiments, Step
<1>4. CASE MakeWorkflow
  BY <1>4 DEF MakeWorkflow, Step
<1>5. CASE ExecuteExperiments
  BY <1>5 DEF ExecuteExperiments, Step
<1>6. ASSUME NEW c \in Calls \cup {"load"}, Raise(c) PROVE EndedRecordIsRight'
  BY <1>6 DEF Raise, Step
<1>7. CASE ProcessDies
  BY <1>7 DEF ProcessDies
<1>8. ASSUME NEW i \in Saves, Send(i) PROVE EndedRecordIsRight'
  BY <1>8 DEF Send
<1>9. ASSUME NEW i \in Saves, Answered(i) PROVE EndedRecordIsRight'
  BY <1>9 DEF Answered, Next200
<1>10. ASSUME NEW i \in Saves, GiveUp(i) PROVE EndedRecordIsRight'
  BY <1>10 DEF GiveUp, NextError, Next200
<1>11. ASSUME NEW i \in Saves, LoadRow(i) PROVE EndedRecordIsRight'
  BY <1>11 DEF LoadRow
<1>12. ASSUME NEW i \in Saves, CommitRow(i) PROVE EndedRecordIsRight'
  BY <1>12 DEF CommitRow
<1>13. CASE UNCHANGED vars
  BY <1>13 DEF vars
<1> QED
  BY <1>1, <1>2, <1>3, <1>4, <1>5, <1>6, <1>7, <1>8, <1>9, <1>10, <1>11, <1>12, <1>13 DEF Next, Agent, Client

\* No step breaks any part of the invariant.
LEMMA NextInv == RecordInv /\ [Next]_vars => RecordInv'
BY NextType, NextOutcome, NextOrder, NextUnderWay, NextWritten, NextLast, NextComplete,
   NextEnded DEF RecordInv

\* The invariant of the record: the order of the saves, the one under way, and
\* what the stored row can hold after them, at every reachable state.
THEOREM RecordInvariance == Spec => []RecordInv
<1>1. Init => RecordInv
  BY InitInv
<1>2. RecordInv /\ [Next]_vars => RecordInv'
  BY NextInv
<1> QED
  BY <1>1, <1>2, PTL DEF Spec

\* The variables of the handler, of its saves and of the stored row keep the
\* types TypeOK gives them.
THEOREM TypeCorrect == Spec => []TypeOK
<1>1. RecordInv => TypeOK
  BY DEF RecordInv
<1> QED
  BY <1>1, RecordInvariance, PTL

\* A record that reads "complete" is that of a run that succeeded and carries
\* its results, whatever saves arrive late and whichever two the service mixes.
THEOREM CompleteRecords == Spec => []CompleteIsTrue
<1>1. RecordInv => CompleteIsTrue
  BY DEF RecordInv
<1> QED
  BY <1>1, RecordInvariance, PTL

\* A task that ends without a failed save leaves the verdict and the results of
\* its run in the record, on every way through the graph.
THEOREM EndedRecords == Spec => []EndedRecordIsRight
<1>1. RecordInv => EndedRecordIsRight
  BY DEF RecordInv
<1> QED
  BY <1>1, RecordInvariance, PTL

\* The step that takes a status or the results from a finished record is the
\* commit of a save whose client gave up on it.
THEOREM GoesBack == Spec => GoesBackOnlyLate
<1> DEFINE Back == \/ row.status \in Terminal /\ row'.status \notin Terminal
                   \/ row.results /\ ~row'.results
           Late == \E i \in gaveUp : put[i] = "loaded" /\ put'[i] = "done"
<1>1. RecordInv /\ [Next]_vars => [Back => Late]_vars
  <2> SUFFICES ASSUME RecordInv, Next, Back PROVE Late
    BY DEF vars
  <2>1. PICK i \in Saves : CommitRow(i)
    BY DEF Next, Agent, Client, LoadRecord, ParseIntent, GenerateExperiments, MakeWorkflow,
       ExecuteExperiments, Raise, Step, ProcessDies, Send, Answered, GiveUp, LoadRow
  <2>2. put[i] = "loaded" /\ put'[i] = "done"
    BY <2>1 DEF CommitRow, RecordInv, TypeOK
  <2>3. PICK j \in Saves \ Early : put[j] = "done"
    BY DEF RecordInv, RowIsWritten
  <2>4. i \in Early \/ i = "noWorkflow"
    BY <2>1 DEF CommitRow, RecordInv, TypeOK, RowIsWritten, StatusOf, ResultsOf, Verdict,
       Saves, Early, Terminal, OutcomeKnown, Dispatched
  <2>5. i \in Early
    BY <2>1, <2>2, <2>4 DEF CommitRow, RecordInv, OutcomeKnown, RowIsWritten, StatusOf,
       ResultsOf, Terminal, Dispatched
  <2>6. i \in gaveUp
    BY <2>2, <2>3, <2>5 DEF RecordInv, OneUnderWay, Rank, Saves, Early
  <2> QED
    BY <2>2, <2>6
<1> QED
  BY <1>1, RecordInvariance, PTL DEF Spec, GoesBackOnlyLate

\* A record stops reading "complete" only if one of its saves failed.
THEOREM CompleteLost == Spec => CompleteLostOnlyWithASave
<1> DEFINE Lost == row.status = "complete" /\ row'.status # "complete"
<1>1. RecordInv /\ [Next]_vars => [Lost => gaveUp # {}]_vars
  <2> SUFFICES ASSUME RecordInv, Next, Lost, gaveUp = {} PROVE FALSE
    BY DEF vars
  <2>1. PICK i \in Saves : CommitRow(i)
    BY DEF Next, Agent, Client, LoadRecord, ParseIntent, GenerateExperiments, MakeWorkflow,
       ExecuteExperiments, Raise, Step, ProcessDies, Send, Answered, GiveUp, LoadRow
  <2>2. put[i] = "loaded" /\ pc \in {i, "dead"}
    BY <2>1 DEF CommitRow, RecordInv, OneUnderWay
  <2>3. outcome = "complete" /\ StatusOf(i) # "complete"
    BY <2>1 DEF CommitRow, RecordInv, CompleteIsTrue
  <2>4. PICK j \in Saves \ Early : put[j] = "done"
    BY DEF RecordInv, RowIsWritten, Terminal
  <2>5. i = "except"
    BY <2>2, <2>3, <2>4 DEF RecordInv, OneUnderWay, OutcomeKnown, StatusOf, Verdict, Saves,
       Early, Rank
  <2>6. put["except"] # "none" => outcome = "raised"
    BY DEF RecordInv, OutcomeKnown
  <2> QED
    BY <2>2, <2>3, <2>5, <2>6
<1> QED
  BY <1>1, RecordInvariance, PTL DEF Spec, CompleteLostOnlyWithASave

-----------------------------------------------------------------------------
(***************************************************************************)
(* ExperimentLifecycle, for any callers, any lists of specs and any number *)
(* of failures and restarts, with or without the PATCH route.              *)
(***************************************************************************)

Doings == {"validate", "post", "shape", "capture", "dispatched", "running", "collecting",
          "waitCapture", "waitRecord", "telemetry", "complete", "failed", "success", "error"}

\* Before the session's first PATCH it believes "pending".
Untold == {"validate", "post", "shape", "capture"}

Specs == [id : Ids \cup {Unknown}, good : BOOLEAN]
Reports == [id : Ids \cup {Unknown}, status : {"success", "failed", "dispatched"},
            last : RecordStatuses]

\* Where the callers are, and what they believe.
Placed == doing \in [Callers -> Doings] /\ last \in [Callers -> RecordStatuses]

LifecycleTyped ==
  /\ Placed
  /\ record \in [Ids -> RecordStatuses \cup {"none"}]
  /\ at \in [Callers -> Nat \ {0}]
  /\ items \in [Callers -> Seq(Reports)]

\* A session starts with "pending" and believes in an end only when it is over.
SessionInOrder ==
  \A m \in Callers :
    /\ doing[m] \in Untold => last[m] = "pending"
    /\ last[m] \in FinalStatuses => doing[m] \in {"success", "error"}

\* The items of a caller of run_experiments are those of the specs before the
\* current one, in their order.
ItemsInOrder ==
  \A m \in Managers :
    /\ Len(items[m]) = at[m] - 1 /\ at[m] <= Len(Plan[m]) + 1
    /\ \A k \in DOMAIN items[m] : items[m][k].id = Plan[m][k].id

LifecycleInv == LifecycleTyped /\ SessionInOrder /\ ItemsInOrder /\ RecordKeepsUp

-----------------------------------------------------------------------------
(* Facts about the constants.                                               *)

LEMMA RankFacts ==
  /\ \A s \in RecordStatuses : Ranks[s] \in 1..4
  /\ Ranks["pending"] = 1 /\ Ranks["complete"] = 4 /\ Ranks["failed"] = 4
  /\ \A s, l \in RecordStatuses : s \in AllowedFrom(l) => Ranks[s] >= Ranks[l]
  BY SMT DEF Ranks, RecordStatuses, AllowedFrom

LEMMA PlanFacts ==
  ASSUME NEW m \in Callers
  PROVE  /\ Len(Plan[m]) \in Nat /\ DOMAIN Plan[m] = 1..Len(Plan[m])
         /\ \A k \in DOMAIN Plan[m] : Plan[m][k].id \in Ids \cup {Unknown}
<1>1. Plan[m] \in Seq(Specs)
  BY PlanAssumption DEF Specs
<1>2. /\ Len(Plan[m]) \in Nat /\ DOMAIN Plan[m] = 1..Len(Plan[m])
      /\ \A k \in DOMAIN Plan[m] : Plan[m][k] \in Specs
  BY <1>1, SMT
<1>3. \A s \in Specs : s.id \in Ids \cup {Unknown}
  BY DEF Specs
<1> QED
  BY <1>2, <1>3

\* A spec with an id of its own is not the current spec of another caller, nor
\* one that has its item.
LEMMA SoleFacts ==
  ASSUME LifecycleTyped, ItemsInOrder, NEW m \in Callers, at[m] <= Len(Plan[m]), Id(m) \in Sole,
         NEW n \in Managers
  PROVE  /\ at[n] <= Len(Plan[n]) /\ Id(n) = Id(m) => n = m
         /\ \A k \in DOMAIN items[n] : items[n][k].id # Id(m)
<1>1. at[m] \in DOMAIN Plan[m]
  BY PlanFacts, SMT DEF LifecycleTyped
<1>2. n \in Callers
  BY DEF Callers
<1>3. ASSUME at[n] <= Len(Plan[n]), Id(n) = Id(m)
      PROVE  n = m
  <2>1. at[n] \in DOMAIN Plan[n]
    BY <1>2, <1>3, PlanFacts, SMT DEF LifecycleTyped
  <2> QED
    BY <1>1, <1>2, <1>3, <2>1 DEF Sole, Id, Current
<1>4. ASSUME NEW k \in DOMAIN items[n], items[n][k].id = Id(m)
      PROVE  FALSE
  <2>1. /\ items[n][k].id = Plan[n][k].id /\ k \in DOMAIN Plan[n] /\ k < at[n]
    <3>1. /\ Len(items[n]) = at[n] - 1 /\ at[n] <= Len(Plan[n]) + 1
          /\ items[n][k].id = Plan[n][k].id
      BY <1>4 DEF ItemsInOrder
    <3>2. DOMAIN items[n] = 1..Len(items[n]) /\ at[n] \in Nat
      BY <1>2, SMT DEF LifecycleTyped
    <3> QED
      BY <1>2, <3>1, <3>2, PlanFacts, SMT
  <2>2. n = m /\ k = at[m]
    BY <1>1, <1>2, <1>4, <2>1 DEF Sole, Id, Current
  <2> QED
    BY <1>2, <2>1, <2>2, SMT DEF LifecycleTyped
<1> QED
  BY <1>3, <1>4

-----------------------------------------------------------------------------
(* What the steps do.                                                       *)

\* Only the step of one caller, and what it believes, may change.
Steps(m) ==
  /\ UNCHANGED <<env, at, items>>
  /\ doing' \in [Callers -> Doings] /\ \A n \in Callers \ {m} : doing'[n] = doing[n]
  /\ last' \in [Callers -> RecordStatuses] /\ \A n \in Callers \ {m} : last'[n] = last[n]

\* The record of the current spec moves to where its session was, or further.
Advances(m) ==
  \E s \in RecordStatuses :
    /\ Id(m) \in Ids /\ record' = [record EXCEPT ![Id(m)] = s]
    /\ Ranks[s] >= Ranks[last'[m]] /\ (last'[m] \in FinalStatuses => s = last'[m])

\* The record stays, and the session believes what it did or "pending".
Stays(m) == record' = record /\ last'[m] \in {last[m], "pending"}

\* Whatever the step, the session keeps to its order.
Ordered(m) ==
  /\ doing'[m] \in Untold => last'[m] = "pending"
  /\ last'[m] \in FinalStatuses => doing'[m] \in {"success", "error"}

LEMMA CallEffects ==
  ASSUME Placed, SessionInOrder, NEW m \in Callers, at[m] <= Len(Plan[m]),
         \/ ValidateCtp(m) \/ RejectSpec(m) \/ ShapeSubstrate(m) \/ StartCapture(m)
         \/ WaitForCapture(m) \/ WaitForRecord(m) \/ QueryResults(m)
  PROVE  Steps(m) /\ Stays(m) /\ Ordered(m)
<1> USE DEF Placed, SessionInOrder, Steps, Stays, Ordered, At, Goto, Raises, NoFail, CountFail,
            Doings, Untold, FinalStatuses, RecordStatuses
<1>1. CASE ValidateCtp(m)
  BY <1>1, SMT DEF ValidateCtp
<1>2. CASE RejectSpec(m)
  BY <1>2, SMT DEF RejectSpec
<1>3. CASE ShapeSubstrate(m)
  BY <1>3, SMT DEF ShapeSubstrate
<1>4. CASE StartCapture(m)
  BY <1>4, SMT DEF StartCapture
<1>5. CASE WaitForCapture(m)
  BY <1>5, SMT DEF WaitForCapture
<1>6. CASE WaitForRecord(m)
  BY <1>6, SMT DEF WaitForRecord
<1>7. CASE QueryResults(m)
  BY <1>7, SMT DEF QueryResults
<1> QED
  BY <1>1, <1>2, <1>3, <1>4, <1>5, <1>6, <1>7

LEMMA PostEffects ==
  ASSUME LifecycleTyped, SessionInOrder, NEW m \in Callers, PostExperiment(m)
  PROVE  /\ at[m] <= Len(Plan[m]) /\ Steps(m) /\ Ordered(m)
         /\ Stays(m) \/ Advances(m)
<1>1. /\ at[m] <= Len(Plan[m]) /\ doing[m] = "post" /\ Id(m) # Unknown
      /\ last[m] = "pending" /\ last' = last
      /\ UNCHANGED <<env, at, items>>
      /\ doing' = [doing EXCEPT ![m] = "shape"] \/ doing' = [doing EXCEPT ![m] = "failed"]
      /\ record' = record \/ record' = [record EXCEPT ![Id(m)] = "pending"]
  BY SMT DEF PostExperiment, At, Goto, Raises, Registers, SessionInOrder, Untold
<1> Placed
  BY DEF LifecycleTyped
<1>2. Steps(m) /\ Ordered(m)
  BY <1>1, SMT DEF Steps, Ordered, Placed, Untold, Doings, FinalStatuses
<1>3. CASE record' = record
  BY <1>1, <1>2, <1>3 DEF Stays
<1>4. CASE record' = [record EXCEPT ![Id(m)] = "pending"]
  <2>1. at[m] \in DOMAIN Plan[m]
    BY <1>1, PlanFacts, SMT DEF LifecycleTyped
  <2>2. Id(m) \in Ids
    BY <1>1, <2>1, PlanFacts DEF Id, Current
  <2> QED
    BY <1>1, <1>2, <1>4, <2>2, RankFacts, SMT DEF Advances, RecordStatuses, FinalStatuses
<1> QED
  BY <1>1, <1>2, <1>3, <1>4

LEMMA PatchEffects ==
  ASSUME Placed, NEW m \in Callers, NEW s \in RecordStatuses, Patch(m, s),
         last[m] \notin FinalStatuses,
         Ranks[s] >= Ranks[last[m]]
  PROVE  /\ last' \in [Callers -> RecordStatuses] /\ \A n \in Callers \ {m} : last'[n] = last[n]
         /\ last'[m] \in {last[m], s}
         /\ Stays(m) \/ Advances(m)
<1>1. \/ record' = record /\ last' = last
      \/ /\ Id(m) \in Ids /\ record' = [record EXCEPT ![Id(m)] = s]
         /\ last' = last \/ last' = [last EXCEPT ![m] = s]
  BY SMT DEF Patch, CanPatch
<1>2. /\ last' \in [Callers -> RecordStatuses] /\ \A n \in Callers \ {m} : last'[n] = last[n]
      /\ last'[m] \in {last[m], s}
  BY <1>1, SMT DEF Placed
<1>3. CASE record' = record /\ last' = last
  BY <1>2, <1>3 DEF Stays
<1>4. CASE Id(m) \in Ids /\ record' = [record EXCEPT ![Id(m)] = s]
  <2>1. Ranks[s] >= Ranks[last'[m]] /\ (last'[m] \in FinalStatuses => s = last'[m])
    BY <1>2, RankFacts, SMT
  <2> QED
    BY <1>2, <1>4, <2>1 DEF Advances
<1> QED
  BY <1>1, <1>2, <1>3, <1>4

LEMMA MarkEffects ==
  ASSUME Placed, SessionInOrder, NEW m \in Callers, MarkRunning(m) \/ MarkCollecting(m)
  PROVE  /\ at[m] <= Len(Plan[m]) /\ Steps(m) /\ Ordered(m)
         /\ Stays(m) \/ Advances(m)
<1>1. PICK s \in {"running", "collecting"} :
        /\ at[m] <= Len(Plan[m]) /\ doing[m] \in {"running", "collecting"}
        /\ UNCHANGED <<env, at, items>>
        /\ \/ doing' = [doing EXCEPT ![m] = "collecting"]
           \/ doing' = [doing EXCEPT ![m] = "waitCapture"]
        /\ \/ s \in AllowedFrom(last[m]) /\ Patch(m, s)
           \/ UNCHANGED <<record, last>>
  BY SMT DEF MarkRunning, MarkCollecting, Mark, At, Goto
<1>2. last[m] \notin FinalStatuses /\ last[m] \in RecordStatuses
  BY <1>1, SMT DEF SessionInOrder, Placed
<1>3. CASE s \in AllowedFrom(last[m]) /\ Patch(m, s)
  <2>1. s \in RecordStatuses /\ s \notin FinalStatuses /\ Ranks[s] >= Ranks[last[m]]
    BY <1>2, <1>3, RankFacts DEF RecordStatuses, FinalStatuses
  <2>2. /\ last' \in [Callers -> RecordStatuses] /\ \A n \in Callers \ {m} : last'[n] = last[n]
        /\ last'[m] \in {last[m], s}
        /\ Stays(m) \/ Advances(m)
    BY <1>2, <1>3, <2>1, PatchEffects
  <2> QED
    BY <1>1, <1>2, <2>1, <2>2, SMT DEF Steps, Ordered, Placed, Doings, Untold
<1>4. CASE UNCHANGED <<record, last>>
  BY <1>1, <1>2, <1>4, SMT DEF Steps, Ordered, Stays, Placed, Doings, Untold
<1> QED
  BY <1>1, <1>3, <1>4

LEMMA CloseEffects ==
  ASSUME Placed, SessionInOrder, NEW m \in Callers, MarkComplete(m) \/ MarkFailed(m)
  PROVE  /\ at[m] <= Len(Plan[m]) /\ Steps(m) /\ Ordered(m)
         /\ Stays(m) \/ Advances(m)
<1>1. PICK s \in {"complete", "failed"} :
        /\ at[m] <= Len(Plan[m]) /\ doing[m] \in {"complete", "failed"}
        /\ UNCHANGED <<env, at, items>>
        /\ doing' = [doing EXCEPT ![m] = "success"] \/ doing' = [doing EXCEPT ![m] = "error"]
        /\ Patch(m, s) \/ UNCHANGED <<record, last>>
  BY SMT DEF MarkComplete, MarkFailed, Close, At, Goto
<1>2. last[m] \notin FinalStatuses /\ last[m] \in RecordStatuses
  BY <1>1, SMT DEF SessionInOrder, Placed
<1>3. Steps(m) /\ (Stays(m) \/ Advances(m))
  <2>1. s \in RecordStatuses /\ Ranks[s] >= Ranks[last[m]]
    BY <1>2, RankFacts, SMT DEF RecordStatuses
  <2>2. CASE Patch(m, s)
    <3>1. /\ last' \in [Callers -> RecordStatuses] /\ \A n \in Callers \ {m} : last'[n] = last[n]
          /\ Stays(m) \/ Advances(m)
      BY <1>2, <2>1, <2>2, PatchEffects
    <3> QED
      BY <1>1, <3>1, SMT DEF Steps, Placed, Doings
  <2>3. CASE UNCHANGED <<record, last>>
    BY <1>1, <2>3, SMT DEF Steps, Stays, Placed, Doings
  <2> QED
    BY <1>1, <2>2, <2>3
<1>4. Ordered(m)
  BY <1>1, SMT DEF Ordered, Untold, Placed
<1> QED
  BY <1>1, <1>3, <1>4

-----------------------------------------------------------------------------
(* Every step keeps the invariant.                                          *)

LEMMA LifecycleStarts == LifecycleInit => LifecycleInv
<1> SUFFICES ASSUME LifecycleInit PROVE LifecycleInv
  OBVIOUS
<1>1. Placed
  BY SMT DEF LifecycleInit, Placed, First, Doings, RecordStatuses
<1>2. items \in [Callers -> Seq(Reports)] /\ at \in [Callers -> Nat \ {0}]
        /\ record \in [Ids -> RecordStatuses \cup {"none"}]
  BY SMT DEF LifecycleInit
<1>3. \A m \in Callers : last[m] = "pending" /\ items[m] = <<>> /\ at[m] = 1
  BY SMT DEF LifecycleInit
<1>4. SessionInOrder
  BY <1>3 DEF SessionInOrder, FinalStatuses
<1>5. ItemsInOrder
  <2> SUFFICES ASSUME NEW m \in Managers
               PROVE  /\ Len(items[m]) = at[m] - 1 /\ at[m] <= Len(Plan[m]) + 1
                      /\ \A k \in DOMAIN items[m] : items[m][k].id = Plan[m][k].id
    BY DEF ItemsInOrder
  <2>1. m \in Callers
    BY DEF Callers
  <2> QED
    BY <1>3, <2>1, PlanFacts, SMT
<1>6. \A i \in Ids : record[i] = "none"
  BY SMT DEF LifecycleInit
<1>7. RecordKeepsUp
  BY <1>6 DEF RecordKeepsUp, NotBehind, Sole
<1> QED
  BY <1>1, <1>2, <1>4, <1>5, <1>7 DEF LifecycleInv, LifecycleTyped

\* The steps within one spec.
LEMMA KeepsInOrder ==
  ASSUME LifecycleInv, NEW m \in Callers, Steps(m), Ordered(m), Stays(m) \/ Advances(m)
  PROVE  LifecycleTyped' /\ SessionInOrder' /\ ItemsInOrder'
<1>1. LifecycleTyped'
  <2>1. record' \in [Ids -> RecordStatuses \cup {"none"}]
    <3>1. record \in [Ids -> RecordStatuses \cup {"none"}]
      BY DEF LifecycleInv, LifecycleTyped
    <3>2. CASE Stays(m)
      BY <3>1, <3>2 DEF Stays
    <3>3. CASE Advances(m)
      <4>1. PICK s \in RecordStatuses : record' = [record EXCEPT ![Id(m)] = s]
        BY <3>3 DEF Advances
      <4> QED
        BY <3>1, <4>1
    <3> QED
      BY <3>2, <3>3
  <2> QED
    BY <2>1 DEF LifecycleInv, LifecycleTyped, Placed, Steps
<1>2. SessionInOrder'
  BY DEF LifecycleInv, SessionInOrder, Steps, Ordered
<1>3. ItemsInOrder'
  BY DEF LifecycleInv, ItemsInOrder, Steps
<1> QED
  BY <1>1, <1>2, <1>3

LEMMA AtLeastPending ==
  ASSUME LifecycleTyped
  PROVE  \A i \in Sole : record[i] # "none" => Ranks[record[i]] >= Ranks["pending"]
<1>1. record \in [Ids -> RecordStatuses \cup {"none"}]
  BY DEF LifecycleTyped
<1> QED
  BY <1>1, RankFacts, SMT DEF Sole

LEMMA StaysKeepsUp ==
  ASSUME LifecycleInv, NEW m \in Callers, Steps(m), Stays(m)
  PROVE  RecordKeepsUp'
<1> USE DEF Steps, Stays
<1> SUFFICES ASSUME NEW n \in Managers
             PROVE  /\ at[n] <= Len(Plan[n]) => NotBehind(Id(n), last[n])'
                    /\ \A k \in DOMAIN items[n] : NotBehind(items[n][k].id, items[n][k].last)'
  BY DEF RecordKeepsUp, Id, Current
<1>1. /\ at[n] <= Len(Plan[n]) => NotBehind(Id(n), last[n])
      /\ \A k \in DOMAIN items[n] : NotBehind(items[n][k].id, items[n][k].last)
  BY DEF LifecycleInv, RecordKeepsUp
<1>2. n \in Callers
  BY DEF Callers
<1>3. \A i \in Sole : record[i] # "none" => Ranks[record[i]] >= Ranks["pending"]
  BY AtLeastPending DEF LifecycleInv
<1>4. ASSUME at[n] <= Len(Plan[n])
      PROVE  NotBehind(Id(n), last[n])'
  <2>1. Id(n)' = Id(n)
    BY DEF Id, Current
  <2>2. CASE last'[n] = last[n]
    BY <1>1, <1>4, <2>1, <2>2 DEF NotBehind
  <2>3. CASE last'[n] = "pending"
    BY <1>3, <2>1, <2>3 DEF NotBehind, FinalStatuses
  <2> QED
    BY <1>2, <2>2, <2>3
<1>5. \A k \in DOMAIN items[n] : NotBehind(items[n][k].id, items[n][k].last)'
  BY <1>1 DEF NotBehind
<1> QED
  BY <1>4, <1>5

LEMMA AdvancesKeepsUp ==
  ASSUME LifecycleInv, NEW m \in Callers, at[m] <= Len(Plan[m]), Steps(m), Advances(m)
  PROVE  RecordKeepsUp'
<1> USE DEF Steps
<1>1. PICK s \in RecordStatuses :
        /\ Id(m) \in Ids /\ record' = [record EXCEPT ![Id(m)] = s]
        /\ Ranks[s] >= Ranks[last'[m]] /\ (last'[m] \in FinalStatuses => s = last'[m])
  BY DEF Advances
<1>2. record \in [Ids -> RecordStatuses \cup {"none"}] /\ LifecycleTyped /\ ItemsInOrder
  BY DEF LifecycleInv, LifecycleTyped
<1>3. /\ record'[Id(m)] = s
      /\ \A i \in Ids : i # Id(m) => record'[i] = record[i]
  BY <1>1, <1>2
<1> SUFFICES ASSUME NEW n \in Managers
             PROVE  /\ at[n] <= Len(Plan[n]) => NotBehind(Id(n), last[n])'
                    /\ \A k \in DOMAIN items[n] : NotBehind(items[n][k].id, items[n][k].last)'
  BY DEF RecordKeepsUp, Id, Current
<1>4. /\ at[n] <= Len(Plan[n]) => NotBehind(Id(n), last[n])
      /\ \A k \in DOMAIN items[n] : NotBehind(items[n][k].id, items[n][k].last)
  BY DEF LifecycleInv, RecordKeepsUp
<1>5. ASSUME at[n] <= Len(Plan[n])
      PROVE  NotBehind(Id(n), last[n])'
  <2>1. Id(n)' = Id(n)
    BY DEF Id, Current
  <2>2. CASE n = m
    BY <1>1, <1>3, <2>1, <2>2 DEF NotBehind
  <2>3. CASE n # m
    <3>1. last'[n] = last[n]
      BY <2>3 DEF Callers
    <3>2. Id(n) \in Sole => Id(n) # Id(m)
      BY <1>2, <1>5, <2>3, SoleFacts
    <3> QED
      BY <1>3, <1>4, <1>5, <2>1, <3>1, <3>2 DEF NotBehind, Sole
  <2> QED
    BY <2>2, <2>3
<1>6. ASSUME NEW k \in DOMAIN items[n]
      PROVE  NotBehind(items[n][k].id, items[n][k].last)'
  <2>1. items[n][k].id \in Sole => items[n][k].id # Id(m)
    BY <1>2, SoleFacts
  <2> QED
    BY <1>3, <1>4, <2>1 DEF NotBehind, Sole
<1> QED
  BY <1>5, <1>6

LEMMA WithinSpec ==
  ASSUME LifecycleInv, NEW m \in Callers,
         \/ ValidateCtp(m) \/ RejectSpec(m) \/ PostExperiment(m)
         \/ ShapeSubstrate(m) \/ StartCapture(m)
         \/ MarkRunning(m) \/ MarkCollecting(m)
         \/ WaitForCapture(m) \/ WaitForRecord(m) \/ QueryResults(m)
         \/ MarkComplete(m) \/ MarkFailed(m)
  PROVE  LifecycleInv'
<1>1. LifecycleTyped /\ Placed /\ SessionInOrder
  BY DEF LifecycleInv, LifecycleTyped
<1>2. at[m] <= Len(Plan[m]) /\ Steps(m) /\ Ordered(m) /\ (Stays(m) \/ Advances(m))
  <2>1. CASE PostExperiment(m)
    BY <1>1, <2>1, PostEffects
  <2>2. CASE MarkRunning(m) \/ MarkCollecting(m)
    BY <1>1, <2>2, MarkEffects
  <2>3. CASE MarkComplete(m) \/ MarkFailed(m)
    BY <1>1, <2>3, CloseEffects
  <2>4. CASE \/ ValidateCtp(m) \/ RejectSpec(m) \/ ShapeSubstrate(m) \/ StartCapture(m)
             \/ WaitForCapture(m) \/ WaitForRecord(m) \/ QueryResults(m)
    <3>1. at[m] <= Len(Plan[m])
      BY <2>4 DEF At, ValidateCtp, RejectSpec, ShapeSubstrate, StartCapture, WaitForCapture,
                  WaitForRecord, QueryResults
    <3> QED
      BY <1>1, <2>4, <3>1, CallEffects
  <2> QED
    BY <2>1, <2>2, <2>3, <2>4
<1>3. LifecycleTyped' /\ SessionInOrder' /\ ItemsInOrder'
  BY <1>2, KeepsInOrder
<1>4. RecordKeepsUp'
  BY <1>2, StaysKeepsUp, AdvancesKeepsUp
<1> QED
  BY <1>3, <1>4 DEF LifecycleInv

\* The item carries what the session believed to the end.
LEMMA FinishKeeps ==
  ASSUME LifecycleInv, NEW m \in Callers, NEW p,
         NEW verdict \in {"success", "failed", "dispatched"}, FinishItem(m, p, verdict)
  PROVE  LifecycleInv'
<1> DEFINE r == [id |-> Id(m), status |-> verdict, last |-> last[m]]
<1>1. /\ at[m] <= Len(Plan[m]) /\ UNCHANGED <<record, env>>
      /\ items' = [items EXCEPT ![m] = Append(items[m], r)]
      /\ at' = [at EXCEPT ![m] = at[m] + 1]
      /\ last' = [last EXCEPT ![m] = "pending"] /\ doing' = [doing EXCEPT ![m] = First(m)]
  BY Zenon DEF FinishItem, At, Goto
<1>2. /\ Placed /\ at \in [Callers -> Nat \ {0}] /\ items \in [Callers -> Seq(Reports)]
      /\ record \in [Ids -> RecordStatuses \cup {"none"}] /\ items[m] \in Seq(Reports)
  BY DEF LifecycleInv, LifecycleTyped
<1>3. r \in Reports /\ r.id = Id(m) /\ r.last = last[m]
  <2>1. at[m] \in DOMAIN Plan[m]
    BY <1>1, <1>2, PlanFacts, SMT
  <2>2. Id(m) \in Ids \cup {Unknown} /\ last[m] \in RecordStatuses
    BY <1>2, <2>1, PlanFacts DEF Id, Current, Placed
  <2> QED
    BY <2>2 DEF Reports
<1> HIDE DEF r
<1>4. /\ items'[m] \in Seq(Reports) /\ Len(items'[m]) = Len(items[m]) + 1
      /\ DOMAIN items'[m] = DOMAIN items[m] \cup {Len(items[m]) + 1}
      /\ items'[m][Len(items[m]) + 1] = r
      /\ \A k \in DOMAIN items[m] : items'[m][k] = items[m][k]
      /\ Len(items[m]) \in Nat
  BY <1>1, <1>2, <1>3, SMT
<1>5. /\ \A n \in Callers \ {m} : items'[n] = items[n] /\ at'[n] = at[n] /\ last'[n] = last[n]
                                /\ doing'[n] = doing[n]
      /\ at'[m] = at[m] + 1 /\ last'[m] = "pending" /\ doing'[m] = First(m)
  BY <1>1, <1>2 DEF Placed
<1>6. LifecycleTyped'
  <2>1. Placed'
    BY <1>1, <1>2, SMT DEF Placed, First, Doings, RecordStatuses
  <2>2. items' \in [Callers -> Seq(Reports)]
    BY <1>1, <1>2, <1>4
  <2>3. at' \in [Callers -> Nat \ {0}]
    BY <1>1, <1>2, SMT
  <2> QED
    BY <1>1, <1>2, <2>1, <2>2, <2>3 DEF LifecycleTyped
<1>7. SessionInOrder'
  BY <1>5, SMT DEF LifecycleInv, SessionInOrder, FinalStatuses
<1>8. ItemsInOrder'
  <2> SUFFICES ASSUME NEW n \in Managers
               PROVE  /\ Len(items'[n]) = at'[n] - 1 /\ at'[n] <= Len(Plan[n]) + 1
                      /\ \A k \in DOMAIN items'[n] : items'[n][k].id = Plan[n][k].id
    BY DEF ItemsInOrder
  <2>1. /\ Len(items[n]) = at[n] - 1 /\ at[n] <= Len(Plan[n]) + 1
        /\ \A k \in DOMAIN items[n] : items[n][k].id = Plan[n][k].id
        /\ n \in Callers
    BY DEF LifecycleInv, ItemsInOrder, Callers
  <2>2. CASE n = m
    <3>1. r.id = Plan[m][at[m]].id /\ at[m] \in Nat /\ Len(Plan[m]) \in Nat
      BY <1>2, <1>3, PlanFacts DEF Id, Current
    <3>2. Len(items[m]) + 1 = at[m]
      BY <1>4, <2>1, <2>2, <3>1, SMT
    <3>3. Len(items'[m]) = at'[m] - 1 /\ at'[m] <= Len(Plan[m]) + 1
      BY <1>1, <1>4, <1>5, <3>1, <3>2, SMT
    <3>4. \A k \in DOMAIN items'[m] : items'[m][k].id = Plan[m][k].id
      BY <1>4, <2>1, <2>2, <3>1, <3>2
    <3> QED
      BY <2>2, <3>3, <3>4
  <2>3. CASE n # m
    BY <1>5, <2>1, <2>3
  <2> QED
    BY <2>2, <2>3
<1>9. RecordKeepsUp'
  <2> SUFFICES ASSUME NEW n \in Managers
               PROVE  /\ at'[n] <= Len(Plan[n]) => NotBehind(Id(n), last[n])'
                      /\ \A k \in DOMAIN items'[n] : NotBehind(items[n][k].id, items[n][k].last)'
    BY DEF RecordKeepsUp, Id, Current
  <2>1. /\ at[n] <= Len(Plan[n]) => NotBehind(Id(n), last[n])
        /\ \A k \in DOMAIN items[n] : NotBehind(items[n][k].id, items[n][k].last)
        /\ n \in Callers
    BY DEF LifecycleInv, RecordKeepsUp, Callers
  <2>2. CASE n = m
    <3>1. NotBehind(Id(n), last[n])'
      <4>1. \A i \in Sole : record[i] # "none" => Ranks[record[i]] >= Ranks["pending"]
        BY AtLeastPending DEF LifecycleInv
      <4> QED
        BY <1>1, <1>5, <2>2, <4>1 DEF NotBehind, FinalStatuses
    <3>2. ASSUME NEW k \in DOMAIN items'[m]
          PROVE  NotBehind(items[m][k].id, items[m][k].last)'
      <4>1. CASE k = Len(items[m]) + 1
        BY <1>1, <1>3, <1>4, <2>1, <2>2, <4>1 DEF NotBehind
      <4>2. CASE k \in DOMAIN items[m]
        BY <1>1, <1>4, <2>1, <2>2, <4>2 DEF NotBehind
      <4> QED
        BY <1>4, <4>1, <4>2
    <3> QED
      BY <2>2, <3>1, <3>2
  <2>3. CASE n # m
    BY <1>1, <1>5, <2>1, <2>3 DEF NotBehind, Id, Current
  <2> QED
    BY <2>2, <2>3
<1> QED
  BY <1>6, <1>7, <1>8, <1>9 DEF LifecycleInv

LEMMA RaiseKeeps ==
  ASSUME LifecycleInv, NEW m \in Callers, ToolRaises(m)
  PROVE  LifecycleInv'
<1>1. /\ m \in Tools /\ at' = [at EXCEPT ![m] = Len(Plan[m]) + 1]
      /\ UNCHANGED <<record, env, doing, last, items, fails>>
  BY DEF ToolRaises
<1>2. \A n \in Managers : n \in Callers /\ at'[n] = at[n]
  BY <1>1, PlanAssumption DEF LifecycleInv, LifecycleTyped, Callers
<1>3. at' \in [Callers -> Nat \ {0}]
  BY <1>1, PlanFacts, SMT DEF LifecycleInv, LifecycleTyped
<1>4. LifecycleTyped' /\ SessionInOrder'
  BY <1>1, <1>3 DEF LifecycleInv, LifecycleTyped, Placed, SessionInOrder
<1>5. ItemsInOrder'
  BY <1>1, <1>2 DEF LifecycleInv, ItemsInOrder
<1>6. RecordKeepsUp'
  BY <1>1, <1>2 DEF LifecycleInv, RecordKeepsUp, NotBehind, Id, Current
<1> QED
  BY <1>4, <1>5, <1>6 DEF LifecycleInv

LEMMA RestartKeeps ==
  ASSUME LifecycleInv, ApiRestarts
  PROVE  LifecycleInv'
<1>1. record' = [i \in Ids |-> "none"] /\ UNCHANGED <<env, doing, at, last, items>>
  BY DEF ApiRestarts
<1>2. \A i \in Ids : record'[i] = "none"
  BY <1>1
<1>3. LifecycleTyped' /\ SessionInOrder' /\ ItemsInOrder'
  BY <1>1 DEF LifecycleInv, LifecycleTyped, Placed, SessionInOrder, ItemsInOrder
<1>4. RecordKeepsUp'
  BY <1>2 DEF RecordKeepsUp, NotBehind, Sole
<1> QED
  BY <1>3, <1>4 DEF LifecycleInv

LEMMA Inductive == LifecycleInv /\ [LifecycleNext]_lifecycleVars => LifecycleInv'
<1> SUFFICES ASSUME LifecycleInv, [LifecycleNext]_lifecycleVars PROVE LifecycleInv'
  OBVIOUS
<1>1. ASSUME NEW m \in Callers, CallerStep(m)
      PROVE  LifecycleInv'
  <2>1. CASE \/ FinishItem(m, "success", "success") \/ FinishItem(m, "error", "failed")
             \/ FinishItem(m, "dispatched", "dispatched")
    BY <2>1, FinishKeeps
  <2>2. CASE ToolRaises(m)
    BY <2>2, RaiseKeeps
  <2> QED
    BY <1>1, <2>1, <2>2, WithinSpec DEF CallerStep, ToolReturns
<1>2. CASE UNCHANGED lifecycleVars
  BY <1>2 DEF lifecycleVars, LifecycleInv, LifecycleTyped, Placed, SessionInOrder, ItemsInOrder,
              RecordKeepsUp, NotBehind, Id, Current
<1> QED
  BY <1>1, <1>2, RestartKeeps DEF LifecycleNext

-----------------------------------------------------------------------------
(* The theorems.                                                            *)

\* The invariant holds whatever call fails or goes unanswered, and however
\* often the API restarts.
THEOREM LifecycleInvariance == LifecycleSpec => []LifecycleInv
  BY LifecycleStarts, Inductive, PTL DEF LifecycleSpec

\* What a session believes, and what it reports in its item, is never ahead of
\* the record (ExperimentLifecycleSession._patch).
THEOREM KeepsUp == LifecycleSpec => []RecordKeepsUp
<1>1. LifecycleInv => RecordKeepsUp
  BY DEF LifecycleInv
<1> QED
  BY <1>1, LifecycleInvariance, PTL

-----------------------------------------------------------------------------
(***************************************************************************)
(* The properties of a job are not inductive: a final status must be tied  *)
(* to a worker that is done or a request that was rejected, a listed       *)
(* artifact to the upload that came before, and a stored definition to a   *)
(* request that cannot be made twice.                                      *)
(***************************************************************************)

\* A job is queued once, taken once, and its request is answered once.
TakenOnce(j) ==
  /\ api[j] = "idle" => status[j] = "absent"
  /\ api[j] \in {"idle", "deferring"} => queue[j] = "none"
  /\ worker[j] = "none" <=> queue[j] # "taken"

FinalHasWriter(j) ==
  /\ status[j] \in Finished => worker[j] = "ended" \/ api[j] = "rejected"
  /\ status[j] = "completed" => worker[j] = "ended"

ArtifactsStored(j) ==
  /\ worker[j] \in {"finishing", "writing"} => objects[j] = "all"
  /\ status[j] = "completed" => "artifacts" \in meta[j] /\ objects[j] = "all"

DefinedOnce ==
  \A w \in Workflows : api[w] = "idle" => defn[w] = "absent"

JobInv ==
  /\ JobTypeOK
  /\ \A j \in Jobs : TakenOnce(j) /\ FinalHasWriter(j) /\ ArtifactsStored(j)
  /\ DefinedOnce
  /\ FailedHasError
  /\ RunningHasWorker
  /\ RunsADefinition

-----------------------------------------------------------------------------
\* What holds of a job's fields is disturbed by a step of that job only.
LEMMA JobStarts == JobInit => JobInv
BY DEF JobInit, JobInv, JobTypeOK, Jobs, TakenOnce, FinalHasWriter, ArtifactsStored,
       DefinedOnce, FailedHasError, RunningHasWorker, RunsADefinition, Finished

LEMMA JobNextType == JobTypeOK /\ [JobNext]_jobVars => JobTypeOK'
<1> SUFFICES ASSUME JobTypeOK, [JobNext]_jobVars PROVE JobTypeOK'
  OBVIOUS
<1> USE DisjointAssumption, WorkflowOfAssumption
<1> USE DEF JobTypeOK, Jobs, Working, Finished, Moves
<1>1. ASSUME NEW w \in Workflows, Generate(w) PROVE JobTypeOK'
  BY <1>1 DEF Generate
<1>2. ASSUME NEW j \in Executions, Execute(j) PROVE JobTypeOK'
  BY <1>2 DEF Execute
<1>3. ASSUME NEW j \in Jobs, Defer(j) PROVE JobTypeOK'
  BY <1>3 DEF Defer
<1>4. ASSUME NEW j \in Jobs, RejectJob(j) PROVE JobTypeOK'
  BY <1>4 DEF RejectJob
<1>5. ASSUME NEW j \in Jobs, TakeTask(j) PROVE JobTypeOK'
  BY <1>5 DEF TakeTask
<1>6. ASSUME NEW j \in Jobs, Load(j) PROVE JobTypeOK'
  BY <1>6 DEF Load
<1>7. ASSUME NEW j \in Jobs, StoreWorkflow(j) PROVE JobTypeOK'
  BY <1>7 DEF StoreWorkflow
<1>8. ASSUME NEW j \in Jobs, Upload(j) PROVE JobTypeOK'
  BY <1>8 DEF Upload
<1>9. ASSUME NEW j \in Jobs, FailJob(j) PROVE JobTypeOK'
  BY <1>9 DEF FailJob
<1>10. ASSUME NEW j \in Jobs, LoadAgain(j) PROVE JobTypeOK'
  BY <1>10 DEF LoadAgain
<1>11. ASSUME NEW j \in Jobs, CompleteJob(j) PROVE JobTypeOK'
  BY <1>11 DEF CompleteJob
<1>12. ASSUME NEW j \in Jobs, RunClient(j) PROVE JobTypeOK'
  BY <1>12 DEF RunClient
<1>13. ASSUME NEW j \in Jobs, WorkerDies(j) PROVE JobTypeOK'
  BY <1>13 DEF WorkerDies
<1>14. CASE UNCHANGED jobVars
  BY <1>14 DEF jobVars
<1> QED
  BY <1>1, <1>2, <1>3, <1>4, <1>5, <1>6, <1>7, <1>8, <1>9, <1>10, <1>11,
     <1>12, <1>13, <1>14 DEF JobNext, Handler, Task

LEMMA JobNextInv == JobInv /\ [JobNext]_jobVars => JobInv'
<1> SUFFICES ASSUME JobInv, [JobNext]_jobVars PROVE JobInv'
  OBVIOUS
<1>t. JobTypeOK'
  BY JobNextType DEF JobInv
<1> USE <1>t, DisjointAssumption, WorkflowOfAssumption
<1> USE DEF JobInv, JobTypeOK, Jobs, Working, Finished, Moves, TakenOnce,
        FinalHasWriter, ArtifactsStored, DefinedOnce, FailedHasError,
        RunningHasWorker, RunsADefinition
<1>1. ASSUME NEW w \in Workflows, Generate(w) PROVE JobInv'
  BY <1>1 DEF Generate
<1>2. ASSUME NEW j \in Executions, Execute(j) PROVE JobInv'
  BY <1>2 DEF Execute
<1>3. ASSUME NEW j \in Jobs, Defer(j) PROVE JobInv'
  BY <1>3 DEF Defer
<1>4. ASSUME NEW j \in Jobs, RejectJob(j) PROVE JobInv'
  BY <1>4 DEF RejectJob
<1>5. ASSUME NEW j \in Jobs, TakeTask(j) PROVE JobInv'
  BY <1>5 DEF TakeTask
<1>6. ASSUME NEW j \in Jobs, Load(j) PROVE JobInv'
  BY <1>6 DEF Load, NotGenerated
<1>7. ASSUME NEW j \in Jobs, StoreWorkflow(j) PROVE JobInv'
  BY <1>7 DEF StoreWorkflow
<1>8. ASSUME NEW j \in Jobs, Upload(j) PROVE JobInv'
  BY <1>8 DEF Upload
<1>9. ASSUME NEW j \in Jobs, FailJob(j) PROVE JobInv'
  BY <1>9 DEF FailJob
<1>10. ASSUME NEW j \in Jobs, LoadAgain(j) PROVE JobInv'
  BY <1>10 DEF LoadAgain
<1>11. ASSUME NEW j \in Jobs, CompleteJob(j) PROVE JobInv'
  BY <1>11 DEF CompleteJob
<1>12. ASSUME NEW j \in Jobs, RunClient(j) PROVE JobInv'
  BY <1>12 DEF RunClient
<1>13. ASSUME NEW j \in Jobs, WorkerDies(j) PROVE JobInv'
  BY <1>13 DEF WorkerDies
<1>14. CASE UNCHANGED jobVars
  BY <1>14 DEF jobVars
<1> QED
  BY <1>1, <1>2, <1>3, <1>4, <1>5, <1>6, <1>7, <1>8, <1>9, <1>10, <1>11,
     <1>12, <1>13, <1>14 DEF JobNext, Handler, Task

-----------------------------------------------------------------------------
\* The inductive invariant holds of every reachable state.
THEOREM JobInvariance == JobSpec => []JobInv
<1>1. JobInit => JobInv
  BY JobStarts
<1>2. JobInv /\ [JobNext]_jobVars => JobInv'
  BY JobNextInv
<1> QED
  BY <1>1, <1>2, PTL DEF JobSpec

\* Type correctness.
THEOREM JobTypes == JobSpec => []JobTypeOK
<1>1. JobInv => JobTypeOK
  BY DEF JobInv
<1> QED
  BY <1>1, JobInvariance, PTL

\* A row that reads completed has all the artifacts of its job.
THEOREM CompletedRows == JobSpec => []CompletedHasArtifacts
<1>1. JobInv => CompletedHasArtifacts
  BY DEF JobInv, ArtifactsStored, CompletedHasArtifacts
<1> QED
  BY <1>1, JobInvariance, PTL

\* A row that reads failed says why.
THEOREM FailedRows == JobSpec => []FailedHasError
<1>1. JobInv => FailedHasError
  BY DEF JobInv
<1> QED
  BY <1>1, JobInvariance, PTL

\* A row that reads running has a worker that runs the job.
THEOREM RunningRows == JobSpec => []RunningHasWorker
<1>1. JobInv => RunningHasWorker
  BY DEF JobInv
<1> QED
  BY <1>1, JobInvariance, PTL

\* No execute job reaches NetGent without a definition.
THEOREM ExecutionsAreDefined == JobSpec => []RunsADefinition
<1>1. JobInv => RunsADefinition
  BY DEF JobInv
<1> QED
  BY <1>1, JobInvariance, PTL

\* A final status changes only for a job whose request saw its defer fail.
THEOREM FinalStays == JobSpec => FinalUnlessDeferFailed
<1> DEFINE Final(j) == status[j] \in Finished /\ status'[j] # status[j] =>
                         api[j] \in {"failing", "rejected", "crashed"}
<1>1. JobInv /\ [JobNext]_jobVars => \A j \in Jobs : Final(j)
  <2> SUFFICES ASSUME JobInv, [JobNext]_jobVars, NEW j \in Jobs PROVE Final(j)
    OBVIOUS
  <2> USE DEF JobInv, JobTypeOK, TakenOnce, FinalHasWriter, Finished, Moves, Jobs
  <2>1. ASSUME NEW w \in Workflows, Generate(w) PROVE Final(j)
    BY <2>1 DEF Generate
  <2>2. ASSUME NEW e \in Executions, Execute(e) PROVE Final(j)
    BY <2>2 DEF Execute
  <2>3. ASSUME NEW k \in Jobs, RejectJob(k) PROVE Final(j)
    BY <2>3 DEF RejectJob
  <2>4. ASSUME NEW k \in Jobs, Load(k) \/ FailJob(k) \/ CompleteJob(k) PROVE Final(j)
    BY <2>4 DEF Load, FailJob, CompleteJob
  <2>5. ASSUME UNCHANGED status PROVE Final(j)
    BY <2>5
  <2> QED
    BY <2>1, <2>2, <2>3, <2>4, <2>5 DEF JobNext, Handler, Task, Defer, TakeTask,
       StoreWorkflow, Upload, LoadAgain, RunClient, WorkerDies, jobVars
<1> QED
  BY <1>1, JobInvariance, PTL DEF JobSpec, FinalUnlessDeferFailed
=============================================================================
