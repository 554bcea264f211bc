------------------------- MODULE ExperimentRunProofs -------------------------
(***************************************************************************)
(* Proofs about ExperimentRun.  IInv is the inductive invariant: each of   *)
(* its parts relates the orchestrator's knowledge of a session (thr,       *)
(* stopped, capStatus, upload) to what is true on the worker (proc, table, *)
(* late, wf) or in telemetry (row, artifact).                              *)
(***************************************************************************)
EXTENDS ExperimentRun, TLAPS

\* A session exists only once its start was sent, an id stands for a process,
\* and only a start the client gave up on may still happen.
StartsMatch ==
  \A k \in Sessions :
    /\ thr[k] \in {"idle", "waiting", "ok", "error", "skipped"}
    /\ thr[k] \in {"idle", "waiting", "skipped"} =>
         proc[k] = "none" /\ k \notin table
    /\ thr[k] = "ok" => proc[k] # "none"
    /\ k \in late => thr[k] = "error"

\* A stop that answered left no running process.
StopsMatch ==
  \A k \in Sessions :
    stopped[k] = "ok" => thr[k] = "ok" /\ proc[k] \notin {"none", "running"}

\* The cleanup is reached by joined threads only and stops what was started.
CleanupInOrder ==
  /\ pc = "select" => \A t \in Threads : thr[t] = "idle"
  /\ pc \notin {"select", "fire"} => Joined
  /\ pc \notin {"select", "fire", "stopReplay"} /\ thr["replay"] = "ok" =>
       stopped["replay"] # "no"
  /\ pc \in {"stopQtrace", "uploadPcap", "uploadQtrace", "classify", "done"}
       /\ thr["capture"] = "ok" =>
       capStatus = "finished" \/ stopped["capture"] # "no"
  /\ pc = "stopCapture" => thr["capture"] = "ok"
  /\ pc \in {"uploadPcap", "uploadQtrace", "classify", "done"}
       /\ thr["qtrace"] = "ok" => stopped["qtrace"] # "no"

\* A capture seen finished stays registered and ended: the cleanup is past the
\* steps that could remove it.
FinishedIsStable ==
  capStatus = "finished" =>
    /\ thr["capture"] = "ok"
    /\ Downloadable("capture")
    /\ pc \in {"stopQtrace", "uploadPcap", "uploadQtrace", "classify", "done"}

\* What the workflow thread believes of the workflow and of the result row.
WorkflowMatch ==
  /\ thr["workflow"] # "skipped"
  /\ thr["workflow"] \in {"ran", "ok"} => wf = "done"
  /\ row \/ telem # "none" => thr["workflow"] = "ok"
  /\ thr["workflow"] = "ok" /\ env.telemetry => telem \in {"id", "error"}
  /\ telem = "id" => row

\* What the uploads report, and what telemetry holds.
UploadsMatch ==
  /\ \A k \in Uploads :
       /\ artifact[k] # "partial"
       /\ artifact[k] # "none" => telem = "id"
       /\ upload[k] = "stored" => artifact[k] = "final"
  /\ pc \in {"uploadQtrace", "classify", "done"} /\ telem = "id"
       /\ capStatus = "finished" => upload["capture"] # "none"

\* The classification is made of final facts.
VerdictMatches ==
  /\ outcome # "none" => pc = "done"
  /\ pc = "done" => warned = Warnings
  /\ outcome = "success" => thr["workflow"] = "ok"

IInv ==
  /\ TypeOK
  /\ StartsMatch
  /\ StopsMatch
  /\ CleanupInOrder
  /\ FinishedIsStable
  /\ WorkflowMatch
  /\ UploadsMatch
  /\ VerdictMatches

-----------------------------------------------------------------------------
(* Type correctness.                                                        *)

LEMMA InitTypeOK == Init => TypeOK
<1> SUFFICES ASSUME Init PROVE TypeOK
  OBVIOUS
<1>1. SessionsTypeOK
  BY SMT DEF Init, SessionsInit, SessionsTypeOK, ProcStates
<1>2. /\ thr \in [Threads -> ThreadStates]
      /\ stopped \in [Sessions -> {"no", "ok", "error"}]
      /\ artifact \in [Uploads -> {"none", "partial", "final"}]
      /\ upload \in [Uploads -> {"none", "stored", "error"}]
  BY SMT DEF Init, ThreadStates
<1>3. row \in BOOLEAN /\ pc \in PCs /\ wf \in {"none", "running", "done", "failed"}
  BY Zenon DEF Init, PCs
<1>4. late \subseteq Sessions /\ warned \subseteq {"replay", "capture", "telemetry", "pcap"}
  BY SMT DEF Init
<1> QED
  BY <1>1, <1>2, <1>3, <1>4, Zenon DEF Init, TypeOK

LEMMA SpawnType ==
  ASSUME SessionsTypeOK, NEW k \in Sessions,
         Spawn(k) \/ SpawnUnregistered(k) \/ UNCHANGED sessionVars
  PROVE  SessionsTypeOK'
  BY SMT DEF SessionsTypeOK, Spawn, SpawnUnregistered, sessionVars, ProcStates

LEMMA StopType ==
  ASSUME SessionsTypeOK, NEW k \in Sessions, Stop(k)
  PROVE  SessionsTypeOK'
  BY SMT DEF SessionsTypeOK, Stop, ProcStates

LEMMA MainThreadType ==
  ASSUME TypeOK, MainThread
  PROVE  TypeOK'
<1> USE DEF TypeOK, PCs, ThreadStates, MainStep, storeVars, resultVars,
            workerVars, sessionVars
<1>1. CASE SelectAndStart
  BY <1>1, SMT DEF SelectAndStart, SessionsTypeOK
<1>2. CASE JoinThreads
  BY <1>2, SMT DEF JoinThreads, SessionsTypeOK
<1>3. CASE StopReplay
  <2>1. "replay" \in Sessions
    BY DEF Sessions
  <2>2. SessionsTypeOK'
    BY <1>3, <2>1, StopType, SMT
       DEF StopReplay, StopIfStarted, StopCall, SessionsTypeOK
  <2>3. stopped' \in [Sessions -> {"no", "ok", "error"}]
    BY <1>3, <2>1, SMT DEF StopReplay, StopIfStarted, StopCall
  <2> QED
    BY <1>3, <2>2, <2>3, SMT DEF StopReplay
<1>4. CASE CaptureMissing \/ PollRunning \/ PollFinished \/ CaptureDeadline
  <2>1. /\ UNCHANGED <<sessionVars, env, thr, late, wf, stopped, storeVars,
                       resultVars>>
        /\ pc' \in PCs
    BY <1>4, SMT DEF CaptureMissing, PollRunning, PollFinished, CaptureDeadline
  <2>2. capStatus' \in {"none", "running", "finished", "timeout", "missing"}
    BY <1>4, SMT DEF CaptureMissing, PollRunning, PollFinished, CaptureDeadline
  <2> QED
    BY <2>1, <2>2, SMT DEF SessionsTypeOK
<1>5. CASE ForceStop
  <2>1. "capture" \in Sessions
    BY DEF Sessions
  <2>2. SessionsTypeOK'
    BY <1>5, <2>1, StopType, SMT DEF ForceStop, StopCall, SessionsTypeOK
  <2>3. stopped' \in [Sessions -> {"no", "ok", "error"}]
    BY <1>5, <2>1, SMT DEF ForceStop, StopCall
  <2> QED
    BY <1>5, <2>2, <2>3, SMT DEF ForceStop
<1>6. CASE StopQtrace
  <2>1. "qtrace" \in Sessions
    BY DEF Sessions
  <2>2. SessionsTypeOK'
    BY <1>6, <2>1, StopType, SMT
       DEF StopQtrace, StopIfStarted, StopCall, SessionsTypeOK
  <2>3. stopped' \in [Sessions -> {"no", "ok", "error"}]
    BY <1>6, <2>1, SMT DEF StopQtrace, StopIfStarted, StopCall
  <2> QED
    BY <1>6, <2>2, <2>3, SMT DEF StopQtrace
<1>7. CASE UploadPcap
  BY <1>7, SMT DEF UploadPcap, UploadIf, Upload, Contents, Uploads,
                   SessionsTypeOK
<1>8. CASE UploadQtrace
  BY <1>8, SMT DEF UploadQtrace, UploadIf, Upload, Contents, Uploads,
                   SessionsTypeOK
<1>9. CASE Classify
  BY <1>9, SMT DEF Classify, Warnings, SessionsTypeOK
<1> QED
  BY <1>1, <1>2, <1>3, <1>4, <1>5, <1>6, <1>7, <1>8, <1>9 DEF MainThread

LEMMA WorkflowThreadType ==
  ASSUME TypeOK, WorkflowThread
  PROVE  TypeOK'
<1>1. /\ thr' \in [Threads -> ThreadStates]
      /\ UNCHANGED <<env, pc, sessionVars, late, capStatus, stopped, artifact,
                     upload, resultVars>>
  BY SMT DEF WorkflowThread, ApplyShaping, ApplyCongestion, PostRun, RunReturns,
             PostResult, WorkflowStep, storeVars, TypeOK, ThreadStates
<1>2. wf' \in {"none", "running", "done", "failed"}
  BY SMT DEF WorkflowThread, ApplyShaping, ApplyCongestion, PostRun, RunReturns,
             PostResult, TypeOK
<1>3. row' \in BOOLEAN /\ telem' \in {"none", "off", "id", "error"}
  BY SMT DEF WorkflowThread, ApplyShaping, ApplyCongestion, PostRun, RunReturns,
             PostResult, storeVars, TypeOK
<1> QED
  BY <1>1, <1>2, <1>3, SMT DEF TypeOK, SessionsTypeOK, sessionVars, resultVars

LEMMA WorkerType ==
  ASSUME TypeOK, Worker
  PROVE  TypeOK'
<1> USE DEF TypeOK, storeVars, resultVars, sessionVars
<1>1. CASE WorkflowEnds
  BY <1>1, SMT DEF WorkflowEnds, SessionsTypeOK
<1>2. ASSUME NEW k \in Sessions, LateStart(k) PROVE TypeOK'
  <2>1. SessionsTypeOK'
    BY <1>2, SpawnType, SMT DEF LateStart
  <2> QED
    BY <1>2, <2>1, SMT DEF LateStart
<1>3. ASSUME NEW k \in Sessions, SessionEnds(k) PROVE TypeOK'
  BY <1>3, SMT DEF SessionEnds, ProcEnds, SessionsTypeOK, ProcStates
<1> QED
  BY <1>1, <1>2, <1>3 DEF Worker

LEMMA FireType ==
  ASSUME TypeOK, NEW k \in Sessions, Fire(k)
  PROVE  TypeOK'
<1>1. SessionsTypeOK'
  BY SpawnType, SMT DEF Fire, TypeOK
<1>2. thr' \in [Threads -> ThreadStates] /\ late' \subseteq Sessions
  BY SMT DEF Fire, TypeOK, Threads, ThreadStates
<1> QED
  BY <1>1, <1>2, SMT DEF Fire, TypeOK, storeVars, resultVars

\* Every variable keeps its type, in every environment.
THEOREM TypeCorrect == Spec => []TypeOK
<1>1. TypeOK /\ [Next]_vars => TypeOK'
  <2> SUFFICES ASSUME TypeOK, [Next]_vars PROVE TypeOK'
    OBVIOUS
  <2>1. CASE Next
    BY <2>1, MainThreadType, WorkflowThreadType, WorkerType, FireType DEF Next
  <2>2. CASE UNCHANGED vars
    BY <2>2, SMT DEF vars, TypeOK, SessionsTypeOK
  <2> QED
    BY <2>1, <2>2
<1> QED
  BY <1>1, InitTypeOK, PTL DEF Spec

-----------------------------------------------------------------------------
(* Each part of IInv is preserved by every step.                            *)

\* The steps that leave the worker's sessions and the threads' view of them.
LEMMA QuietSteps ==
  ASSUME \/ JoinThreads \/ CaptureMissing \/ PollRunning \/ PollFinished
         \/ CaptureDeadline \/ UploadPcap \/ UploadQtrace \/ Classify
         \/ WorkflowEnds
  PROVE  UNCHANGED <<sessionVars, thr, late, stopped>>
  BY SMT DEF JoinThreads, CaptureMissing, PollRunning, PollFinished,
         CaptureDeadline, UploadPcap, UploadQtrace, UploadIf, Classify,
         WorkflowEnds, MainStep

\* The workflow thread moves itself only.
LEMMA WorkflowSteps ==
  ASSUME TypeOK, WorkflowThread
  PROVE  /\ UNCHANGED <<env, pc, sessionVars, late, capStatus, stopped,
                        artifact, upload, resultVars>>
         /\ \A t \in Threads : t # "workflow" => thr'[t] = thr[t]
         /\ thr["workflow"] \notin {"ok", "error", "skipped", "idle"}
         /\ thr'["workflow"] # "skipped"
  BY SMT DEF WorkflowThread, ApplyShaping, ApplyCongestion, PostRun, RunReturns,
         PostResult, WorkflowStep, storeVars, TypeOK, Threads

LEMMA StopSteps ==
  ASSUME TypeOK, StopReplay \/ ForceStop \/ StopQtrace
  PROVE  /\ UNCHANGED <<thr, late>>
         /\ \A k \in Sessions : (proc'[k] = "none") <=> (proc[k] = "none")
         /\ table' \subseteq table
  BY SMT DEF StopReplay, ForceStop, StopQtrace, StopIfStarted, StopCall, Stop,
         MainStep, TypeOK, SessionsTypeOK, Sessions, sessionVars

LEMMA StartsStep ==
  ASSUME TypeOK, StartsMatch, CleanupInOrder, Next
  PROVE  StartsMatch'
<1>1. CASE SelectAndStart
  BY <1>1, SMT DEF SelectAndStart, CleanupInOrder, StartsMatch, Threads,
                   workerVars, TypeOK
<1>2. CASE StopReplay \/ ForceStop \/ StopQtrace
  BY <1>2, StopSteps, SMT DEF StartsMatch
<1>3. CASE \/ JoinThreads \/ CaptureMissing \/ PollRunning \/ PollFinished
           \/ CaptureDeadline \/ UploadPcap \/ UploadQtrace \/ Classify
           \/ WorkflowEnds
  BY <1>3, QuietSteps, SMT DEF StartsMatch, sessionVars
<1>4. CASE WorkflowThread
  BY <1>4, WorkflowSteps, SMT DEF StartsMatch, sessionVars, Threads, Sessions
<1>5. ASSUME NEW k \in Sessions, LateStart(k) PROVE StartsMatch'
  BY <1>5, SMT DEF LateStart, Spawn, SpawnUnregistered, sessionVars,
                   StartsMatch, TypeOK, SessionsTypeOK
<1>6. ASSUME NEW k \in Sessions, SessionEnds(k) PROVE StartsMatch'
  BY <1>6, SMT DEF SessionEnds, ProcEnds, StartsMatch, TypeOK, SessionsTypeOK
<1>7. ASSUME NEW k \in Sessions, Fire(k) PROVE StartsMatch'
  BY <1>7, SMT DEF Fire, Spawn, SpawnUnregistered, sessionVars, StartsMatch,
                   TypeOK, SessionsTypeOK, Threads
<1> QED
  BY <1>1, <1>2, <1>3, <1>4, <1>5, <1>6, <1>7 DEF Next, MainThread, Worker

LEMMA StopsStep ==
  ASSUME TypeOK, StartsMatch, StopsMatch, CleanupInOrder, Next
  PROVE  StopsMatch'
<1>1. CASE SelectAndStart
  BY <1>1, SMT DEF SelectAndStart, CleanupInOrder, StopsMatch, Threads,
                   workerVars, TypeOK
<1>2. CASE StopReplay
  BY <1>2, SMT DEF StopReplay, StopIfStarted, StopCall, Stop, MainStep,
                   StartsMatch, StopsMatch, TypeOK, SessionsTypeOK, Sessions, sessionVars
<1>3. CASE ForceStop
  <2>1. thr["capture"] = "ok" \/ stopped'["capture"] # "ok"
    BY <1>3, SMT DEF ForceStop, StopCall, MainStep, CleanupInOrder,
                     TypeOK, Sessions
  <2> QED
    BY <1>3, <2>1, SMT DEF ForceStop, StopCall, Stop, MainStep,
                     StartsMatch, StopsMatch, TypeOK, SessionsTypeOK, Sessions,
                     sessionVars
<1>4. CASE StopQtrace
  BY <1>4, SMT DEF StopQtrace, StopIfStarted, StopCall, Stop, MainStep,
                   StartsMatch, StopsMatch, TypeOK, SessionsTypeOK, Sessions, sessionVars
<1>5. CASE \/ JoinThreads \/ CaptureMissing \/ PollRunning \/ PollFinished
           \/ CaptureDeadline \/ UploadPcap \/ UploadQtrace \/ Classify
           \/ WorkflowEnds
  BY <1>5, QuietSteps, SMT DEF StopsMatch, sessionVars
<1>6. CASE WorkflowThread
  BY <1>6, WorkflowSteps, SMT DEF StopsMatch, sessionVars, Threads, Sessions
<1>7. ASSUME NEW k \in Sessions, LateStart(k) PROVE StopsMatch'
  BY <1>7, SMT DEF LateStart, Spawn, SpawnUnregistered, sessionVars,
                   StartsMatch, StopsMatch, TypeOK, SessionsTypeOK
<1>8. ASSUME NEW k \in Sessions, SessionEnds(k) PROVE StopsMatch'
  BY <1>8, SMT DEF SessionEnds, ProcEnds, StopsMatch, TypeOK, SessionsTypeOK
<1>9. ASSUME NEW k \in Sessions, Fire(k) PROVE StopsMatch'
  BY <1>9, SMT DEF Fire, Spawn, SpawnUnregistered, sessionVars, StartsMatch,
                   StopsMatch, TypeOK, SessionsTypeOK, Threads
<1> QED
  BY <1>1, <1>2, <1>3, <1>4, <1>5, <1>6, <1>7, <1>8, <1>9
     DEF Next, MainThread, Worker

\* Threads that are done stay done, and the main thread waits for them.
LEMMA JoinedStep ==
  ASSUME TypeOK, StartsMatch, CleanupInOrder, Next
  PROVE  /\ pc' = "select" => \A t \in Threads : thr'[t] = "idle"
         /\ pc' \notin {"select", "fire"} => Joined'
<1>1. CASE MainThread
  <2>1. CASE SelectAndStart
    BY <2>1 DEF SelectAndStart
  <2>2. CASE JoinThreads
    BY <2>2, SMT DEF JoinThreads, MainStep, Joined
  <2>3. CASE StopReplay \/ ForceStop \/ StopQtrace
    BY <2>3, SMT DEF StopReplay, ForceStop, StopQtrace, MainStep,
                     CleanupInOrder, Joined
  <2>4. CASE CaptureMissing \/ PollRunning \/ PollFinished \/ CaptureDeadline
    BY <2>4, SMT DEF CaptureMissing, PollRunning, PollFinished,
                     CaptureDeadline, MainStep, CleanupInOrder, Joined
  <2>5. CASE UploadPcap \/ UploadQtrace \/ Classify
    <3>1. /\ pc \in {"uploadPcap", "uploadQtrace", "classify"}
          /\ pc' \in {"uploadQtrace", "classify", "done"}
      BY <2>5, SMT DEF UploadPcap, UploadQtrace, UploadIf, Classify, MainStep
    <3> QED
      BY <2>5, <3>1, QuietSteps, SMT DEF CleanupInOrder, Joined
  <2> QED
    BY <1>1, <2>1, <2>2, <2>3, <2>4, <2>5 DEF MainThread
<1>2. CASE WorkflowThread
  <2>1. pc = "fire"
    BY <1>2, WorkflowSteps, SMT DEF CleanupInOrder, Joined, Threads, TypeOK, PCs
  <2> QED
    BY <1>2, <2>1, WorkflowSteps
<1>3. CASE Worker
  <2>1. UNCHANGED <<pc, thr>>
    BY <1>3 DEF Worker, WorkflowEnds, LateStart, SessionEnds
  <2> QED
    BY <2>1, SMT DEF CleanupInOrder, Joined
<1>4. ASSUME NEW k \in Sessions, Fire(k)
      PROVE  pc = "fire" /\ pc' = pc
  BY <1>4, SMT DEF Fire, CleanupInOrder, Joined, Threads, TypeOK, PCs
<1> QED
  BY <1>1, <1>2, <1>3, <1>4 DEF Next

LEMMA CleanupStep ==
  ASSUME TypeOK, StartsMatch, CleanupInOrder, Next
  PROVE  CleanupInOrder'
<1>1. CASE MainThread
  <2>1. CASE SelectAndStart
    BY <2>1, JoinedStep, SMT DEF SelectAndStart, CleanupInOrder
  <2>2. CASE JoinThreads
    BY <2>2, JoinedStep, SMT DEF JoinThreads, MainStep, CleanupInOrder
  <2>3. CASE StopReplay
    BY <2>3, JoinedStep, SMT DEF StopReplay, StopIfStarted, StopCall, MainStep,
                             CleanupInOrder, TypeOK, Sessions
  <2>4. CASE CaptureMissing \/ PollRunning \/ PollFinished \/ CaptureDeadline
    BY <2>4, JoinedStep, SMT DEF CaptureMissing, PollRunning, PollFinished,
                             CaptureDeadline, MainStep, CleanupInOrder
  <2>5. CASE ForceStop
    BY <2>5, JoinedStep, SMT DEF ForceStop, StopCall, MainStep, CleanupInOrder,
                             TypeOK, Sessions
  <2>6. CASE StopQtrace
    BY <2>6, JoinedStep, SMT DEF StopQtrace, StopIfStarted, StopCall, MainStep,
                             CleanupInOrder, TypeOK, Sessions
  <2>7. CASE UploadPcap \/ UploadQtrace \/ Classify
    BY <2>7, JoinedStep, SMT DEF UploadPcap, UploadQtrace, UploadIf, Classify,
                             MainStep, CleanupInOrder
  <2> QED
    BY <1>1, <2>1, <2>2, <2>3, <2>4, <2>5, <2>6, <2>7 DEF MainThread
<1>2. CASE WorkflowThread
  BY <1>2, WorkflowSteps, JoinedStep, SMT DEF CleanupInOrder, Joined, Threads,
                             Sessions, TypeOK, PCs
<1>3. CASE Worker
  <2>1. UNCHANGED <<pc, thr, capStatus, stopped>>
    BY <1>3 DEF Worker, WorkflowEnds, LateStart, SessionEnds
  <2> QED
    BY <2>1, JoinedStep, SMT DEF CleanupInOrder
<1>4. ASSUME NEW k \in Sessions, Fire(k)
      PROVE  CleanupInOrder'
  BY <1>4, JoinedStep, SMT DEF Fire, CleanupInOrder, Joined, Threads, TypeOK, PCs
<1> QED
  BY <1>1, <1>2, <1>3, <1>4 DEF Next

LEMMA FinishedStep ==
  ASSUME TypeOK, StartsMatch, CleanupInOrder, FinishedIsStable, Next
  PROVE  FinishedIsStable'
<1> USE DEF Known, Ended, Downloadable, ReportsFinished
<1>1. CASE SelectAndStart \/ JoinThreads \/ CaptureMissing \/ CaptureDeadline
           \/ PollRunning
  <2>1. pc \in {"select", "fire", "waitCapture"}
    BY <1>1, SMT DEF SelectAndStart, JoinThreads, CaptureMissing, PollRunning,
                     CaptureDeadline, MainStep
  <2>2. capStatus' \in {capStatus, "running", "missing"}
    BY <1>1, SMT DEF SelectAndStart, JoinThreads, CaptureMissing, PollRunning,
                     CaptureDeadline
  <2> QED
    BY <2>1, <2>2, SMT DEF FinishedIsStable
<1>2. CASE PollFinished
  <2>1. /\ Downloadable("capture") /\ thr["capture"] = "ok"
        /\ UNCHANGED <<proc, table, thr>> /\ pc' = "stopQtrace"
    BY <1>2 DEF PollFinished, MainStep, sessionVars
  <2>2. Downloadable("capture")'
    BY <2>1
  <2> QED
    BY <2>1, <2>2, SMT DEF FinishedIsStable
<1>3. CASE StopReplay \/ ForceStop
  <2>1. pc \in {"stopReplay", "stopCapture"} /\ capStatus' \in {capStatus, "timeout"}
    BY <1>3, SMT DEF StopReplay, ForceStop, MainStep
  <2> QED
    BY <2>1, SMT DEF FinishedIsStable
<1>4. CASE StopQtrace
  BY <1>4, SMT DEF StopQtrace, StopIfStarted, StopCall, Stop, MainStep,
                   FinishedIsStable, TypeOK, SessionsTypeOK, Sessions,
                   sessionVars
<1>5. CASE UploadPcap \/ UploadQtrace \/ Classify
  BY <1>5, SMT DEF UploadPcap, UploadQtrace, UploadIf, Classify, MainStep,
                   FinishedIsStable, sessionVars
<1>6. CASE WorkflowThread
  BY <1>6, WorkflowSteps, SMT DEF FinishedIsStable, Threads, Sessions, sessionVars
<1>7. CASE WorkflowEnds
  BY <1>7, SMT DEF WorkflowEnds, FinishedIsStable, sessionVars
<1>8. ASSUME NEW k \in Sessions, LateStart(k) PROVE FinishedIsStable'
  BY <1>8, SMT DEF LateStart, Spawn, SpawnUnregistered, StartsMatch,
                   FinishedIsStable, TypeOK, SessionsTypeOK, sessionVars
<1>9. ASSUME NEW k \in Sessions, SessionEnds(k) PROVE FinishedIsStable'
  BY <1>9, SMT DEF SessionEnds, ProcEnds, FinishedIsStable, TypeOK,
                   SessionsTypeOK
<1>10. ASSUME NEW k \in Sessions, Fire(k) PROVE FinishedIsStable'
  BY <1>10, SMT DEF Fire, Spawn, SpawnUnregistered, FinishedIsStable,
                   TypeOK, SessionsTypeOK, Sessions, Threads, sessionVars
<1> QED
  BY <1>1, <1>2, <1>3, <1>4, <1>5, <1>6, <1>7, <1>8, <1>9, <1>10
     DEF Next, MainThread, Worker

\* The steps that are not the workflow's leave row, telem and thr["workflow"].
LEMMA OtherThanWorkflow ==
  ASSUME TypeOK, Next, ~WorkflowThread
  PROVE  /\ UNCHANGED <<env, row, telem>>
         /\ \/ thr'["workflow"] = thr["workflow"]
            \/ pc = "select" /\ thr'["workflow"] = "waiting"
         /\ wf = "done" => wf' = "done"
<1>1. CASE SelectAndStart
  BY <1>1, SMT DEF SelectAndStart, Threads, storeVars, workerVars
<1>2. CASE StopReplay \/ ForceStop \/ StopQtrace
  BY <1>2, SMT DEF StopReplay, ForceStop, StopQtrace, MainStep, storeVars
<1>3. CASE \/ JoinThreads \/ CaptureMissing \/ PollRunning \/ PollFinished
           \/ CaptureDeadline \/ Classify
  BY <1>3, SMT DEF JoinThreads, CaptureMissing, PollRunning, PollFinished,
                   CaptureDeadline, Classify, MainStep, storeVars
<1>4. CASE UploadPcap \/ UploadQtrace
  BY <1>4, SMT DEF UploadPcap, UploadQtrace, UploadIf, MainStep
<1>5. CASE Worker
  BY <1>5, SMT DEF Worker, WorkflowEnds, LateStart, SessionEnds, storeVars
<1>6. ASSUME NEW k \in Sessions, Fire(k)
      PROVE  UNCHANGED <<env, row, telem, wf>> /\ thr'["workflow"] = thr["workflow"]
  BY <1>6, SMT DEF Fire, storeVars, TypeOK, Threads, Sessions
<1> QED
  BY <1>1, <1>2, <1>3, <1>4, <1>5, <1>6, SMT DEF Next, MainThread

LEMMA WorkflowStepInv ==
  ASSUME TypeOK, CleanupInOrder, WorkflowMatch, Next
  PROVE  WorkflowMatch'
<1>1. CASE ~WorkflowThread
  <2>1. pc = "select" => thr["workflow"] = "idle"
    BY DEF CleanupInOrder, Threads
  <2> QED
    BY <1>1, <2>1, OtherThanWorkflow, SMT DEF WorkflowMatch
<1>2. CASE ApplyShaping \/ ApplyCongestion
  BY <1>2, SMT DEF ApplyShaping, ApplyCongestion, WorkflowStep, WorkflowMatch,
                   storeVars, TypeOK, Threads
<1>3. CASE PostRun \/ RunReturns
  BY <1>3, SMT DEF PostRun, RunReturns, WorkflowStep, WorkflowMatch,
                   storeVars, TypeOK, Threads
<1>4. CASE PostResult
  BY <1>4, SMT DEF PostResult, WorkflowStep, WorkflowMatch, TypeOK, Threads
<1> QED
  BY <1>1, <1>2, <1>3, <1>4 DEF WorkflowThread

LEMMA UploadsStep ==
  ASSUME TypeOK, StartsMatch, CleanupInOrder, FinishedIsStable, WorkflowMatch,
         UploadsMatch, Next
  PROVE  UploadsMatch'
<1>1. CASE UploadPcap
  <2>1. PICK wanted \in BOOLEAN :
          /\ wanted <=> /\ telem = "id"
                        /\ thr["capture"] = "ok"
                        /\ capStatus = "finished"
          /\ UploadIf("capture", wanted)
    BY <1>1 DEF UploadPcap
  <2>2. /\ \A k \in Uploads : k # "capture" =>
             artifact'[k] = artifact[k] /\ upload'[k] = upload[k]
        /\ UNCHANGED <<telem, capStatus>>
    BY <2>1, SMT DEF UploadIf, Upload, TypeOK
  <2>3. CASE ~wanted
    BY <1>1, <2>1, <2>3, SMT DEF UploadPcap, MainStep, UploadIf, UploadsMatch,
                                 FinishedIsStable
  <2>4. CASE wanted
    <3>1. Upload("capture") /\ telem = "id"
      BY <2>1, <2>4 DEF UploadIf
    <3>2. /\ artifact'["capture"] # "partial"
          /\ upload'["capture"] = "stored" => artifact'["capture"] = "final"
          /\ upload'["capture"] # "none"
      BY <3>1, SMT DEF Upload, Downloadable, Contents, TypeOK, Uploads,
                       UploadsMatch
    <3> QED
      BY <2>2, <3>1, <3>2, SMT DEF UploadsMatch, Uploads
  <2> QED
    BY <2>3, <2>4
<1>2. CASE UploadQtrace
  <2>1. PICK wanted \in BOOLEAN :
          /\ wanted <=> telem = "id" /\ thr["qtrace"] = "ok"
          /\ UploadIf("qtrace", wanted)
    BY <1>2 DEF UploadQtrace
  <2>2. /\ \A k \in Uploads : k # "qtrace" =>
             artifact'[k] = artifact[k] /\ upload'[k] = upload[k]
        /\ UNCHANGED <<telem, capStatus>>
        /\ pc = "uploadQtrace"
    BY <1>2, <2>1, SMT DEF UploadQtrace, MainStep, UploadIf, Upload, TypeOK
  <2>3. CASE ~wanted
    BY <2>1, <2>2, <2>3, SMT DEF UploadIf, UploadsMatch
  <2>4. CASE wanted
    <3>1. Upload("qtrace") /\ telem = "id"
      BY <2>1, <2>4 DEF UploadIf
    <3>2. /\ artifact'["qtrace"] # "partial"
          /\ upload'["qtrace"] = "stored" => artifact'["qtrace"] = "final"
      BY <3>1, SMT DEF Upload, Downloadable, Contents, TypeOK, Uploads,
                       UploadsMatch
    <3> QED
      BY <2>2, <3>1, <3>2, SMT DEF UploadsMatch, Uploads
  <2> QED
    BY <2>3, <2>4
<1>3. CASE \/ SelectAndStart \/ JoinThreads \/ StopReplay \/ CaptureMissing
           \/ PollRunning \/ PollFinished \/ CaptureDeadline \/ ForceStop
           \/ StopQtrace
  <2>1. UNCHANGED storeVars
    BY <1>3 DEF SelectAndStart, JoinThreads, StopReplay, CaptureMissing,
       PollRunning, PollFinished, CaptureDeadline, ForceStop, StopQtrace
  <2>2. pc' \notin {"uploadQtrace", "classify", "done"}
    BY <1>3 DEF SelectAndStart, JoinThreads, StopReplay, CaptureMissing,
       PollRunning, PollFinished, CaptureDeadline, ForceStop, StopQtrace,
       MainStep
  <2> QED
    BY <2>1, <2>2, SMT DEF UploadsMatch, storeVars
<1>4. CASE Classify
  BY <1>4, SMT DEF Classify, MainStep, UploadsMatch, storeVars
<1>5. CASE WorkflowThread
  <2>1. telem = "none" \/ telem' = telem
    BY <1>5, WorkflowSteps, SMT DEF WorkflowMatch
  <2>2. pc = "fire"
    BY <1>5, WorkflowSteps, SMT DEF CleanupInOrder, Joined, Threads, TypeOK
  <2> QED
    BY <1>5, <2>1, <2>2, WorkflowSteps, SMT DEF UploadsMatch
<1>6. CASE Worker
  <2>1. UNCHANGED <<pc, capStatus, storeVars>>
    BY <1>6 DEF Worker, WorkflowEnds, LateStart, SessionEnds
  <2> QED
    BY <2>1, SMT DEF UploadsMatch, storeVars
<1>7. ASSUME NEW k \in Sessions, Fire(k) PROVE UploadsMatch'
  BY <1>7, SMT DEF Fire, UploadsMatch, storeVars
<1> QED
  BY <1>1, <1>2, <1>3, <1>4, <1>5, <1>6, <1>7 DEF Next, MainThread

LEMMA VerdictStep ==
  ASSUME TypeOK, StartsMatch, CleanupInOrder, VerdictMatches, Next
  PROVE  VerdictMatches'
<1>1. CASE Classify
  <2>1. UNCHANGED <<thr, capStatus, telem, upload>> /\ warned' = Warnings
    BY <1>1, SMT DEF Classify, MainStep, storeVars
  <2>2. Warnings' = Warnings
    BY <2>1 DEF Warnings
  <2>3. /\ pc' = "done"
        /\ outcome' = "success" => thr'["workflow"] = "ok"
    BY <1>1, <2>1, SMT DEF Classify, MainStep
  <2> QED
    BY <2>1, <2>2, <2>3, SMT DEF VerdictMatches
<1>2. CASE MainThread /\ ~Classify
  <2>1. UNCHANGED outcome
    BY <1>2 DEF MainThread, SelectAndStart, JoinThreads, StopReplay,
       CaptureMissing, PollRunning, PollFinished, CaptureDeadline, ForceStop,
       StopQtrace, UploadPcap, UploadQtrace, UploadIf, resultVars
  <2>2. pc # "done" /\ pc' # "done"
    BY <1>2 DEF MainThread, SelectAndStart, JoinThreads, StopReplay,
       CaptureMissing, PollRunning, PollFinished, CaptureDeadline, ForceStop,
       StopQtrace, UploadPcap, UploadQtrace, MainStep
  <2> QED
    BY <2>1, <2>2, SMT DEF VerdictMatches
<1>3. CASE WorkflowThread
  <2>1. pc = "fire"
    BY <1>3, WorkflowSteps, SMT DEF CleanupInOrder, Joined, Threads, TypeOK
  <2> QED
    BY <1>3, <2>1, WorkflowSteps, SMT DEF VerdictMatches, resultVars
<1>4. CASE Worker
  <2>1. UNCHANGED <<pc, thr, capStatus, telem, upload, outcome, warned>>
    BY <1>4 DEF Worker, WorkflowEnds, LateStart, SessionEnds, storeVars,
                resultVars
  <2>2. Warnings' = Warnings
    BY <2>1 DEF Warnings
  <2> QED
    BY <2>1, <2>2, SMT DEF VerdictMatches
<1>5. ASSUME NEW k \in Sessions, Fire(k) PROVE VerdictMatches'
  <2>1. pc = "fire" /\ UNCHANGED <<pc, outcome>>
    BY <1>5, SMT DEF Fire, CleanupInOrder, Joined, Threads, TypeOK, resultVars
  <2> QED
    BY <2>1, SMT DEF VerdictMatches
<1> QED
  BY <1>1, <1>2, <1>3, <1>4, <1>5 DEF Next

-----------------------------------------------------------------------------
(* The inductive invariant and what follows from it.                        *)

LEMMA InitIInv == Init => IInv
<1> SUFFICES ASSUME Init PROVE IInv
  OBVIOUS
<1>1. /\ \A t \in Threads : thr[t] = "idle"
      /\ \A k \in Sessions : proc[k] = "none" /\ stopped[k] = "no"
      /\ \A k \in Uploads : artifact[k] = "none" /\ upload[k] = "none"
      /\ table = {} /\ late = {}
  BY SMT DEF Init, SessionsInit
<1>2. StartsMatch /\ StopsMatch
  BY <1>1, SMT DEF StartsMatch, StopsMatch, Threads
<1>3. CleanupInOrder /\ FinishedIsStable
  BY <1>1, SMT DEF Init, CleanupInOrder, FinishedIsStable
<1>4. "workflow" \in Threads
  BY DEF Threads
<1>5. WorkflowMatch
  BY <1>1, <1>4, SMT DEF Init, WorkflowMatch
<1>6. UploadsMatch /\ VerdictMatches
  BY <1>1, SMT DEF Init, UploadsMatch, VerdictMatches
<1> QED
  BY InitTypeOK, <1>2, <1>3, <1>5, <1>6 DEF IInv

LEMMA StutterIInv == IInv /\ UNCHANGED vars => IInv'
<1> SUFFICES ASSUME IInv, UNCHANGED vars PROVE IInv'
  OBVIOUS
<1>1. TypeOK' /\ StartsMatch' /\ StopsMatch' /\ WorkflowMatch' /\ UploadsMatch'
  BY SMT DEF vars, IInv, TypeOK, SessionsTypeOK, StartsMatch, StopsMatch,
             WorkflowMatch, UploadsMatch
<1>2. CleanupInOrder' /\ FinishedIsStable'
  BY SMT DEF vars, IInv, CleanupInOrder, Joined, FinishedIsStable,
             Downloadable, Known, Ended
<1>3. Warnings' = Warnings
  BY DEF vars, Warnings
<1>4. VerdictMatches'
  BY <1>3, SMT DEF vars, IInv, VerdictMatches
<1> QED
  BY <1>1, <1>2, <1>4 DEF IInv

LEMMA NextIInv == IInv /\ Next => IInv'
<1> SUFFICES ASSUME IInv, Next PROVE IInv'
  OBVIOUS
<1>1. TypeOK'
  BY MainThreadType, WorkflowThreadType, WorkerType, FireType DEF Next, IInv
<1> QED
  BY <1>1, StartsStep, StopsStep, CleanupStep, FinishedStep, WorkflowStepInv,
     UploadsStep, VerdictStep DEF IInv

\* The strengthened invariant holds in every state a run reaches.
THEOREM Invariance == Spec => []IInv
  BY InitIInv, NextIInv, StutterIInv, PTL DEF Spec

LEMMA QuietFromIInv == IInv => QuietOnReturn
<1> SUFFICES ASSUME IInv, pc = "done"
    PROVE  /\ \A k \in Sessions :
                proc[k] = "running" => thr[k] = "error" \/ stopped[k] = "error"
           /\ wf = "running" => thr["workflow"] = "error"
  BY DEF QuietOnReturn
<1>1. Joined /\ "workflow" \in Threads /\ Sessions \subseteq Threads
  BY SMT DEF IInv, CleanupInOrder, Threads
<1>2. wf = "running" => thr["workflow"] = "error"
  BY <1>1, SMT DEF IInv, WorkflowMatch, Joined
<1>3. ASSUME NEW k \in Sessions, proc[k] = "running", thr[k] # "error"
      PROVE  stopped[k] = "error"
  <2>1. thr[k] = "ok"
    BY <1>1, <1>3, SMT DEF IInv, StartsMatch, Joined
  <2>2. stopped[k] # "ok" /\ stopped[k] \in {"no", "ok", "error"}
    BY <1>3, SMT DEF IInv, StopsMatch, TypeOK
  <2>3. k = "capture" => capStatus # "finished"
    BY <1>3, SMT DEF IInv, FinishedIsStable, Downloadable, Ended
  <2>4. stopped[k] # "no"
    BY <2>1, <2>3, SMT DEF IInv, CleanupInOrder, Sessions
  <2> QED
    BY <2>2, <2>4
<1> QED
  BY <1>2, <1>3

LEMMA CleanFromIInv == IInv => CleanSuccessHasPcap
<1> SUFFICES ASSUME IInv, outcome = "success", warned = {}, env.telemetry
    PROVE  row /\ artifact["capture"] = "final"
  BY DEF CleanSuccessHasPcap
<1>1. pc = "done" /\ thr["workflow"] = "ok" /\ Warnings = {}
  BY SMT DEF IInv, VerdictMatches
<1>2. /\ capStatus = "finished"
      /\ telem # "error"
      /\ upload["capture"] # "error"
  BY <1>1, SMT DEF Warnings
<1>3. telem = "id" /\ row
  BY <1>1, <1>2, SMT DEF IInv, WorkflowMatch
<1>4. upload["capture"] # "none" /\ "capture" \in Uploads
  BY <1>1, <1>2, <1>3, SMT DEF IInv, UploadsMatch, Uploads
<1>5. upload["capture"] = "stored"
  BY <1>2, <1>4, SMT DEF IInv, TypeOK
<1> QED
  BY <1>3, <1>4, <1>5, SMT DEF IInv, UploadsMatch

\* What is in telemetry is final and stands for a completed workflow, whatever
\* calls failed.
THEOREM TelemetryIsSound == Spec => [](ArtifactsAreFinal /\ ResultRowMeansCompleted)
<1>1. IInv => ArtifactsAreFinal /\ ResultRowMeansCompleted
  BY SMT DEF IInv, UploadsMatch, WorkflowMatch, ArtifactsAreFinal,
             ResultRowMeansCompleted
<1> QED
  BY <1>1, Invariance, PTL

\* A run that returned left nothing running but what a failed call explains.
THEOREM Quiet == Spec => []QuietOnReturn
  BY QuietFromIInv, Invariance, PTL

\* A capture once seen finished can be downloaded for the rest of the run.
THEOREM Downloads == Spec => []FinishedStaysDownloadable
<1>1. IInv => FinishedStaysDownloadable
  BY DEF IInv, FinishedIsStable, FinishedStaysDownloadable
<1> QED
  BY <1>1, Invariance, PTL

\* A success without warnings has its row and its complete PCAP.
THEOREM CleanSuccess == Spec => []CleanSuccessHasPcap
  BY CleanFromIInv, Invariance, PTL

\* Nothing starts on the worker during the cleanup but what a client gave up on.
THEOREM StartsBeforeCleanup == Spec => NoStartAfterCleanup
<1> DEFINE Starts == \A k \in Sessions :
      proc[k] = "none" /\ proc'[k] # "none" => pc = "fire" \/ thr[k] = "error"
<1>1. IInv /\ [Next]_vars => [Starts]_vars
  <2> SUFFICES ASSUME IInv, Next PROVE Starts
    OBVIOUS
  <2>1. CASE \/ SelectAndStart \/ JoinThreads \/ CaptureMissing
             \/ PollRunning \/ PollFinished \/ CaptureDeadline
             \/ UploadPcap \/ UploadQtrace \/ Classify \/ WorkflowEnds
    BY <2>1, QuietSteps, SMT DEF SelectAndStart, workerVars, sessionVars
  <2>2. CASE StopReplay \/ ForceStop \/ StopQtrace
    BY <2>2, StopSteps DEF IInv
  <2>3. CASE WorkflowThread
    BY <2>3, WorkflowSteps, SMT DEF IInv, sessionVars
  <2>4. ASSUME NEW k \in Sessions, LateStart(k) PROVE Starts
    BY <2>4, SMT DEF LateStart, Spawn, SpawnUnregistered, sessionVars, IInv,
                     StartsMatch, TypeOK, SessionsTypeOK
  <2>5. ASSUME NEW k \in Sessions, SessionEnds(k) PROVE Starts
    BY <2>5, SMT DEF SessionEnds, ProcEnds, IInv, TypeOK, SessionsTypeOK
  <2>6. ASSUME NEW k \in Sessions, Fire(k) PROVE Starts
    <3>1. pc = "fire"
      BY <2>6, SMT DEF Fire, IInv, CleanupInOrder, Joined, Threads, TypeOK
    <3> QED
      BY <3>1
  <2> QED
    BY <2>1, <2>2, <2>3, <2>4, <2>5, <2>6 DEF Next, MainThread, Worker
<1> QED
  BY <1>1, Invariance, PTL DEF Spec, NoStartAfterCleanup
=============================================================================
