---------------------------- MODULE BackendProofs ----------------------------
(***************************************************************************)
(* Proofs about the two backends that workers come from: WorkerPool, the   *)
(* dispatches to containers or to a static worker, for any number of       *)
(* specs, any parallelism and any addresses, in every environment; and     *)
(* AwsCloud, for any number of threads, of commands, of instances and of   *)
(* failed calls.                                                           *)
(***************************************************************************)
EXTENDS WorkerPool, AwsCloud, FiniteSetTheorems, TLAPS

-----------------------------------------------------------------------------
(***************************************************************************)
(* WorkerPool.                                                             *)
(***************************************************************************)
Serving == {"ready", "shaping", "shaped", "running", "destroy"}

\* Where a dispatch is tells what it has: a registered worker, a container, the
\* shape request it sent, a verdict.
PhasesMatch ==
  \A s \in Specs :
    /\ phase[s] \in Serving => s \in registry
    /\ Backend = "docker" =>
         /\ phase[s] \in Serving \cup {"inspect"} => container[s] = "up"
         /\ req[s] = "sent" => container[s] = "up"
    /\ phase[s] \in {"queued", "create", "start", "inspect", "ready"} =>
         req[s] = "none"
    /\ phase[s] \in {"queued", "create", "start"} => container[s] # "up"
    /\ phase[s] \in {"shaped", "running"} => req[s] = "ok"
    /\ phase[s] \in {"destroy", "returned"} => result[s] # "none"

\* Docker never gives one address to two running containers.
AddrsDistinct ==
  \A s, t \in Specs :
    s # t /\ container[s] = "up" /\ container[t] = "up" => addr[s] # addr[t]

\* A worker that acknowledged /shape keeps that shape while it runs.
ShapeKept ==
  Backend = "docker" =>
    \A s \in Specs :
      req[s] = "ok" /\ container[s] = "up" => shape[Endpoint(s)] = s

PoolInv ==
  /\ TypeOK
  /\ PhasesMatch
  /\ AddrsDistinct
  /\ ShapeKept

-----------------------------------------------------------------------------
(* Type correctness.                                                        *)

LEMMA InitType == Init => TypeOK
<1> SUFFICES ASSUME Init PROVE TypeOK
  OBVIOUS
<1>1. StaticAddr \in Endpoints
  BY DEF Endpoints
<1> QED
  BY <1>1, SMT DEF Init, TypeOK, Phases

LEMMA BootType ==
  ASSUME TypeOK, NEW s \in Specs, Boot(s)
  PROVE  /\ container' \in [Specs -> {"none", "created", "up", "gone"}]
         /\ addr' \in [Specs -> Endpoints]
         /\ shape' \in [Endpoints -> Specs \cup {0}]
  BY SMT DEF Boot, FreeAddrs, TypeOK, Endpoints

LEMMA CreateType ==
  ASSUME TypeOK, NEW s \in Specs,
         Take(s) \/ CreateStatic(s) \/ CreateContainer(s) \/ StartContainer(s)
           \/ InspectContainer(s)
  PROVE  TypeOK'
<1> USE DEF TypeOK, Phases, Goto, Abort
<1>1. CASE Take(s)
  BY <1>1, SMT DEF Take
<1>2. CASE CreateStatic(s)
  BY <1>2, SMT DEF CreateStatic
<1>3. CASE CreateContainer(s)
  BY <1>3, SMT DEF CreateContainer
<1>4. CASE StartContainer(s)
  <2>1. /\ container' \in [Specs -> {"none", "created", "up", "gone"}]
        /\ addr' \in [Specs -> Endpoints]
        /\ shape' \in [Endpoints -> Specs \cup {0}]
    BY <1>4, BootType, SMT DEF StartContainer
  <2> QED
    BY <1>4, <2>1, SMT DEF StartContainer
<1>5. CASE InspectContainer(s)
  BY <1>5, SMT DEF InspectContainer
<1> QED
  BY <1>1, <1>2, <1>3, <1>4, <1>5

LEMMA RunType ==
  ASSUME TypeOK, NEW s \in Specs,
         PostShape(s) \/ WorkerShapes(s) \/ ShapeReturns(s) \/ PostRun(s)
           \/ RunReturns(s) \/ DestroyContainer(s) \/ ReleaseStatic(s) \/ Keep(s)
  PROVE  TypeOK'
<1> USE DEF TypeOK, Phases, Goto, Decide
<1>1. CASE PostShape(s)
  BY <1>1, SMT DEF PostShape
<1>2. CASE WorkerShapes(s)
  <2>1. shape' \in [Endpoints -> Specs \cup {0}]
    BY <1>2, SMT DEF WorkerShapes, Endpoint
  <2> QED
    BY <1>2, <2>1, SMT DEF WorkerShapes
<1>3. CASE ShapeReturns(s)
  BY <1>3, SMT DEF ShapeReturns
<1>4. CASE PostRun(s) \/ RunReturns(s)
  BY <1>4, SMT DEF PostRun, RunReturns
<1>5. CASE DestroyContainer(s)
  BY <1>5, SMT DEF DestroyContainer, RemoveContainer
<1>6. CASE ReleaseStatic(s) \/ Keep(s)
  BY <1>6, SMT DEF ReleaseStatic, Keep
<1> QED
  BY <1>1, <1>2, <1>3, <1>4, <1>5, <1>6

LEMMA SummariseType ==
  ASSUME TypeOK, Summarise
  PROVE  TypeOK'
  BY SMT DEF TypeOK, Summarise, SummaryOf

LEMMA NextType == TypeOK /\ Next => TypeOK'
  BY CreateType, RunType, SummariseType DEF Next, Dispatch

\* Every variable keeps its type.
THEOREM TypeCorrect == Spec => []TypeOK
<1>1. TypeOK /\ UNCHANGED vars => TypeOK'
  BY SMT DEF TypeOK, vars
<1> QED
  BY <1>1, InitType, NextType, PTL DEF Spec

-----------------------------------------------------------------------------
(* PoolInv is inductive.                                                    *)

LEMMA InitPool == Init => PoolInv
<1> SUFFICES ASSUME Init PROVE PoolInv
  OBVIOUS
<1>1. PhasesMatch /\ AddrsDistinct /\ ShapeKept
  BY SMT DEF Init, PhasesMatch, AddrsDistinct, ShapeKept, Serving
<1> QED
  BY <1>1, InitType DEF PoolInv

\* A container that boots gets an address no running container has.
LEMMA BootFresh ==
  ASSUME TypeOK, NEW s \in Specs, Boot(s)
  PROVE  /\ \A t \in Specs : t # s => /\ container'[t] = container[t]
                                     /\ addr'[t] = addr[t]
         /\ container'[s] = "up"
         /\ \A t \in Specs : t # s /\ container[t] = "up" =>
              addr'[s] # addr[t] /\ shape'[addr[t]] = shape[addr[t]]
  BY SMT DEF Boot, FreeAddrs, TypeOK

LEMMA CreatePhases ==
  ASSUME TypeOK, PhasesMatch, NEW s \in Specs,
         Take(s) \/ CreateStatic(s) \/ CreateContainer(s) \/ StartContainer(s)
           \/ InspectContainer(s)
  PROVE  PhasesMatch'
<1> USE DEF TypeOK, PhasesMatch, Serving, Backend, Goto, Abort
<1>1. CASE Take(s)
  BY <1>1, SMT DEF Take
<1>2. CASE CreateStatic(s)
  BY <1>2, SMT DEF CreateStatic
<1>3. CASE CreateContainer(s)
  BY <1>3, SMT DEF CreateContainer
<1>4. CASE StartContainer(s) /\ Boot(s)
  BY <1>4, BootFresh, SMT DEF StartContainer
<1>5. CASE StartContainer(s) /\ ~Boot(s)
  BY <1>5, SMT DEF StartContainer
<1>6. CASE InspectContainer(s)
  BY <1>6, SMT DEF InspectContainer
<1> QED
  BY <1>1, <1>2, <1>3, <1>4, <1>5, <1>6

LEMMA RunPhases ==
  ASSUME TypeOK, PhasesMatch, NEW s \in Specs,
         PostShape(s) \/ WorkerShapes(s) \/ ShapeReturns(s) \/ PostRun(s)
           \/ RunReturns(s) \/ DestroyContainer(s) \/ ReleaseStatic(s) \/ Keep(s)
  PROVE  PhasesMatch'
<1> USE DEF TypeOK, PhasesMatch, Serving, Backend, Goto, Decide
<1>1. CASE PostShape(s)
  BY <1>1, SMT DEF PostShape
<1>2. CASE WorkerShapes(s)
  BY <1>2, SMT DEF WorkerShapes
<1>3. CASE ShapeReturns(s)
  BY <1>3, SMT DEF ShapeReturns
<1>4. CASE PostRun(s) \/ RunReturns(s)
  BY <1>4, SMT DEF PostRun, RunReturns
<1>5. CASE DestroyContainer(s)
  BY <1>5, SMT DEF DestroyContainer, RemoveContainer
<1>6. CASE ReleaseStatic(s) \/ Keep(s)
  BY <1>6, SMT DEF ReleaseStatic, Keep
<1> QED
  BY <1>1, <1>2, <1>3, <1>4, <1>5, <1>6

LEMMA SummarisePool ==
  ASSUME PoolInv, Summarise
  PROVE  PoolInv'
<1>1. UNCHANGED <<env, phase, result, container, addr, registry, req, shape>>
  BY DEF Summarise
<1> QED
  BY <1>1, SummariseType, SMT DEF PoolInv, PhasesMatch, AddrsDistinct, ShapeKept,
     Endpoint, Backend

\* The steps of a dispatch that leave its container and its shape alone.
LEMMA CallsOnly ==
  ASSUME NEW s \in Specs,
         Take(s) \/ CreateStatic(s) \/ InspectContainer(s) \/ ShapeReturns(s)
           \/ PostRun(s) \/ RunReturns(s) \/ ReleaseStatic(s) \/ Keep(s)
  PROVE  UNCHANGED <<container, addr, shape, req>>
  BY SMT DEF Take, CreateStatic, InspectContainer, ShapeReturns, PostRun,
             RunReturns, ReleaseStatic, Keep

LEMMA AddrsStep ==
  ASSUME TypeOK, AddrsDistinct, NEW s \in Specs,
         Take(s) \/ Dispatch(s) \/ WorkerShapes(s)
  PROVE  AddrsDistinct'
<1>1. CASE Take(s) \/ CreateStatic(s) \/ InspectContainer(s) \/ ShapeReturns(s)
           \/ PostRun(s) \/ RunReturns(s) \/ ReleaseStatic(s) \/ Keep(s)
  BY <1>1, CallsOnly, SMT DEF AddrsDistinct
<1>2. CASE CreateContainer(s)
  BY <1>2, SMT DEF CreateContainer, AddrsDistinct, TypeOK
<1>3. CASE StartContainer(s) /\ Boot(s)
  BY <1>3, BootFresh, SMT DEF AddrsDistinct, TypeOK
<1>4. CASE StartContainer(s) /\ ~Boot(s)
  BY <1>4, SMT DEF StartContainer, AddrsDistinct, TypeOK
<1>5. CASE PostShape(s) \/ WorkerShapes(s)
  BY <1>5, SMT DEF PostShape, WorkerShapes, AddrsDistinct
<1>6. CASE DestroyContainer(s)
  BY <1>6, SMT DEF DestroyContainer, RemoveContainer, AddrsDistinct, TypeOK
<1> QED
  BY <1>1, <1>2, <1>3, <1>4, <1>5, <1>6 DEF Dispatch

LEMMA SameEnv ==
  ASSUME NEW s \in Specs, Take(s) \/ Dispatch(s) \/ WorkerShapes(s)
  PROVE  env' = env
<1>1. CASE Take(s) \/ CreateStatic(s) \/ CreateContainer(s) \/ StartContainer(s)
           \/ InspectContainer(s)
  BY <1>1, SMT DEF Take, CreateStatic, CreateContainer, StartContainer,
                   InspectContainer
<1>2. CASE PostShape(s) \/ WorkerShapes(s) \/ ShapeReturns(s) \/ PostRun(s)
           \/ RunReturns(s)
  BY <1>2, SMT DEF PostShape, WorkerShapes, ShapeReturns, PostRun, RunReturns
<1>3. CASE DestroyContainer(s) \/ ReleaseStatic(s) \/ Keep(s)
  BY <1>3, SMT DEF DestroyContainer, ReleaseStatic, Keep
<1> QED
  BY <1>1, <1>2, <1>3 DEF Dispatch

LEMMA ShapeStep ==
  ASSUME TypeOK, PhasesMatch, AddrsDistinct, ShapeKept, NEW s \in Specs,
         Take(s) \/ Dispatch(s) \/ WorkerShapes(s)
  PROVE  ShapeKept'
<1> SUFFICES ASSUME Backend = "docker" PROVE ShapeKept'
  BY SameEnv DEF ShapeKept, Backend
<1> USE DEF Endpoint
<1>1. CASE Take(s) \/ CreateStatic(s) \/ InspectContainer(s) \/ ShapeReturns(s)
           \/ PostRun(s) \/ RunReturns(s) \/ ReleaseStatic(s) \/ Keep(s)
  BY <1>1, CallsOnly, SMT DEF ShapeKept
<1>2. CASE CreateContainer(s)
  BY <1>2, SMT DEF CreateContainer, ShapeKept, TypeOK
<1>3. CASE StartContainer(s) /\ Boot(s)
  <2>1. req' = req /\ req[s] = "none"
    BY <1>3, SMT DEF StartContainer, Goto, PhasesMatch
  <2> QED
    BY <1>3, <2>1, BootFresh, SMT DEF ShapeKept
<1>4. CASE StartContainer(s) /\ ~Boot(s)
  BY <1>4, SMT DEF StartContainer, ShapeKept, TypeOK
<1>5. CASE PostShape(s)
  BY <1>5, SMT DEF PostShape, ShapeKept, TypeOK
<1>6. CASE WorkerShapes(s)
  <2>1. /\ container[s] = "up" /\ UNCHANGED <<container, addr>>
        /\ \A t \in Specs : t # s => req'[t] = req[t]
    BY <1>6, SMT DEF WorkerShapes, PhasesMatch, TypeOK
  <2>2. /\ \A e \in Endpoints : e # addr[s] => shape'[e] = shape[e]
        /\ req'[s] = "ok" => shape'[addr[s]] = s
    BY <1>6, SMT DEF WorkerShapes, TypeOK
  <2>3. \A t \in Specs : addr[t] \in Endpoints
    BY SMT DEF TypeOK
  <2> QED
    BY <2>1, <2>2, <2>3, SMT DEF ShapeKept, AddrsDistinct
<1>7. CASE DestroyContainer(s)
  BY <1>7, SMT DEF DestroyContainer, RemoveContainer, ShapeKept, TypeOK
<1> QED
  BY <1>1, <1>2, <1>3, <1>4, <1>5, <1>6, <1>7 DEF Dispatch

LEMMA NextPool == PoolInv /\ [Next]_vars => PoolInv'
<1> SUFFICES ASSUME PoolInv, [Next]_vars PROVE PoolInv'
  OBVIOUS
<1>1. CASE Summarise
  BY <1>1, SummarisePool
<1>2. ASSUME NEW s \in Specs, Take(s) \/ Dispatch(s) \/ WorkerShapes(s)
      PROVE  PoolInv'
  <2>1. TypeOK' /\ PhasesMatch'
    BY <1>2, CreateType, RunType, CreatePhases, RunPhases DEF PoolInv, Dispatch
  <2> QED
    BY <1>2, <2>1, AddrsStep, ShapeStep DEF PoolInv
<1>3. CASE UNCHANGED vars
  BY <1>3, SMT DEF vars, PoolInv, TypeOK, PhasesMatch, AddrsDistinct, ShapeKept,
                   Endpoint, Backend
<1> QED
  BY <1>1, <1>2, <1>3 DEF Next

\* The invariant holds in every state the pool reaches.
THEOREM PoolInvariance == Spec => []PoolInv
  BY InitPool, NextPool, PTL DEF Spec

\* A workflow on a container of its own runs under its own bottleneck.
THEOREM MeasuredAsConfigured == Spec => []OwnShape
<1>1. PoolInv => OwnShape
  BY SMT DEF PoolInv, PhasesMatch, ShapeKept, OwnShape, Serving
<1> QED
  BY <1>1, PoolInvariance, PTL

\* No dispatch loses its worker to another one.
THEOREM NobodyTakesMyWorker == Spec => []WorkerThere
<1>1. PoolInv => WorkerThere
  BY SMT DEF PoolInv, PhasesMatch, WorkerThere, Serving
<1> QED
  BY <1>1, PoolInvariance, PTL

-----------------------------------------------------------------------------
(* The pool implements the contract of run.                                 *)

LEMMA ActiveIsInFlight ==
  ASSUME TypeOK
  PROVE  Contract!Active = InFlight
  BY SMT DEF TypeOK, InFlight, Visible, Contract!Active, Contract!Specs, Specs

LEMMA VisibleIsFunction ==
  /\ Visible = [t \in Specs |-> Visible[t]]
  /\ Visible' = [t \in Specs |-> Visible'[t]]
  BY DEF Visible

\* Extensionality, for a function changed at one point.
LEMMA ChangedAt ==
  ASSUME NEW D, NEW f, NEW g, NEW d \in D, NEW r,
         f = [t \in D |-> f[t]], g = [t \in D |-> g[t]],
         g[d] = r, \A t \in D : t # d => g[t] = f[t]
  PROVE  g = [f EXCEPT ![d] = r]
<1>1. [f EXCEPT ![d] = r] = [t \in D |-> IF t = d THEN r ELSE f[t]]
  BY SMT
<1>2. [t \in D |-> g[t]] = [t \in D |-> IF t = d THEN r ELSE f[t]]
  BY SMT
<1> QED
  BY <1>1, <1>2

LEMMA InitContract == Init => Contract!ContractInit
  BY SMT DEF Init, Visible, Contract!ContractInit, Contract!Specs, Specs

\* A dispatch moves its own phase and verdict only, and is in flight.
LEMMA DispatchMoves ==
  ASSUME TypeOK, NEW s \in Specs, Dispatch(s)
  PROVE  /\ phase[s] \notin {"queued", "returned"}
         /\ phase'[s] # "queued"
         /\ \A t \in Specs : t # s =>
              phase'[t] = phase[t] /\ result'[t] = result[t]
         /\ summary' = summary
<1> USE DEF TypeOK, Goto, Abort, Decide
<1>1. CASE CreateStatic(s) \/ CreateContainer(s)
  BY <1>1, SMT DEF CreateStatic, CreateContainer
<1>2. CASE StartContainer(s)
  <2>1. /\ phase[s] = "start" /\ summary' = summary
        /\ \E to \in {"inspect", "returned"} : phase' = [phase EXCEPT ![s] = to]
    BY <1>2 DEF StartContainer
  <2>2. result' = result \/ result' = [result EXCEPT ![s] = "failed"]
    BY <1>2 DEF StartContainer
  <2> QED
    BY <2>1, <2>2, SMT
<1>3. CASE InspectContainer(s)
  BY <1>3, SMT DEF InspectContainer
<1>4. CASE PostShape(s) \/ ShapeReturns(s)
  BY <1>4, SMT DEF PostShape, ShapeReturns
<1>5. CASE PostRun(s) \/ RunReturns(s)
  BY <1>5, SMT DEF PostRun, RunReturns
<1>6. CASE DestroyContainer(s) \/ ReleaseStatic(s) \/ Keep(s)
  BY <1>6, SMT DEF DestroyContainer, ReleaseStatic, Keep
<1> QED
  BY <1>1, <1>2, <1>3, <1>4, <1>5, <1>6 DEF Dispatch

\* A step that ends a dispatch is its End, any other step of it a stutter.
LEMMA DispatchContractStep ==
  ASSUME PoolInv, PoolInv', NEW s \in Specs, Dispatch(s)
  PROVE  Contract!End(s) \/ UNCHANGED <<Visible, summary>>
<1>1. /\ phase[s] \notin {"queued", "returned"}
      /\ phase'[s] # "queued"
      /\ \A t \in Specs : t # s =>
           phase'[t] = phase[t] /\ result'[t] = result[t]
      /\ summary' = summary
  BY DispatchMoves DEF PoolInv
<1>2. /\ \A t \in Specs : t # s => Visible'[t] = Visible[t]
      /\ Visible[s] = "active"
  BY <1>1, SMT DEF Visible
<1>3. CASE phase'[s] # "returned"
  <2>1. Visible'[s] = "active"
    BY <1>1, <1>3, SMT DEF Visible
  <2>2. Visible' = Visible
    BY <1>2, <2>1, SMT DEF Visible
  <2> QED
    BY <1>1, <2>2
<1>4. CASE phase'[s] = "returned"
  <2>1. result'[s] \in {"success", "failed"}
    BY <1>4, SMT DEF PoolInv, TypeOK, PhasesMatch
  <2>2. Visible'[s] = result'[s]
    BY <1>4, SMT DEF Visible
  <2>3. Visible' = [Visible EXCEPT ![s] = result'[s]]
    <3>1. PICK f, g : f = Visible /\ g = Visible'
      OBVIOUS
    <3>2. /\ f = [t \in Specs |-> f[t]] /\ g = [t \in Specs |-> g[t]]
          /\ g[s] = result'[s] /\ \A t \in Specs : t # s => g[t] = f[t]
      BY <1>2, <2>2, <3>1, VisibleIsFunction
    <3>3. g = [f EXCEPT ![s] = result'[s]]
      BY <3>2, ChangedAt
    <3> QED
      BY <3>1, <3>3
  <2> QED
    BY <1>1, <1>2, <2>1, <2>3, Zenon DEF Contract!End
<1> QED
  BY <1>3, <1>4

LEMMA TakeContractStep ==
  ASSUME PoolInv, NEW s \in Specs, Take(s)
  PROVE  Contract!Take(s)
<1>1. Contract!Cardinality(Contract!Active) < Contract!Slots
  <2>1. Contract!Cardinality(InFlight) = Cardinality(InFlight)
    BY Zenon DEF Contract!Cardinality, Contract!IsFiniteSet, Cardinality,
                 IsFiniteSet
  <2> QED
    BY <2>1, ActiveIsInFlight DEF PoolInv, Take, Contract!Slots, Slots
<1>2. \A t \in Specs : Visible[t] = "queued" <=> phase[t] = "queued"
  BY SMT DEF Visible, PoolInv, TypeOK
<1>3. /\ phase[s] = "queued" /\ phase' = [phase EXCEPT ![s] = "create"]
      /\ \A t \in Specs : t < s => phase[t] # "queued"
      /\ UNCHANGED <<result, summary>>
  BY DEF Take, Goto
<1>4. /\ Visible'[s] = "active"
      /\ \A t \in Specs : t # s => Visible'[t] = Visible[t]
  BY <1>3, SMT DEF Visible, PoolInv, TypeOK
<1>5. Visible' = [Visible EXCEPT ![s] = "active"]
  <2>1. PICK f, g : f = Visible /\ g = Visible'
    OBVIOUS
  <2>2. /\ f = [t \in Specs |-> f[t]] /\ g = [t \in Specs |-> g[t]]
        /\ g[s] = "active" /\ \A t \in Specs : t # s => g[t] = f[t]
    BY <1>4, <2>1, VisibleIsFunction
  <2>3. g = [f EXCEPT ![s] = "active"]
    BY <2>2, ChangedAt
  <2> QED
    BY <2>1, <2>3
<1>6. Visible[s] = "queued" /\ \A t \in Specs : t < s => Visible[t] # "queued"
  BY <1>2, <1>3
<1>7. Contract!Specs = Specs
  BY DEF Contract!Specs, Specs
<1> QED
  BY <1>1, <1>3, <1>5, <1>6, <1>7, Zenon DEF Contract!Take

LEMMA SummariseContractStep ==
  ASSUME PoolInv, Summarise
  PROVE  Contract!Conclude
<1>1. \A s \in Specs : Visible[s] = result[s] /\ result[s] \in {"success", "failed"}
  BY SMT DEF Summarise, Visible, PoolInv, TypeOK, PhasesMatch
<1>2. {s \in Specs : result[s] = "success"} = {s \in Specs : Visible[s] = "success"}
  BY <1>1
<1>3. Visible' = Visible
  BY DEF Summarise, Visible
<1> QED
  BY <1>1, <1>2, <1>3, SMT DEF Summarise, Contract!Conclude, Contract!Specs, Specs,
     Contract!SummaryOf, SummaryOf

\* The pool implements the contract: the specs are taken in order and within
\* the bound, each ends once, and the summary counts all of them.
THEOREM PoolImplementsContract == Spec => ImplementsContract
<1>1. PoolInv /\ PoolInv' /\ [Next]_vars =>
        [Contract!ContractNext]_(Contract!contractVars)
  <2> SUFFICES ASSUME PoolInv, PoolInv', [Next]_vars
      PROVE  Contract!ContractNext \/ UNCHANGED <<Visible, summary>>
    BY DEF Contract!contractVars, Visible
  <2>1. CASE Summarise
    BY <2>1, SummariseContractStep DEF Contract!ContractNext
  <2>2. ASSUME NEW s \in Specs, Take(s) PROVE Contract!ContractNext
    BY <2>2, TakeContractStep DEF Contract!ContractNext, Contract!Specs, Specs
  <2>3. ASSUME NEW s \in Specs, Dispatch(s)
        PROVE  Contract!ContractNext \/ UNCHANGED <<Visible, summary>>
    BY <2>3, DispatchContractStep DEF Contract!ContractNext, Contract!Specs, Specs
  <2>4. ASSUME NEW s \in Specs, WorkerShapes(s)
        PROVE  UNCHANGED <<Visible, summary>>
    BY <2>4 DEF WorkerShapes, Visible
  <2>5. CASE UNCHANGED vars
    BY <2>5 DEF vars, Visible
  <2> QED
    BY <2>1, <2>2, <2>3, <2>4, <2>5 DEF Next
<1> QED
  BY <1>1, InitContract, PoolInvariance, PTL
     DEF Spec, ImplementsContract, Contract!ContractSpec

-----------------------------------------------------------------------------
(***************************************************************************)
(* AwsCloud.                                                               *)
(***************************************************************************)
Holding == {"boot", "health", "serving"}

Setting == {"setEcr", "setSg", "setKey", "setProfile", "setAmi", "setDone"}

Pcs == {"idle", "launch"} \cup Ensuring \cup Tearing \cup Setting \cup Holding

Groups == [id : Nat, open : BOOLEAN]
Account == [key : Nat, sg : Groups,
            role : {"none", "bare", "reads"}, profile : {"none", "bare", "full"},
            repo : {"none", "empty", "image"}]
Settings == [ecr : BOOLEAN, sg : Nat, key : BOOLEAN, profile : BOOLEAN, ami : BOOLEAN]
Instances == [is : {"up", "gone"}, sg : Nat, key : BOOLEAN, profile : BOOLEAN,
              image : BOOLEAN]

CloudTypeOK ==
  /\ aws \in Account /\ pem \in Nat /\ cache \in Nat
  /\ config \in Settings
  /\ inst \in Seq(Instances)
  /\ pc \in [Procs -> Pcs] /\ hold \in [Procs -> Nat]
  /\ newKey \in [Procs -> Nat] /\ group \in [Procs -> Nat]
  /\ fails \in Nat

\* A thread inside _auto_provision has set the fields before the one it is at,
\* and the image id stands for all the others.
FieldsInOrder ==
  /\ \A p \in Procs :
       /\ pc[p] \in {"setSg", "setKey", "setProfile", "setAmi"} => config.ecr
       /\ pc[p] \in {"setProfile", "setAmi"} => config.key
       /\ pc[p] = "setAmi" => config.profile
  /\ config.ami => config.ecr /\ config.key /\ config.profile

\* Only a thread between run_instances and the end of its worker has an
\* instance, which runs.
HoldersHold ==
  \A p \in Procs :
    /\ hold[p] # 0 => pc[p] \in Holding
    /\ pc[p] \in Holding =>
         /\ p \in Threads
         /\ hold[p] \in DOMAIN inst /\ inst[hold[p]].is = "up"

\* No two have the same one.
OneHolder ==
  \A p, q \in Procs : hold[p] = hold[q] /\ hold[p] # 0 => p = q

\* What runs in nobody's hands is paid for by failed calls.
Accounted == IsFiniteSet(Unheld) /\ Cardinality(Unheld) <= fails

\* What is registered runs, and unless workers are kept it is in the hands of a
\* thread that serves; what a thread serves with is registered, and what it
\* still waits for is not.
RegisteredServes ==
  /\ \A i \in workers :
       /\ i \in DOMAIN inst /\ inst[i].is = "up"
       /\ keep \/ \E t \in Threads : hold[t] = i /\ pc[t] = "serving"
  /\ \A p \in Procs :
       /\ pc[p] = "serving" => hold[p] \in workers
       /\ pc[p] \in {"boot", "health"} => hold[p] \notin workers

CloudInv ==
  /\ CloudTypeOK
  /\ FieldsInOrder /\ LaunchedWhole
  /\ HoldersHold /\ OneHolder /\ Accounted /\ RegisteredServes

-----------------------------------------------------------------------------
(* What one step of a process may do.                                       *)

Located == pc \in [Procs -> Pcs] /\ hold \in [Procs -> Nat]

\* Only p goes on.
Moves(p) ==
  /\ Located'
  /\ \A q \in Procs \ {p} : pc'[q] = pc[q] /\ hold'[q] = hold[q]

\* p has no instance, before and after, and no instance changes.
Quiet(p) ==
  /\ UNCHANGED <<inst, workers, keep>> /\ fails' \in {fails, fails + 1}
  /\ pc[p] \notin Holding /\ pc'[p] \notin Holding
  /\ hold'[p] \in {hold[p], 0}

\* The settings stay, and p does not get past the first of them.
LeavesSettings(p) ==
  /\ UNCHANGED config
  /\ pc'[p] \notin {"setSg", "setKey", "setProfile", "setAmi"}

Effects(p) == Moves(p) /\ Quiet(p) /\ LeavesSettings(p)

LEMMA EnsureEffects ==
  ASSUME Located, NEW p \in Procs, Ensure(p)
  PROVE  Effects(p)
<1> USE DEF Effects, Located, Moves, Quiet, LeavesSettings, Go, Step, Raise, At, held, backend,
            fleet, trouble, Pcs,
            Ensuring, Setting, Holding
<1>1. CASE Validate(p)
  BY <1>1, SMT DEF Validate
<1>2. CASE EnsureKey(p)
  BY <1>2, SMT DEF EnsureKey
<1>3. CASE CreateKey(p)
  BY <1>3, SMT DEF CreateKey
<1>4. CASE WritePem(p)
  BY <1>4, SMT DEF WritePem
<1>5. CASE EnsureSg(p)
  BY <1>5, SMT DEF EnsureSg
<1>6. CASE CreateSg(p)
  BY <1>6, SMT DEF CreateSg
<1>7. CASE AuthorizeIngress(p)
  BY <1>7, SMT DEF AuthorizeIngress
<1>8. CASE EnsureProfile(p)
  BY <1>8, SMT DEF EnsureProfile
<1>9. CASE CreateRole(p)
  BY <1>9, SMT DEF CreateRole
<1>10. CASE AttachPolicy(p)
  BY <1>10, SMT DEF AttachPolicy
<1>11. CASE CreateProfile(p)
  BY <1>11, SMT DEF CreateProfile
<1>12. CASE AddRole(p)
  BY <1>12, SMT DEF AddRole
<1>13. CASE EnsureRepo(p)
  BY <1>13, SMT DEF EnsureRepo
<1>14. CASE PushImage(p)
  BY <1>14, SMT DEF PushImage
<1>15. CASE Save(p)
  BY <1>15, SMT DEF Save
<1>16. CASE Fail(p)
  BY <1>16, SMT DEF Fail
<1> QED
  BY <1>1, <1>2, <1>3, <1>4, <1>5, <1>6, <1>7, <1>8, <1>9, <1>10, <1>11, <1>12, <1>13, <1>14,
     <1>15, <1>16 DEF Ensure

LEMMA TeardownEffects ==
  ASSUME Located, NEW p \in Procs, Teardown(p) \/ Command(p, "validate") \/ Command(p, "tearRepo")
  PROVE  Effects(p)
<1> USE DEF Effects, Located, Moves, Quiet, LeavesSettings, Go, Step, Raise, At, Deletes, held,
            backend, fleet, trouble,
            Pcs, Ensuring, Tearing, Setting, Holding
<1>1. CASE TearRepo(p)
  BY <1>1, SMT DEF TearRepo
<1>2. CASE TearSg(p)
  BY <1>2, SMT DEF TearSg
<1>3. CASE TearKey(p)
  BY <1>3, SMT DEF TearKey
<1>4. CASE TearRole(p)
  BY <1>4, SMT DEF TearRole
<1>5. CASE TearProfile(p)
  BY <1>5, SMT DEF TearProfile
<1>6. CASE TearPolicy(p)
  BY <1>6, SMT DEF TearPolicy
<1>7. CASE TearIam(p)
  BY <1>7, SMT DEF TearIam
<1>8. CASE TearCache(p)
  BY <1>8, SMT DEF TearCache
<1>9. CASE Command(p, "validate") \/ Command(p, "tearRepo")
  BY <1>9, SMT DEF Command
<1> QED
  BY <1>1, <1>2, <1>3, <1>4, <1>5, <1>6, <1>7, <1>8, <1>9 DEF Teardown

-----------------------------------------------------------------------------
(* Type correctness.                                                        *)

\* The part of the types that Located and the settings do not cover.
Stocked ==
  /\ aws \in Account /\ pem \in Nat /\ cache \in Nat
  /\ newKey \in [Procs -> Nat] /\ group \in [Procs -> Nat]
  /\ fails \in Nat

LEMMA InitCloudType == CloudInit => CloudTypeOK
<1> SUFFICES ASSUME CloudInit PROVE CloudTypeOK
  OBVIOUS
<1>1. aws \in Account /\ config \in Settings
  BY SMT DEF CloudInit, NoSg, Account, Settings, Groups
<1>2. inst \in Seq(Instances)
  BY SMT DEF CloudInit
<1>3. pc \in [Procs -> Pcs]
  BY SMT DEF CloudInit, Pcs
<1>4. /\ hold \in [Procs -> Nat] /\ newKey \in [Procs -> Nat] /\ group \in [Procs -> Nat]
  BY SMT DEF CloudInit
<1>5. pem \in Nat /\ cache \in Nat /\ fails \in Nat
  BY SMT DEF CloudInit
<1> QED
  BY <1>1, <1>2, <1>3, <1>4, <1>5 DEF CloudTypeOK

LEMMA GroupTypes ==
  /\ NoSg \in Groups
  /\ \A n \in Nat : [id |-> n, open |-> FALSE] \in Groups
  /\ \A g \in Groups : [g EXCEPT !.open = TRUE] \in Groups
<1>1. NoSg \in Groups
  BY SMT DEF Groups, NoSg
<1>2. \A n \in Nat : [id |-> n, open |-> FALSE] \in Groups
  BY SMT DEF Groups
<1>3. \A g \in Groups : [g EXCEPT !.open = TRUE] \in Groups
  BY Zenon DEF Groups
<1> QED
  BY <1>1, <1>2, <1>3

LEMMA SetGroup ==
  ASSUME NEW a \in Account, NEW g \in Groups
  PROVE  a.sg \in Groups /\ [a EXCEPT !.sg = g] \in Account
  BY SMT DEF Account

LEMMA EnsureStocked ==
  ASSUME Stocked, NEW p \in Procs, Ensure(p)
  PROVE  Stocked'
<1> USE DEF Stocked, Account, Go, Step, Raise, held, backend, trouble
<1>1. CASE Validate(p)
  BY <1>1, SMT DEF Validate
<1>2. CASE EnsureKey(p)
  BY <1>2, SMT DEF EnsureKey
<1>3. CASE CreateKey(p)
  BY <1>3, SMT DEF CreateKey
<1>4. CASE WritePem(p)
  BY <1>4, SMT DEF WritePem
<1>5. CASE EnsureSg(p)
  <2>1. aws.sg \in Groups
    BY SetGroup
  <2> QED
    BY <1>5, <2>1, SMT DEF EnsureSg, Groups
<1>6. CASE CreateSg(p)
  <2>1. PICK new \in Nat :
          /\ UNCHANGED aws \/ aws' = [aws EXCEPT !.sg = [id |-> new, open |-> FALSE]]
          /\ UNCHANGED group \/ group' = [group EXCEPT ![p] = new]
    BY <1>6, SMT DEF CreateSg
  <2>2. aws' \in Account
    BY <2>1, GroupTypes, SetGroup
  <2> QED
    BY <1>6, <2>1, <2>2, SMT DEF CreateSg
<1>7. CASE AuthorizeIngress(p)
  <2>1. UNCHANGED aws \/ aws' = [aws EXCEPT !.sg = [aws.sg EXCEPT !.open = TRUE]]
    BY <1>7, Zenon DEF AuthorizeIngress
  <2>2. aws' \in Account
    BY <2>1, GroupTypes, SetGroup
  <2> QED
    BY <1>7, <2>2, SMT DEF AuthorizeIngress
<1>8. CASE EnsureProfile(p)
  BY <1>8, SMT DEF EnsureProfile
<1>9. CASE CreateRole(p)
  BY <1>9, SMT DEF CreateRole
<1>10. CASE AttachPolicy(p)
  BY <1>10, SMT DEF AttachPolicy
<1>11. CASE CreateProfile(p)
  BY <1>11, SMT DEF CreateProfile
<1>12. CASE AddRole(p)
  BY <1>12, SMT DEF AddRole
<1>13. CASE EnsureRepo(p)
  BY <1>13, SMT DEF EnsureRepo
<1>14. CASE PushImage(p)
  BY <1>14, SMT DEF PushImage
<1>15. CASE Save(p)
  BY <1>15, SMT DEF Save
<1>16. CASE Fail(p)
  BY <1>16, SMT DEF Fail
<1> QED
  BY <1>1, <1>2, <1>3, <1>4, <1>5, <1>6, <1>7, <1>8, <1>9, <1>10, <1>11, <1>12, <1>13, <1>14,
     <1>15, <1>16 DEF Ensure

LEMMA TeardownStocked ==
  ASSUME Stocked, NEW p \in Procs,
         Teardown(p) \/ Command(p, "validate") \/ Command(p, "tearRepo")
  PROVE  Stocked'
<1> USE DEF Stocked, Account, Deletes, Go, held, trouble
<1>1. CASE TearRepo(p)
  BY <1>1, SMT DEF TearRepo, NoSg
<1>2. CASE TearSg(p)
  <2>1. UNCHANGED aws \/ aws' = [aws EXCEPT !.sg = aws.sg] \/ aws' = [aws EXCEPT !.sg = NoSg]
    BY <1>2, Zenon DEF TearSg
  <2>2. aws' \in Account
    BY <2>1, GroupTypes, SetGroup
  <2> QED
    BY <1>2, <2>2, SMT DEF TearSg
<1>3. CASE TearKey(p)
  BY <1>3, SMT DEF TearKey, NoSg
<1>4. CASE TearRole(p)
  BY <1>4, SMT DEF TearRole, NoSg
<1>5. CASE TearPolicy(p)
  BY <1>5, SMT DEF TearPolicy, NoSg
<1>6. CASE TearIam(p)
  BY <1>6, SMT DEF TearIam, NoSg
<1>7. CASE TearProfile(p)
  BY <1>7, SMT DEF TearProfile
<1>8. CASE TearCache(p)
  BY <1>8, SMT DEF TearCache, Raise
<1>9. CASE Command(p, "validate") \/ Command(p, "tearRepo")
  BY <1>9, SMT DEF Command
<1> QED
  BY <1>1, <1>2, <1>3, <1>4, <1>5, <1>6, <1>7, <1>8, <1>9 DEF Teardown

-----------------------------------------------------------------------------
(* The steps of create_worker() and destroy_worker().                       *)

LEMMA BeginEffects ==
  ASSUME Located, NEW t \in Procs, Begin(t) \/ SetProvisioned(t) \/ Refused(t)
  PROVE  Effects(t)
<1> USE DEF Effects, Located, Moves, Quiet, LeavesSettings, Go, Step, Raise, At, held, backend,
            fleet, trouble, Pcs, Ensuring, Setting, Holding
<1>1. CASE Begin(t)
  BY <1>1, SMT DEF Begin
<1>2. CASE SetProvisioned(t)
  BY <1>2, SMT DEF SetProvisioned
<1>3. CASE Refused(t)
  BY <1>3, SMT DEF Refused
<1> QED
  BY <1>1, <1>2, <1>3

LEMMA BeginStocked ==
  ASSUME Stocked, NEW t \in Procs, Begin(t) \/ SetProvisioned(t) \/ Refused(t)
  PROVE  Stocked'
<1> USE DEF Stocked, Go, Step, Raise, held, backend, trouble
<1>1. CASE Begin(t)
  BY <1>1, SMT DEF Begin
<1>2. CASE SetProvisioned(t)
  BY <1>2, SMT DEF SetProvisioned
<1>3. CASE Refused(t)
  BY <1>3, SMT DEF Refused
<1> QED
  BY <1>1, <1>2, <1>3

\* SetField, spelt out: which field at which step.
LEMMA SetFieldCases ==
  ASSUME Located, NEW t \in Procs, SetField(t)
  PROVE  /\ \/ pc[t] = "setEcr" /\ pc'[t] = "setSg" /\ config' = [config EXCEPT !.ecr = TRUE]
            \/ pc[t] = "setSg" /\ pc'[t] = "setKey" /\ config' = [config EXCEPT !.sg = group[t]]
            \/ pc[t] = "setKey" /\ pc'[t] = "setProfile" /\ config' = [config EXCEPT !.key = TRUE]
            \/ pc[t] = "setProfile" /\ pc'[t] = "setAmi"
               /\ config' = [config EXCEPT !.profile = TRUE]
            \/ pc[t] = "setAmi" /\ pc'[t] = "setDone" /\ config' = [config EXCEPT !.ami = TRUE]
         /\ Moves(t) /\ Quiet(t)
         /\ UNCHANGED <<aws, pem, cache, newKey, group, fails>>
<1> DEFINE next == SetSteps[pc[t]]
<1>1. /\ pc[t] \in {"setEcr", "setSg", "setKey", "setProfile", "setAmi"}
      /\ pc' = [pc EXCEPT ![t] = next]
      /\ UNCHANGED <<hold, inst, workers, keep, aws, pem, cache, newKey, group, fails>>
  BY SMT DEF SetField, SetSteps, Go, Step, held, fleet, trouble
<1>2. \/ pc[t] = "setEcr" /\ next = "setSg" /\ config' = [config EXCEPT !.ecr = TRUE]
      \/ pc[t] = "setSg" /\ next = "setKey" /\ config' = [config EXCEPT !.sg = group[t]]
      \/ pc[t] = "setKey" /\ next = "setProfile" /\ config' = [config EXCEPT !.key = TRUE]
      \/ pc[t] = "setProfile" /\ next = "setAmi" /\ config' = [config EXCEPT !.profile = TRUE]
      \/ pc[t] = "setAmi" /\ next = "setDone" /\ config' = [config EXCEPT !.ami = TRUE]
  BY <1>1, SMT DEF SetField, SetSteps, At
<1> HIDE DEF next
<1>3. next \in Setting
  BY <1>2, SMT DEF Setting
<1>4. Moves(t) /\ Quiet(t)
  BY <1>1, <1>3, SMT DEF Moves, Quiet, Located, Pcs, Setting, Holding
<1> QED
  BY <1>1, <1>2, <1>4, SMT DEF Located

-----------------------------------------------------------------------------
(* The settings.                                                            *)

LEMMA InitFields == CloudInit => FieldsInOrder /\ LaunchedWhole
  BY SMT DEF CloudInit, FieldsInOrder, LaunchedWhole

LEMMA LeavesFields ==
  ASSUME FieldsInOrder, NEW p \in Procs, Moves(p), LeavesSettings(p)
  PROVE  FieldsInOrder'
  BY SMT DEF FieldsInOrder, Moves, LeavesSettings

\* Once set, a field stays, and the next step comes after it.
LEMMA SetsFields ==
  ASSUME FieldsInOrder, Located, config \in Settings, NEW t \in Procs, SetField(t)
  PROVE  FieldsInOrder'
<1>1. /\ config.ecr => config'.ecr
      /\ config.key => config'.key
      /\ config.profile => config'.profile
      /\ pc'[t] = "setSg" => config'.ecr
      /\ pc'[t] \in {"setKey", "setProfile", "setAmi"} =>
           pc[t] \in {"setSg", "setKey", "setProfile"}
      /\ pc'[t] = "setProfile" => config'.key
      /\ pc'[t] = "setAmi" => pc[t] = "setProfile" /\ config'.profile
      /\ config'.ami => config.ami \/ pc[t] = "setAmi"
  BY SetFieldCases, SMT DEF Settings
<1>2. \A q \in Procs \ {t} : pc'[q] = pc[q]
  BY SetFieldCases DEF Moves
<1> QED
  BY <1>1, <1>2, SMT DEF FieldsInOrder

\* A launch, heard of or not.
Launches(t) == Launch(t) \/ LaunchUnheard(t)

LEMMA LaunchEffects ==
  ASSUME CloudTypeOK, NEW t \in Procs, Launches(t)
  PROVE  /\ config.ami
         /\ inst' = Append(inst, [is |-> "up", sg |-> config.sg, key |-> config.key,
                                 profile |-> config.profile, image |-> config.ecr])
         /\ pc[t] = "launch"
         /\ UNCHANGED <<workers, keep, config, aws, pem, cache>>
         /\ Located' /\ Stocked'
         /\ \A q \in Procs \ {t} : pc'[q] = pc[q] /\ hold'[q] = hold[q]
         /\ \/ pc'[t] = "boot" /\ hold'[t] = Len(inst) + 1 /\ fails' = fails
            \/ pc'[t] = "idle" /\ hold'[t] = 0 /\ fails' = fails + 1
<1>1. /\ config.ami
      /\ inst' = Append(inst, [is |-> "up", sg |-> config.sg, key |-> config.key,
                              profile |-> config.profile, image |-> config.ecr])
      /\ pc[t] = "launch"
      /\ UNCHANGED <<workers, keep, config, aws, pem, cache>>
  BY SMT DEF Launches, Launch, LaunchUnheard, Launched, Accepted, At, backend
<1>2. Len(inst) + 1 \in Nat
  BY SMT DEF CloudTypeOK
<1>3. CASE Launch(t)
  <2>1. /\ pc' = [pc EXCEPT ![t] = "boot"] /\ hold' = [hold EXCEPT ![t] = Len(inst) + 1]
        /\ UNCHANGED <<newKey, group, fails>>
    BY <1>3 DEF Launch, Step, trouble
  <2> QED
    BY <1>1, <1>2, <2>1, SMT DEF CloudTypeOK, Located, Stocked, Pcs, Holding
<1>4. CASE LaunchUnheard(t)
  BY <1>1, <1>4, SMT DEF LaunchUnheard, Raise, Step, CloudTypeOK, Located, Stocked, Pcs
<1> QED
  BY <1>1, <1>3, <1>4 DEF Launches

LEMMA NewInstance ==
  ASSUME CloudTypeOK, FieldsInOrder, NEW t \in Procs, Launches(t)
  PROVE  /\ inst' \in Seq(Instances)
         /\ DOMAIN inst' = DOMAIN inst \cup {Len(inst) + 1}
         /\ Len(inst) + 1 \notin DOMAIN inst /\ DOMAIN inst \subseteq Nat \ {0}
         /\ \A i \in DOMAIN inst : inst'[i] = inst[i]
         /\ inst'[Len(inst) + 1].is = "up"
         /\ inst'[Len(inst) + 1].key /\ inst'[Len(inst) + 1].profile
         /\ inst'[Len(inst) + 1].image
<1> DEFINE new == [is |-> "up", sg |-> config.sg, key |-> config.key,
                   profile |-> config.profile, image |-> config.ecr]
<1>1. inst' = Append(inst, new) /\ config.ami
  BY LaunchEffects
<1>2. new \in Instances /\ new.is = "up"
  BY SMT DEF Instances, CloudTypeOK, Settings
<1>3. new.key /\ new.profile /\ new.image
  BY <1>1, Zenon DEF FieldsInOrder
<1> HIDE DEF new
<1>4. inst \in Seq(Instances)
  BY DEF CloudTypeOK
<1>5. /\ inst' \in Seq(Instances) /\ inst'[Len(inst) + 1] = new
      /\ DOMAIN inst' = DOMAIN inst \cup {Len(inst) + 1}
      /\ Len(inst) + 1 \notin DOMAIN inst /\ DOMAIN inst \subseteq Nat \ {0}
      /\ \A i \in DOMAIN inst : inst'[i] = inst[i]
  BY <1>1, <1>2, <1>4, SMT
<1> QED
  BY <1>2, <1>3, <1>5

\* Running and registered, t still has its instance.
LEMMA OnwardEffects ==
  ASSUME Located, NEW t \in Procs, Running(t) \/ Register(t)
  PROVE  /\ Moves(t) /\ pc[t] \in {"boot", "health"} /\ pc'[t] \in {"health", "serving"}
         /\ UNCHANGED <<hold, inst, keep, config, aws, pem, cache, newKey, group, fails>>
         /\ \/ workers' = workers /\ pc'[t] = "health"
            \/ workers' = workers \cup {hold[t]} /\ pc'[t] = "serving"
  BY SMT DEF Located, Moves, Running, Register, Go, Step, At, held, backend, fleet, trouble, Pcs,
             Holding

\* The instance is terminated, left running by a failed call, or kept; and t
\* has it no longer.
LEMMA EndEffects ==
  ASSUME CloudTypeOK, HoldersHold, NEW t \in Procs, TimesOut(t) \/ DestroyWorker(t)
  PROVE  /\ Moves(t) /\ pc[t] \in Holding /\ pc'[t] = "idle" /\ hold'[t] = 0
         /\ hold[t] \in DOMAIN inst
         /\ inst' \in Seq(Instances) /\ DOMAIN inst' = DOMAIN inst
         /\ \A i \in DOMAIN inst :
              /\ inst'[i].key = inst[i].key /\ inst'[i].profile = inst[i].profile
              /\ inst'[i].image = inst[i].image
              /\ i # hold[t] => inst'[i] = inst[i]
         /\ \/ /\ inst'[hold[t]].is = "gone" /\ fails' \in {fails, fails + 1}
               /\ workers' = workers \ {hold[t]} \/ (workers' = workers /\ pc[t] # "serving")
            \/ /\ inst' = inst /\ fails' = fails + 1
               /\ workers' = workers \ {hold[t]} \/ (workers' = workers /\ pc[t] # "serving")
            \/ keep /\ pc[t] = "serving" /\ inst' = inst /\ fails' = fails /\ workers' = workers
         /\ UNCHANGED <<config, aws, pem, cache, keep>> /\ Stocked'
<1> DEFINE i == hold[t]
<1>1. pc[t] \in Holding /\ Raise(t)
      /\ UNCHANGED <<config, aws, pem, cache, keep>>
      /\ \/ /\ Terminate(i)
            /\ workers' = workers \ {i} \/ (workers' = workers /\ pc[t] # "serving")
         \/ keep /\ pc[t] = "serving" /\ UNCHANGED <<inst, fails, workers>>
  BY Zenon DEF TimesOut, DestroyWorker, GivesUp, At, Holding, backend
<1>2. i \in DOMAIN inst
  BY <1>1 DEF HoldersHold
<1>3. /\ Moves(t) /\ pc'[t] = "idle" /\ hold'[t] = 0
  BY <1>1, SMT DEF CloudTypeOK, Located, Moves, Raise, Step, Pcs
<1>4. \/ inst' = [inst EXCEPT ![i].is = "gone"] /\ fails' \in {fails, fails + 1}
      \/ inst' = inst /\ fails' \in {fails, fails + 1}
  BY <1>1, Zenon DEF Terminate
<1>5. Stocked'
  BY <1>1, <1>4, SMT DEF CloudTypeOK, Stocked, Raise
<1> HIDE DEF i
<1>6. inst \in Seq(Instances)
  BY DEF CloudTypeOK
<1>7. CASE inst' = [inst EXCEPT ![i].is = "gone"] /\ Terminate(i)
  <2> DEFINE gone == [inst[i] EXCEPT !.is = "gone"]
  <2>1. /\ gone \in Instances /\ gone.is = "gone" /\ gone.key = inst[i].key
        /\ gone.profile = inst[i].profile /\ gone.image = inst[i].image
    <3>1. inst[i] \in Instances
      BY <1>2, <1>6, SMT
    <3> QED
      BY <3>1, Zenon DEF Instances
  <2>2. inst' = [inst EXCEPT ![i] = gone]
    BY <1>7, Zenon
  <2> HIDE DEF gone
  <2>3. inst' \in Seq(Instances) /\ DOMAIN inst' = DOMAIN inst /\ inst'[i] = gone
        /\ \A j \in DOMAIN inst : j # i => inst'[j] = inst[j]
    BY <2>1, <2>2, <1>2, <1>6, SMT
  <2>4. /\ inst'[i].is = "gone"
        /\ \A j \in DOMAIN inst :
             /\ inst'[j].key = inst[j].key /\ inst'[j].profile = inst[j].profile
             /\ inst'[j].image = inst[j].image
    BY <2>1, <2>3, Zenon
  <2>5. \/ workers' = workers \ {i}
        \/ workers' = workers /\ pc[t] # "serving"
        \/ keep /\ pc[t] = "serving" /\ inst' = inst /\ fails' = fails /\ workers' = workers
    BY <1>1, Zenon
  <2>6. fails' \in {fails, fails + 1}
    BY <1>7, Zenon DEF Terminate
  <2> QED
    BY <1>1, <1>2, <1>3, <1>5, <2>3, <2>4, <2>5, <2>6, Zenon DEF i
<1>8. CASE inst' = inst /\ fails' = fails + 1 /\ Terminate(i)
  <2>1. \/ workers' = workers \ {i}
        \/ workers' = workers /\ pc[t] # "serving"
        \/ keep /\ pc[t] = "serving" /\ inst' = inst /\ fails' = fails /\ workers' = workers
    BY <1>1, Zenon
  <2> QED
    BY <1>1, <1>2, <1>3, <1>5, <1>6, <1>8, <2>1, Zenon DEF i
<1>9. CASE keep /\ pc[t] = "serving" /\ UNCHANGED <<inst, fails, workers>>
  BY <1>1, <1>2, <1>3, <1>5, <1>6, <1>9, Zenon DEF i
<1> QED
  BY <1>1, <1>7, <1>8, <1>9, Zenon DEF Terminate

-----------------------------------------------------------------------------
(* Types, in every step.                                                    *)

LEMMA TypeParts ==
  CloudTypeOK <=> /\ Located /\ Stocked /\ config \in Settings
             /\ inst \in Seq(Instances)
  BY DEF CloudTypeOK, Located, Stocked

LEMMA FieldTypes ==
  ASSUME NEW c \in Settings, NEW n \in Nat
  PROVE  /\ [c EXCEPT !.ecr = TRUE] \in Settings /\ [c EXCEPT !.key = TRUE] \in Settings
         /\ [c EXCEPT !.profile = TRUE] \in Settings /\ [c EXCEPT !.ami = TRUE] \in Settings
         /\ [c EXCEPT !.sg = n] \in Settings
<1>1. /\ [c EXCEPT !.ecr = TRUE] \in Settings /\ [c EXCEPT !.key = TRUE] \in Settings
      /\ [c EXCEPT !.profile = TRUE] \in Settings /\ [c EXCEPT !.ami = TRUE] \in Settings
  BY Zenon DEF Settings
<1>2. [c EXCEPT !.sg = n] \in Settings
  BY SMT DEF Settings
<1> QED
  BY <1>1, <1>2

LEMMA LaunchedType ==
  ASSUME CloudTypeOK, FieldsInOrder, NEW t \in Procs, Launches(t)
  PROVE  Located' /\ Stocked' /\ config' \in Settings
           /\ inst' \in Seq(Instances)
  BY LaunchEffects, NewInstance DEF CloudTypeOK

LEMMA NextCloudType ==
  ASSUME CloudTypeOK, FieldsInOrder, HoldersHold, NEW p \in Procs,
         \/ Ensure(p) \/ Teardown(p) \/ Command(p, "validate") \/ Command(p, "tearRepo")
         \/ Create(p)
  PROVE  CloudTypeOK'
<1>1. Located /\ Stocked /\ config \in Settings /\ inst \in Seq(Instances)
  BY TypeParts
<1>2. CASE Effects(p) /\ Stocked'
  BY <1>1, <1>2 DEF CloudTypeOK, Effects, Moves, Quiet, LeavesSettings, Located, Stocked
<1>3. CASE SetField(p)
  <2>1. config' \in Settings
    <3>1. group[p] \in Nat
      BY <1>1 DEF Stocked
    <3>2. \/ config' = [config EXCEPT !.ecr = TRUE] \/ config' = [config EXCEPT !.sg = group[p]]
          \/ config' = [config EXCEPT !.key = TRUE] \/ config' = [config EXCEPT !.profile = TRUE]
          \/ config' = [config EXCEPT !.ami = TRUE]
      BY <1>1, <1>3, SetFieldCases
    <3>3. \/ config' \in Settings \/ config' = [config EXCEPT !.sg = group[p]]
      BY <1>1, <3>1, <3>2, FieldTypes, Zenon
    <3> QED
      BY <1>1, <3>1, <3>3, FieldTypes, Zenon
  <2>2. Located' /\ inst' = inst
    BY <1>1, <1>3, SetFieldCases DEF Moves, Quiet
  <2>3. Stocked'
    BY <1>1, <1>3, SetFieldCases DEF Stocked
  <2> QED
    BY <1>1, <2>1, <2>2, <2>3 DEF CloudTypeOK, Located, Stocked
<1>4. CASE Launches(p)
  BY <1>4, LaunchedType DEF CloudTypeOK, Located, Stocked
<1>5. CASE Running(p) \/ Register(p)
  <2>1. Located' /\ Stocked' /\ config' = config /\ inst' = inst
    BY <1>1, <1>5, OnwardEffects DEF Moves, Stocked
  <2> QED
    BY <1>1, <2>1 DEF CloudTypeOK, Located, Stocked
<1>6. CASE TimesOut(p) \/ DestroyWorker(p)
  <2>1. Located' /\ Stocked' /\ config' = config /\ inst' \in Seq(Instances)
    BY <1>6, EndEffects DEF Moves
  <2> QED
    BY <1>1, <2>1 DEF CloudTypeOK, Located, Stocked
<1>7. CASE Ensure(p)
  BY <1>1, <1>2, <1>7, EnsureEffects, EnsureStocked
<1>8. CASE Teardown(p) \/ Command(p, "validate") \/ Command(p, "tearRepo")
  BY <1>1, <1>2, <1>8, TeardownEffects, TeardownStocked
<1>9. CASE Begin(p) \/ SetProvisioned(p) \/ Refused(p)
  BY <1>1, <1>2, <1>9, BeginEffects, BeginStocked
<1> QED
  BY <1>3, <1>4, <1>5, <1>6, <1>7, <1>8, <1>9 DEF Create, Launches

-----------------------------------------------------------------------------
(* The instances.                                                           *)

LEMMA InitHeld == CloudInit => HoldersHold /\ OneHolder /\ Accounted /\ RegisteredServes
<1> SUFFICES ASSUME CloudInit PROVE HoldersHold /\ OneHolder /\ Accounted /\ RegisteredServes
  OBVIOUS
<1>1. HoldersHold /\ OneHolder /\ RegisteredServes
  BY SMT DEF CloudInit, HoldersHold, OneHolder, RegisteredServes, Holding
<1>2. Unheld = {} /\ fails = 0
  BY SMT DEF CloudInit, Unheld
<1>3. Accounted
  BY <1>2, FS_EmptySet, SMT DEF Accounted
<1> QED
  BY <1>1, <1>3

Instanced == LaunchedWhole /\ HoldersHold /\ OneHolder /\ Accounted /\ RegisteredServes

\* A set grows by no more than what is counted for it.
LEMMA CountedGrowth ==
  ASSUME NEW S, NEW T, NEW x, NEW n \in Nat, NEW m \in Nat,
         IsFiniteSet(S), Cardinality(S) <= n,
         (T \subseteq S /\ n <= m) \/ (T \subseteq S \cup {x} /\ n + 1 <= m)
  PROVE  IsFiniteSet(T) /\ Cardinality(T) <= m
<1>1. CASE T \subseteq S /\ n <= m
  <2>1. IsFiniteSet(T) /\ Cardinality(T) <= Cardinality(S) /\ Cardinality(T) \in Nat
        /\ Cardinality(S) \in Nat
    BY <1>1, FS_Subset, FS_CardinalityType
  <2> QED
    BY <1>1, <2>1, SMT
<1>2. CASE T \subseteq S \cup {x} /\ n + 1 <= m
  <2> DEFINE U == S \cup {x}
  <2>1. IsFiniteSet(U) /\ Cardinality(U) \in {Cardinality(S), Cardinality(S) + 1}
    BY FS_AddElement, Zenon
  <2>2. T \subseteq U
    BY <1>2
  <2> HIDE DEF U
  <2>3. IsFiniteSet(T) /\ Cardinality(T) <= Cardinality(U) /\ Cardinality(T) \in Nat
        /\ Cardinality(S) \in Nat
    BY <2>1, <2>2, FS_Subset, FS_CardinalityType
  <2> QED
    BY <1>2, <2>1, <2>3, SMT
<1> QED
  BY <1>1, <1>2

LEMMA AccountedNext ==
  ASSUME Accounted, fails \in Nat, NEW i,
         \/ Unheld' \subseteq Unheld /\ fails' \in {fails, fails + 1}
         \/ Unheld' \subseteq Unheld \cup {i} /\ fails' = fails + 1
  PROVE  Accounted'
<1>1. fails' \in Nat /\ fails <= fails'
  BY SMT
<1>2. \/ Unheld' \subseteq Unheld /\ fails <= fails'
      \/ Unheld' \subseteq Unheld \cup {i} /\ fails + 1 <= fails'
  BY <1>1, SMT
<1>3. IsFiniteSet(Unheld) /\ Cardinality(Unheld) <= fails
  BY DEF Accounted
<1>4. IsFiniteSet(Unheld') /\ Cardinality(Unheld') <= fails'
  BY <1>1, <1>2, <1>3, CountedGrowth, Zenon
<1> QED
  BY <1>4 DEF Accounted

LEMMA QuietKeeps ==
  ASSUME CloudTypeOK, Instanced, NEW p \in Procs, Moves(p), Quiet(p)
  PROVE  Instanced'
<1> USE DEF Instanced, Moves, Quiet, Located
<1>1. hold[p] = 0 /\ hold'[p] = 0 /\ hold' = hold
  BY SMT DEF HoldersHold, CloudTypeOK
<1>2. HoldersHold'
  BY <1>1, SMT DEF HoldersHold
<1>3. OneHolder' /\ LaunchedWhole'
  BY <1>1 DEF OneHolder, LaunchedWhole
<1>4. RegisteredServes'
  <2>1. ASSUME NEW i \in workers
        PROVE  /\ i \in DOMAIN inst /\ inst[i].is = "up"
               /\ keep \/ \E t \in Threads : hold'[t] = i /\ pc'[t] = "serving"
    <3>1. CASE keep
      BY <3>1 DEF RegisteredServes
    <3>2. CASE ~keep
      <4>1. PICK t \in Threads : hold[t] = i /\ pc[t] = "serving"
        BY <3>2 DEF RegisteredServes
      <4>2. t # p /\ t \in Procs
        BY <4>1 DEF Holding, Procs
      <4> QED
        BY <1>1, <4>1, <4>2 DEF RegisteredServes
    <3> QED
      BY <3>1, <3>2
  <2>2. \A q \in Procs : /\ pc'[q] = "serving" => hold'[q] \in workers
                         /\ pc'[q] \in {"boot", "health"} => hold'[q] \notin workers
    BY <1>1, SMT DEF RegisteredServes, Holding
  <2> QED
    BY <2>1, <2>2 DEF RegisteredServes
<1>5. Unheld' = Unheld
  BY <1>1 DEF Unheld
<1>6. Accounted'
  BY <1>5, AccountedNext DEF CloudTypeOK
<1> QED
  BY <1>2, <1>3, <1>4, <1>6

LEMMA LaunchKeeps ==
  ASSUME CloudTypeOK, FieldsInOrder, Instanced, NEW t \in Procs, t \in Threads, Launches(t)
  PROVE  Instanced'
<1> DEFINE i == Len(inst) + 1
<1> USE DEF Instanced
<1>1. /\ pc[t] = "launch" /\ UNCHANGED <<workers, keep>>
      /\ \A q \in Procs \ {t} : pc'[q] = pc[q] /\ hold'[q] = hold[q]
      /\ \/ pc'[t] = "boot" /\ hold'[t] = i /\ fails' = fails
         \/ pc'[t] = "idle" /\ hold'[t] = 0 /\ fails' = fails + 1
  BY LaunchEffects
<1>2. /\ DOMAIN inst' = DOMAIN inst \cup {i} /\ i \notin DOMAIN inst
      /\ DOMAIN inst \subseteq Nat \ {0}
      /\ \A j \in DOMAIN inst : inst'[j] = inst[j]
      /\ inst'[i].is = "up" /\ inst'[i].key /\ inst'[i].profile /\ inst'[i].image
  BY NewInstance
<1>3. i # 0
  BY SMT DEF CloudTypeOK
<1> HIDE DEF i
<1>4. hold[t] = 0 /\ \A q \in Procs : hold[q] # i
  BY <1>1, <1>2, <1>3, SMT DEF HoldersHold, Holding
<1>5. LaunchedWhole'
  BY <1>2, Zenon DEF LaunchedWhole
<1>6. HoldersHold'
  BY <1>1, <1>2, SMT DEF HoldersHold, Holding
<1>7. OneHolder'
  BY <1>1, <1>4, SMT DEF OneHolder
<1>8. RegisteredServes'
  <2>1. ASSUME NEW j \in workers
        PROVE  /\ j \in DOMAIN inst' /\ inst'[j].is = "up"
               /\ keep \/ \E u \in Threads : hold'[u] = j /\ pc'[u] = "serving"
    <3>1. j \in DOMAIN inst' /\ inst'[j].is = "up"
      BY <1>2 DEF RegisteredServes
    <3>2. ASSUME ~keep
          PROVE  \E u \in Threads : hold'[u] = j /\ pc'[u] = "serving"
      <4>1. PICK u \in Threads : hold[u] = j /\ pc[u] = "serving"
        BY <3>2 DEF RegisteredServes
      <4>2. u \in Procs \ {t}
        BY <1>1, <4>1 DEF Procs
      <4> QED
        BY <1>1, <4>1, <4>2
    <3> QED
      BY <3>1, <3>2
  <2>2. i \notin workers
    BY <1>2 DEF RegisteredServes
  <2>3. \A q \in Procs : /\ pc'[q] = "serving" => hold'[q] \in workers
                         /\ pc'[q] \in {"boot", "health"} => hold'[q] \notin workers
    BY <1>1, <2>2, SMT DEF RegisteredServes
  <2> QED
    BY <1>1, <2>1, <2>3 DEF RegisteredServes
<1>9. Accounted'
  <2>1. ASSUME NEW j \in Unheld', j # i
        PROVE  j \in Unheld
    <3>1. /\ j \in DOMAIN inst /\ inst[j].is = "up" /\ ~(keep /\ j \in workers)
          /\ \A u \in Threads : hold'[u] # j
      BY <1>1, <1>2, <2>1 DEF Unheld
    <3>2. \A u \in Threads : hold[u] # j
      BY <1>1, <1>2, <1>4, <3>1 DEF Procs
    <3> QED
      BY <3>1, <3>2 DEF Unheld
  <2>2. hold'[t] = i => i \notin Unheld'
    BY DEF Unheld
  <2>3. CASE hold'[t] = i /\ fails' = fails
    <3>1. Unheld' \subseteq Unheld /\ fails' \in {fails, fails + 1}
      BY <2>1, <2>2, <2>3
    <3> QED
      BY <3>1, AccountedNext DEF CloudTypeOK
  <2>4. CASE fails' = fails + 1
    <3>1. Unheld' \subseteq Unheld \cup {i}
      BY <2>1
    <3> QED
      BY <2>4, <3>1, AccountedNext DEF CloudTypeOK
  <2> QED
    BY <1>1, <2>3, <2>4
<1> QED
  BY <1>5, <1>6, <1>7, <1>8, <1>9

LEMMA OnwardKeeps ==
  ASSUME CloudTypeOK, Instanced, NEW t \in Procs, t \in Threads, Running(t) \/ Register(t)
  PROVE  Instanced'
<1> USE DEF Instanced
<1>1. /\ \A q \in Procs \ {t} : pc'[q] = pc[q]
      /\ pc[t] \in {"boot", "health"} /\ pc'[t] \in {"health", "serving"}
      /\ UNCHANGED <<hold, inst, keep, fails>>
      /\ \/ workers' = workers /\ pc'[t] = "health"
         \/ workers' = workers \cup {hold[t]} /\ pc'[t] = "serving"
  BY OnwardEffects DEF CloudTypeOK, Located, Moves
<1>2. LaunchedWhole' /\ OneHolder'
  BY <1>1 DEF LaunchedWhole, OneHolder
<1>3. HoldersHold'
  BY <1>1, SMT DEF HoldersHold, Holding
<1>4. hold[t] \in DOMAIN inst /\ inst[hold[t]].is = "up" /\ hold[t] # 0
  <2>1. hold[t] \in DOMAIN inst /\ inst[hold[t]].is = "up"
    BY <1>1 DEF HoldersHold, Holding
  <2> QED
    BY <2>1, SMT DEF CloudTypeOK
<1>5. RegisteredServes'
  <2>1. ASSUME NEW i \in workers'
        PROVE  /\ i \in DOMAIN inst /\ inst[i].is = "up"
               /\ keep \/ \E u \in Threads : hold[u] = i /\ pc'[u] = "serving"
    <3>1. CASE i \in workers
      BY <1>1, <3>1 DEF RegisteredServes, Procs
    <3>2. CASE i = hold[t] /\ pc'[t] = "serving"
      BY <1>4, <3>2
    <3> QED
      BY <1>1, <2>1, <3>1, <3>2
  <2>2. ASSUME NEW q \in Procs
        PROVE  /\ pc'[q] = "serving" => hold[q] \in workers'
               /\ pc'[q] \in {"boot", "health"} => hold[q] \notin workers'
    <3>1. CASE q = t
      BY <1>1, <3>1, SMT DEF RegisteredServes
    <3>2. CASE q # t
      <4>1. hold[q] # hold[t]
        BY <1>4, <3>2 DEF OneHolder
      <4> QED
        BY <1>1, <3>2, <4>1 DEF RegisteredServes
    <3> QED
      BY <3>1, <3>2
  <2> QED
    BY <1>1, <2>1, <2>2 DEF RegisteredServes
<1>6. Unheld' \subseteq Unheld
  BY <1>1 DEF Unheld
<1>7. Accounted'
  BY <1>1, <1>6, AccountedNext DEF CloudTypeOK
<1> QED
  BY <1>2, <1>3, <1>5, <1>7

LEMMA EndKeeps ==
  ASSUME CloudTypeOK, Instanced, NEW t \in Procs, t \in Threads,
         TimesOut(t) \/ DestroyWorker(t)
  PROVE  Instanced'
<1> DEFINE i == hold[t]
<1> USE DEF Instanced
<1>1. /\ \A q \in Procs \ {t} : pc'[q] = pc[q] /\ hold'[q] = hold[q]
      /\ pc[t] \in Holding /\ pc'[t] = "idle" /\ hold'[t] = 0
      /\ i \in DOMAIN inst /\ DOMAIN inst' = DOMAIN inst
      /\ \A j \in DOMAIN inst :
           /\ inst'[j].key = inst[j].key /\ inst'[j].profile = inst[j].profile
           /\ inst'[j].image = inst[j].image
           /\ j # i => inst'[j] = inst[j]
      /\ \/ /\ inst'[i].is = "gone" /\ fails' \in {fails, fails + 1}
            /\ workers' = workers \ {i} \/ (workers' = workers /\ pc[t] # "serving")
         \/ /\ inst' = inst /\ fails' = fails + 1
            /\ workers' = workers \ {i} \/ (workers' = workers /\ pc[t] # "serving")
         \/ keep /\ pc[t] = "serving" /\ inst' = inst /\ fails' = fails /\ workers' = workers
      /\ keep' = keep
  BY EndEffects DEF Moves
<1>2. i # 0 /\ \A q \in Procs \ {t} : hold[q] # i
  BY <1>1, SMT DEF OneHolder, CloudTypeOK
<1>3. inst[i].is = "up" /\ (pc[t] # "serving" => i \notin workers)
      /\ (pc[t] = "serving" => i \in workers)
  BY <1>1, SMT DEF HoldersHold, RegisteredServes, Holding
<1>4. hold[t] = i
  OBVIOUS
<1> HIDE DEF i
<1>5. LaunchedWhole'
  BY <1>1, Zenon DEF LaunchedWhole
<1>6. HoldersHold'
  BY <1>1, <1>2, SMT DEF HoldersHold, Holding
<1>7. OneHolder'
  BY <1>1, <1>2, SMT DEF OneHolder
<1>8. RegisteredServes'
  <2>1. ASSUME NEW j \in workers'
        PROVE  /\ j \in DOMAIN inst' /\ inst'[j].is = "up"
               /\ keep \/ \E u \in Threads : hold'[u] = j /\ pc'[u] = "serving"
    <3>1. j \in workers /\ (j = i => inst' = inst /\ keep)
      BY <1>1, <1>3, <2>1
    <3>2. j \in DOMAIN inst /\ inst[j].is = "up"
      BY <3>1 DEF RegisteredServes
    <3>3. j \in DOMAIN inst' /\ inst'[j].is = "up"
      BY <1>1, <3>1, <3>2
    <3>4. ASSUME ~keep
          PROVE  \E u \in Threads : hold'[u] = j /\ pc'[u] = "serving"
      <4>1. PICK u \in Threads : hold[u] = j /\ pc[u] = "serving"
        BY <3>1, <3>4 DEF RegisteredServes
      <4>2. u \in Procs \ {t}
        BY <1>4, <3>1, <3>4, <4>1 DEF Procs
      <4> QED
        BY <1>1, <4>1, <4>2
    <3> QED
      BY <3>3, <3>4
  <2>2. ASSUME NEW q \in Procs
        PROVE  /\ pc'[q] = "serving" => hold'[q] \in workers'
               /\ pc'[q] \in {"boot", "health"} => hold'[q] \notin workers'
    <3>1. CASE q = t
      BY <1>1, <3>1
    <3>2. CASE q # t
      BY <1>1, <1>2, <3>2 DEF RegisteredServes
    <3> QED
      BY <3>1, <3>2
  <2> QED
    BY <1>1, <2>1, <2>2 DEF RegisteredServes
<1>9. Accounted'
  <2>1. ASSUME NEW j \in Unheld', j # i
        PROVE  j \in Unheld
    <3>1. /\ j \in DOMAIN inst /\ inst[j].is = "up" /\ ~(keep /\ j \in workers)
          /\ \A u \in Threads : hold'[u] # j
      BY <1>1, <2>1 DEF Unheld
    <3>2. \A u \in Threads : hold[u] # j
      BY <1>1, <1>4, <2>1, <3>1 DEF Procs
    <3> QED
      BY <3>1, <3>2 DEF Unheld
  <2>2. CASE inst'[i].is = "gone" /\ fails' \in {fails, fails + 1}
    <3>1. i \notin Unheld'
      BY <2>2 DEF Unheld
    <3> QED
      BY <2>1, <2>2, <3>1, AccountedNext DEF CloudTypeOK
  <2>3. CASE fails' = fails + 1
    <3>1. Unheld' \subseteq Unheld \cup {i}
      BY <2>1
    <3> QED
      BY <2>3, <3>1, AccountedNext DEF CloudTypeOK
  <2>4. CASE keep /\ pc[t] = "serving" /\ fails' = fails /\ workers' = workers
    <3>1. i \notin Unheld'
      BY <1>1, <1>3, <2>4 DEF Unheld
    <3> QED
      BY <2>1, <2>4, <3>1, AccountedNext DEF CloudTypeOK
  <2> QED
    BY <1>1, <2>2, <2>3, <2>4
<1> QED
  BY <1>5, <1>6, <1>7, <1>8, <1>9

-----------------------------------------------------------------------------
(* The theorems.                                                            *)

LEMMA CloudInvParts == CloudInv <=> CloudTypeOK /\ FieldsInOrder /\ Instanced
  BY DEF CloudInv, Instanced

LEMMA CloudStep ==
  ASSUME CloudTypeOK, FieldsInOrder, Instanced, NEW p \in Procs,
         \/ Ensure(p) \/ Teardown(p) \/ Command(p, "validate") \/ Command(p, "tearRepo")
         \/ p \in Threads /\ Create(p)
  PROVE  CloudTypeOK' /\ FieldsInOrder' /\ Instanced'
<1>1. CloudTypeOK'
  BY NextCloudType DEF Instanced
<1>2. Located
  BY TypeParts
<1>3. CASE Effects(p)
  BY <1>1, <1>3, LeavesFields, QuietKeeps DEF Effects
<1>4. CASE SetField(p)
  BY <1>1, <1>2, <1>4, SetFieldCases, SetsFields, QuietKeeps, TypeParts
<1>5. CASE p \in Threads /\ Launches(p)
  <2>1. FieldsInOrder'
    BY <1>5, LaunchEffects, SMT DEF FieldsInOrder, CloudTypeOK
  <2> QED
    BY <1>1, <1>5, <2>1, LaunchKeeps
<1>6. CASE p \in Threads /\ (Running(p) \/ Register(p))
  <2>1. FieldsInOrder'
    BY <1>2, <1>6, OnwardEffects, SMT DEF FieldsInOrder, Moves
  <2> QED
    BY <1>1, <1>6, <2>1, OnwardKeeps
<1>7. CASE p \in Threads /\ (TimesOut(p) \/ DestroyWorker(p))
  <2>1. FieldsInOrder'
    BY <1>7, EndEffects, SMT DEF FieldsInOrder, Moves, Instanced
  <2> QED
    BY <1>1, <1>7, <2>1, EndKeeps
<1>8. CASE Ensure(p)
  BY <1>2, <1>3, <1>8, EnsureEffects
<1>9. CASE Teardown(p) \/ Command(p, "validate") \/ Command(p, "tearRepo")
  BY <1>2, <1>3, <1>9, TeardownEffects
<1>10. CASE Begin(p) \/ SetProvisioned(p) \/ Refused(p)
  BY <1>2, <1>3, <1>10, BeginEffects
<1> QED
  BY <1>4, <1>5, <1>6, <1>7, <1>8, <1>9, <1>10 DEF Create, Launches

LEMMA CloudInductive == CloudInv /\ [CloudNext]_cloudVars => CloudInv'
<1> SUFFICES ASSUME CloudInv, [CloudNext]_cloudVars PROVE CloudInv'
  OBVIOUS
<1>1. CASE CloudNext
  <2>1. PICK p \in Procs :
          \/ Ensure(p) \/ Teardown(p) \/ Command(p, "validate") \/ Command(p, "tearRepo")
          \/ p \in Threads /\ Create(p)
    BY <1>1 DEF CloudNext, Procs
  <2> QED
    BY <2>1, CloudStep DEF CloudInv, Instanced
<1>2. CASE UNCHANGED cloudVars
  BY <1>2 DEF cloudVars, CloudInv, CloudTypeOK, FieldsInOrder, LaunchedWhole, HoldersHold,
              OneHolder, Accounted, Unheld, RegisteredServes
<1> QED
  BY <1>1, <1>2

\* The invariant holds however the calls of the processes interleave and fail.
THEOREM CloudInvariance == CloudSpec => []CloudInv
<1>1. CloudInit => CloudInv
  BY InitCloudType, InitFields, InitHeld DEF CloudInv
<1> QED
  BY <1>1, CloudInductive, PTL DEF CloudSpec

\* No instance runs that lacks the key, the profile or the repository, though
\* the threads read the settings of _auto_provision while one of them sets
\* them.
THEOREM Whole == CloudSpec => []LaunchedWhole
<1>1. CloudInv => LaunchedWhole
  BY DEF CloudInv
<1> QED
  BY <1>1, CloudInvariance, PTL

\* Launches whose answer is lost, refused or lost terminations, timeouts and
\* kept workers, in any number and order: what runs in nobody's hands is at
\* most one instance for each failed call, none without one, and the registered
\* ones run, each for a thread unless workers are kept.
THEOREM Orphanless == CloudSpec => []NoOrphans
<1>1. CloudInv => NoOrphans
  BY DEF CloudInv, Accounted, RegisteredServes, NoOrphans
<1> QED
  BY <1>1, CloudInvariance, PTL

-----------------------------------------------------------------------------
(* What setup makes, while one process at a time is at it.                  *)

\* The steps of ensure_infrastructure with the key pair and its private key
\* there, and those with a security group.
WithSg == {"profile", "role", "policy", "newProfile", "addRole", "repo", "push", "save"}
WithKey == {"sg", "newSg", "ingress"} \cup WithSg

\* How far the account, the private key and the cache are, with one process at
\* this step that has made such a key pair and has such a security group, or
\* with none at any.  What has its name is whole, but for the one it is making
\* or deleting; and a cache entry is of a whole setup.
Fits(step, new, sg) ==
  /\ pem # 0 => pem = aws.key
  /\ step = "newKey" => aws.key = 0 /\ pem = 0
  /\ step = "pem" => new = aws.key /\ new # 0 /\ pem = 0
  /\ step \in WithKey => pem # 0
  /\ aws.sg.id # 0 => aws.sg.open \/ step = "ingress"
  /\ step \in {"ingress"} \cup WithSg => aws.sg.id = sg /\ sg # 0
  /\ aws.profile # "none" => aws.role = "reads"
  /\ aws.profile = "bare" => step \in {"addRole", "tearProfile"}
  /\ step = "policy" => aws.role # "none"
  /\ step \in {"newProfile", "addRole"} => aws.role = "reads"
  /\ step = "addRole" => aws.profile # "none"
  /\ step \in {"tearPolicy", "tearIam"} => aws.profile = "none"
  /\ step \in {"repo", "push", "save"} => aws.profile = "full"
  /\ step = "push" => aws.repo # "none"
  /\ step = "save" => aws.repo = "image"
  /\ cache # 0 /\ step \notin Tearing =>
       aws.sg.id = cache /\ aws.profile = "full" /\ aws.repo = "image" /\ pem # 0

AtWork(p) == pc[p] \in Ensuring \cup Tearing
OneAtWork == \A p, q \in Procs : AtWork(p) /\ AtWork(q) => p = q
FitsAt(p) == Fits(pc[p], newKey[p], group[p])
FitsAll ==
  /\ \A p \in Procs : AtWork(p) => FitsAt(p)
  /\ (\A p \in Procs : ~AtWork(p)) => Fits("idle", 0, 0)

\* Of the processes that set up or tear down, while no two overlap and no call
\* has failed behind which a resource is left half made.
SetupInv ==
  /\ ~raced => OneAtWork
  /\ ~raced /\ ~scar => FitsAll

\* A step of setup by a process with no other beside it.
LEMMA EnsureFits ==
  ASSUME CloudTypeOK, NEW p \in Procs, Ensure(p), FitsAt(p), ~scar'
  PROVE  FitsAt(p)'
<1> USE DEF FitsAt, Fits, CloudTypeOK, Account, Groups, Go, Step, Raise, At, held, backend, trouble,
            Ensuring, Tearing, WithSg, WithKey
<1>1. CASE Validate(p)
  BY <1>1, SMTT(60) DEF Validate
<1>2. CASE EnsureKey(p)
  <2>1. pc[p] = "key" /\ newKey' = newKey /\ group' = group /\ pem' = pem /\ cache' = cache
    BY <1>2, SMTT(60) DEF EnsureKey
  <2>2. \/ pc'[p] = "sg" /\ aws' = aws /\ pem # 0
        \/ pc'[p] = "newKey" /\ aws' = [aws EXCEPT !.key = 0] /\ pem = 0
    BY <1>2, <2>1, SMT DEF EnsureKey
  <2>3. CASE pc'[p] = "sg" /\ aws' = aws /\ pem # 0
    BY <2>1, <2>3, SMTT(60)
  <2>4. CASE pc'[p] = "newKey" /\ aws' = [aws EXCEPT !.key = 0] /\ pem = 0
    <3>1. /\ aws'.key = 0 /\ aws'.sg = aws.sg /\ aws'.role = aws.role
          /\ aws'.profile = aws.profile /\ aws'.repo = aws.repo
      BY <2>4, SMTT(60)
    <3>2. cache = 0
      BY <2>1, <2>4, SMTT(60)
    <3> QED
      BY <2>1, <2>4, <3>1, <3>2, SMTT(60)
  <2> QED
    BY <2>2, <2>3, <2>4
<1>3. CASE CreateKey(p)
  <2>1. pc[p] = "newKey" /\ group' = group /\ pem' = pem /\ cache' = cache
    BY <1>3, SMTT(60) DEF CreateKey
  <2>2. PICK new \in Nat \ {0} :
          pc'[p] = "pem" /\ newKey'[p] = new /\ aws' = [aws EXCEPT !.key = new]
    BY <1>3, <2>1, SMT DEF CreateKey
  <2> QED
    BY <2>1, <2>2, SMT
<1>4. CASE WritePem(p)
  BY <1>4, SMTT(60) DEF WritePem
<1>5. CASE EnsureSg(p)
  BY <1>5, SMTT(60) DEF EnsureSg
<1>6. CASE CreateSg(p)
  BY <1>6, SMTT(60) DEF CreateSg
<1>7. CASE AuthorizeIngress(p)
  BY <1>7, SMTT(60) DEF AuthorizeIngress
<1>8. CASE EnsureProfile(p)
  BY <1>8, SMTT(60) DEF EnsureProfile
<1>9. CASE CreateRole(p)
  BY <1>9, SMTT(60) DEF CreateRole
<1>10. CASE AttachPolicy(p)
  <2>1. pc[p] = "policy" /\ pc'[p] = "newProfile" /\ newKey' = newKey
        /\ group' = group /\ pem' = pem /\ cache' = cache
    BY <1>10, SMTT(60) DEF AttachPolicy
  <2>2. aws' = [aws EXCEPT !.role = "reads"]
    BY <1>10, <2>1, SMT DEF AttachPolicy
  <2> QED
    BY <2>1, <2>2, SMT
<1>11. CASE CreateProfile(p)
  BY <1>11, SMTT(60) DEF CreateProfile
<1>12. CASE AddRole(p)
  <2>1. pc[p] = "addRole" /\ aws.role # "none" /\ aws.profile # "none"
        /\ group' = group /\ pem' = pem /\ cache' = cache
    BY <1>12, SMTT(60) DEF AddRole
  <2>2. pc'[p] = "repo" /\ newKey' = newKey /\ aws' = [aws EXCEPT !.profile = "full"]
    BY <1>12, <2>1, SMT DEF AddRole
  <2> QED
    BY <2>1, <2>2, SMTT(60)
<1>13. CASE EnsureRepo(p)
  BY <1>13, SMTT(60) DEF EnsureRepo
<1>14. CASE PushImage(p)
  <2>1. pc[p] = "push" /\ aws.repo # "none"
    BY <1>14, SMTT(60) DEF PushImage
  <2>2. pc'[p] = "save" /\ newKey' = newKey /\ group' = group
        /\ aws' = [aws EXCEPT !.repo = "image"]
        /\ pem' = pem /\ cache' = cache
    BY <1>14, <2>1, SMT DEF PushImage
  <2> QED
    BY <2>1, <2>2, SMT
<1>15. CASE Save(p)
  BY <1>15, SMTT(60) DEF Save
<1>16. CASE Fail(p)
  <2>1. pc[p] \in Ensuring \ {"validate", "ingress", "addRole"} /\ pc'[p] = "idle"
        /\ aws' = aws /\ pem' = pem /\ cache' = cache
    <3>1. pc[p] \in Ensuring \ {"validate"} /\ pc'[p] = "idle"
          /\ aws' = aws /\ pem' = pem /\ cache' = cache
      BY <1>16, SMTT(60) DEF Fail
    <3>2. pc[p] \notin {"ingress", "addRole"}
      BY <1>16, Zenon DEF Fail
    <3> QED
      BY <3>1, <3>2
  <2> QED
    BY <2>1, SMT
<1> QED
  BY <1>1, <1>2, <1>3, <1>4, <1>5, <1>6, <1>7, <1>8, <1>9, <1>10, <1>11, <1>12, <1>13, <1>14,
     <1>15, <1>16 DEF Ensure

LEMMA TeardownFits ==
  ASSUME CloudTypeOK, NEW p \in Procs, Teardown(p), FitsAt(p), ~scar'
  PROVE  FitsAt(p)'
<1> USE DEF Go, Step, At, Deletes
<1>0. aws \in Account /\ pc \in [Procs -> Pcs]
  BY DEF CloudTypeOK
<1>1. CASE TearRepo(p)
  <2>1. pc[p] = "tearRepo" /\ pc'[p] = "tearSg" /\ cache' = cache
    BY <1>0, <1>1, SMT DEF TearRepo
  <2>2. /\ pem' = pem /\ aws'.key = aws.key /\ aws'.sg = aws.sg
        /\ aws'.role = aws.role /\ aws'.profile = aws.profile
    BY <1>0, <1>1, <2>1, SMT DEF TearRepo, Account
  <2>3. Fits("tearRepo", newKey[p], group[p])
    BY <2>1 DEF FitsAt
  <2>4. Fits("tearSg", newKey[p], group[p])'
    BY <2>2, <2>3, SMT DEF Fits, Ensuring, Tearing, WithSg, WithKey
  <2> QED
    BY <2>1, <2>4 DEF FitsAt
<1>2. CASE TearSg(p)
  <2>1. pc[p] = "tearSg" /\ pc'[p] = "tearKey" /\ cache' = cache
    BY <1>0, <1>2, SMT DEF TearSg
  <2>2. /\ pem' = pem /\ aws'.key = aws.key /\ (aws'.sg = aws.sg \/ aws'.sg = NoSg)
        /\ aws'.role = aws.role /\ aws'.profile = aws.profile
    BY <1>0, <1>2, <2>1, SMT DEF TearSg, Account
  <2>3. Fits("tearSg", newKey[p], group[p])
    BY <2>1 DEF FitsAt
  <2>4. Fits("tearKey", newKey[p], group[p])'
    BY <2>2, <2>3, SMT DEF Fits, NoSg, Ensuring, Tearing, WithSg, WithKey
  <2> QED
    BY <2>1, <2>4 DEF FitsAt
<1>3. CASE TearKey(p)
  <2>1. pc[p] = "tearKey" /\ pc'[p] = "tearRole" /\ cache' = cache
    BY <1>0, <1>3, SMT DEF TearKey
  <2>2. /\ (aws'.key = aws.key /\ pem' = pem) \/ pem' = 0
        /\ aws'.sg = aws.sg /\ aws'.role = aws.role /\ aws'.profile = aws.profile
    BY <1>0, <1>3, <2>1, SMT DEF TearKey, Account, trouble
  <2>3. Fits("tearKey", newKey[p], group[p])
    BY <2>1 DEF FitsAt
  <2>4. Fits("tearRole", newKey[p], group[p])'
    BY <2>2, <2>3, SMT DEF Fits, Ensuring, Tearing, WithSg, WithKey
  <2> QED
    BY <2>1, <2>4 DEF FitsAt
<1>4. CASE TearRole(p)
  <2>1. pc[p] = "tearRole" /\ pc'[p] = "tearProfile" /\ cache' = cache
    BY <1>0, <1>4, SMT DEF TearRole
  <2>2. /\ pem' = pem /\ aws'.key = aws.key /\ aws'.sg = aws.sg /\ aws'.role = aws.role
        /\ aws.profile = "none" => aws'.profile = "none"
    BY <1>0, <1>4, <2>1, SMT DEF TearRole, Account
  <2>3. Fits("tearRole", newKey[p], group[p])
    BY <2>1 DEF FitsAt
  <2>4. Fits("tearProfile", newKey[p], group[p])'
    BY <2>2, <2>3, SMT DEF Fits, Ensuring, Tearing, WithSg, WithKey
  <2> QED
    BY <2>1, <2>4 DEF FitsAt
<1>5. CASE TearProfile(p)
  <2>1. pc[p] = "tearProfile" /\ pem' = pem /\ cache' = cache
    BY <1>0, <1>5, SMT DEF TearProfile
  <2>2. /\ aws'.key = aws.key /\ aws'.sg = aws.sg /\ aws'.role = aws.role
        /\ \/ pc'[p] = "tearPolicy" /\ aws'.profile = "none"
           \/ pc'[p] = "tearCache" /\ aws'.profile = aws.profile /\ aws.profile # "bare"
    BY <1>0, <1>5, <2>1, SMT DEF TearProfile, Account
  <2>3. Fits("tearProfile", newKey[p], group[p])
    BY <2>1 DEF FitsAt
  <2>4. /\ pc'[p] = "tearPolicy" => Fits("tearPolicy", newKey[p], group[p])'
        /\ pc'[p] = "tearCache" => Fits("tearCache", newKey[p], group[p])'
    BY <2>1, <2>2, <2>3, SMT DEF Fits, Ensuring, Tearing, WithSg, WithKey
  <2> QED
    BY <2>2, <2>4 DEF FitsAt
<1>6. CASE TearPolicy(p)
  <2>1. pc[p] = "tearPolicy" /\ pc'[p] = "tearIam" /\ cache' = cache
    BY <1>0, <1>6, SMT DEF TearPolicy
  <2>2. /\ pem' = pem /\ aws'.key = aws.key /\ aws'.sg = aws.sg /\ aws'.profile = aws.profile
    BY <1>0, <1>6, <2>1, SMT DEF TearPolicy, Account
  <2>3. Fits("tearPolicy", newKey[p], group[p])
    BY <2>1 DEF FitsAt
  <2>4. Fits("tearIam", newKey[p], group[p])'
    BY <2>2, <2>3, SMT DEF Fits, Ensuring, Tearing, WithSg, WithKey
  <2> QED
    BY <2>1, <2>4 DEF FitsAt
<1>7. CASE TearIam(p)
  <2>1. pc[p] = "tearIam" /\ pc'[p] = "tearCache" /\ cache' = cache
    BY <1>0, <1>7, SMT DEF TearIam
  <2>2. /\ pem' = pem /\ aws'.key = aws.key /\ aws'.sg = aws.sg /\ aws'.profile = aws.profile
    BY <1>0, <1>7, <2>1, SMT DEF TearIam, Account
  <2>3. Fits("tearIam", newKey[p], group[p])
    BY <2>1 DEF FitsAt
  <2>4. Fits("tearCache", newKey[p], group[p])'
    BY <2>2, <2>3, SMT DEF Fits, Ensuring, Tearing, WithSg, WithKey
  <2> QED
    BY <2>1, <2>4 DEF FitsAt
<1>8. CASE TearCache(p)
  <2>1. pc[p] = "tearCache" /\ pc'[p] = "idle" /\ cache' = 0 /\ aws' = aws /\ pem' = pem
    BY <1>0, <1>8, SMT DEF TearCache, Raise
  <2>2. Fits("tearCache", newKey[p], group[p])
    BY <2>1 DEF FitsAt
  <2>3. Fits("idle", newKey[p], group[p])'
    BY <2>1, <2>2, SMT DEF Fits, Ensuring, Tearing, WithSg, WithKey
  <2> QED
    BY <2>1, <2>3 DEF FitsAt
<1> QED
  BY <1>1, <1>2, <1>3, <1>4, <1>5, <1>6, <1>7, <1>8 DEF Teardown

\* What is fit with none at work is fit for one that begins.
LEMMA BeginFits ==
  ASSUME Fits("idle", 0, 0), NEW s \in {"validate", "tearRepo"}, NEW k, NEW g
  PROVE  Fits(s, k, g)
BY SMT DEF Fits, Ensuring, Tearing, WithSg, WithKey

\* Only p goes on, and the others keep what they have.
OnlyMoves(p) ==
  \A q \in Procs \ {p} : pc'[q] = pc[q] /\ newKey'[q] = newKey[q] /\ group'[q] = group[q]

\* A step that sets up or tears down, one that begins to, and any other.
Works(p) == AtWork(p) /\ (~raced' => ~raced) /\ (~scar' => ~scar)
Begins(p) ==
  /\ ~AtWork(p) /\ pc'[p] \in {"validate", "tearRepo"}
  /\ ~raced' => ~raced /\ \A q \in Procs : ~AtWork(q)
  /\ UNCHANGED <<aws, pem, cache, scar>>
Rests(p) ==
  /\ ~AtWork(p) /\ ~AtWork(p)'
  /\ ~raced' => ~raced
  /\ UNCHANGED <<aws, pem, cache, scar>>

LEMMA EnsureWorks ==
  ASSUME CloudTypeOK, NEW p \in Procs, Ensure(p)
  PROVE  Works(p) /\ OnlyMoves(p)
<1> USE DEF Works, OnlyMoves, CloudTypeOK, AtWork, Go, Step, Raise, At, held, trouble, Ensuring
<1>1. CASE Validate(p)
  BY <1>1, SMT DEF Validate
<1>2. CASE EnsureKey(p)
  BY <1>2, SMT DEF EnsureKey
<1>3. CASE CreateKey(p)
  BY <1>3, SMT DEF CreateKey
<1>4. CASE WritePem(p)
  BY <1>4, SMT DEF WritePem
<1>5. CASE EnsureSg(p)
  BY <1>5, SMT DEF EnsureSg
<1>6. CASE CreateSg(p)
  BY <1>6, SMT DEF CreateSg
<1>7. CASE AuthorizeIngress(p)
  BY <1>7, SMT DEF AuthorizeIngress
<1>8. CASE EnsureProfile(p)
  BY <1>8, SMT DEF EnsureProfile
<1>9. CASE CreateRole(p)
  BY <1>9, SMT DEF CreateRole
<1>10. CASE AttachPolicy(p)
  BY <1>10, SMT DEF AttachPolicy
<1>11. CASE CreateProfile(p)
  BY <1>11, SMT DEF CreateProfile
<1>12. CASE AddRole(p)
  BY <1>12, SMT DEF AddRole
<1>13. CASE EnsureRepo(p)
  BY <1>13, SMT DEF EnsureRepo
<1>14. CASE PushImage(p)
  BY <1>14, SMT DEF PushImage
<1>15. CASE Save(p)
  BY <1>15, SMT DEF Save
<1>16. CASE Fail(p)
  <2>1. AtWork(p) /\ raced' = raced /\ OnlyMoves(p)
    BY <1>16, SMT DEF Fail
  <2>2. ~scar' => ~scar
    BY <1>16, Zenon DEF Fail
  <2> QED
    BY <2>1, <2>2
<1> QED
  BY <1>1, <1>2, <1>3, <1>4, <1>5, <1>6, <1>7, <1>8, <1>9, <1>10, <1>11, <1>12, <1>13, <1>14,
     <1>15, <1>16 DEF Ensure

LEMMA TeardownWorks ==
  ASSUME CloudTypeOK, NEW p \in Procs, Teardown(p)
  PROVE  Works(p) /\ OnlyMoves(p)
<1> USE DEF CloudTypeOK, Go, Step, At, held
<1>1. ASSUME NEW s \in Tearing, NEW then, NEW new, Deletes(p, s, then, new, FALSE)
      PROVE  Works(p) /\ OnlyMoves(p)
  <2>1. AtWork(p) /\ raced' = raced /\ OnlyMoves(p)
    BY <1>1, SMT DEF Deletes, AtWork, OnlyMoves
  <2>2. ~scar' => ~scar
    BY <1>1, Zenon DEF Deletes, trouble
  <2> QED
    BY <2>1, <2>2 DEF Works
<1>2. CASE TearProfile(p)
  BY <1>2, SMT DEF TearProfile, Works, OnlyMoves, AtWork, Tearing, trouble
<1>3. CASE TearCache(p)
  BY <1>3, SMT DEF TearCache, Works, OnlyMoves, AtWork, Tearing, Raise, trouble
<1> HIDE DEF Deletes, Go, Step, At
<1>4. CASE TearRepo(p) \/ TearSg(p) \/ TearKey(p) \/ TearRole(p) \/ TearPolicy(p) \/ TearIam(p)
  <2>1. PICK s \in Tearing : \E then, new : Deletes(p, s, then, new, FALSE)
    BY <1>4, Zenon DEF TearRepo, TearSg, TearKey, TearRole, TearPolicy, TearIam, Tearing
  <2> QED
    BY <2>1, <1>1, Zenon
<1> QED
  BY <1>2, <1>3, <1>4 DEF Teardown

LEMMA CommandBegins ==
  ASSUME CloudTypeOK, NEW p \in Procs, Command(p, "validate") \/ Command(p, "tearRepo")
  PROVE  Begins(p) /\ OnlyMoves(p)
<1>1. PICK first \in {"validate", "tearRepo"} : Command(p, first)
  OBVIOUS
<1>2. /\ pc[p] = "idle" /\ pc'[p] = first
      /\ UNCHANGED <<aws, pem, cache, scar>> /\ OnlyMoves(p)
  BY <1>1, SMT DEF Command, Step, At, CloudTypeOK, OnlyMoves, trouble
<1>3. ~raced' => ~raced /\ \A q \in Procs : ~AtWork(q)
  BY <1>1, Zenon DEF Command, Provisioning, AtWork
<1> QED
  BY <1>2, <1>3, SMT DEF Begins, AtWork, Ensuring, Tearing

LEMMA CreateRests ==
  ASSUME CloudTypeOK, NEW t \in Procs, Create(t)
  PROVE  (Rests(t) \/ Begins(t)) /\ OnlyMoves(t)
<1> USE DEF Rests, OnlyMoves, CloudTypeOK, AtWork, Go, Step, Raise, At, held, trouble,
            Ensuring, Tearing
<1>1. CASE Begin(t)
  <2>1. /\ pc[t] = "idle" /\ pc'[t] \in {"validate", "launch"}
        /\ UNCHANGED <<aws, pem, cache, scar>> /\ OnlyMoves(t)
    BY <1>1, SMT DEF Begin
  <2>2. /\ pc'[t] = "launch" => raced' = (raced \/ (FALSE /\ Provisioning # {}))
        /\ pc'[t] = "validate" => raced' = (raced \/ (TRUE /\ Provisioning # {}))
    BY <1>1, Zenon DEF Begin
  <2> QED
    <3>1. ~raced' => ~raced /\ (pc'[t] = "validate" => Provisioning = {})
      BY <2>1, <2>2, Zenon
    <3>2. Provisioning = {} => \A q \in Procs : ~AtWork(q)
      BY Zenon DEF Provisioning, AtWork
    <3> QED
      BY <2>1, <3>1, <3>2, SMT DEF Begins
<1>2. CASE SetField(t)
  BY <1>2, SMT DEF SetField, SetSteps
<1>3. CASE SetProvisioned(t)
  BY <1>3, SMT DEF SetProvisioned
<1>4. CASE Launch(t) \/ LaunchUnheard(t)
  BY <1>4, SMT DEF Launch, LaunchUnheard
<1>5. CASE Refused(t)
  BY <1>5, SMT DEF Refused
<1>6. CASE Running(t)
  BY <1>6, SMT DEF Running
<1>7. CASE Register(t)
  BY <1>7, SMT DEF Register
<1>8. CASE TimesOut(t)
  BY <1>8, SMT DEF TimesOut, GivesUp
<1>9. CASE DestroyWorker(t)
  BY <1>9, SMT DEF DestroyWorker
<1> QED
  BY <1>1, <1>2, <1>3, <1>4, <1>5, <1>6, <1>7, <1>8, <1>9 DEF Create

LEMMA InitSetup == CloudInit => SetupInv
BY SMT DEF CloudInit, SetupInv, OneAtWork, FitsAll, AtWork, Fits, NoSg, Ensuring, Tearing,
   WithSg, WithKey

LEMMA StepSetup ==
  ASSUME CloudTypeOK, SetupInv, NEW p \in Procs,
         \/ Ensure(p) \/ Teardown(p) \/ Command(p, "validate") \/ Command(p, "tearRepo")
         \/ Create(p)
  PROVE  SetupInv'
<1>1. OnlyMoves(p) /\ (Works(p) \/ Begins(p) \/ Rests(p))
  BY EnsureWorks, TeardownWorks, CommandBegins, CreateRests
<1>2. \A q \in Procs \ {p} : 
        (AtWork(q)' <=> AtWork(q)) /\ (FitsAt(q)' <=> Fits(pc[q], newKey[q], group[q])')
  BY <1>1 DEF OnlyMoves, AtWork, FitsAt
<1>3. ~raced' => ~raced /\ OneAtWork /\ OneAtWork'
  BY <1>1, <1>2 DEF SetupInv, OneAtWork, Works, Begins, Rests
<1>4. ASSUME ~raced', ~scar'
      PROVE  FitsAll'
  <2>1. ~raced /\ ~scar /\ OneAtWork /\ FitsAll /\ OneAtWork'
    BY <1>1, <1>3, <1>4 DEF SetupInv, Works, Begins, Rests
  <2>2. CASE Works(p)
    <3>1. AtWork(p) /\ FitsAt(p) /\ (Ensure(p) \/ Teardown(p))
      BY <2>1, <2>2, CommandBegins, CreateRests DEF Works, FitsAll, Begins, Rests
    <3>2. FitsAt(p)'
      BY <1>4, <3>1, EnsureFits, TeardownFits
    <3>3. \A q \in Procs \ {p} : ~AtWork(q)'
      BY <1>2, <2>1, <3>1 DEF OneAtWork
    <3>4. ~AtWork(p)' => Fits("idle", 0, 0)'
      <4> SUFFICES ASSUME ~AtWork(p)' PROVE Fits("idle", 0, 0)'
        OBVIOUS
      <4>1. pc'[p] \notin Ensuring \cup Tearing
        BY DEF AtWork
      <4> QED
        BY <3>2, <4>1, SMT DEF FitsAt, Fits, Ensuring, Tearing, WithSg, WithKey
    <3> QED
      BY <3>2, <3>3, <3>4 DEF FitsAll
  <2>3. CASE Begins(p)
    <3>1. Fits("idle", 0, 0) /\ \A q \in Procs : ~AtWork(q)
      BY <1>4, <2>1, <2>3 DEF Begins, FitsAll
    <3>2. Fits(pc'[p], newKey'[p], group'[p])
      BY <2>3, <3>1, BeginFits DEF Begins
    <3>3. FitsAt(p)'
      BY <2>3, <3>2 DEF Begins, Fits, FitsAt
    <3>4. AtWork(p)' /\ \A q \in Procs \ {p} : ~AtWork(q)'
      BY <1>2, <2>3, <3>1, SMT DEF Begins, AtWork, Ensuring, Tearing
    <3> QED
      BY <3>3, <3>4 DEF FitsAll
  <2>4. CASE Rests(p)
    <3>1. \A q \in Procs \ {p} : FitsAt(q)' <=> FitsAt(q)
      BY <1>1, <2>4 DEF OnlyMoves, Rests, FitsAt, Fits
    <3>2. Fits("idle", 0, 0)' <=> Fits("idle", 0, 0)
      BY <2>4 DEF Rests, Fits
    <3>3. ~AtWork(p) /\ ~AtWork(p)'
      BY <2>4 DEF Rests
    <3> QED
      BY <1>2, <2>1, <3>1, <3>2, <3>3 DEF FitsAll
  <2> QED
    BY <1>1, <2>2, <2>3, <2>4
<1> QED
  BY <1>3, <1>4 DEF SetupInv

\* One at a time, setup and teardown leave an account in which what has its
\* name is whole, however far those before it came.
THEOREM SetupInvariant == CloudSpec => []SetupInv
<1>1. CloudTypeOK /\ SetupInv /\ [CloudNext]_cloudVars => SetupInv'
  <2> SUFFICES ASSUME CloudTypeOK, SetupInv, [CloudNext]_cloudVars PROVE SetupInv'
    OBVIOUS
  <2>1. CASE CloudNext
    <3>1. PICK p \in Procs :
            \/ Ensure(p) \/ Teardown(p) \/ Command(p, "validate") \/ Command(p, "tearRepo")
            \/ Create(p)
      BY <2>1 DEF CloudNext, Procs
    <3> QED
      BY <3>1, StepSetup
  <2>2. CASE UNCHANGED cloudVars
    BY <2>2 DEF cloudVars, held, SetupInv, OneAtWork, FitsAll, FitsAt, AtWork, Fits
  <2> QED
    BY <2>1, <2>2
<1>2. CloudInv => CloudTypeOK
  BY DEF CloudInv
<1> QED
  BY <1>1, <1>2, InitSetup, CloudInvariance, PTL DEF CloudSpec

\* Setup can be tried again after any failure, other than one behind which a
\* resource is left half made: the cache then names a security group, an IAM
\* profile and an image that are whole, and the private key is the key pair's.
THEOREM SetupIsWhole == CloudSpec => []SetupSuffices
<1>1. CloudTypeOK /\ SetupInv => SetupSuffices
  <2> SUFFICES ASSUME CloudTypeOK, SetupInv, cache # 0, Provisioning = {}, ~raced, ~scar
               PROVE  /\ aws.sg = [id |-> cache, open |-> TRUE]
                      /\ aws.profile = "full" /\ aws.role = "reads" /\ aws.repo = "image"
                      /\ pem = aws.key /\ pem # 0
    BY DEF SetupSuffices
  <2>1. Fits("idle", 0, 0)
    BY DEF SetupInv, FitsAll, Provisioning, AtWork
  <2>2. /\ aws.sg.id = cache /\ aws.sg.open
        /\ aws.profile = "full" /\ aws.role = "reads" /\ aws.repo = "image"
        /\ pem = aws.key /\ pem # 0
    BY <2>1, SMT DEF Fits, Tearing
  <2>3. aws.sg \in Groups
    BY DEF CloudTypeOK, Account
  <2>4. aws.sg.open = TRUE
    BY <2>2, <2>3, Zenon DEF Groups
  <2>5. aws.sg = [id |-> cache, open |-> TRUE]
    <3>1. aws.sg = [id |-> aws.sg.id, open |-> aws.sg.open]
      BY <2>3, Zenon DEF Groups
    <3> QED
      BY <2>2, <2>4, <3>1, Zenon
  <2> QED
    BY <2>2, <2>5
<1>2. CloudInv => CloudTypeOK
  BY DEF CloudInv
<1> QED
  BY <1>1, <1>2, CloudInvariance, SetupInvariant, PTL

=============================================================================
