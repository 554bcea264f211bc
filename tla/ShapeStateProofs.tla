-------------------------- MODULE ShapeStateProofs --------------------------
(***************************************************************************)
(* Theorems about ShapeState, for any number of requests and interfaces.   *)
(***************************************************************************)
EXTENDS ShapeState, TLAPS

\* Where a thread is tells which device it is at.
Placed(r) ==
  /\ at[r] = "idle" => dev[r] = 1
  /\ at[r] \in {"del", "root", "class", "leaf"} => dev[r] \in Htb
  /\ at[r] \in {"iperf", "record"} => dev[r] = N + 1
  /\ at[r] \in {"undelay", "delay"} => dev[r] \in Netem
  /\ at[r] \in {"ping", "recordPing", "ok"} => dev[r] = N + 2

\* GET /state shows a request that started and was not refused.
CurrentLives == \A r \in Requests : current = r => at[r] \notin {"idle", "error"}

\* The devices a request is through with.
Through(r) ==
  {i \in 1..(N + 2) : i < dev[r] \/ at[r] \in {"ping", "recordPing", "ok"}}

\* The progress of a request nobody interferes with: all others are idle or
\* answered, the global is its own, the devices behind it are as it asked.
Alone(r) ==
  /\ \A q \in Requests \ {r} : at[q] \in {"idle", "ok", "error"}
  /\ at[r] # "idle"
  /\ at[r] = "error" => current = Nobody
  /\ at[r] # "error" => current = r
  /\ at[r] \notin {"raise", "error"} =>
       /\ \A i \in Htb : i < dev[r] => class[i] = r /\ leaf[i] = r
       /\ \A n \in Netem :
            n \in Through(r) => delay[n] = IF n \in Delayed[r] THEN r ELSE Nobody
       /\ at[r] = "leaf" => class[dev[r]] = r
       /\ at[r] = "delay" => dev[r] \in Delayed[r]

ShapeInv ==
  /\ TypeOK
  /\ \A r \in Requests : Placed(r)
  /\ CurrentLives
  /\ \A r \in Requests : solo = r => Alone(r)

-----------------------------------------------------------------------------
LEMMA InitInv == Init => ShapeInv
BY NAssumption, NobodyAssumption
   DEF Init, ShapeInv, TypeOK, Placed, CurrentLives, Alone, Owner, Steps, Answered

LEMMA NextType ==
  TypeOK /\ (\A r \in Requests : Placed(r)) /\ [Next]_vars
    => TypeOK' /\ (\A r \in Requests : Placed(r))'
<1> SUFFICES ASSUME TypeOK, \A r \in Requests : Placed(r), [Next]_vars
             PROVE  TypeOK' /\ (\A r \in Requests : Placed(r))'
  OBVIOUS
<1> DEFINE Goal == TypeOK' /\ (\A r \in Requests : Placed(r))'
<1> USE NAssumption, NobodyAssumption
<1> USE DEF TypeOK, Placed, Htb, Netem, Steps, Answered, Owner, Goto, kernel
<1>1. ASSUME NEW r \in Requests, Start(r) PROVE Goal
  BY <1>1 DEF Start
<1>2. ASSUME NEW r \in Requests, DelRoot(r) PROVE Goal
  BY <1>2 DEF DelRoot
<1>3. ASSUME NEW r \in Requests, AddRoot(r) PROVE Goal
  BY <1>3 DEF AddRoot
<1>4. ASSUME NEW r \in Requests, AddClass(r) PROVE Goal
  BY <1>4 DEF AddClass
<1>5. ASSUME NEW r \in Requests, AddLeaf(r) PROVE Goal
  BY <1>5 DEF AddLeaf, Advance
<1>6. ASSUME NEW r \in Requests, DelDelay(r) PROVE Goal
  <2>1. LastStep(r) \in {"ping", "ok"}
    BY DEF LastStep
  <2>2. dev[r] = N + 1 \/ dev[r] = N + 2
    BY <1>6 DEF DelDelay
  <2>3. CASE Goto(r, "undelay", "delay") /\ UNCHANGED dev /\ dev[r] \in Delayed[r]
    BY <1>6, <2>2, <2>3 DEF DelDelay
  <2>4. CASE dev[r] = N + 1 /\ dev[r] \notin Delayed[r] /\ NextDelay(r, "undelay")
    <3>1. dev' = [dev EXCEPT ![r] = N + 2] /\ at' = [at EXCEPT ![r] = "undelay"]
      BY <2>4 DEF NextDelay
    <3>2. TypeOK'
      BY <1>6, <3>1 DEF DelDelay
    <3>3. ASSUME NEW q \in Requests PROVE Placed(q)'
      BY <3>1
    <3> QED
      BY <3>2, <3>3
  <2>5. CASE dev[r] = N + 2 /\ dev[r] \notin Delayed[r] /\ NextDelay(r, "undelay")
    BY <1>6, <2>1, <2>5 DEF DelDelay, NextDelay
  <2> QED
    BY <1>6, <2>2, <2>3, <2>4, <2>5 DEF DelDelay
<1>7. ASSUME NEW r \in Requests, AddDelay(r) PROVE Goal
  BY <1>7 DEF AddDelay, NextDelay, LastStep
<1>8. ASSUME NEW r \in Requests, CommandFails(r) PROVE Goal
  BY <1>8 DEF CommandFails
<1>9. ASSUME NEW r \in Requests, Iperf(r) PROVE Goal
  BY <1>9 DEF Iperf, Measure
<1>10. ASSUME NEW r \in Requests, Record(r) PROVE Goal
  BY <1>10 DEF Record
<1>11. ASSUME NEW r \in Requests, Ping(r) PROVE Goal
  BY <1>11 DEF Ping, Measure
<1>12. ASSUME NEW r \in Requests, RecordPing(r) PROVE Goal
  BY <1>12 DEF RecordPing
<1>13. ASSUME NEW r \in Requests, Refuse(r) PROVE Goal
  BY <1>13 DEF Refuse
<1>14. CASE UNCHANGED vars
  BY <1>14 DEF vars
<1> QED
  BY <1>1, <1>2, <1>3, <1>4, <1>5, <1>6, <1>7, <1>8, <1>9, <1>10, <1>11,
     <1>12, <1>13, <1>14 DEF Next

\* A request that met no other one so far is Alone after every step: it is the
\* only one active, and a Start that meets another leaves no such request.
LEMMA NextAlone ==
  ShapeInv /\ [Next]_vars => \A q \in Requests : (solo = q => Alone(q))'
<1> SUFFICES ASSUME ShapeInv, [Next]_vars, NEW q \in Requests, solo' = q
             PROVE  Alone(q)'
  OBVIOUS
<1>t. TypeOK' /\ (\A r \in Requests : Placed(r))'
  BY NextType DEF ShapeInv
<1> USE <1>t, NAssumption, NobodyAssumption, DelayedAssumption
<1> USE DEF ShapeInv, TypeOK, Placed, Htb, Netem, Goto, kernel, Alone, Through
<1>1. ASSUME NEW r \in Requests, Start(r) PROVE Alone(q)'
  <2>1. q = r /\ Active = {}
    BY <1>1 DEF Start
  <2> QED
    BY <1>1, <2>1 DEF Start, Active, Answered
<1>2. ASSUME NEW r \in Requests, DelRoot(r) PROVE Alone(q)'
  BY <1>2 DEF DelRoot
<1>3. ASSUME NEW r \in Requests, AddRoot(r) PROVE Alone(q)'
  BY <1>3 DEF AddRoot
<1>4. ASSUME NEW r \in Requests, AddClass(r) PROVE Alone(q)'
  BY <1>4 DEF AddClass
<1>5. ASSUME NEW r \in Requests, AddLeaf(r) PROVE Alone(q)'
  BY <1>5 DEF AddLeaf, Advance
<1>6. ASSUME NEW r \in Requests, DelDelay(r) PROVE Alone(q)'
  <2>1. LastStep(r) \in {"ping", "ok"}
    BY DEF LastStep
  <2>2. dev[r] = N + 1 \/ dev[r] = N + 2
    BY <1>6 DEF DelDelay
  <2>3. CASE Goto(r, "undelay", "delay") /\ UNCHANGED dev /\ dev[r] \in Delayed[r]
    BY <1>6, <2>2, <2>3 DEF DelDelay
  <2>4. CASE dev[r] = N + 1 /\ dev[r] \notin Delayed[r] /\ NextDelay(r, "undelay")
    <3>1. dev' = [dev EXCEPT ![r] = N + 2] /\ at' = [at EXCEPT ![r] = "undelay"]
      BY <2>4 DEF NextDelay
    <3>2. solo = q /\ r = q
      BY <1>6 DEF DelDelay, Answered
    <3> QED
      BY <1>6, <2>4, <3>1, <3>2 DEF DelDelay
  <2>5. CASE dev[r] = N + 2 /\ dev[r] \notin Delayed[r] /\ NextDelay(r, "undelay")
    <3>1. dev' = dev /\ at' = [at EXCEPT ![r] = LastStep(r)]
      BY <2>5 DEF NextDelay
    <3>2. solo = q /\ r = q
      BY <1>6 DEF DelDelay, Answered
    <3> QED
      BY <1>6, <2>1, <2>5, <3>1, <3>2 DEF DelDelay
  <2> QED
    BY <1>6, <2>2, <2>3, <2>4, <2>5 DEF DelDelay
<1>7. ASSUME NEW r \in Requests, AddDelay(r) PROVE Alone(q)'
  <2>1. LastStep(r) \in {"ping", "ok"}
    BY DEF LastStep
  <2>2. dev[r] = N + 1 \/ dev[r] = N + 2
    BY <1>7 DEF AddDelay
  <2>3. CASE dev[r] = N + 1
    <3>1. dev' = [dev EXCEPT ![r] = N + 2] /\ at' = [at EXCEPT ![r] = "undelay"]
      BY <1>7, <2>3 DEF AddDelay, NextDelay
    <3>2. solo = q /\ r = q
      BY <1>7 DEF AddDelay, Answered
    <3> QED
      BY <1>7, <2>3, <3>1, <3>2 DEF AddDelay
  <2>4. CASE dev[r] = N + 2
    BY <1>7, <2>1, <2>4 DEF AddDelay, NextDelay
  <2> QED
    BY <2>2, <2>3, <2>4
<1>8. ASSUME NEW r \in Requests, CommandFails(r) PROVE Alone(q)'
  BY <1>8 DEF CommandFails
<1>9. ASSUME NEW r \in Requests, Iperf(r) PROVE Alone(q)'
  BY <1>9 DEF Iperf, Measure
<1>10. ASSUME NEW r \in Requests, Record(r) PROVE Alone(q)'
  BY <1>10 DEF Record
<1>11. ASSUME NEW r \in Requests, Ping(r) PROVE Alone(q)'
  <2>1. CASE r = q
    <3>1. at[q] = "ping" /\ dev[q] = N + 2
      BY <1>11, <2>1 DEF Ping, Measure
    <3>2. at' = [at EXCEPT ![q] = "ok"] \/ at' = [at EXCEPT ![q] = "recordPing"]
      BY <1>11, <2>1 DEF Ping, Measure
    <3>3. UNCHANGED <<dev, kernel, current, solo>>
      BY <1>11 DEF Ping, Measure
    <3> QED
      BY <2>1, <3>1, <3>2, <3>3
  <2>2. CASE r # q
    BY <1>11, <2>2 DEF Ping, Measure
  <2> QED
    BY <2>1, <2>2
<1>12. ASSUME NEW r \in Requests, RecordPing(r) PROVE Alone(q)'
  BY <1>12 DEF RecordPing
<1>13. ASSUME NEW r \in Requests, Refuse(r) PROVE Alone(q)'
  BY <1>13 DEF Refuse
<1>14. CASE UNCHANGED vars
  BY <1>14 DEF vars
<1> QED
  BY <1>1, <1>2, <1>3, <1>4, <1>5, <1>6, <1>7, <1>8, <1>9, <1>10, <1>11,
     <1>12, <1>13, <1>14 DEF Next

LEMMA NextCurrent == ShapeInv /\ [Next]_vars => CurrentLives'
<1> USE NobodyAssumption
    DEF ShapeInv, TypeOK, CurrentLives, Goto
<1>1. ASSUME ShapeInv, UNCHANGED vars PROVE CurrentLives'
  BY <1>1 DEF vars
<1>2. ASSUME ShapeInv, NEW r \in Requests, Start(r) \/ Refuse(r) PROVE CurrentLives'
  BY <1>2 DEF Start, Refuse
<1>3. ASSUME ShapeInv, NEW r \in Requests,
             DelRoot(r) \/ AddRoot(r) \/ AddClass(r) \/ AddLeaf(r)
               \/ DelDelay(r) \/ AddDelay(r)
      PROVE  CurrentLives'
  BY <1>3 DEF DelRoot, AddRoot, AddClass, AddLeaf, Advance, DelDelay, AddDelay,
              NextDelay, LastStep
<1>4. ASSUME ShapeInv, NEW r \in Requests,
             CommandFails(r) \/ Iperf(r) \/ Record(r) \/ Ping(r) \/ RecordPing(r)
      PROVE  CurrentLives'
  BY <1>4 DEF CommandFails, Iperf, Record, Ping, RecordPing, Measure
<1> QED
  BY <1>1, <1>2, <1>3, <1>4 DEF Next

-----------------------------------------------------------------------------
\* The inductive invariant holds of every reachable state.
THEOREM ShapeInvariance == Spec => []ShapeInv
<1>1. ShapeInv /\ [Next]_vars => ShapeInv'
  BY NextType, NextAlone, NextCurrent DEF ShapeInv
<1> QED
  BY <1>1, InitInv, PTL DEF Spec

\* Type correctness.
THEOREM TypeCorrect == Spec => []TypeOK
<1>1. ShapeInv => TypeOK
  BY DEF ShapeInv
<1> QED
  BY <1>1, ShapeInvariance, PTL

\* A request that met no other one and answered 200 left exactly its own
\* bottleneck, on every interface and in GET /state.
THEOREM SoloShapesExactly == Spec => []SoloShapes
<1>1. ShapeInv => SoloShapes
  BY NAssumption DEF ShapeInv, TypeOK, Alone, Placed, Through, SoloShapes,
     Applied, RatesOf, DelaysOf, Htb, Netem
<1> QED
  BY <1>1, ShapeInvariance, PTL

\* One that failed left no state behind.
THEOREM SoloFailuresClear == Spec => []SoloFailureClears
<1>1. ShapeInv => SoloFailureClears
  BY DEF ShapeInv, Alone, SoloFailureClears
<1> QED
  BY <1>1, ShapeInvariance, PTL

\* However requests interleave, a refused one is never shown.
THEOREM RefusedNeverShown == Spec => []NeverARefusedState
<1>1. ShapeInv => NeverARefusedState
  BY DEF ShapeInv, CurrentLives, NeverARefusedState
<1> QED
  BY <1>1, ShapeInvariance, PTL
=============================================================================
