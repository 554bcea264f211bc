-------------------------- MODULE DispatchContract --------------------------
(***************************************************************************)
(* What OrchestrationManager.run promises its caller: the specs are taken  *)
(* in order, at most Slots at a time, each ends exactly once in a verdict, *)
(* and the summary is drawn from the verdicts of all of them.              *)
(***************************************************************************)
EXTENDS Naturals, FiniteSets

CONSTANTS
  N,           \* how many experiment specs the generator returned
  MaxParallel  \* max_parallel_workers

Specs == 1..N

\* run: parallel mode needs more than one worker and more than one spec.
Slots == IF MaxParallel > 1 /\ N > 1 THEN MaxParallel ELSE 1

VARIABLES state, summary

contractVars == <<state, summary>>

Active == {s \in Specs : state[s] = "active"}

\* run: an empty list of specs is a failure of its own.
SummaryOf(good) ==
  IF good = {} THEN "failed" ELSE IF good = Specs THEN "complete" ELSE "partial"

ContractInit ==
  /\ state = [s \in Specs |-> "queued"]
  /\ summary = "none"

Take(s) ==
  /\ state[s] = "queued"
  /\ \A t \in Specs : t < s => state[t] # "queued"
  /\ Cardinality(Active) < Slots
  /\ state' = [state EXCEPT ![s] = "active"]
  /\ UNCHANGED summary

End(s) ==
  /\ state[s] = "active"
  /\ \E verdict \in {"success", "failed"} :
       state' = [state EXCEPT ![s] = verdict]
  /\ UNCHANGED summary

Conclude ==
  /\ summary = "none"
  /\ \A s \in Specs : state[s] \in {"success", "failed"}
  /\ summary' = SummaryOf({s \in Specs : state[s] = "success"})
  /\ UNCHANGED state

ContractNext == Conclude \/ \E s \in Specs : Take(s) \/ End(s)

ContractSpec == ContractInit /\ [][ContractNext]_contractVars
=============================================================================
