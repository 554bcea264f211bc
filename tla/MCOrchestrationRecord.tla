------------------------ MODULE MCOrchestrationRecord ------------------------
(***************************************************************************)
(* OrchestrationRecord for TLC.  One orchestration makes at most eight     *)
(* saves: no bound is needed, every late save is explored at every point.  *)
(***************************************************************************)
EXTENDS OrchestrationRecord
=============================================================================
