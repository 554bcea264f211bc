--------------------------- MODULE MCNetgentJobs ---------------------------
(***************************************************************************)
(* NetgentJobs for TLC: one workflow with its generate job, and execute    *)
(* jobs of it that overlap it and each other.                              *)
(***************************************************************************)
EXTENDS NetgentJobs

CONSTANT w1

OnlyWorkflow == [e \in Executions |-> w1]
=============================================================================
