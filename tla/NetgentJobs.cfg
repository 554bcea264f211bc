SPECIFICATION FairJobSpec
CONSTANTS
  w1 = w1
  Workflows = {w1}
  Executions = {e1, e2}
  WorkflowOf <- OnlyWorkflow
  Concurrency = 2
INVARIANTS
  JobTypeOK
  CompletedHasArtifacts
  RunningHasWorker
  RunsADefinition
PROPERTIES
  FinalUnlessDeferFailed
  JobsSettle
CHECK_DEADLOCK FALSE
