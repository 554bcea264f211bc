CONSTANTS
  Managers = {"m"}
  Tools = {"t"}
  Plan <- MCPlan
  PatchRoutes = {TRUE, FALSE}
  MaxFails = 2
SPECIFICATION LifecycleSpec
INVARIANT RecordKeepsUp
PROPERTY RunsAll
CHECK_DEADLOCK FALSE
