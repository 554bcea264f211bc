SPECIFICATION FairSpec
INVARIANTS
  TypeOK
  ArtifactsAreFinal
  QuietOnReturn
  CleanSuccessHasPcap
PROPERTIES
  NoStartAfterCleanup
  Returns
CHECK_DEADLOCK FALSE
