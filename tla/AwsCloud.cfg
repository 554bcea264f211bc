SPECIFICATION CloudSpec
CONSTANTS
  t1 = t1
  t2 = t2
  cli = cli
  Threads = {t1, t2}
  Tools = {cli}
  MaxWorkers = 1
  MaxTools = 2
  MaxFails = 1
SYMMETRY MCSymmetry
INVARIANTS
  NoOrphans
  LaunchedWhole
  SetupSuffices
CHECK_DEADLOCK FALSE
