SPECIFICATION FairSpec
CONSTANTS
  N = 3
  MaxParallel = 2
  Addrs = {a1, a2}
  StaticAddr = static
INVARIANTS
  TypeOK
  OwnShape
  WorkerThere
PROPERTIES
  ImplementsContract
  Concludes
CHECK_DEADLOCK FALSE
