SPECIFICATION Spec
CONSTANTS
  Requests = {r1, r2, r3}
  N = 2
  Nobody = nobody
  Delayed <- FirstOnly
  Verifying = {r1, r2, r3}
SYMMETRY Symmetry
INVARIANTS
  SoloShapes
  NeverARefusedState
CHECK_DEADLOCK FALSE
