SPECIFICATION Spec
CONSTANTS
  c1 = c1
  c2 = c2
  u1 = u1
  u2 = u2
  Calls = {c1, c2}
  Users = {u1, u2}
  Windows = 2
  Silent <- MCSilent
  MaxCalls = 2
  MaxFails = 3
SYMMETRY MCSymmetry
INVARIANTS
  StoredInOrder
  RowDescribesFiles
  CopyIsTheRow
  ReplayFilesOrdered
CHECK_DEADLOCK FALSE
