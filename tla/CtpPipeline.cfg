SPECIFICATION Spec
CONSTANTS
  AddrBits = 2
  TopPrefix = 1
  Internal = {0, 1, 2}
  WindowLen = 7
  BinLen = 2
  MaxWriters = 1
  BatchSize = 1
  Inputs <- MCInputs
  Thresholds = {2}
  TrimBins = {1, 2}
  MaxFailures = 1
  MaxMerges = 2
  StartLimit = 1
  FrameLen = 2
INVARIANTS
  RowsAddUp
  DescriptorsAgree
  TrimKeepsTheRate
  SelectedUserIsUntrimmed
  MergeTakesAll
  FramesInPlace
CHECK_DEADLOCK FALSE
