SPECIFICATION FairSpec
INVARIANTS
  TypeOK
  CompleteIsTrue
  EndedRecordIsRight
PROPERTIES
  GoesBackOnlyLate
  Settles
CHECK_DEADLOCK FALSE
