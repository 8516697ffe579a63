SPECIFICATION Spec
CONSTANTS
  rec1 = rec1
  rec2 = rec2
  Nothing = Nothing
  Ids <- TwoRecords
  MaxVersion = 3
  MaxCalls = 2
  AtOnce = FALSE
  MayFail = TRUE
  Others = TRUE
SYMMETRY Interchangeable
INVARIANTS
  TypeOK
  NothingMissing
  SentIsCovered
  ModelsAreCurrent
CHECK_DEADLOCK FALSE
