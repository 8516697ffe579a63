SPECIFICATION Spec
CONSTANTS
  rec1 = rec1
  rec2 = rec2
  Nothing = Nothing
  Ids <- TwoRecords
  MaxVersion = 2
  MaxCalls = 2
  AtOnce = TRUE
  MayFail = FALSE
  Others = FALSE
SYMMETRY Interchangeable
INVARIANT
  NothingMissing
CHECK_DEADLOCK FALSE
