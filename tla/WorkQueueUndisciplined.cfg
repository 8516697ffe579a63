SPECIFICATION FairSpec
CONSTANTS
  r1 = r1
  w1 = w1
  w2 = w2
  w3 = w3
  None = None
  Calls <- OneAndTwo
  Writers <- WritersOfTwo
  Detect = FALSE
  Disciplined = FALSE
INVARIANTS
  OneItemAtATime
  BacklogIsWatched
PROPERTIES
  StuckItemIsReported
CHECK_DEADLOCK FALSE
