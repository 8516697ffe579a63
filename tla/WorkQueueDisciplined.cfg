SPECIFICATION FairSpec
CONSTANTS
  r1 = r1
  w1 = w1
  w2 = w2
  w3 = w3
  None = None
  Calls <- OneAndThree
  Writers <- WritersOfThree
  Detect = TRUE
  Disciplined = TRUE
INVARIANTS
  TypeOK
  OneItemAtATime
  TurnIsolation
  NoSelfWait
  BacklogIsWatched
PROPERTIES
  RejectedNeverRuns
  EveryCallSettles
  ImplementsSerialQueue
CHECK_DEADLOCK FALSE
