SPECIFICATION Spec
CONSTANTS
  rec1 = rec1
  rec2 = rec2
  None = None
  Ids <- TwoRecords
  Batches <- SomeBatches
  Jsons <- SomeJsons
  kBaseCapacity = 3
  kPerTableCapacity = 1
  kMaxCapacity = 4
  MaxTables = 2
  MaxCalls = 3
  MaxFaults = 1
INVARIANTS
  TypeOK
  HeldIsPrepared
  CacheOwnsStatements
  NoTransactionLeftOpen
  MarkedIsKnown
PROPERTIES
  AllOrNothing
  CallsReturn
CHECK_DEADLOCK FALSE
