SPECIFICATION Spec
CONSTANTS
  Records = {r1, r2}
  q1 = q1
  q2 = q2
  Queries <- OneQuery
  Consumers = {c1, c2}
  None = None
  Kindings <- EachKind
  OnceAllowed = FALSE
  MaxBatches = 2
  MaxSubscriptions = 3
  MaxFaults = 1
INVARIANTS TypeOK ConsumersAreCurrent NoEntryLeaks NoEmissionAfterEnd
SYMMETRY Symmetric
CHECK_DEADLOCK FALSE
