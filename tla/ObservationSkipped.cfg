SPECIFICATION Spec
CONSTANTS
  Records = {r1}
  q1 = q1
  q2 = q2
  Queries <- TwoQueries
  Consumers = {c1, c2}
  None = None
  Kindings <- TwoKinds
  OnceAllowed = TRUE
  MaxBatches = 1
  MaxSubscriptions = 2
  MaxFaults = 0
INVARIANTS ConsumersAreCurrent
SYMMETRY Symmetric
CHECK_DEADLOCK FALSE
