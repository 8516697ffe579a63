SPECIFICATION Spec
CONSTANTS
  a = a
  b = b
  title = title
  body = body
  first = first
  second = second
  Nothing = Nothing
  Ids <- TwoRecords
  Columns <- TwoColumns
  Drafts <- OneOrAll
  Syncs <- OneSync
  MaxEdits = 3
  MaxFaults = 1
SYMMETRY Interchangeable
INVARIANTS
  TypeOK
  EditsKept
  DeletionsKept
  Current
CHECK_DEADLOCK FALSE
