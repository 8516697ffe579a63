SPECIFICATION Spec
CONSTANTS
  a = a
  b = b
  title = title
  body = body
  first = first
  second = second
  Nothing = Nothing
  Ids <- OneRecord
  Columns <- OneColumn
  Drafts <- AllOfOne
  Syncs <- TwoSyncs
  MaxEdits = 3
  MaxFaults = 0
INVARIANT
  Current
CHECK_DEADLOCK FALSE
