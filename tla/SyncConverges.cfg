SPECIFICATION FairSpec
CONSTANTS
  a = a
  b = b
  title = title
  body = body
  first = first
  second = second
  Nothing = Nothing
  Ids <- OneRecord
  Columns <- TwoColumns
  Drafts <- SomeOrAll
  Syncs <- OneSync
  MaxEdits = 3
  MaxFaults = 2
PROPERTY
  Converges
CHECK_DEADLOCK FALSE
