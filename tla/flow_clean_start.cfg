CONSTANTS
  Stacks = {k1}
  Requests = {r1, r2}
  Null = Null
  MaxEdits = 1
  MaxUpdates = 1
SPECIFICATION Spec
INVARIANT CleanStart
CHECK_DEADLOCK FALSE
