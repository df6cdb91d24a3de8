SPECIFICATION QueueSpec
CONSTANTS
  Batches = {b1}
  MaxScriptlets = 2
  MaxRequests = 2
INVARIANTS
  RecordsCoherent
  QueueIsNeverAhead
PROPERTY
  QueueCatchesUp
CHECK_DEADLOCK FALSE
