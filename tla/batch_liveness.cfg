\* Two workers under weak fairness, any hook throwing an Exception or an Error,
\* one crash.
SPECIFICATION FairSpec
CONSTANTS
  Batches = {b1, b2}
  MaxScriptlets = 1
  Faults = {"exception", "error"}
  MaxCrashes = 1
PROPERTIES
  WorkerEnds
  BatchSettles
CHECK_DEADLOCK FALSE
