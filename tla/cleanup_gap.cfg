SPECIFICATION Spec
CONSTANTS
  Batches = {b1}
  MaxScriptlets = 2
  Faults = {"exception"}
  MaxCrashes = 1
INVARIANT
  CleanUpLeavesNothingHung
CHECK_DEADLOCK FALSE
