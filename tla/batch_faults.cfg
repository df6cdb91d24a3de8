\* One batch of up to three scriptlets, any hook throwing an Exception or an
\* Error, two crashes.  The server idles once the batch is worked off.
SPECIFICATION Spec
CONSTANTS
  Batches = {b1}
  MaxScriptlets = 3
  Faults = {"exception", "error"}
  MaxCrashes = 2
INVARIANTS
  TypeOK
  ExecutionInv
  NothingLeftPending
  FailureCheckIsRedundant
  OnlyTheTopRuns
  LeaksAtMostOneAppender
  LostBatchesAreCleanedUp
PROPERTIES
  ImplementsRecord
  ProgressNeverFalls
  WorkersAdvance
CHECK_DEADLOCK FALSE
