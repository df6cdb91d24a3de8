CONSTANTS
  Templates = {t1, t2, t3}
  Existing = {t1, t2}
  Nobody = Nobody
  MaxGestures = 3
  MaxOverlap = 2
  MaxFailures = 1
SPECIFICATION Spec
INVARIANTS TypeOK FormAtRestIsWhole CalmSavesAreOwn DialogMatchesForm DisabledMeansWaiting
PROPERTIES InputsComeBack
CHECK_DEADLOCK FALSE
