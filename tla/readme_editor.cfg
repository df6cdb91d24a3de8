SPECIFICATION Spec
CONSTANTS
  Empty = empty
  Texts = {empty, a, b}
  Absent = absent
  MaxGestures = 5
  MaxOpens = 2
  MaxPosts = 2
INVARIANTS
  TypeOK
  PreviewIsCurrent
  FullscreenIsUndone
  SavesAreAskedFor
  NothingOverwrittenUnseen
CHECK_DEADLOCK FALSE
