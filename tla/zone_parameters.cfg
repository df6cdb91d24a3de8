CONSTANTS
  Names = {n1}
  Values = {v1, v2}
  Batches = {b1, b2}
  Editors = {e1}
  Clients = {c1}
SPECIFICATION Spec
INVARIANT ZoneInv
PROPERTIES BatchesRespectTheRows FormsRemoveOnlyWhatTheyShowed
CHECK_DEADLOCK FALSE
SYMMETRY Symmetry
