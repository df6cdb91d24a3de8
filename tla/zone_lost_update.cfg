CONSTANTS
  Names = {n1}
  Values = {v1, v2}
  Batches = {b1}
  Editors = {e1, e2}
  Clients = {}
SPECIFICATION Spec
PROPERTY FormsChangeOnlyWhatTheyShowed
CHECK_DEADLOCK FALSE
