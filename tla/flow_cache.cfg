CONSTANTS
  Stacks = {k1, k2}
  Requests = {r1, r2}
  Null = Null
  MaxEdits = 1
  MaxUpdates = 1
SPECIFICATION Spec
INVARIANTS FlowInv LookupsAnswer LoneDevLookupsAreFresh
PROPERTIES FlowsNeverAge OnlyOldLookupsSpoil
CHECK_DEADLOCK FALSE
SYMMETRY Symmetry
