SPECIFICATION Spec
CONSTANTS
  N = 3
  Faults = TRUE
INVARIANT AllApplied
PROPERTIES SharesWork Returns
