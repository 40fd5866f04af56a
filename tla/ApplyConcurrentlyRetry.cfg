SPECIFICATION Spec
CONSTANTS
  N = 1
  Faults = TRUE
INVARIANT ConflictRetried
