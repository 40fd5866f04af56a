SPECIFICATION FairSpec
CONSTANTS
  Scenarios <- VerificationScenarios
  Faults = {"none"}
CHECK_DEADLOCK FALSE
INVARIANT VerificationSet
