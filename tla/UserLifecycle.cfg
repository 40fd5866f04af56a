SPECIFICATION FairSpec
CONSTANTS
  Scenarios <- MCScenarios
  Faults <- MCFaults
CHECK_DEADLOCK FALSE
INVARIANTS VerifiedMeansProvisioned DismissedMeansGone NoFalseAlarm StatesToldApart
PROPERTIES UpdateLosesNothing TestEnds
