SPECIFICATION FairSpec
CONSTANTS
  Journeys <- MCJourneys
  MaxFaults = 1
CHECK_DEADLOCK FALSE
INVARIANTS VerifiedMeansExact CountsAgree BindingsResolve
PROPERTIES NoFalseAlarm NoChangeUnderChecks VerificationEnds
