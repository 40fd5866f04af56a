SPECIFICATION Spec
CONSTANTS
  Journeys <- MCJourneys
  MaxFaults = 0
CHECK_DEADLOCK FALSE
PROPERTY StatusAwaited
