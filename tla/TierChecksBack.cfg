SPECIFICATION Spec
CONSTANTS
  Journeys <- BackJourneys
  MaxFaults = 0
CHECK_DEADLOCK FALSE
PROPERTY NoFalseAlarm
