SPECIFICATION Spec
CONSTANTS
  Journeys <- ShareJourneys
  MaxFaults = 0
CHECK_DEADLOCK FALSE
PROPERTY NoAlarmAtAll
