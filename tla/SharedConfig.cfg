SPECIFICATION FairSpec
CONSTANTS
  Specs <- MCSpecs
  Options <- MCOptions
  Blank <- MCBlank
  Absent = Absent
  MaxTests = 3
  MaxUpdates = 3
  MaxLost = 1
CHECK_DEADLOCK FALSE
INVARIANTS ConfigInEffect ConfigThere
PROPERTIES VerifiedMeansSynced TestsEnd
