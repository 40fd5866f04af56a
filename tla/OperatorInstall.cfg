SPECIFICATION FairSpec
CONSTANTS
  Templates = 2
  Versions = 3
INVARIANT InstalledMeansSucceeded
PROPERTIES InstallEnds InstallSucceeds
