SPECIFICATION Spec
CONSTANTS
  Templates = 1
  Versions = 2
PROPERTIES NoUpgradePending
