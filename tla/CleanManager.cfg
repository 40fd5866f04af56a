SPECIFICATION FairSpec
CONSTANTS
  ta = ta
  tb = tb
  k1 = k1
  k2 = k2
  k3 = k3
  Nobody = nobody
  Test <- MCTest
  Task <- MCTask
  Owner <- MCOwner
  MayFail = TRUE
INVARIANTS PassedMeansClean TasksUnderLock
PROPERTY TestsEnd
