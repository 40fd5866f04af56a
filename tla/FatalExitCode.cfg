SPECIFICATION Spec
CONSTANTS
  w1 = w1
  w2 = w2
  Main = main
  Gatherer = gatherer
  Worker <- OneWorker
  MayFail <- OneWorker
  DiskFails = TRUE
  MaxDepth = 2
INVARIANT FatalExitsWithOne
