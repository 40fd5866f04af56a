SPECIFICATION Spec
CONSTANTS
  w1 = w1
  w2 = w2
  Main = main
  Gatherer = gatherer
  Worker <- TwoWorkers
  MayFail <- TwoWorkers
  DiskFails = FALSE
  MaxDepth = 1
INVARIANT MetricsDumped
