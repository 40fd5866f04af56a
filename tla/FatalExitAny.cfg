SPECIFICATION FairSpec
CONSTANTS
  w1 = w1
  w2 = w2
  Main = main
  Gatherer = gatherer
  Worker <- OneWorker
  MayFail <- OneAndMetrics
  DiskFails = TRUE
  MaxDepth = 1
INVARIANTS MetricsDumpedAlone OneTable ResultsVisible
PROPERTY FatalEnds
