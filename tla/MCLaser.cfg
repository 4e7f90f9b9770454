SPECIFICATION LaserSpec
CONSTANTS
  Cap = 2
  Delays = {0, 1, 3}
  MaxTime = 3
  Workers = {1, 2}
  RayCounts = {2, 5}
  ClusterSize = 2
  range_ = 3
  LastScanExpansion = 2
  Scenes <- MCScenes
  Period = 1
  NAN = NAN
INVARIANTS
  FifoDelivery
  BoundedQueue
  EarlyOnlyWhenFull
  NothingOverdue
  ScanExact
  NoTaskOutlivesScan
PROPERTIES
  ScanEnds
