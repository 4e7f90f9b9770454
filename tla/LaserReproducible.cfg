SPECIFICATION LaserSpec
CONSTANTS
  Cap = 1
  Delays = {0}
  MaxTime = 2
  Workers = {1, 2}
  RayCounts = {2, 5}
  ClusterSize = 2
  range_ = 3
  LastScanExpansion = 2
  Scenes <- MCScenes
  Period = 4
  NAN = NAN
INVARIANTS
  NoiseOfSeed
