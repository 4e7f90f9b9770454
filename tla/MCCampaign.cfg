SPECIFICATION Spec
CONSTANTS
  g1 = g1
  g2 = g2
  Genomes = {g1, g2}
  Duration = 1
  WallTimeout = 0
  Grace = 1
  Prompt = FALSE
  MaxClock = 2
  Scores = {40, 98}
  Dirs <- MCDirs
  Generations = 2
  PerGeneration = 1
  Replays = 1
  MaxGenerations = 2
  MaxCrashes = 1
  Window = 2
  Enough = 1
  RefitEvery = 2
  MinSamples = 2
  SolveThreshold = 50
  UnsolvableStress = 97
  FailThreshold = 60
  MaxDifficulty = 2
CHECK_DEADLOCK FALSE
INVARIANTS
  TypeOK
  ResultsAgree
  LedgerReplayable
  MemoryIsOfLedger
PROPERTY
  OuterLoopNeverHangs
