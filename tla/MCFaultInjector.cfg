SPECIFICATION Spec
CONSTANTS
  Faults <- MCFaults
  UserNames <- MCUserNames
  BaseNames = {"crate"}
  MaxTime = 6
INVARIANTS
  TypeOK
  EffectsOfActiveFaults
  SpillsOfActiveFaults
  ObstacleRemoved
  EndedStaysEnded
  ManifestCurrent
PROPERTIES
  ImplementsLifecycle
