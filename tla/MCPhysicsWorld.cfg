SPECIFICATION Spec
CONSTANTS
  layer = layer
  robot = robot
  crate = crate
  w1 = w1
  w2 = w2
  hull = hull
  box = box
  Bodies = {layer, robot, crate}
  Fixtures = {w1, w2, hull, box}
  Static = {layer}
  BodyOf <- MCBodyOf
  Lo <- MCLo
  Hi <- MCHi
  IsSensor = {}
  Places <- MCPlaces
  Poses <- MCPoses
  Velocities <- MCVelocities
  MaxSubSteps = 1
  MaxCalls = 2
  MaxSteps = 2
  TimeToSleep = 1
  InitialCapacity = 2
  Extension = 0
  Multiplier = 1
INVARIANTS
  TypeOK
  TreeValid
  SearchesComplete
  NoPairMissed
  AwakeContactsCurrent
PROPERTIES
  NoTunnelling
  SleepersKeepTheirContacts
