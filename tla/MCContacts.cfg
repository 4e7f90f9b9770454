SPECIFICATION Spec
CONSTANTS
  p1 = p1
  p2 = p2
  m1 = m1
  m2 = m2
  full = full
  twice = twice
  throws = throws
  off = off
  broken = broken
  unlisted = unlisted
  oddname = oddname
  oddkey = oddkey
  NoFile = NoFile
  Ptrs = {p1, p2}
  Names = {m1, m2}
  NoName = NoName
  Files = {full}
  BadFiles = {}
  UnlistedFiles = {}
  OddFiles = {}
  PluginsOf <- MCPlugins
  BodyNames = {base, guard}
  Excluded = {guard}
  SensorBody = base
  Layers = {ground}
  NoLoad = NoLoad
  MaxContacts = 2
SYMMETRY Symmetry
INVARIANTS
  BumperTracksContacts
  BumperForcesAreCurrent
  BoolSensorCounts
PROPERTIES
  BoolSensorLatches
